------------------------------ MODULE FenceProofs ------------------------------
(***************************************************************************)
(* Proofs about fences.  The engine keeps its types and implements the     *)
(* abstract stay for any vessels, fences, thresholds, gates and reports,   *)
(* with fences retired and activated at will; a DWELL says of the track of *)
(* a vessel what it should, while the fences stay what they are.  And the  *)
(* registry: the versions of a geofence are a line, and seeding keeps what *)
(* is there, for every number of requests and versions.                    *)
(***************************************************************************)
EXTENDS FenceTrack, FenceRegistry, TLAPS

(* The memory of a pair keeps its type through one report. *)
LEMMA FoldType ==
  ASSUME NEW st \in FenceStates, NEW inside \in BOOLEAN, NEW speed \in Int, NEW at \in Nat,
         NEW threshold \in Nat, NEW gate \in Nat
  PROVE  Fold(st, inside, speed, at, threshold, gate) \in FenceStates
<1>1. Cross(st, inside, at) \in FenceStates
  BY Zenon DEF Cross, FenceStates
<1>2. SlowSince(Cross(st, inside, at), at) \in Nat
  BY <1>1, Zenon DEF SlowSince, FenceStates
<1>3. Dwells(st, inside, speed, at, threshold, gate) \in BOOLEAN
  BY Zenon DEF Dwells, Counts
<1> QED
  BY <1>1, <1>2, <1>3, Zenon DEF Fold, FenceStates

(* One report emits only fence events. *)
LEMMA EmitsType ==
  ASSUME NEW st, NEW inside, NEW speed, NEW at, NEW threshold, NEW gate
  PROVE  Emits(st, inside, speed, at, threshold, gate) \in SUBSET EventTypes
BY Zenon DEF Emits, EventTypes

(***************************************************************************)
(* The heart of the engine: one report takes the pair through one step of  *)
(* a stay, and emits exactly the event of that step.  An entry and a DWELL *)
(* never coincide because the slow stretch starts at the entry and the     *)
(* threshold is positive.                                                  *)
(***************************************************************************)
LEMMA FoldIsStay ==
  ASSUME NEW st \in FenceStates, NEW inside \in BOOLEAN, NEW speed \in Int, NEW at \in Nat,
         NEW threshold \in Nat, NEW gate \in Nat
  PROVE  Stays!Stay(PhaseOf(st), PhaseOf(Fold(st, inside, speed, at, threshold, gate)),
                    Emits(st, inside, speed, at, threshold, gate))
<1> DEFINE new == Fold(st, inside, speed, at, threshold, gate)
           dwells == Dwells(st, inside, speed, at, threshold, gate)
           crossed == Cross(st, inside, at)
<1>1. CASE inside /\ ~st.inside
  <2>1. crossed = [inside |-> TRUE, enteredAt |-> at, dwellEmitted |-> FALSE, slowSince |-> 0]
    BY <1>1, Zenon DEF Cross
  <2>2. SlowSince(crossed, at) = at
    BY <2>1 DEF SlowSince
  <2>3. ~dwells
    BY <2>2 DEF Dwells, Counts
  <2>4. new.inside /\ ~new.dwellEmitted
    BY <2>1, <2>3 DEF Fold
  <2>5. Emits(st, inside, speed, at, threshold, gate) = {"ENTER"}
    BY <1>1, <2>3, Zenon DEF Emits
  <2> QED
    BY <1>1, <2>4, <2>5, Zenon DEF PhaseOf, Stays!Stay
<1>2. CASE ~inside /\ st.inside
  <2>1. crossed = [st EXCEPT !.inside = FALSE, !.slowSince = 0]
    BY <1>2, Zenon DEF Cross
  <2>2. ~dwells /\ ~Counts(crossed, inside, speed, threshold, gate)
    BY <1>2, Zenon DEF Dwells, Counts
  <2>3. ~new.inside
    BY <1>2, <2>1, <2>2, Zenon DEF Fold, FenceStates
  <2>4. Emits(st, inside, speed, at, threshold, gate) = {"EXIT"}
    BY <1>2, <2>2, Zenon DEF Emits
  <2> QED
    BY <1>2, <2>3, <2>4, Zenon DEF PhaseOf, Stays!Stay
<1>3. CASE inside = st.inside
  <2>1. crossed = st
    BY <1>3, Zenon DEF Cross
  <2>2. CASE dwells
    <3>1. inside /\ ~st.dwellEmitted /\ Counts(crossed, inside, speed, threshold, gate)
      BY <2>1, <2>2, Zenon DEF Dwells, Counts
    <3>2. new.inside /\ new.dwellEmitted
      BY <1>3, <2>1, <2>2, <3>1, Zenon DEF Fold, FenceStates
    <3>3. Emits(st, inside, speed, at, threshold, gate) = {"DWELL"}
      BY <1>3, <2>2, Zenon DEF Emits
    <3> QED
      BY <1>3, <3>1, <3>2, <3>3, Zenon DEF PhaseOf, Stays!Stay
  <2>3. CASE ~dwells
    <3>1. new.inside = st.inside /\ new.dwellEmitted = st.dwellEmitted
      <4>1. CASE Counts(crossed, inside, speed, threshold, gate)
        <5>1. st.dwellEmitted = FALSE
          BY <2>1, <4>1, Zenon DEF Counts, FenceStates
        <5>2. Dwells(st, inside, speed, at, threshold, gate) = FALSE
          BY <2>3, Zenon DEF Dwells, Counts
        <5>3. new = [st EXCEPT !.slowSince = SlowSince(crossed, at), !.dwellEmitted = FALSE]
          BY <2>1, <4>1, <5>2, Zenon DEF Fold
        <5> QED
          BY <5>1, <5>3, Zenon DEF FenceStates
      <4>2. CASE ~Counts(crossed, inside, speed, threshold, gate)
        BY <2>1, <4>2, Zenon DEF Fold, FenceStates
      <4> QED
        BY <4>1, <4>2, Zenon
    <3>2. Emits(st, inside, speed, at, threshold, gate) = {}
      BY <1>3, <2>3, Zenon DEF Emits
    <3> QED
      BY <3>1, <3>2, Zenon DEF PhaseOf, Stays!Stay
  <2> QED
    BY <2>2, <2>3, Zenon
<1> QED
  BY <1>1, <1>2, <1>3, Zenon DEF FenceStates

(* What Observe does to one pair of the reporting vessel and a fence. *)
LEMMA ObservedPair ==
  ASSUME TypeOK, NEW v \in Vessels, NEW at \in Times, NEW inside \in SUBSET Fences,
         NEW speed \in Speeds, NEW active \in ActiveSets, Observe(v, inside, speed, at, active),
         NEW f \in Fences
  PROVE  /\ state'[v][f] \in FenceStates
         /\ out'[f] \in SUBSET EventTypes
         /\ Stays!Stay(PhaseOf(state[v][f]), PhaseOf(state'[v][f]), out'[f])
<1> DEFINE new == Fold(state[v][f], f \in inside, speed, at, Threshold[f], Gate[f])
           events == Emits(state[v][f], f \in inside, speed, at, Threshold[f], Gate[f])
<1>1. at \in Nat /\ speed \in Int /\ (f \in inside) \in BOOLEAN
  BY FenceAssumption DEF Observe
<1>2. state[v][f] \in FenceStates /\ Threshold[f] \in Nat /\ Gate[f] \in Nat
  BY FenceAssumption, Zenon DEF TypeOK
<1>3. CASE f \in active
  <2>1. state'[v][f] = new /\ out'[f] = events
    BY <1>3, Zenon DEF Observe, TypeOK
  <2>2. new \in FenceStates
    BY <1>1, <1>2, FoldType, Zenon
  <2>3. events \in SUBSET EventTypes
    BY EmitsType, Zenon
  <2>4. Stays!Stay(PhaseOf(state[v][f]), PhaseOf(new), events)
    BY <1>1, <1>2, FoldIsStay, Zenon
  <2> QED
    BY <2>1, <2>2, <2>3, <2>4, Zenon
<1>4. CASE f \notin active
  <2>1. state'[v][f] = state[v][f] /\ out'[f] = {}
    BY <1>4, Zenon DEF Observe, TypeOK
  <2> QED
    BY <1>2, <2>1, Zenon DEF Stays!Stay
<1> QED
  BY <1>3, <1>4, Zenon

(* TypeOK is inductive: every report leaves a well-typed memory. *)
LEMMA TypeStep ==
  ASSUME TypeOK, [Next]_vars
  PROVE  TypeOK'
<1>1. ASSUME NEW v \in Vessels, NEW at \in Times, Ignore(v, at)
      PROVE  TypeOK'
  BY <1>1, Zenon DEF Ignore, TypeOK
<1>2. ASSUME NEW v \in Vessels, NEW at \in Times, NEW inside \in SUBSET Fences,
             NEW speed \in Speeds, NEW active \in ActiveSets, Observe(v, inside, speed, at, active)
      PROVE  TypeOK'
  <2>1. last' \in [Vessels -> Nat]
    BY <1>2, FenceAssumption DEF Observe, TypeOK
  <2>2. ASSUME NEW f \in Fences
        PROVE  state'[v][f] \in FenceStates /\ out'[f] \in SUBSET EventTypes
    BY <1>2, ObservedPair, Zenon
  <2>3. state'[v] \in [Fences -> FenceStates]
    <3>1. state'[v] = [f \in Fences |-> state'[v][f]]
      BY <1>2, Zenon DEF Observe, TypeOK
    <3> QED
      BY <2>2, <3>1, Zenon
  <2>4. state' \in [Vessels -> [Fences -> FenceStates]]
    BY <1>2, <2>3, Zenon DEF Observe, TypeOK
  <2>5. out' \in [Fences -> SUBSET EventTypes]
    <3>1. out' = [f \in Fences |-> out'[f]]
      BY <1>2, Zenon DEF Observe
    <3> QED
      BY <2>2, <3>1, Zenon
  <2> QED
    BY <2>1, <2>4, <2>5, Zenon DEF TypeOK
<1>3. CASE UNCHANGED vars
  BY <1>3, Zenon DEF TypeOK, vars
<1> QED
  BY <1>1, <1>2, <1>3, Zenon DEF Next

(***************************************************************************)
(* Observe keeps the engine's memory well typed: in particular the entry   *)
(* time and the start of the slow stretch are never negative, so a dwell   *)
(* is never measured from a time before the first report.                  *)
(***************************************************************************)
THEOREM TypeCorrect == Spec => []TypeOK
<1>1. Init => TypeOK
  BY DEF Init, TypeOK, NewFenceState, FenceStates
<1>2. TypeOK /\ [Next]_vars => TypeOK'
  BY TypeStep, Zenon
<1> QED
  BY <1>1, <1>2, PTL DEF Spec

(***************************************************************************)
(* The engine implements the abstract stay: whatever the reports, in       *)
(* whatever order, and however the set of active fences changes, Observe   *)
(* emits ENTER, at most one DWELL and EXIT in this order for each pair of  *)
(* a vessel and a fence, and at most one event per fence and report.       *)
(***************************************************************************)
THEOREM EngineImplementsStays == Spec => ImplementsStays
<1> DEFINE phase == [v \in Vessels |-> [f \in Fences |-> PhaseOf(state[v][f])]]
<1>1. Init => Stays!Init
  BY DEF Init, Stays!Init, PhaseOf, NewFenceState
<1>2. ASSUME TypeOK, TypeOK', [Next]_vars
      PROVE  [Stays!Next]_(Stays!vars)
  <2>1. phase' \in [Vessels -> [Fences -> {"out", "in", "dwelled"}]]
    BY Zenon DEF PhaseOf
  <2>2. out' \in [Fences -> SUBSET {"ENTER", "EXIT", "DWELL"}]
    BY <1>2, Zenon DEF TypeOK, EventTypes
  <2>3. ASSUME NEW v \in Vessels, NEW at \in Times, Ignore(v, at)
        PROVE  Stays!Report(v)
    <3>1. phase' = phase
      BY <2>3, Zenon DEF Ignore
    <3>2. \A f \in Fences : out'[f] = {}
      BY <2>3, Zenon DEF Ignore
    <3> QED
      BY <2>1, <2>2, <3>1, <3>2, Zenon DEF Stays!Report, Stays!Stay
  <2>4. ASSUME NEW v \in Vessels, NEW at \in Times, NEW inside \in SUBSET Fences,
               NEW speed \in Speeds, NEW active \in ActiveSets, Observe(v, inside, speed, at, active)
        PROVE  Stays!Report(v)
    <3>1. \A u \in Vessels \ {v} : phase'[u] = phase[u]
      BY <1>2, <2>4, Zenon DEF Observe, TypeOK
    <3>2. ASSUME NEW f \in Fences
          PROVE  Stays!Stay(phase[v][f], phase'[v][f], out'[f])
      <4>1. phase[v][f] = PhaseOf(state[v][f]) /\ phase'[v][f] = PhaseOf(state'[v][f])
        BY Zenon
      <4>2. Stays!Stay(PhaseOf(state[v][f]), PhaseOf(state'[v][f]), out'[f])
        BY <1>2, <2>4, ObservedPair, Zenon
      <4> QED
        BY <4>1, <4>2, Zenon
    <3> QED
      BY <2>1, <2>2, <3>1, <3>2, Zenon DEF Stays!Report
  <2>5. CASE UNCHANGED vars
    BY <2>5, Zenon DEF vars, Stays!vars
  <2> QED
    BY <1>2, <2>3, <2>4, <2>5, Zenon DEF Next, Stays!Next
<1> QED
  BY <1>1, <1>2, TypeCorrect, PTL DEF Spec, ImplementsStays, Stays!Spec

-----------------------------------------------------------------------------
(***************************************************************************)
(* The track.  Inductive, for a track t and the memory st of a fence f:    *)
(* st tells whether the last report was inside; slowSince is the time of a *)
(* report from which on every report was inside and none above the gate; a *)
(* DWELL of this stay is in the track; and while there is none, every run  *)
(* of slow reports up to the last began no earlier than slowSince.         *)
(***************************************************************************)
Entries == [at : Nat, inside : SUBSET Fences, speed : Int, events : [Fences -> SUBSET EventTypes]]

(* Reports i to the last were inside f, and slow. *)
SlowRun(t, f, i) == \A k \in i .. Len(t) : f \in t[k].inside /\ Slow(t[k], f)

(* Report i began the slow stretch that lasts. *)
Stretch(t, f, i) ==
  /\ i \in 1 .. Len(t) /\ Slow(t[i], f)
  /\ \A k \in i .. Len(t) : f \in t[k].inside /\ NotFast(t[k], f)

(* Report d emitted the DWELL of the stay that report j is in. *)
DwelledBy(t, f, d, j) ==
  /\ "DWELL" \in t[d].events[f]
  /\ \A k \in (d + 1) .. j : "ENTER" \notin t[k].events[f]

PairInv(st, t, f) ==
  /\ st.inside = (Len(t) > 0 /\ f \in t[Len(t)].inside)
  /\ st.slowSince # 0 => \E i \in 1 .. Len(t) : Stretch(t, f, i) /\ t[i].at = st.slowSince
  /\ st.inside /\ st.dwellEmitted => \E d \in 1 .. Len(t) : DwelledBy(t, f, d, Len(t))
  /\ st.inside /\ ~st.dwellEmitted /\ Threshold[f] > 0 =>
       \A i \in 1 .. Len(t) : SlowRun(t, f, i) => st.slowSince # 0 /\ st.slowSince <= t[i].at

(* What DwellExactlyEarned says of report j. *)
EarnedIn(t, f, i, j) ==
  /\ \A k \in i .. j : f \in t[k].inside /\ NotFast(t[k], f)
  /\ t[j].at - t[i].at >= Threshold[f] /\ Slow(t[i], f) /\ Slow(t[j], f)

DemandedIn(t, f, i, j) ==
  /\ Threshold[f] > 0 /\ t[j].at - t[i].at >= Threshold[f]
  /\ \A k \in i .. j : f \in t[k].inside /\ Slow(t[k], f)

ReportExplained(t, f, j) ==
  /\ "DWELL" \in t[j].events[f] => \E i \in 1 .. j : EarnedIn(t, f, i, j)
  /\ (\E i \in 1 .. j : DemandedIn(t, f, i, j)) => \E d \in 1 .. j : DwelledBy(t, f, d, j)

TrackInv ==
  /\ track \in [Vessels -> Seq(Entries)]
  /\ \A v \in Vessels : \A k \in 1 .. Len(track[v]) : track[v][k].at <= last[v]
  /\ \A v \in Vessels, f \in Fences : PairInv(state[v][f], track[v], f)
  /\ \A v \in Vessels, f \in Fences : \A j \in 1 .. Len(track[v]) : ReportExplained(track[v], f, j)

(* What one report, an entry e of the track, does to the memory st of an active fence. *)
Observed(st, new, e, f) ==
  LET inside == f \in e.inside
      dwells == "DWELL" \in e.events[f]
      counts == Threshold[f] > 0 /\ ~st.dwellEmitted /\ e.speed >= 0 /\ e.speed <= Gate[f]
      since == IF st.slowSince = 0 THEN e.at ELSE st.slowSince
  IN  /\ new.inside = inside
      /\ "ENTER" \in e.events[f] <=> inside /\ ~st.inside
      /\ inside /\ ~st.inside =>
           /\ ~dwells /\ ~new.dwellEmitted
           /\ new.slowSince = IF Threshold[f] > 0 /\ e.speed >= 0 /\ e.speed <= Gate[f] THEN e.at ELSE 0
      /\ ~inside => ~dwells /\ (new.slowSince = IF st.inside THEN 0 ELSE st.slowSince)
      /\ inside /\ st.inside =>
           /\ dwells <=> counts /\ e.at - since >= Threshold[f]
           /\ new.dwellEmitted <=> st.dwellEmitted \/ dwells
           /\ new.slowSince = IF counts THEN since ELSE IF e.speed > Gate[f] THEN 0 ELSE st.slowSince

LEMMA FoldObserved ==
  ASSUME NEW st \in FenceStates, NEW f \in Fences, NEW e \in Entries, e.at # 0,
         e.events[f] = Emits(st, f \in e.inside, e.speed, e.at, Threshold[f], Gate[f]),
         NEW new, new = Fold(st, f \in e.inside, e.speed, e.at, Threshold[f], Gate[f])
  PROVE  Observed(st, new, e, f)
<1> DEFINE at == e.at
           speed == e.speed
           threshold == Threshold[f]
           gate == Gate[f]
           events == e.events[f]
           counts == threshold > 0 /\ ~st.dwellEmitted /\ speed >= 0 /\ speed <= gate
           since == IF st.slowSince = 0 THEN at ELSE st.slowSince
<1>1. at \in Nat \ {0} /\ speed \in Int /\ threshold \in Nat /\ gate \in Nat
  BY FenceAssumption, Zenon DEF Entries
<1>2. ASSUME f \in e.inside
      PROVE  new = Fold(st, TRUE, speed, at, threshold, gate) /\ events = Emits(st, TRUE, speed, at, threshold, gate)
  <2>1. (f \in e.inside) = TRUE
    BY <1>2, Zenon
  <2> QED BY <2>1, Zenon
<1>3. ASSUME f \notin e.inside
      PROVE  new = Fold(st, FALSE, speed, at, threshold, gate) /\ events = Emits(st, FALSE, speed, at, threshold, gate)
  <2>1. (f \in e.inside) = FALSE
    BY <1>3
  <2> QED BY <2>1, Zenon
<1> HIDE DEF at, speed, threshold, gate, events
<1>4. CASE f \in e.inside /\ ~st.inside
  <2> DEFINE crossed == [inside |-> TRUE, enteredAt |-> at, dwellEmitted |-> FALSE, slowSince |-> 0]
  <2>1. Cross(st, TRUE, at) = crossed
    BY <1>4, Zenon DEF Cross
  <2>2. SlowSince(crossed, at) = at
    BY Zenon DEF SlowSince
  <2>3. ~Dwells(st, TRUE, speed, at, threshold, gate)
    <3>1. SlowSince(Cross(st, TRUE, at), at) = at
      BY <2>1, <2>2, Zenon
    <3> HIDE DEF crossed
    <3>2. Dwells(st, TRUE, speed, at, threshold, gate) => threshold > 0 /\ at - at >= threshold
      BY <3>1, Zenon DEF Dwells, Counts
    <3>3. ~(threshold > 0 /\ at - at >= threshold)
      BY <1>1
    <3> QED BY <3>2, <3>3, Zenon
  <2>4. Counts(crossed, TRUE, speed, threshold, gate) <=> threshold > 0 /\ speed >= 0 /\ speed <= gate
    BY Zenon DEF Counts
  <2>5. "DWELL" \notin events /\ "ENTER" \in events
    BY <1>2, <1>4, <2>3, Zenon DEF Emits
  <2>6. CASE Counts(crossed, TRUE, speed, threshold, gate)
    <3>1. new = [crossed EXCEPT !.slowSince = at, !.dwellEmitted = Dwells(st, TRUE, speed, at, threshold, gate)]
      BY <1>2, <1>4, <2>1, <2>2, <2>6, Zenon DEF Fold
    <3>2. new.inside = TRUE /\ ~new.dwellEmitted /\ new.slowSince = at
      BY <2>3, <3>1, Zenon
    <3> QED BY <1>4, <2>4, <2>5, <2>6, <3>2, Zenon DEF Observed, at, speed, threshold, gate, events
  <2>7. CASE ~Counts(crossed, TRUE, speed, threshold, gate)
    <3>1. new \in {crossed, [crossed EXCEPT !.slowSince = 0]}
      BY <1>2, <1>4, <2>1, <2>7, Zenon DEF Fold
    <3>2. new.inside = TRUE /\ ~new.dwellEmitted /\ new.slowSince = 0
      BY <3>1
    <3> QED BY <1>4, <2>4, <2>5, <2>7, <3>2, Zenon DEF Observed, at, speed, threshold, gate, events
  <2> QED BY <2>6, <2>7, Zenon
<1>5. CASE f \notin e.inside
  <2> DEFINE crossed == Cross(st, FALSE, at)
  <2>1. ~Counts(crossed, FALSE, speed, threshold, gate) /\ ~Dwells(st, FALSE, speed, at, threshold, gate)
    BY Zenon DEF Counts, Dwells
  <2>2. new = crossed
    BY <1>3, <1>5, <2>1, Zenon DEF Fold
  <2>3. crossed = IF st.inside THEN [st EXCEPT !.inside = FALSE, !.slowSince = 0] ELSE st
    BY Zenon DEF Cross
  <2>4. new.inside = FALSE /\ (new.slowSince = IF st.inside THEN 0 ELSE st.slowSince)
    BY <2>2, <2>3, Zenon DEF FenceStates
  <2>5. "DWELL" \notin events /\ "ENTER" \notin events
    BY <1>3, <1>5, <2>1, Zenon DEF Emits
  <2>6. new.inside = (f \in e.inside)
    <3>1. (f \in e.inside) = FALSE
      BY <1>5
    <3> QED BY <2>4, <3>1, Zenon
  <2> HIDE DEF crossed
  <2> QED BY <1>5, <2>4, <2>5, <2>6, Zenon DEF Observed, events
<1>6. CASE f \in e.inside /\ st.inside
  <2>1. Cross(st, TRUE, at) = st
    BY <1>6, Zenon DEF Cross
  <2>2. Counts(st, TRUE, speed, threshold, gate) <=> counts
    BY Zenon DEF Counts
  <2>3. SlowSince(st, at) = since
    BY Zenon DEF SlowSince
  <2>4. Dwells(st, TRUE, speed, at, threshold, gate) <=> counts /\ at - since >= threshold
    BY <2>1, <2>2, <2>3, Zenon DEF Dwells
  <2>5. /\ "DWELL" \in events <=> counts /\ at - since >= threshold
        /\ "ENTER" \notin events
    BY <1>2, <1>6, <2>4, Zenon DEF Emits
  <2>6. CASE counts
    <3>1. new = [st EXCEPT !.slowSince = since, !.dwellEmitted = Dwells(st, TRUE, speed, at, threshold, gate)]
      BY <1>2, <1>6, <2>1, <2>2, <2>3, <2>6, Zenon DEF Fold
    <3> HIDE DEF since, counts
    <3>2. new.inside = st.inside /\ new.slowSince = since /\ (new.dwellEmitted <=> "DWELL" \in events)
      BY <2>4, <2>5, <3>1, Zenon DEF FenceStates
    <3> QED BY <1>6, <2>5, <2>6, <3>2, Zenon DEF Observed, since, counts, at, speed, threshold, gate, events
  <2>7. CASE ~counts
    <3>1. new = IF speed > gate THEN [st EXCEPT !.slowSince = 0] ELSE st
      BY <1>2, <1>6, <2>1, <2>2, <2>7, Zenon DEF Fold
    <3>2. /\ new.inside = st.inside /\ new.dwellEmitted = st.dwellEmitted
          /\ new.slowSince = IF speed > gate THEN 0 ELSE st.slowSince
      BY <3>1, Zenon DEF FenceStates
    <3> QED BY <1>6, <2>5, <2>7, <3>2, Zenon DEF Observed, at, speed, threshold, gate, events
  <2> QED BY <2>6, <2>7, Zenon
<1> QED BY <1>4, <1>5, <1>6, Zenon

(* One report, added to the track and folded into the memory of an active fence. *)
LEMMA PairStep ==
  ASSUME NEW st \in FenceStates, NEW t \in Seq(Entries), NEW f \in Fences, NEW e \in Entries, e.at # 0,
         \A k \in 1 .. Len(t) : t[k].at <= e.at,
         PairInv(st, t, f), NEW new, Observed(st, new, e, f)
  PROVE  PairInv(new, Append(t, e), f) /\ ReportExplained(Append(t, e), f, Len(t) + 1)
<1> DEFINE inside == f \in e.inside
           n == Len(t)
           u == Append(t, e)
           dwells == "DWELL" \in e.events[f]
           slow == e.speed >= 0 /\ e.speed <= Gate[f]
           counts == Threshold[f] > 0 /\ ~st.dwellEmitted /\ e.speed >= 0 /\ e.speed <= Gate[f]
           since == IF st.slowSince = 0 THEN e.at ELSE st.slowSince
<1>1. /\ e.at \in Nat \ {0} /\ e.speed \in Int
      /\ Threshold[f] \in Nat /\ Gate[f] \in Nat /\ n \in Nat
      /\ st.inside \in BOOLEAN /\ st.slowSince \in Nat /\ st.dwellEmitted \in BOOLEAN
  BY FenceAssumption DEF Entries, FenceStates
<1>2. /\ new.inside = inside
      /\ inside /\ ~st.inside =>
           /\ ~dwells /\ ~new.dwellEmitted
           /\ new.slowSince = IF Threshold[f] > 0 /\ e.speed >= 0 /\ e.speed <= Gate[f] THEN e.at ELSE 0
      /\ ~inside => ~dwells /\ (new.slowSince = IF st.inside THEN 0 ELSE st.slowSince)
      /\ inside /\ st.inside =>
           /\ dwells <=> counts /\ e.at - since >= Threshold[f]
           /\ new.dwellEmitted <=> st.dwellEmitted \/ dwells
           /\ new.slowSince = IF counts THEN since ELSE IF e.speed > Gate[f] THEN 0 ELSE st.slowSince
  BY Zenon DEF Observed
<1>3. /\ "DWELL" \in e.events[f] <=> dwells
      /\ "ENTER" \in e.events[f] <=> inside /\ ~st.inside
  BY Zenon DEF Observed
<1>4. /\ u \in Seq(Entries) /\ Len(u) = n + 1 /\ u[n + 1] = e /\ \A k \in 1 .. n : u[k] = t[k]
  OBVIOUS
<1>5. Slow(e, f) <=> slow
  BY Zenon DEF Slow
<1>6. NotFast(e, f) <=> e.speed <= Gate[f]
  BY Zenon DEF NotFast
<1>7. /\ st.inside = (n > 0 /\ f \in t[n].inside)
      /\ st.slowSince # 0 => \E i \in 1 .. n : Stretch(t, f, i) /\ t[i].at = st.slowSince
      /\ st.inside /\ st.dwellEmitted => \E d \in 1 .. n : DwelledBy(t, f, d, n)
      /\ st.inside /\ ~st.dwellEmitted /\ Threshold[f] > 0 =>
           \A i \in 1 .. n : SlowRun(t, f, i) => st.slowSince # 0 /\ st.slowSince <= t[i].at
  BY Zenon DEF PairInv
<1> HIDE DEF inside, n, u, dwells
<1>8. new.inside = (n + 1 > 0 /\ f \in u[n + 1].inside)
  BY <1>1, <1>2, <1>4 DEF inside
(* The slow stretch lasts only inside. *)
<1>9. st.slowSince # 0 => st.inside /\ st.slowSince <= e.at
  <2> SUFFICES ASSUME st.slowSince # 0 PROVE st.inside /\ st.slowSince <= e.at
    BY Zenon
  <2>1. PICK i \in 1 .. n : Stretch(t, f, i) /\ t[i].at = st.slowSince
    BY <1>7, Zenon
  <2>2. n \in i .. n /\ n > 0
    BY <1>1, <2>1
  <2>3. f \in t[n].inside
    BY <2>1, <2>2, Zenon DEF Stretch, n
  <2> QED BY <1>7, <2>1, <2>2, <2>3, Zenon DEF n
(* A stretch goes on through a report inside that is not too fast. *)
<1>10. ASSUME NEW i \in 1 .. n, Stretch(t, f, i), inside, NotFast(e, f)
       PROVE  Stretch(u, f, i) /\ u[i].at = t[i].at
  <2>1. i \in 1 .. n + 1 /\ Slow(u[i], f) /\ u[i] = t[i]
    BY <1>1, <1>4, <1>10 DEF Stretch
  <2>2. ASSUME NEW k \in i .. n + 1 PROVE f \in u[k].inside /\ NotFast(u[k], f)
    <3>1. CASE k = n + 1
      BY <1>4, <1>10, <3>1, Zenon DEF inside
    <3>2. CASE k # n + 1
      <4>1. k \in i .. n /\ k \in 1 .. n
        BY <1>1, <3>2
      <4> QED BY <1>4, <1>10, <4>1, Zenon DEF Stretch, n
    <3> QED BY <3>1, <3>2, Zenon
  <2> QED BY <1>4, <2>1, <2>2, Zenon DEF Stretch
<1>11. ASSUME inside, Slow(e, f) PROVE Stretch(u, f, n + 1) /\ n + 1 \in 1 .. n + 1
  <2>1. \A k \in n + 1 .. n + 1 : k = n + 1
    BY <1>1
  <2>2. NotFast(e, f)
    BY <1>5, <1>6, <1>11, Zenon
  <2>3. n + 1 \in 1 .. n + 1
    BY <1>1
  <2> QED BY <1>4, <1>11, <2>1, <2>2, <2>3, Zenon DEF Stretch, inside
<1>12. new.slowSince # 0 => \E i \in 1 .. n + 1 : Stretch(u, f, i) /\ u[i].at = new.slowSince
  <2> SUFFICES ASSUME new.slowSince # 0 PROVE \E i \in 1 .. n + 1 : Stretch(u, f, i) /\ u[i].at = new.slowSince
    BY Zenon
  <2>1. inside
    BY <1>2, <1>9, Zenon
  <2>2. CASE new.slowSince = e.at /\ Slow(e, f)
    BY <1>4, <1>11, <2>1, <2>2, Zenon
  <2>3. CASE st.slowSince # 0 /\ new.slowSince = st.slowSince /\ NotFast(e, f)
    <3>1. PICK i \in 1 .. n : Stretch(t, f, i) /\ t[i].at = st.slowSince
      BY <1>7, <2>3, Zenon
    <3>2. i \in 1 .. n + 1
      BY <1>1
    <3> QED BY <1>10, <2>1, <2>3, <3>1, <3>2, Zenon
  <2>4. \/ new.slowSince = e.at /\ Slow(e, f)
        \/ st.slowSince # 0 /\ new.slowSince = st.slowSince /\ NotFast(e, f)
    BY <1>1, <1>2, <1>5, <1>6, <2>1
  <2> QED BY <2>2, <2>3, <2>4, Zenon
<1>13. ASSUME NEW d \in 1 .. n, DwelledBy(t, f, d, n), st.inside PROVE DwelledBy(u, f, d, n + 1)
  <2>1. "DWELL" \in u[d].events[f]
    BY <1>4, <1>13, Zenon DEF DwelledBy
  <2>2. ASSUME NEW k \in (d + 1) .. n + 1 PROVE "ENTER" \notin u[k].events[f]
    <3>1. CASE k = n + 1
      BY <1>3, <1>4, <1>13, <3>1, Zenon
    <3>2. CASE k # n + 1
      <4>1. k \in (d + 1) .. n /\ k \in 1 .. n
        <5>1. n \in Nat /\ d \in Int /\ 1 <= d /\ k \in Int /\ d + 1 <= k /\ k <= n + 1
          BY <1>1
        <5> QED BY <3>2, <5>1
      <4> QED BY <1>4, <1>13, <4>1, Zenon DEF DwelledBy
    <3> QED BY <3>1, <3>2, Zenon
  <2> QED BY <2>1, <2>2, Zenon DEF DwelledBy
<1>14. ASSUME dwells PROVE DwelledBy(u, f, n + 1, n + 1) /\ n + 1 \in 1 .. n + 1
  <2>1. \A k \in (n + 1) + 1 .. n + 1 : FALSE
    BY <1>1
  <2>2. n + 1 \in 1 .. n + 1
    BY <1>1
  <2> QED BY <1>3, <1>4, <1>14, <2>1, <2>2, Zenon DEF DwelledBy
<1>15. new.inside /\ new.dwellEmitted => \E d \in 1 .. n + 1 : DwelledBy(u, f, d, n + 1)
  <2> SUFFICES ASSUME new.inside, new.dwellEmitted PROVE \E d \in 1 .. n + 1 : DwelledBy(u, f, d, n + 1)
    BY Zenon
  <2>1. st.inside /\ (st.dwellEmitted \/ dwells)
    BY <1>1, <1>2, Zenon
  <2>2. CASE dwells
    BY <1>14, <2>2, Zenon
  <2>3. CASE st.dwellEmitted
    <3>1. PICK d \in 1 .. n : DwelledBy(t, f, d, n)
      BY <1>7, <2>1, <2>3, Zenon
    <3>2. d \in 1 .. n + 1
      BY <1>1
    <3> QED BY <1>13, <2>1, <3>1, <3>2, Zenon
  <2> QED BY <2>1, <2>2, <2>3, Zenon
(* A run of slow reports that ends with this one. *)
<1>16. ASSUME NEW i \in 1 .. n + 1, \A k \in i .. n + 1 : f \in u[k].inside /\ Slow(u[k], f)
       PROVE  /\ inside /\ slow
              /\ i \in 1 .. n => st.inside /\ SlowRun(t, f, i)
              /\ i \notin 1 .. n => i = n + 1
  <2>1. n + 1 \in i .. n + 1
    BY <1>1
  <2>2. inside /\ slow
    BY <1>4, <1>5, <1>16, <2>1, Zenon DEF inside
  <2>3. ASSUME i \in 1 .. n PROVE st.inside /\ SlowRun(t, f, i)
    <3>1. \A k \in i .. n : k \in i .. n + 1 /\ k \in 1 .. n
      BY <1>1, <2>3
    <3>2. \A k \in i .. n : f \in t[k].inside /\ Slow(t[k], f)
      BY <1>4, <1>16, <3>1, Zenon
    <3>3. n \in i .. n /\ n > 0
      BY <1>1, <2>3
    <3> QED BY <1>7, <3>2, <3>3, Zenon DEF SlowRun, n
  <2> QED BY <1>1, <2>2, <2>3
<1>17. new.inside /\ ~new.dwellEmitted /\ Threshold[f] > 0 =>
         \A i \in 1 .. n + 1 : SlowRun(u, f, i) => new.slowSince # 0 /\ new.slowSince <= u[i].at
  <2> SUFFICES ASSUME new.inside, ~new.dwellEmitted, Threshold[f] > 0, NEW i \in 1 .. n + 1, SlowRun(u, f, i)
               PROVE  new.slowSince # 0 /\ new.slowSince <= u[i].at
    BY Zenon
  <2>1. /\ inside /\ slow
        /\ i \in 1 .. n => st.inside /\ SlowRun(t, f, i)
        /\ i \notin 1 .. n => i = n + 1
    BY <1>4, <1>16, Zenon DEF SlowRun
  <2>2. CASE ~st.inside
    BY <1>1, <1>2, <1>4, <2>1, <2>2
  <2>3. CASE st.inside
    <3>1. ~st.dwellEmitted /\ new.slowSince = since
      BY <1>1, <1>2, <2>1, <2>3, Zenon
    <3>2. CASE i \in 1 .. n
      <4>1. st.slowSince # 0 /\ st.slowSince <= t[i].at
        BY <1>7, <2>1, <2>3, <3>1, <3>2, Zenon
      <4> QED BY <1>4, <3>1, <3>2, <4>1, Zenon
    <3>3. CASE i \notin 1 .. n
      BY <1>1, <1>4, <1>9, <2>1, <3>1, <3>3
    <3> QED BY <3>2, <3>3, Zenon
  <2> QED BY <1>1, <2>2, <2>3, Zenon
<1>18. PairInv(new, u, f)
  BY <1>4, <1>8, <1>12, <1>15, <1>17, Zenon DEF PairInv
<1>19. "DWELL" \in u[n + 1].events[f] => \E i \in 1 .. n + 1 : EarnedIn(u, f, i, n + 1)
  <2> SUFFICES ASSUME dwells PROVE \E i \in 1 .. n + 1 : EarnedIn(u, f, i, n + 1)
    BY <1>3, <1>4, Zenon
  <2>1. inside /\ st.inside /\ counts /\ e.at - since >= Threshold[f]
    BY <1>1, <1>2, Zenon
  <2>2. st.slowSince # 0 /\ e.at - st.slowSince >= Threshold[f]
    BY <1>1, <2>1
  <2>3. PICK i \in 1 .. n : Stretch(t, f, i) /\ t[i].at = st.slowSince
    BY <1>7, <2>2, Zenon
  <2>4. Stretch(u, f, i) /\ u[i].at = st.slowSince
    BY <1>1, <1>6, <1>10, <2>1, <2>3, Zenon
  <2>5. i \in 1 .. n + 1 /\ Slow(e, f)
    BY <1>1, <1>5, <2>1
  <2> QED BY <1>4, <2>2, <2>4, <2>5, Zenon DEF EarnedIn, Stretch
<1>20. (\E i \in 1 .. n + 1 : DemandedIn(u, f, i, n + 1)) => \E d \in 1 .. n + 1 : DwelledBy(u, f, d, n + 1)
  <2> SUFFICES ASSUME NEW i \in 1 .. n + 1, DemandedIn(u, f, i, n + 1)
               PROVE  \E d \in 1 .. n + 1 : DwelledBy(u, f, d, n + 1)
    BY Zenon
  <2>1. /\ Threshold[f] > 0 /\ e.at - u[i].at >= Threshold[f]
        /\ \A k \in i .. n + 1 : f \in u[k].inside /\ Slow(u[k], f)
    BY <1>4, Zenon DEF DemandedIn
  <2>2. i \in 1 .. n
    BY <1>1, <1>4, <2>1
  <2>3. inside /\ slow /\ st.inside /\ SlowRun(t, f, i) /\ u[i] = t[i] /\ t[i].at \in Nat
    <3>1. t[i] \in Entries
      BY <2>2 DEF n
    <3> QED BY <1>4, <1>16, <2>1, <2>2, <3>1, Zenon DEF Entries
  <2>4. CASE st.dwellEmitted
    <3>1. PICK d \in 1 .. n : DwelledBy(t, f, d, n)
      BY <1>7, <2>3, <2>4, Zenon
    <3>2. d \in 1 .. n + 1
      BY <1>1
    <3> QED BY <1>13, <2>3, <3>1, <3>2, Zenon
  <2>5. CASE ~st.dwellEmitted
    <3>1. st.slowSince # 0 /\ st.slowSince <= t[i].at
      BY <1>7, <2>1, <2>2, <2>3, <2>5, Zenon
    <3>2. dwells
      BY <1>1, <1>2, <2>1, <2>3, <2>5, <3>1
    <3> QED BY <1>14, <3>2, Zenon
  <2> QED BY <1>1, <2>4, <2>5, Zenon
<1> QED BY <1>18, <1>19, <1>20, Zenon DEF ReportExplained, u, n

(* What is said of an earlier report stays true when the track grows. *)
LEMMA EarlierReport ==
  ASSUME NEW t \in Seq(Entries), NEW e \in Entries, NEW f \in Fences, NEW j \in 1 .. Len(t),
         ReportExplained(t, f, j)
  PROVE  ReportExplained(Append(t, e), f, j)
<1> DEFINE u == Append(t, e)
<1>1. \A k \in 1 .. j : u[k] = t[k]
  OBVIOUS
<1>2. j \in Nat /\ j >= 1
  OBVIOUS
<1> HIDE DEF u
<1>3. \A i \in 1 .. j : EarnedIn(t, f, i, j) => EarnedIn(u, f, i, j)
  BY <1>1, <1>2 DEF EarnedIn
<1>4. \A i \in 1 .. j : DemandedIn(u, f, i, j) => DemandedIn(t, f, i, j)
  BY <1>1, <1>2 DEF DemandedIn
<1>5. \A d \in 1 .. j : DwelledBy(t, f, d, j) => DwelledBy(u, f, d, j)
  BY <1>1, <1>2 DEF DwelledBy
<1>6. u[j] = t[j]
  BY <1>1, <1>2
<1> QED BY <1>3, <1>4, <1>5, <1>6, Zenon DEF ReportExplained, u

LEMMA TrackInitInv ==
  ASSUME TrackInit
  PROVE  TypeOK /\ TrackInv
<1>1. TypeOK
  BY Zenon DEF TrackInit, Init, TypeOK, NewFenceState, FenceStates
<1>2. track = [v \in Vessels |-> <<>>] /\ \A v \in Vessels, f \in Fences : state[v][f] = NewFenceState
  BY Zenon DEF TrackInit, Init
<1>3. track \in [Vessels -> Seq(Entries)] /\ \A v \in Vessels : Len(track[v]) = 0
  BY <1>2
<1>4. \A v \in Vessels, f \in Fences : PairInv(state[v][f], track[v], f)
  <2> SUFFICES ASSUME NEW v \in Vessels, NEW f \in Fences
               PROVE  PairInv(state[v][f], track[v], f)
    BY Zenon
  <2>1. state[v][f].inside = FALSE /\ state[v][f].slowSince = 0 /\ ~(Len(track[v]) > 0)
    BY <1>2, <1>3 DEF NewFenceState
  <2>2. (Len(track[v]) > 0 /\ f \in track[v][Len(track[v])].inside) = FALSE
    BY <2>1, Zenon
  <2> QED BY <2>1, <2>2, Zenon DEF PairInv
<1>5. \A v \in Vessels : 1 .. Len(track[v]) = {}
  BY <1>3
<1> QED BY <1>1, <1>3, <1>4, <1>5, Zenon DEF TrackInv

(* An accepted report, while every fence is active, is what Observed says of each pair. *)
LEMMA ObserveTrack ==
  ASSUME TypeOK, TrackInv, NEW v \in Vessels, NEW at \in Times, NEW inside \in SUBSET Fences,
         NEW speed \in Speeds, Observe(v, inside, speed, at, Fences), TypeOK',
         track' = [track EXCEPT ![v] = Append(@, Entry(inside, speed, at))]
  PROVE  TrackInv'
<1> DEFINE e == Entry(inside, speed, at)
           t == track[v]
<1>1. /\ e.at = at /\ e.inside = inside /\ e.speed = speed /\ e.events = out'
      /\ at \in Nat \ {0} /\ speed \in Int /\ last[v] <= at /\ last' = [last EXCEPT ![v] = at]
  BY FenceAssumption DEF Entry, Observe
<1>2. e \in Entries
  <2>1. out' \in [Fences -> SUBSET EventTypes]
    BY Zenon DEF TypeOK
  <2> QED BY <1>1, <2>1, Zenon DEF Entry, Entries
<1>3. t \in Seq(Entries) /\ track \in [Vessels -> Seq(Entries)] /\ last \in [Vessels -> Nat]
  BY Zenon DEF TrackInv, TypeOK
<1>4. track' = [track EXCEPT ![v] = Append(t, e)]
  BY Zenon
<1>5. \A f \in Fences :
        /\ state'[v][f] = Fold(state[v][f], f \in inside, speed, at, Threshold[f], Gate[f])
        /\ out'[f] = Emits(state[v][f], f \in inside, speed, at, Threshold[f], Gate[f])
  BY Zenon DEF Observe, TypeOK
<1>6. \A w \in Vessels \ {v} : state'[w] = state[w] /\ last'[w] = last[w] /\ track'[w] = track[w]
  BY <1>3, <1>4, Zenon DEF Observe, TypeOK
<1>7. \A k \in 1 .. Len(t) : t[k].at <= e.at
  <2> SUFFICES ASSUME NEW k \in 1 .. Len(t)
               PROVE  t[k].at <= e.at
    BY Zenon
  <2>1. t[k].at <= last[v] /\ t[k] \in Entries
    BY <1>3 DEF TrackInv
  <2> QED BY <1>1, <1>3, <2>1 DEF Entries
<1> HIDE DEF e
<1>8. track'[v] = Append(t, e) /\ last'[v] = e.at
  BY <1>1, <1>3, <1>4, Zenon
<1> HIDE DEF t
<1>9. ASSUME NEW f \in Fences
      PROVE  PairInv(state'[v][f], Append(t, e), f) /\ ReportExplained(Append(t, e), f, Len(t) + 1)
  <2> DEFINE st == state[v][f]
             new == state'[v][f]
  <2>1. st \in FenceStates /\ e.at # 0
    BY <1>1 DEF TypeOK
  <2>2. /\ e.events[f] = Emits(st, f \in e.inside, e.speed, e.at, Threshold[f], Gate[f])
        /\ new = Fold(st, f \in e.inside, e.speed, e.at, Threshold[f], Gate[f])
    BY <1>1, <1>5, Zenon
  <2>3. PairInv(st, t, f)
    BY Zenon DEF TrackInv, t
  <2> HIDE DEF st, new
  <2>4. Observed(st, new, e, f)
    BY <1>2, <2>1, <2>2, FoldObserved, Zenon
  <2>5. PairInv(new, Append(t, e), f) /\ ReportExplained(Append(t, e), f, Len(t) + 1)
    BY <1>2, <1>3, <1>7, <2>1, <2>3, <2>4, PairStep, Zenon
  <2> QED BY <2>5, Zenon DEF new
<1>10. ASSUME NEW f \in Fences, NEW j \in 1 .. Len(Append(t, e))
       PROVE  ReportExplained(Append(t, e), f, j)
  <2>1. j \in 1 .. Len(t) \/ j = Len(t) + 1
    BY <1>2, <1>3
  <2>2. ASSUME j \in 1 .. Len(t)
        PROVE  ReportExplained(t, f, j)
    BY <2>2, Zenon DEF TrackInv, t
  <2>3. CASE j \in 1 .. Len(t)
    BY <1>2, <1>3, <2>2, <2>3, EarlierReport, Zenon
  <2> QED BY <1>9, <2>1, <2>3, Zenon
<1>11. ASSUME NEW k \in 1 .. Len(Append(t, e))
       PROVE  Append(t, e)[k].at <= e.at
  <2>1. k \in 1 .. Len(t) \/ k = Len(t) + 1
    BY <1>2, <1>3
  <2> QED BY <1>1, <1>2, <1>3, <1>7, <2>1
<1>12. track' \in [Vessels -> Seq(Entries)]
  BY <1>2, <1>3, <1>4
<1>13. \A w \in Vessels : \A k \in 1 .. Len(track'[w]) : track'[w][k].at <= last'[w]
  BY <1>6, <1>8, <1>11, Zenon DEF TrackInv
<1>14. \A w \in Vessels, f \in Fences : PairInv(state'[w][f], track'[w], f)
  BY <1>6, <1>8, <1>9, Zenon DEF TrackInv
<1>15. \A w \in Vessels, f \in Fences : \A j \in 1 .. Len(track'[w]) : ReportExplained(track'[w], f, j)
  BY <1>6, <1>8, <1>10, Zenon DEF TrackInv
<1> QED BY <1>12, <1>13, <1>14, <1>15, Zenon DEF TrackInv

LEMMA TrackStep ==
  ASSUME ~Churn, TypeOK, TrackInv, [TrackNext]_<<vars, track>>
  PROVE  TypeOK' /\ TrackInv'
<1>1. CASE UNCHANGED <<vars, track>>
  BY <1>1, Zenon DEF vars, TypeOK, TrackInv
<1>2. ASSUME NEW v \in Vessels, NEW at \in Times, Ignore(v, at), UNCHANGED track
      PROVE  TypeOK' /\ TrackInv'
  BY <1>2, Zenon DEF Ignore, TypeOK, TrackInv
<1>3. ASSUME NEW v \in Vessels, NEW at \in Times, NEW inside \in SUBSET Fences, NEW speed \in Speeds,
             NEW active \in ActiveSets, Observe(v, inside, speed, at, active),
             track' = [track EXCEPT ![v] = Append(@, Entry(inside, speed, at))]
      PROVE  TypeOK' /\ TrackInv'
  <2>1. active = Fences
    BY Zenon DEF ActiveSets
  <2>2. Next
    BY <1>3, Zenon DEF Next
  <2>3. TypeOK'
    BY <2>2, TypeStep, Zenon
  <2> QED BY <1>3, <2>1, <2>3, ObserveTrack, Zenon
<1> QED BY <1>1, <1>2, <1>3, Zenon DEF TrackNext

LEMMA TrackExplains ==
  ASSUME TrackInv
  PROVE  DwellExactlyEarned
<1> SUFFICES ASSUME NEW v \in Vessels, NEW f \in Fences, NEW j \in DOMAIN track[v]
             PROVE  /\ DwellAt(v, f, j) => \E i \in 1 .. j : Earned(v, f, i, j)
                    /\ (\E i \in 1 .. j : Demanded(v, f, i, j)) =>
                         \E d \in 1 .. j : /\ DwellAt(v, f, d)
                                           /\ \A k \in (d + 1) .. j : "ENTER" \notin track[v][k].events[f]
  BY DEF DwellExactlyEarned, DwellAt, Demanded
<1> DEFINE t == track[v]
<1>1. t \in Seq(Entries) /\ DOMAIN t = 1 .. Len(t)
  BY DEF TrackInv
<1>2. j \in 1 .. Len(t) /\ \A d \in 1 .. j : d \in DOMAIN t
  BY <1>1
<1>3. ReportExplained(t, f, j)
  BY <1>2, Zenon DEF TrackInv
<1>4. \A i \in 1 .. j : EarnedIn(t, f, i, j) => Earned(v, f, i, j)
  BY Zenon DEF EarnedIn, Earned, LongStay
<1>5. \A i \in 1 .. j : Demanded(v, f, i, j) => DemandedIn(t, f, i, j)
  BY Zenon DEF DemandedIn, Demanded, LongStay
<1>6. \A d \in 1 .. j : DwelledBy(t, f, d, j) =>
        DwellAt(v, f, d) /\ \A k \in (d + 1) .. j : "ENTER" \notin track[v][k].events[f]
  BY <1>2, Zenon DEF DwelledBy, DwellAt
<1>7. DwellAt(v, f, j) => "DWELL" \in t[j].events[f]
  BY Zenon DEF DwellAt
<1> QED BY <1>3, <1>4, <1>5, <1>6, <1>7, Zenon DEF ReportExplained

(***************************************************************************)
(* A DWELL is earned, and none is missed: for any vessels, fences,         *)
(* thresholds, gates, speeds and times, in whatever order the reports      *)
(* come, while no fence is retired.  A retired fence is not looked at, so  *)
(* its memory cannot tell what the reports it missed said.                 *)
(***************************************************************************)
THEOREM DwellsAreEarned == ~Churn => (TrackSpec => []DwellExactlyEarned)
<1> SUFFICES ASSUME ~Churn
             PROVE  TrackSpec => []DwellExactlyEarned
  BY Zenon
<1>1. TrackInit => TypeOK /\ TrackInv
  BY TrackInitInv, Zenon
<1>2. TypeOK /\ TrackInv /\ [TrackNext]_<<vars, track>> => TypeOK' /\ TrackInv'
  BY TrackStep, Zenon
<1>3. TrackInv => DwellExactlyEarned
  BY TrackExplains, Zenon
<1> QED
  BY <1>1, <1>2, <1>3, PTL DEF TrackSpec

-----------------------------------------------------------------------------
(* FenceRegistry: the inductive invariant. *)

FenceRow == [id : FenceIds, version : Nat, tenant : Tenants, state : {"ACTIVE", "RETIRED"}]
FenceCall == [stage : {"begun", "write"}, id : FenceIds, tenant : Tenants, expected : Nat]
IdleCall == {NoCall} \cup {Answered(code) : code \in {200, 201, 404, 409, 503}}

FencesTypeOK ==
  /\ fences \in SUBSET FenceRow
  /\ admin \in [Admins -> IdleCall \cup FenceCall]

(* The rows of one fence: versions 1 .. n, each once, of one tenant, at most the last one ACTIVE. *)
IsLine(rows, n) ==
  /\ \A r \in rows : r.version \in 1 .. n
  /\ \A v \in 1 .. n : \E r \in rows : r.version = v
  /\ \A r, q \in rows : r.version = q.version => r = q
  /\ \A r, q \in rows : r.tenant = q.tenant
  /\ \A r \in rows : r.state = "ACTIVE" => r.version = n

RowsOf(rows, id) == {r \in rows : r.id = id}

(* The version a request expects and has found is there to follow on. *)
ExpectedExists(a) ==
  admin[a].stage = "write" =>
    \/ admin[a].expected = 0
    \/ \E r \in fences : /\ r.id = admin[a].id /\ r.tenant = admin[a].tenant
                         /\ r.version = admin[a].expected

FencesInv ==
  /\ FencesTypeOK
  /\ \A id \in FenceIds : \E n \in Nat : IsLine(RowsOf(fences, id), n)
  /\ \A a \in Admins : ExpectedExists(a)

LEMMA FencesInitInv == RegistryInit => FencesInv
<1> SUFFICES ASSUME RegistryInit PROVE FencesInv
  BY Zenon
<1>1. FencesTypeOK
  BY DEF RegistryInit, FencesTypeOK, IdleCall
<1>2. ASSUME NEW id \in FenceIds PROVE \E n \in Nat : IsLine(RowsOf(fences, id), n)
  <2>1. IsLine(RowsOf(fences, id), 0)
    BY DEF RegistryInit, RowsOf, IsLine
  <2> QED BY <2>1, Zenon
<1>3. \A a \in Admins : ExpectedExists(a)
  BY Zenon DEF RegistryInit, ExpectedExists, NoCall
<1> QED BY <1>1, <1>2, <1>3, Zenon DEF FencesInv

(* The row that replaces r when the ACTIVE row of fence id of tenant t is retired. *)
AfterRetire(r, id, t) == IF r \in Found(id, t) /\ r.state = "ACTIVE" THEN [r EXCEPT !.state = "RETIRED"] ELSE r

LEMMA AfterRetireRow ==
  ASSUME NEW r \in FenceRow, NEW id, NEW t
  PROVE  LET q == AfterRetire(r, id, t)
         IN  /\ q \in FenceRow /\ q.id = r.id /\ q.version = r.version /\ q.tenant = r.tenant
             /\ q.state = "ACTIVE" => r.state = "ACTIVE"
BY Zenon DEF AfterRetire, FenceRow

(* Retiring rewrites the state of rows, and nothing else. *)
LEMMA RetiredRows ==
  ASSUME NEW rows \in SUBSET FenceRow, NEW id, NEW t
  PROVE  /\ Retired(rows, id, t) \in SUBSET FenceRow
         /\ \A q \in Retired(rows, id, t) : \E r \in rows : q = AfterRetire(r, id, t)
         /\ \A r \in rows : AfterRetire(r, id, t) \in Retired(rows, id, t)
<1>1. Retired(rows, id, t) = {AfterRetire(r, id, t) : r \in rows}
  BY Zenon DEF Retired, AfterRetire
<1>2. \A r \in rows : AfterRetire(r, id, t) \in FenceRow
  BY AfterRetireRow, Zenon
<1> QED BY <1>1, <1>2, Zenon

LEMMA RetiredKeepsLines ==
  ASSUME NEW rows \in SUBSET FenceRow, NEW id, NEW t, NEW f \in FenceIds, NEW n \in Nat,
         IsLine(RowsOf(rows, f), n)
  PROVE  IsLine(RowsOf(Retired(rows, id, t), f), n)
<1> DEFINE new == Retired(rows, id, t)
           F(r) == AfterRetire(r, id, t)
<1>1. \A r \in rows : /\ F(r) \in FenceRow /\ F(r).id = r.id /\ F(r).version = r.version /\ F(r).tenant = r.tenant
                      /\ F(r).state = "ACTIVE" => r.state = "ACTIVE"
  BY AfterRetireRow
<1>2. /\ \A q \in new : \E r \in rows : q = F(r)
      /\ \A r \in rows : F(r) \in new
  BY RetiredRows
<1> HIDE DEF new, F
<1>3. \A q \in RowsOf(new, f) : \E r \in RowsOf(rows, f) : q = F(r)
  BY <1>1, <1>2, Zenon DEF RowsOf
<1>4. \A r \in RowsOf(rows, f) : F(r) \in RowsOf(new, f)
  BY <1>1, <1>2, Zenon DEF RowsOf
<1>5. \A r \in RowsOf(rows, f) : r \in rows
  BY Zenon DEF RowsOf
<1>6. \A r \in RowsOf(new, f) : r.version \in 1 .. n
  BY <1>1, <1>3, <1>5 DEF IsLine
<1>7. \A v \in 1 .. n : \E r \in RowsOf(new, f) : r.version = v
  BY <1>1, <1>4, <1>5 DEF IsLine
<1>8. \A r, q \in RowsOf(new, f) : r.version = q.version => r = q
  <2> TAKE r, q \in RowsOf(new, f)
  <2>1. PICK r0 \in RowsOf(rows, f) : r = F(r0)
    BY <1>3, Zenon
  <2>2. PICK q0 \in RowsOf(rows, f) : q = F(q0)
    BY <1>3, Zenon
  <2>3. r.version = r0.version /\ q.version = q0.version
    BY <1>1, <1>5, <2>1, <2>2, Zenon
  <2>4. r0.version = q0.version => r0 = q0
    BY Zenon DEF IsLine
  <2> QED BY <2>1, <2>2, <2>3, <2>4, Zenon
<1>9. \A r, q \in RowsOf(new, f) : r.tenant = q.tenant
  BY <1>1, <1>3, <1>5 DEF IsLine
<1>10. \A r \in RowsOf(new, f) : r.state = "ACTIVE" => r.version = n
  BY <1>1, <1>3, <1>5 DEF IsLine
<1> QED BY <1>6, <1>7, <1>8, <1>9, <1>10, Zenon DEF IsLine, new

(* The next version joins the end of its line. *)
LEMMA InsertedKeepsLines ==
  ASSUME NEW rows \in SUBSET FenceRow, NEW x \in FenceRow, NEW e \in Nat,
         x.version = e + 1, x.state = "ACTIVE",
         NEW f \in FenceIds, NEW n \in Nat, IsLine(RowsOf(rows, f), n),
         e = 0 \/ \E r \in rows : r.id = x.id /\ r.tenant = x.tenant /\ r.version = e,
         Inserted(rows, x) # {}
  PROVE  /\ Inserted(rows, x) \in SUBSET FenceRow
         /\ \E m \in Nat : IsLine(RowsOf(Inserted(rows, x), f), m)
         /\ rows \subseteq Inserted(rows, x)
<1> DEFINE new == Inserted(rows, x)
           id == x.id
           t == x.tenant
<1>1. x \in FenceRow /\ x.id = id /\ x.version = e + 1 /\ x.tenant = t /\ x.state = "ACTIVE"
  BY Zenon
<1>2. new = rows \cup {x} /\ ~\E r \in rows : r.id = id /\ (r.version = e + 1 \/ r.state = "ACTIVE")
  BY Zenon DEF Inserted
<1> HIDE DEF new
<1>3. new \in SUBSET FenceRow /\ rows \subseteq new
  BY <1>1, <1>2, Zenon
<1>4. CASE f # id
  <2>1. RowsOf(new, f) = RowsOf(rows, f)
    BY <1>1, <1>2, <1>4, Zenon DEF RowsOf
  <2> QED BY <1>3, <2>1, Zenon DEF new
<1>5. CASE f = id
  <2>1. RowsOf(new, f) = RowsOf(rows, f) \cup {x}
    BY <1>1, <1>2, <1>5, Zenon DEF RowsOf
  <2>2. \A r \in RowsOf(rows, f) : r.version # e + 1 /\ r.state # "ACTIVE"
    BY <1>2, <1>5, Zenon DEF RowsOf
  <2>3. n = e
    <3>1. e + 1 \notin 1 .. n
      BY <2>2, Zenon DEF IsLine
    <3>2. e = 0 \/ e \in 1 .. n
      BY <1>5 DEF IsLine, RowsOf
    <3> QED BY <3>1, <3>2
  <2>4. \A r \in RowsOf(rows, f) : r.tenant = t
    <3> TAKE r \in RowsOf(rows, f)
    <3>1. e # 0
      BY <2>3 DEF IsLine
    <3>2. PICK q \in rows : q.id = id /\ q.tenant = t /\ q.version = e
      BY <3>1, Zenon
    <3> QED BY <1>5, <3>2, Zenon DEF IsLine, RowsOf
  <2>5. \A r \in RowsOf(rows, f) : r.version \in 1 .. n
    BY Zenon DEF IsLine
  <2>6. \A v \in 1 .. n + 1 : \E r \in RowsOf(new, f) : r.version = v
    BY <1>1, <2>1, <2>3 DEF IsLine
  <2>7. \A r, q \in RowsOf(new, f) : r.version = q.version => r = q
    BY <1>1, <2>1, <2>2 DEF IsLine
  <2> QED
    <3>1. IsLine(RowsOf(new, f), n + 1)
      BY <1>1, <2>1, <2>2, <2>3, <2>4, <2>5, <2>6, <2>7 DEF IsLine
    <3> QED BY <1>3, <3>1 DEF new
<1> QED BY <1>4, <1>5, Zenon

(* A request that expects a version goes on only if it is there. *)
LEMMA LatestExists ==
  ASSUME FencesInv, NEW id \in FenceIds, NEW t
  PROVE  Latest(id, t) = 0 \/ \E r \in fences : r.id = id /\ r.tenant = t /\ r.version = Latest(id, t)
<1> DEFINE S == {r.version : r \in Found(id, t)} \cup {0}
<1>1. PICK n \in Nat : IsLine(RowsOf(fences, id), n)
  BY Zenon DEF FencesInv
<1>2. \A r \in Found(id, t) : r \in fences /\ r.id = id /\ r.tenant = t
  BY Zenon DEF Found, Permitted
<1>3. \A x \in S : x \in 0 .. n
  BY <1>1, <1>2 DEF IsLine, RowsOf
<1>4. \E x \in S : \A y \in S : x >= y
  <2>1. CASE Found(id, t) = {}
    BY <2>1
  <2>2. CASE Found(id, t) # {}
    <3>1. PICK r \in Found(id, t) : TRUE
      BY <2>2, Zenon
    <3>2. Found(id, t) = RowsOf(fences, id)
      <4>1. \A q \in RowsOf(fences, id) : q.tenant = t
        BY <1>1, <1>2, <3>1, Zenon DEF IsLine, RowsOf
      <4>2. ~secured
        BY <3>1, Zenon DEF Found, Permitted
      <4> QED BY <4>1, <4>2, Zenon DEF Found, Permitted, RowsOf
    <3>3. n \in 1 .. n
      BY <1>1, <3>1, <3>2 DEF IsLine
    <3>4. n \in S
      BY <1>1, <3>2, <3>3 DEF IsLine
    <3> QED BY <1>3, <3>4
  <2> QED BY <2>1, <2>2, Zenon
<1>5. Latest(id, t) \in S
  <2>1. Latest(id, t) = CHOOSE x \in S : \A y \in S : x >= y
    BY Zenon DEF Latest, Max
  <2> HIDE DEF S
  <2> QED BY <1>4, <2>1, Zenon
<1> QED BY <1>2, <1>5, Zenon

(* A request changes its own state, and the fences keep what they hold. *)
LEMMA FencesKeptStep ==
  ASSUME FencesInv, admin' \in [Admins -> IdleCall \cup FenceCall], fences' \in SUBSET FenceRow,
         \A f \in FenceIds : \E n \in Nat : IsLine(RowsOf(fences', f), n),
         \A r \in fences : \E q \in fences' : q.id = r.id /\ q.tenant = r.tenant /\ q.version = r.version,
         \A a \in Admins : \/ admin'[a] = admin[a] \/ admin'[a].stage \in {"idle", "begun"}
                            \/ ExpectedExists(a)' 
  PROVE  FencesInv'
<1>1. FencesTypeOK'
  BY Zenon DEF FencesTypeOK
<1>2. ASSUME NEW a \in Admins PROVE ExpectedExists(a)'
  <2>1. CASE admin'[a] = admin[a]
    BY <2>1 DEF FencesInv, ExpectedExists
  <2>2. CASE admin'[a].stage \in {"idle", "begun"}
    BY <2>2, Zenon DEF ExpectedExists
  <2> QED BY <2>1, <2>2, Zenon
<1> QED BY <1>1, <1>2, Zenon DEF FencesInv

LEMMA AnsweredIsIdle ==
  ASSUME NEW code \in {200, 201, 404, 409, 503}
  PROVE  Answered(code) \in IdleCall /\ Answered(code).stage = "idle"
BY DEF IdleCall, Answered

LEMMA AnsweredCall ==
  ASSUME FencesInv, NEW a \in Admins, NEW x \in IdleCall, x.stage = "idle", admin' = [admin EXCEPT ![a] = x]
  PROVE  /\ admin' \in [Admins -> IdleCall \cup FenceCall]
         /\ \A b \in Admins : admin'[b] = admin[b] \/ admin'[b].stage = "idle"
BY Zenon DEF FencesInv, FencesTypeOK

LEMMA BeginStep ==
  ASSUME FencesInv, NEW a \in Admins, NEW id \in FenceIds, NEW t \in Tenants, NEW e \in Nat,
         BeginVersion(a, id, t, e)
  PROVE  FencesInv'
<1> DEFINE call == [stage |-> "begun", id |-> id, tenant |-> t, expected |-> e]
<1>1. call \in FenceCall /\ call.stage = "begun"
  BY Zenon DEF FenceCall
<1>2. admin' = [admin EXCEPT ![a] = call] /\ fences' = fences
  BY Zenon DEF BeginVersion
<1> HIDE DEF call
<1>3. admin' \in [Admins -> IdleCall \cup FenceCall]
  BY <1>1, <1>2, Zenon DEF FencesInv, FencesTypeOK
<1>4. \A b \in Admins : admin'[b] = admin[b] \/ admin'[b].stage = "begun"
  BY <1>1, <1>2, Zenon DEF FencesInv, FencesTypeOK
<1> QED BY <1>2, <1>3, <1>4, FencesKeptStep, Zenon DEF FencesInv, FencesTypeOK

LEMMA CallFields ==
  ASSUME FencesInv, NEW a \in Admins, admin[a].stage \in {"begun", "write"}
  PROVE  admin[a] \in FenceCall /\ admin[a].id \in FenceIds /\ admin[a].tenant \in Tenants /\ admin[a].expected \in Nat
<1>1. \A c \in IdleCall : c.stage = "idle"
  BY DEF IdleCall, NoCall, Answered
<1>2. admin[a] \in FenceCall
  BY <1>1, Zenon DEF FencesInv, FencesTypeOK
<1> QED BY <1>2, Zenon DEF FenceCall

LEMMA ReadVersionStep ==
  ASSUME FencesInv, NEW a \in Admins, ReadVersion(a)
  PROVE  FencesInv'
<1>1. fences' = fences /\ admin[a].stage = "begun"
  BY Zenon DEF ReadVersion
<1>2. /\ \A f \in FenceIds : \E n \in Nat : IsLine(RowsOf(fences', f), n)
      /\ fences' \in SUBSET FenceRow
      /\ \A r \in fences : \E q \in fences' : q.id = r.id /\ q.tenant = r.tenant /\ q.version = r.version
  BY <1>1, Zenon DEF FencesInv, FencesTypeOK
<1> DEFINE latest == Latest(admin[a].id, admin[a].tenant)
           call == [admin[a] EXCEPT !.stage = "write"]
<1>3. CASE ~VersionMatches(a, latest)
  <2>1. admin' = [admin EXCEPT ![a] = Answered(409)]
    BY <1>3, Zenon DEF ReadVersion
  <2> DEFINE answer == Answered(409)
  <2>2. answer \in IdleCall /\ answer.stage = "idle"
    BY AnsweredIsIdle
  <2>3. admin' = [admin EXCEPT ![a] = answer]
    BY <2>1, Zenon
  <2> HIDE DEF answer
  <2>4. /\ admin' \in [Admins -> IdleCall \cup FenceCall]
        /\ \A b \in Admins : admin'[b] = admin[b] \/ admin'[b].stage = "idle"
    BY <2>2, <2>3, AnsweredCall, Zenon
  <2> QED BY <1>2, <2>4, FencesKeptStep, Zenon
<1>4. CASE VersionMatches(a, latest)
  <2>1. admin[a] \in FenceCall /\ admin[a].id \in FenceIds
    BY <1>1, CallFields, Zenon
  <2>2. /\ call \in FenceCall /\ call.id = admin[a].id /\ call.tenant = admin[a].tenant
        /\ call.expected = admin[a].expected
    BY <2>1, Zenon DEF FenceCall
  <2>3. admin' = [admin EXCEPT ![a] = call]
    BY <1>4, Zenon DEF ReadVersion
  <2>4. admin[a].expected = 0 \/ \E r \in fences :
          r.id = admin[a].id /\ r.tenant = admin[a].tenant /\ r.version = admin[a].expected
    BY <1>4, <2>1, LatestExists DEF VersionMatches
  <2> HIDE DEF call
  <2>5. admin' \in [Admins -> IdleCall \cup FenceCall]
    BY <2>2, <2>3, Zenon DEF FencesInv, FencesTypeOK
  <2>6. \A b \in Admins : admin'[b] = IF b = a THEN call ELSE admin[b]
    BY <2>3, Zenon DEF FencesInv, FencesTypeOK
  <2>7. ExpectedExists(a)'
    BY <1>1, <2>2, <2>4, <2>6, Zenon DEF ExpectedExists
  <2>8. \A b \in Admins : admin'[b] = admin[b] \/ ExpectedExists(b)'
    BY <2>6, <2>7, Zenon
  <2> QED BY <1>2, <2>5, <2>8, FencesKeptStep, Zenon
<1> QED BY <1>3, <1>4, Zenon

(* Retiring and inserting the next version, as the request and the seed loader do. *)
LEMMA NextVersionStep ==
  ASSUME FencesInv, NEW id \in FenceIds, NEW t \in Tenants, NEW e \in Nat,
         e = 0 \/ \E r \in fences : r.id = id /\ r.tenant = t /\ r.version = e,
         fences' = NextVersion(id, t, e + 1), fences' # {}
  PROVE  /\ fences' \in SUBSET FenceRow
         /\ \A f \in FenceIds : \E n \in Nat : IsLine(RowsOf(fences', f), n)
         /\ \A r \in fences : \E q \in fences' : q.id = r.id /\ q.tenant = r.tenant /\ q.version = r.version
<1> DEFINE rows == Retired(fences, id, t)
           x == [id |-> id, version |-> e + 1, tenant |-> t, state |-> "ACTIVE"]
<1>1. fences \in SUBSET FenceRow
  BY Zenon DEF FencesInv, FencesTypeOK
<1>2. rows \in SUBSET FenceRow /\ \A r \in fences : AfterRetire(r, id, t) \in rows
  BY <1>1, RetiredRows, Zenon
<1>3. \A r \in fences : \E q \in rows : q.id = r.id /\ q.tenant = r.tenant /\ q.version = r.version
  BY <1>1, <1>2, AfterRetireRow
<1>4. fences' = Inserted(rows, x)
  BY Zenon DEF NextVersion
<1>5. x \in FenceRow /\ x.id = id /\ x.tenant = t /\ x.version = e + 1 /\ x.state = "ACTIVE"
  BY DEF FenceRow
<1> HIDE DEF rows, x
<1>6. e = 0 \/ \E r \in rows : r.id = id /\ r.tenant = t /\ r.version = e
  BY <1>3, Zenon
<1>7. ASSUME NEW f \in FenceIds
      PROVE  fences' \in SUBSET FenceRow /\ rows \subseteq fences' /\ \E m \in Nat : IsLine(RowsOf(fences', f), m)
  <2>1. PICK n \in Nat : IsLine(RowsOf(fences, f), n)
    BY Zenon DEF FencesInv
  <2>2. IsLine(RowsOf(rows, f), n)
    BY <1>1, <2>1, RetiredKeepsLines, Zenon DEF rows
  <2>3. Inserted(rows, x) # {} /\ rows \in SUBSET FenceRow
    BY <1>2, <1>4, Zenon
  <2>4. e = 0 \/ \E r \in rows : r.id = x.id /\ r.tenant = x.tenant /\ r.version = e
    BY <1>6, <1>5, Zenon
  <2> QED BY <1>4, <1>5, <2>2, <2>3, <2>4, InsertedKeepsLines, Zenon
<1>8. fences' \in SUBSET FenceRow /\ rows \subseteq fences'
  BY <1>7, Zenon
<1> QED BY <1>3, <1>7, <1>8, Zenon

LEMMA WriteVersionStep ==
  ASSUME FencesInv, NEW a \in Admins, CreateGeofenceVersion(a)
  PROVE  FencesInv'
<1> DEFINE rows == NextVersion(admin[a].id, admin[a].tenant, admin[a].expected + 1)
<1>1. admin[a].stage = "write" /\ fences' = IF rows = {} THEN fences ELSE rows
  BY Zenon DEF CreateGeofenceVersion
<1>2. PICK x \in IdleCall : x.stage = "idle" /\ admin' = [admin EXCEPT ![a] = x]
  <2> DEFINE code == IF rows = {} THEN 503 ELSE 201
  <2>1. code \in {200, 201, 404, 409, 503}
    OBVIOUS
  <2>2. admin' = [admin EXCEPT ![a] = Answered(code)]
    BY Zenon DEF CreateGeofenceVersion
  <2> HIDE DEF code
  <2>3. Answered(code) \in IdleCall /\ Answered(code).stage = "idle"
    BY <2>1, AnsweredIsIdle
  <2> QED BY <2>2, <2>3, Zenon
<1>3. /\ admin' \in [Admins -> IdleCall \cup FenceCall]
      /\ \A b \in Admins : admin'[b] = admin[b] \/ admin'[b].stage = "idle"
  BY <1>2, AnsweredCall, Zenon
<1>4. CASE rows = {}
  BY <1>1, <1>3, <1>4, FencesKeptStep, Zenon DEF FencesInv, FencesTypeOK
<1>5. CASE rows # {}
  <2>1. fences' = rows /\ fences' # {}
    BY <1>1, <1>5, Zenon
  <2>2. /\ admin[a].id \in FenceIds /\ admin[a].tenant \in Tenants /\ admin[a].expected \in Nat
    BY <1>1, CallFields, Zenon
  <2>3. admin[a].expected = 0 \/ \E r \in fences :
          r.id = admin[a].id /\ r.tenant = admin[a].tenant /\ r.version = admin[a].expected
    BY <1>1, Zenon DEF FencesInv, ExpectedExists
  <2>4. /\ fences' \in SUBSET FenceRow
        /\ \A f \in FenceIds : \E n \in Nat : IsLine(RowsOf(fences', f), n)
        /\ \A r \in fences : \E q \in fences' : q.id = r.id /\ q.tenant = r.tenant /\ q.version = r.version
    BY <2>1, <2>2, <2>3, NextVersionStep, Zenon
  <2> QED BY <1>3, <2>4, FencesKeptStep, Zenon
<1> QED BY <1>4, <1>5, Zenon

LEMMA RetireStep ==
  ASSUME FencesInv, NEW a \in Admins, NEW id \in FenceIds, NEW t \in Tenants, retireFence(a, id, t)
  PROVE  FencesInv'
<1>1. fences' = Retired(fences, id, t) /\ fences \in SUBSET FenceRow
  BY Zenon DEF retireFence, FencesInv, FencesTypeOK
<1>2. PICK x \in IdleCall : x.stage = "idle" /\ admin' = [admin EXCEPT ![a] = x]
  <2> DEFINE code == IF fences' = fences THEN 404 ELSE 200
  <2>1. code \in {200, 201, 404, 409, 503}
    OBVIOUS
  <2>2. admin' = [admin EXCEPT ![a] = Answered(code)]
    BY Zenon DEF retireFence
  <2> HIDE DEF code
  <2>3. Answered(code) \in IdleCall /\ Answered(code).stage = "idle"
    BY <2>1, AnsweredIsIdle
  <2> QED BY <2>2, <2>3, Zenon
<1>3. /\ admin' \in [Admins -> IdleCall \cup FenceCall]
      /\ \A b \in Admins : admin'[b] = admin[b] \/ admin'[b].stage = "idle"
  BY <1>2, AnsweredCall, Zenon
<1>4. fences' \in SUBSET FenceRow /\ \A r \in fences : AfterRetire(r, id, t) \in fences'
  BY <1>1, RetiredRows, Zenon
<1>5. \A r \in fences : \E q \in fences' : q.id = r.id /\ q.tenant = r.tenant /\ q.version = r.version
  BY <1>1, <1>4, AfterRetireRow
<1>6. \A f \in FenceIds : \E n \in Nat : IsLine(RowsOf(fences', f), n)
  BY <1>1, RetiredKeepsLines, Zenon DEF FencesInv
<1> QED BY <1>3, <1>4, <1>5, <1>6, FencesKeptStep, Zenon

LEMMA SeedStep ==
  ASSUME FencesInv, NEW z \in SeedZones, seedZonesFromGeoJSON(z)
  PROVE  FencesInv'
<1> DEFINE rows == NextVersion(z, SeedTenant, 1)
<1>1. admin' = admin /\ (fences' = fences \/ (fences' = rows /\ rows # {}))
  BY DEF seedZonesFromGeoJSON, SeedFirst
<1>2. z \in FenceIds /\ SeedTenant \in Tenants
  BY RegistryAssumption, Zenon
<1>3. CASE fences' = fences
  BY <1>1, <1>3, FencesKeptStep, Zenon DEF FencesInv, FencesTypeOK
<1>4. CASE fences' = rows /\ rows # {}
  <2>1. fences' = NextVersion(z, SeedTenant, 0 + 1) /\ fences' # {}
    BY <1>4
  <2>2. /\ fences' \in SUBSET FenceRow
        /\ \A f \in FenceIds : \E n \in Nat : IsLine(RowsOf(fences', f), n)
        /\ \A r \in fences : \E q \in fences' : q.id = r.id /\ q.tenant = r.tenant /\ q.version = r.version
    BY <1>2, <2>1, NextVersionStep, Zenon
  <2> QED BY <1>1, <2>2, FencesKeptStep, Zenon DEF FencesInv, FencesTypeOK
<1> QED BY <1>1, <1>3, <1>4, Zenon

LEMMA FencesStep == FencesInv /\ [RegistryNext]_registryVars => FencesInv'
<1> SUFFICES ASSUME FencesInv, [RegistryNext]_registryVars PROVE FencesInv'
  BY Zenon
<1>1. CASE UNCHANGED registryVars
  BY <1>1, FencesKeptStep, Zenon DEF registryVars, FencesInv, FencesTypeOK
<1>2. ASSUME NEW a \in Admins, NEW id \in FenceIds, NEW t \in Tenants,
             \/ createFence(a, id, t)
             \/ \E expected \in 1 .. MaxVersion - 1 : createFenceVersion(a, id, t, expected)
      PROVE  FencesInv'
  <2>1. PICK e \in Nat : BeginVersion(a, id, t, e)
    BY <1>2, RegistryAssumption DEF createFence, createFenceVersion
  <2> QED BY <2>1, BeginStep, Zenon
<1>3. CASE Restart
  <2>1. fences' = fences /\ admin' = [a \in Admins |-> NoCall]
    BY <1>3, Zenon DEF Restart
  <2>2. admin' \in [Admins -> IdleCall \cup FenceCall] /\ \A a \in Admins : admin'[a].stage = "idle"
    BY <2>1 DEF IdleCall, NoCall
  <2> QED BY <2>1, <2>2, FencesKeptStep, Zenon DEF FencesInv, FencesTypeOK
<1> QED BY <1>1, <1>2, <1>3, ReadVersionStep, WriteVersionStep, RetireStep, SeedStep, Zenon DEF RegistryNext

LEMMA FencesInvariant == RegistrySpec => []FencesInv
BY FencesInitInv, FencesStep, PTL DEF RegistrySpec

(***************************************************************************)
(* The versions of every geofence are 1, 2, ... without a gap, of one      *)
(* tenant, and only the last may be ACTIVE, whatever concurrent requests   *)
(* create, version and retire it, for any number of requests, fences,      *)
(* tenants, versions and restarts, with and without row security.          *)
(***************************************************************************)
THEOREM FenceVersionsAreALine == RegistrySpec => []VersionsAreALine
<1>1. FencesInv => VersionsAreALine
  <2> SUFFICES ASSUME FencesInv, NEW id \in FenceIds
               PROVE  LET rows == {r \in fences : r.id = id} IN
                        /\ \A r \in rows : r.version >= 1 /\ \A v \in 1 .. r.version : \E q \in rows : q.version = v
                        /\ \A r, q \in rows : r.version = q.version => r = q
                        /\ \A r, q \in rows : r.tenant = q.tenant
                        /\ \A r, q \in rows : r.state = "ACTIVE" => q.version <= r.version
    BY Zenon DEF VersionsAreALine
  <2> DEFINE rows == RowsOf(fences, id)
  <2>1. PICK n \in Nat : IsLine(rows, n)
    BY Zenon DEF FencesInv
  <2> HIDE DEF rows
  <2>2. \A r \in rows : r.version \in 1 .. n
    BY <2>1, Zenon DEF IsLine
  <2>3. \A r \in rows : r.version >= 1 /\ \A v \in 1 .. r.version : \E q \in rows : q.version = v
    <3> TAKE r \in rows
    <3>1. r.version >= 1 /\ \A v \in 1 .. r.version : v \in 1 .. n
      BY <2>2
    <3> QED BY <2>1, <3>1, Zenon DEF IsLine
  <2>4. \A r, q \in rows : r.state = "ACTIVE" => q.version <= r.version
    BY <2>1, <2>2 DEF IsLine
  <2>5. \A r, q \in rows : /\ r.version = q.version => r = q
                           /\ r.tenant = q.tenant
    BY <2>1, Zenon DEF IsLine
  <2> QED BY <2>3, <2>4, <2>5, Zenon DEF rows, RowsOf
<1> QED BY <1>1, FencesInvariant, PTL

SeedingStep == toSeed' # toSeed => \A r \in fences : r \in fences'

(***************************************************************************)
(* The seed loader and a restart of the service change no geofence that    *)
(* exists, for any seed file and any fences an operator has retired or     *)
(* replaced in the meantime.                                               *)
(***************************************************************************)
THEOREM SeedingKeepsFences == RegistrySpec => SeedingIsIdempotent
<1>1. [RegistryNext]_registryVars => [SeedingStep]_registryVars
  <2> SUFFICES ASSUME RegistryNext, toSeed' # toSeed PROVE \A r \in fences : r \in fences'
    BY Zenon DEF SeedingStep
  <2>1. CASE Restart
    BY <2>1, Zenon DEF Restart
  <2>2. ASSUME NEW z \in SeedZones, seedZonesFromGeoJSON(z) PROVE \A r \in fences : r \in fences'
    <3>1. CASE Found(z, SeedTenant) # {}
      BY <2>2, <3>1, Zenon DEF seedZonesFromGeoJSON, SeedFirst
    <3>2. CASE Found(z, SeedTenant) = {}
      <4> DEFINE x == [id |-> z, version |-> 1, tenant |-> SeedTenant, state |-> "ACTIVE"]
      <4>1. fences' = Inserted(Retired(fences, z, SeedTenant), x) /\ fences' # {}
        BY <2>2, <3>2 DEF seedZonesFromGeoJSON, SeedFirst, NextVersion
      <4>2. Retired(fences, z, SeedTenant) = fences
        BY <3>2, Zenon DEF Retired
      <4> HIDE DEF x
      <4> QED BY <4>1, <4>2, Zenon DEF Inserted
    <3> QED BY <3>1, <3>2, Zenon
  <2>3. ASSUME NEW a \in Admins, NEW id, NEW t,
               createFence(a, id, t) \/ retireFence(a, id, t) \/ ReadVersion(a) \/ CreateGeofenceVersion(a)
                 \/ \E expected \in 1 .. MaxVersion - 1 : createFenceVersion(a, id, t, expected)
        PROVE  FALSE
    BY <2>3, Zenon DEF createFence, createFenceVersion, BeginVersion, retireFence, ReadVersion, CreateGeofenceVersion
  <2> QED BY <2>1, <2>2, <2>3, Zenon DEF RegistryNext
<1> QED BY <1>1, PTL DEF RegistrySpec, SeedingIsIdempotent, SeedingStep
================================================================================
