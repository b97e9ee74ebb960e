-------------------------- MODULE FenceIngestProofs --------------------------
(***************************************************************************)
(* Proofs about FenceIngest, for every number of workers, vessels, fences  *)
(* and reports, with fence versions that change, failures and restarts:    *)
(* what the topic and the table of transitions may hold.                   *)
(***************************************************************************)
EXTENDS FenceIngest, TLAPS

(* Reports of a vessel are told apart by their time. *)
DistinctTimes == \A r, s \in Reports : r.vessel = s.vessel /\ r.at = s.at => r = s

Events == [vessel : Vessels, fence : Fences, version : Versions, type : EventTypes, at : Nat, call : Nat]

Calls == [pc : {"idle", "announce", "persist"}, item : SUBSET Events, events : SUBSET Events]

TypeOK ==
  /\ version \in [Fences -> Versions]
  /\ active \in [Fences -> Versions \cup {0}] /\ cached \in [Fences -> Versions \cup {0}]
  /\ state \in [Vessels -> [Fences -> FenceStates]]
  /\ last \in [Vessels -> Nat]
  /\ call \in [Workers -> Calls]
  /\ announced \in Seq(Events) /\ persisted \in SUBSET Events
  /\ calls \in [Reports -> Nat] /\ faults \in Nat /\ restarts \in Nat

(* The transition is of the pair and the time of some report, and says where the version saw it. *)
Origin(e) == \E r \in Reports : /\ r.vessel = e.vessel /\ r.at = e.at
                                /\ e.type = "EXIT" <=> ~Inside(r, e.fence, e.version)

Running == {call[w] : w \in Workers}

Vetted(e) == Origin(e) /\ e.version \in 1 .. version[e.fence]

(* One transition of a version, whichever delivery it was emitted for. *)
Same(x, e) ==
  /\ x.vessel = e.vessel /\ x.fence = e.fence /\ x.version = e.version
  /\ x.type = e.type /\ x.at = e.at

(* A call's transition in hand is on the topic, those still to announce are not repeated. *)
CallOK(c) ==
  /\ c.item \subseteq Topic
  /\ \A e \in c.events : Vetted(e) /\ \A x \in c.events : Same(x, e) => x = e
  /\ c.pc # "persist" => c.item = {}
  /\ c.pc = "idle" => c.events = {}

(***************************************************************************)
(* Transitions in hand are on the topic, those still to announce are not   *)
(* repeated within a call, and all of them cite a version of their fence.  *)
(***************************************************************************)
TransitInv ==
  /\ TypeOK
  /\ \A f \in Fences : active[f] \in {0, version[f]} /\ cached[f] <= version[f]
  /\ persisted \subseteq Topic
  /\ \A e \in Topic : Vetted(e)
  /\ \A c \in Running : CallOK(c)

(* The workers that have still to announce e. *)
Pending(e) == {w \in Workers : \E x \in call[w].events : Same(x, e)}

(* Version n of fence f has been in use, and is not and will not be in use again. *)
Past(f, n) ==
  /\ n <= version[f]
  /\ active[f] = 0 \/ n < active[f]
  /\ loaded => cached[f] = 0 \/ n < cached[f]

(* The engine cannot emit e again: it has seen a later report, or e's version is past, or it agrees with e. *)
Spent(e) ==
  LET st == state[e.vessel][e.fence]
  IN  \/ last[e.vessel] > e.at
      \/ Past(e.fence, e.version)
      \/ /\ last[e.vessel] = e.at /\ cached[e.fence] = e.version
         /\ st.inside <=> e.type # "EXIT"
         /\ e.type = "DWELL" => st.dwellEmitted

Emissions(e) == restarts + (IF Spent(e) THEN 1 ELSE 0)

(* The announcements of e, made and to be made, number at most its emissions. *)
Bounded(e) ==
  /\ IsFiniteSet(Occurrences(e)) /\ IsFiniteSet(Pending(e))
  /\ Cardinality(Occurrences(e)) + Cardinality(Pending(e)) <= Emissions(e)

OnceInv == \A e \in Events : Origin(e) => Bounded(e)

(* The crossings of a pair that have a row or are still to have one. *)
Held(c) == c.item \cup c.events
Known == persisted \cup UNION {Held(c) : c \in Running}
Told(v, f) == Crossings(Known, v, f)

(* The crossings told of one pair agree with the engine, and none is of a version to come. *)
Agrees(v, f) ==
  /\ \A e \in Told(v, f) : e.at <= last[v] /\ (Past(f, e.version) \/ cached[f] = e.version)
  /\ Alternates(Told(v, f))
  /\ state[v][f].inside <=> EndsInside(Told(v, f))

RowsInv == (faults = 0 /\ restarts = 0) => \A v \in Vessels, f \in Fences : Agrees(v, f)

-----------------------------------------------------------------------------
(* The engine's rules for one pair. *)

(* The memory after a report says where the vessel was; a crossing is emitted for a change of it. *)
Crosses(st, inside, new, types) ==
  /\ new \in FenceStates /\ (new.inside <=> inside)
  /\ types \subseteq EventTypes
  /\ "ENTER" \in types <=> inside /\ ~st.inside
  /\ "EXIT" \in types <=> ~inside /\ st.inside
  /\ "DWELL" \in types => inside /\ new.dwellEmitted /\ ~(st.inside /\ st.dwellEmitted)
  /\ inside /\ st.inside /\ st.dwellEmitted => new.dwellEmitted

LEMMA FoldCrosses ==
  ASSUME NEW st \in FenceStates, NEW inside \in BOOLEAN, NEW speed \in Int, NEW at \in Nat,
         NEW threshold \in Nat, NEW gate \in Nat
  PROVE  Crosses(st, inside, Fold(st, inside, speed, at, threshold, gate),
                 Emits(st, inside, speed, at, threshold, gate))
<1> DEFINE new == Fold(st, inside, speed, at, threshold, gate)
           types == Emits(st, inside, speed, at, threshold, gate)
           crossed == Cross(st, inside, at)
           counts == Counts(crossed, inside, speed, threshold, gate)
           dwells == Dwells(st, inside, speed, at, threshold, gate)
           since == SlowSince(crossed, at)
<1>1. crossed \in FenceStates /\ (crossed.inside <=> inside) /\ (inside /\ st.inside => crossed = st)
  BY Zenon DEF Cross, FenceStates
<1>2. dwells \in BOOLEAN /\ (dwells => counts)
  BY Zenon DEF Dwells, Counts
<1>3. counts => inside /\ ~crossed.dwellEmitted
  BY Zenon DEF Counts
<1>4. new = IF counts THEN [crossed EXCEPT !.slowSince = since, !.dwellEmitted = dwells]
            ELSE IF inside /\ speed > gate THEN [crossed EXCEPT !.slowSince = 0] ELSE crossed
  BY Zenon DEF Fold
<1>5. types = (IF inside /\ ~st.inside THEN {"ENTER"} ELSE {})
              \cup (IF ~inside /\ st.inside THEN {"EXIT"} ELSE {}) \cup (IF dwells THEN {"DWELL"} ELSE {})
  BY Zenon DEF Emits
<1> HIDE DEF counts, dwells, new, types
<1>6. /\ types \subseteq EventTypes
      /\ "ENTER" \in types <=> inside /\ ~st.inside
      /\ "EXIT" \in types <=> ~inside /\ st.inside
      /\ "DWELL" \in types <=> dwells
  BY <1>2, <1>5, Zenon DEF EventTypes
<1>7. since \in Nat
  BY <1>1, Zenon DEF SlowSince, FenceStates
<1> HIDE DEF crossed, since
<1>8. new \in FenceStates /\ (new.inside <=> crossed.inside)
  <2>1. CASE counts
    BY <1>1, <1>2, <1>4, <1>7, <2>1, Zenon DEF FenceStates
  <2>2. CASE ~counts
    BY <1>1, <1>4, <2>2, 0 \in Nat, Zenon DEF FenceStates
  <2> QED BY <2>1, <2>2, Zenon
<1>9. dwells => new.dwellEmitted
  BY <1>1, <1>2, <1>4, Zenon DEF FenceStates
<1>10. crossed.dwellEmitted => new.dwellEmitted
  BY <1>1, <1>3, <1>4, Zenon DEF FenceStates
<1> QED BY <1>1, <1>2, <1>3, <1>6, <1>8, <1>9, <1>10, Zenon DEF Crosses, new, types

(* The transitions that a report emits, one record for each fence in use and type. *)
LEMMA Emitted ==
  ASSUME TypeOK, NEW r \in Reports, NEW fences \in [Fences -> Versions \cup {0}]
  PROVE  /\ \A e \in Transitions(r, fences) :
              /\ e \in Events /\ e.vessel = r.vessel /\ e.at = r.at
              /\ e.version = fences[e.fence] /\ e.version # 0 /\ e.call = calls[r]
              /\ e.type \in EmitsUnder(r, e.fence, fences[e.fence])
         /\ \A f \in Fences, t \in EventTypes :
              /\ fences[f] # 0
              /\ t \in EmitsUnder(r, f, fences[f])
              => \E e \in Transitions(r, fences) : e.fence = f /\ e.type = t
<1> DEFINE emits(f) == EmitsUnder(r, f, fences[f])
           event(p) == [vessel |-> r.vessel, fence |-> p[1], version |-> fences[p[1]], type |-> p[2],
                        at |-> r.at, call |-> calls[r]]
           Pairs == {q \in Fences \X EventTypes : fences[q[1]] # 0 /\ q[2] \in emits(q[1])}
<1>1. Transitions(r, fences) = {event(p) : p \in Pairs}
  BY Zenon DEF Transitions
<1>2. r.vessel \in Vessels /\ r.at \in Nat /\ calls[r] \in Nat
  <2>1. r.vessel \in Vessels /\ r.at \in Nat
    BY FenceIngestAssumption, Zenon DEF Vessels
  <2> QED BY <2>1, Zenon DEF TypeOK
<1>3. ASSUME NEW e \in Transitions(r, fences)
      PROVE  /\ e \in Events /\ e.vessel = r.vessel /\ e.at = r.at
             /\ e.version = fences[e.fence] /\ e.version # 0 /\ e.call = calls[r]
             /\ e.type \in emits(e.fence)
  <2>1. PICK p \in Pairs : e = event(p)
    BY <1>1, Zenon
  <2>2. p[1] \in Fences /\ p[2] \in EventTypes /\ fences[p[1]] # 0 /\ p[2] \in emits(p[1])
    <3> HIDE DEF emits
    <3> QED BY Zenon
  <2> HIDE DEF emits
  <2>3. fences[p[1]] \in Versions
    BY <2>2, Zenon
  <2>4. e.vessel = r.vessel /\ e.fence = p[1] /\ e.version = fences[p[1]] /\ e.type = p[2] /\ e.at = r.at
        /\ e.call = calls[r]
    BY <2>1, Zenon
  <2>5. e \in Events
    BY <1>2, <2>1, <2>2, <2>3, Zenon DEF Events
  <2> QED BY <2>2, <2>4, <2>5, Zenon
<1>4. ASSUME NEW f \in Fences, NEW t \in EventTypes, fences[f] # 0, t \in emits(f)
      PROVE  \E e \in Transitions(r, fences) : e.fence = f /\ e.type = t
  <2>1. <<f, t>> \in Pairs
    <3> HIDE DEF emits
    <3> QED BY <1>4, Zenon
  <2>2. event(<<f, t>>) \in Transitions(r, fences)
    BY <1>1, <2>1, Zenon
  <2>3. event(<<f, t>>).fence = f /\ event(<<f, t>>).type = t
    BY Zenon
  <2> QED BY <2>2, <2>3, Zenon
<1> QED BY <1>3, <1>4, Zenon

(* A transition of report r is new to the memory before it and known to the memory after it. *)
Emission(e, r, before, after) ==
  /\ e \in Events /\ e.vessel = r.vessel /\ e.at = r.at
  /\ e.type = "EXIT" <=> ~Inside(r, e.fence, e.version)
  /\ after[e.fence].inside <=> e.type # "EXIT"
  /\ e.type # "DWELL" => (before[e.fence].inside <=> e.type = "EXIT")
  /\ e.type = "DWELL" => after[e.fence].dwellEmitted
  /\ e.type = "DWELL" => ~(before[e.fence].inside /\ before[e.fence].dwellEmitted)

(***************************************************************************)
(* What Observe does to a vessel's memory, and how the transitions it      *)
(* emits tell of that: no change of membership is left out.                *)
(***************************************************************************)
Observes(r, fences, before, events, after) ==
  /\ after \in [Fences -> FenceStates]
  /\ \A e \in events : Emission(e, r, before, after) /\ e.version = fences[e.fence] /\ e.version # 0
  /\ \A e, x \in events : Same(x, e) => x = e
  /\ \A f \in Fences :
       \/ after[f] = before[f]
       \/ /\ fences[f] # 0
          /\ after[f].inside <=> Inside(r, f, fences[f])
          /\ Inside(r, f, fences[f]) /\ before[f].inside /\ before[f].dwellEmitted => after[f].dwellEmitted
  /\ \A f \in Fences : ~(after[f].inside <=> before[f].inside)
                         => \E e \in events : e.fence = f /\ e.type # "DWELL"

LEMMA Observed ==
  ASSUME TypeOK, NEW r \in Reports, NEW fences \in [Fences -> Versions \cup {0}]
  PROVE  Observes(r, fences, state[r.vessel], Transitions(r, fences), Folded(r, fences))
<1> DEFINE before == state[r.vessel]
           E == Transitions(r, fences)
           S == Folded(r, fences)
           emits(f) == EmitsUnder(r, f, fences[f])
           fold(f) == FoldUnder(r, f, fences[f])
<1>1. before \in [Fences -> FenceStates]
  <2>1. r.vessel \in Vessels
    BY Zenon DEF Vessels
  <2> QED BY <2>1, Zenon DEF TypeOK
<1>2. ASSUME NEW f \in Fences, fences[f] # 0
      PROVE  /\ fold(f) \in FenceStates /\ (fold(f).inside <=> Inside(r, f, fences[f]))
             /\ emits(f) \subseteq EventTypes
             /\ "ENTER" \in emits(f) <=> Inside(r, f, fences[f]) /\ ~before[f].inside
             /\ "EXIT" \in emits(f) <=> ~Inside(r, f, fences[f]) /\ before[f].inside
             /\ "DWELL" \in emits(f) => Inside(r, f, fences[f]) /\ fold(f).dwellEmitted
             /\ "DWELL" \in emits(f) => ~(before[f].inside /\ before[f].dwellEmitted)
             /\ Inside(r, f, fences[f]) /\ before[f].inside /\ before[f].dwellEmitted => fold(f).dwellEmitted
  <2>1. before[f] \in FenceStates
    BY <1>1, Zenon
  <2> DEFINE n == fences[f]
             inside == Inside(r, f, n)
  <2>2. r.speed \in Int /\ r.at \in Nat /\ Threshold[f, n] \in Nat /\ Gate[f, n] \in Nat
    <3>1. n \in Versions
      BY <1>2, Zenon
    <3> QED BY <3>1, FenceIngestAssumption, Zenon
  <2>3. inside \in BOOLEAN
    BY DEF Inside
  <2>4. /\ fold(f) = Fold(before[f], inside, r.speed, r.at, Threshold[f, n], Gate[f, n])
        /\ emits(f) = Emits(before[f], inside, r.speed, r.at, Threshold[f, n], Gate[f, n])
    BY Zenon DEF FoldUnder, EmitsUnder
  <2> HIDE DEF fold, emits, inside
  <2>5. Crosses(before[f], inside, fold(f), emits(f))
    BY <2>1, <2>2, <2>3, <2>4, FoldCrosses, Zenon
  <2> QED BY <2>5, Zenon DEF Crosses, inside
<1>3. \A f \in Fences : S[f] = IF fences[f] # 0 THEN fold(f) ELSE before[f]
  BY Zenon DEF Folded
<1>4. /\ \A e \in E :
           /\ e \in Events /\ e.vessel = r.vessel /\ e.at = r.at
           /\ e.version = fences[e.fence] /\ e.version # 0 /\ e.call = calls[r]
           /\ e.type \in emits(e.fence)
      /\ \A f \in Fences, t \in EventTypes : fences[f] # 0 /\ t \in emits(f) => \E e \in E : e.fence = f /\ e.type = t
  BY Emitted
<1>5. S = [f \in Fences |-> IF fences[f] # 0 THEN fold(f) ELSE before[f]]
  BY Zenon DEF Folded
<1> HIDE DEF emits, fold, before, E, S
<1>6. S \in [Fences -> FenceStates]
  BY <1>1, <1>2, <1>5, Zenon
<1>7. ASSUME NEW e \in E
      PROVE  /\ Emission(e, r, before, S) /\ e.version = fences[e.fence] /\ e.version # 0
             /\ \A x \in E : Same(x, e) => x = e
  <2>1. /\ e \in Events /\ e.vessel = r.vessel /\ e.at = r.at
        /\ e.version = fences[e.fence] /\ e.version # 0 /\ e.call = calls[r]
        /\ e.type \in emits(e.fence)
    BY <1>4, Zenon
  <2>2. e.fence \in Fences /\ e.type \in {"ENTER", "EXIT", "DWELL"}
    BY <2>1, Zenon DEF Events, EventTypes
  <2>3. S[e.fence] = fold(e.fence)
    BY <1>3, <2>1, <2>2, Zenon
  <2>4. ASSUME NEW x \in E, Same(x, e) PROVE x = e
    <3>1. /\ x \in Events /\ x.vessel = r.vessel /\ x.at = r.at
          /\ x.version = fences[x.fence] /\ x.call = calls[r] /\ x.fence = e.fence /\ x.type = e.type
      BY <1>4, <2>4, Zenon DEF Same
    <3>2. x.version = e.version /\ x.call = e.call /\ x.vessel = e.vessel /\ x.at = e.at
      BY <2>1, <3>1, Zenon
    <3> QED BY <2>1, <3>1, <3>2 DEF Events
  <2>5. "ENTER" # "EXIT" /\ "ENTER" # "DWELL" /\ "EXIT" # "DWELL"
    BY Zenon
  <2> QED BY <1>2, <2>1, <2>2, <2>3, <2>4, <2>5, Zenon DEF Emission
<1>8. ASSUME NEW f \in Fences
      PROVE  \/ S[f] = before[f]
             \/ /\ fences[f] # 0 /\ (S[f].inside <=> Inside(r, f, fences[f]))
                /\ Inside(r, f, fences[f]) /\ before[f].inside /\ before[f].dwellEmitted => S[f].dwellEmitted
  BY <1>2, <1>3, Zenon
<1>9. ASSUME NEW f \in Fences, ~(S[f].inside <=> before[f].inside)
      PROVE  \E e \in E : e.fence = f /\ e.type # "DWELL"
  <2>1. fences[f] # 0 /\ S[f] = fold(f)
    BY <1>3, <1>9, Zenon
  <2>2. "ENTER" \in emits(f) \/ "EXIT" \in emits(f)
    BY <1>2, <1>9, <2>1, Zenon
  <2>3. "ENTER" \in EventTypes /\ "EXIT" \in EventTypes /\ "ENTER" # "DWELL" /\ "EXIT" # "DWELL"
    BY Zenon DEF EventTypes
  <2>4. \A t \in EventTypes : t \in emits(f) => \E e \in E : e.fence = f /\ e.type = t
    BY <1>4, <2>1, Zenon
  <2> QED BY <2>2, <2>3, <2>4, Zenon
<1> QED BY <1>6, <1>7, <1>8, <1>9, Zenon DEF Observes, before, E, S

-----------------------------------------------------------------------------
(* Types. *)

LEMMA IdleCall == Idle \in Calls /\ Idle.pc = "idle" /\ Idle.item = {} /\ Idle.events = {}
BY Zenon DEF Idle, Calls

LEMMA NewState == NewFenceState \in FenceStates /\ ~NewFenceState.inside
BY Zenon DEF NewFenceState, FenceStates

LEMMA VersionTypes ==
  ASSUME TypeOK
  PROVE  /\ \A f \in Fences : version[f] \in Nat /\ active[f] \in Nat /\ cached[f] \in Nat
         /\ Versions \subseteq Nat
<1>1. Versions \subseteq Nat
  <2>1. MaxVersions \in Nat
    BY FenceIngestAssumption, Zenon
  <2> QED BY <2>1 DEF Versions
<1>2. 0 \in Nat
  OBVIOUS
<1> QED BY <1>1, <1>2, Zenon DEF TypeOK

LEMMA FencesInUse ==
  ASSUME TypeOK
  PROVE  CurrentFences \in [Fences -> Versions \cup {0}]
BY Zenon DEF TypeOK, CurrentFences

(* The topic after one more envelope. *)
LEMMA TopicGrows ==
  ASSUME announced \in Seq(Events), NEW e \in Events, announced' = Append(announced, e)
  PROVE  /\ announced' \in Seq(Events) /\ Topic' = Topic \cup {e}
         /\ Len(announced) + 1 \in DOMAIN announced' /\ announced'[Len(announced) + 1] = e
         /\ Len(announced) + 1 \notin DOMAIN announced
         /\ \A i : i \in DOMAIN announced' <=> i \in DOMAIN announced \/ i = Len(announced) + 1
         /\ \A i \in DOMAIN announced : announced'[i] = announced[i]
<1>1. /\ announced' \in Seq(Events)
      /\ Len(announced) + 1 \in DOMAIN announced' /\ announced'[Len(announced) + 1] = e
      /\ Len(announced) + 1 \notin DOMAIN announced
      /\ \A i : i \in DOMAIN announced' <=> i \in DOMAIN announced \/ i = Len(announced) + 1
      /\ \A i \in DOMAIN announced : announced'[i] = announced[i]
  OBVIOUS
<1>2. \A x : x \in Topic' <=> x \in Topic \/ x = e
  <2>1. \A x : x \in Topic <=> \E i \in DOMAIN announced : announced[i] = x
    BY Zenon DEF Topic
  <2>2. \A x : x \in Topic' <=> \E i \in DOMAIN announced' : announced'[i] = x
    BY Zenon DEF Topic
  <2>3. ASSUME NEW x, x \in Topic' PROVE x \in Topic \/ x = e
    <3>1. PICK i \in DOMAIN announced' : announced'[i] = x
      BY <2>2, <2>3, Zenon
    <3> QED BY <1>1, <2>1, <3>1, Zenon
  <2>4. ASSUME NEW x, x \in Topic PROVE x \in Topic'
    <3>1. PICK i \in DOMAIN announced : announced[i] = x
      BY <2>1, <2>4, Zenon
    <3>2. i \in DOMAIN announced' /\ announced'[i] = x
      BY <1>1, <3>1, Zenon
    <3> QED BY <2>2, <3>2, Zenon
  <2>5. e \in Topic'
    BY <1>1, <2>2, Zenon
  <2> QED BY <2>3, <2>4, <2>5, Zenon
<1> QED BY <1>1, <1>2, Zenon

(* The steps of a call that announces or persists, by what they do to it. *)
LEMMA TypeAnnounce ==
  ASSUME TypeOK, NEW w \in Workers, Announce(w)
  PROVE  TypeOK' /\ UNCHANGED <<table, evaluator, persisted, calls, restarts>>
<1>1. UNCHANGED <<table, evaluator, persisted, calls, restarts>>
  BY Zenon DEF Announce
<1>2. PICK event \in Foremost(call[w].events) :
        \/ announced' = Append(announced, event) /\ TakeUp(w, event) /\ UNCHANGED faults
        \/ announced' \in {announced, Append(announced, event)} /\ Fail(w)
  BY Zenon DEF Announce
<1>3. call \in [Workers -> Calls] /\ call[w].events \in SUBSET Events
  BY Zenon DEF TypeOK, Calls
<1>4. event \in Events
  BY <1>3, Zenon DEF Foremost
<1>5. announced' \in Seq(Events)
  <2>1. announced' = announced \/ announced' = Append(announced, event)
    BY <1>2, Zenon
  <2>2. announced \in Seq(Events)
    BY Zenon DEF TypeOK
  <2> QED BY <1>4, <2>1, <2>2
<1>6. call' \in [Workers -> Calls]
  <2>1. CASE TakeUp(w, event)
    BY <1>3, <1>4, <2>1, Zenon DEF TakeUp, Calls
  <2>2. CASE Fail(w)
    BY <1>3, <2>2, IdleCall, Zenon DEF Fail
  <2> QED BY <1>2, <2>1, <2>2, Zenon
<1>7. faults' \in Nat
  BY <1>2 DEF Fail, TypeOK
<1> QED BY <1>1, <1>5, <1>6, <1>7, Zenon DEF TypeOK, table, evaluator

LEMMA TypePersist ==
  ASSUME TypeOK, NEW w \in Workers, Persist(w)
  PROVE  TypeOK' /\ UNCHANGED <<table, evaluator, announced, calls, restarts>>
<1>1. UNCHANGED <<table, evaluator, announced, calls, restarts>>
  BY Zenon DEF Persist
<1>2. call \in [Workers -> Calls] /\ call[w] \in Calls /\ call[w].item \in SUBSET Events
  BY Zenon DEF TypeOK, Calls
<1>3. persisted' \in SUBSET Events
  <2>1. persisted' = persisted \/ persisted' = persisted \cup call[w].item
    BY Zenon DEF Persist
  <2> QED BY <1>2, <2>1, Zenon DEF TypeOK
<1>4. call' \in [Workers -> Calls]
  <2>1. CASE Fail(w)
    BY <1>2, <2>1, IdleCall, Zenon DEF Fail
  <2>2. CASE ~Fail(w)
    <3>1. call' = [call EXCEPT ![w] = IF call[w].events = {} THEN Idle
                                      ELSE [call[w] EXCEPT !.pc = "announce", !.item = {}]]
      BY <2>2, Zenon DEF Persist
    <3>2. [call[w] EXCEPT !.pc = "announce", !.item = {}] \in Calls
      BY <1>2, Zenon DEF Calls
    <3> QED BY <1>2, <3>1, <3>2, IdleCall, Zenon
  <2> QED BY <2>1, <2>2, Zenon
<1>5. faults' \in Nat
  <2>1. faults' = faults \/ faults' = faults + 1
    BY Zenon DEF Persist, Fail
  <2> QED BY <2>1 DEF TypeOK
<1> QED BY <1>1, <1>3, <1>4, <1>5, Zenon DEF TypeOK, table, evaluator

LEMMA TypeObserve ==
  ASSUME TypeOK, NEW w \in Workers, NEW r \in Reports, ObservePosition(w, r)
  PROVE  TypeOK' /\ UNCHANGED <<table, announced, persisted, restarts>>
<1>1. UNCHANGED <<table, announced, persisted, restarts>> /\ calls' = [calls EXCEPT ![r] = @ + 1]
  BY Zenon DEF ObservePosition
<1>2. calls' \in [Reports -> Nat]
  BY <1>1 DEF TypeOK
<1> DEFINE fences == CurrentFences
           events == IF InOrder(r) THEN Transitions(r, fences) ELSE {}
<1>3. fences \in [Fences -> Versions \cup {0}] /\ r.vessel \in Vessels /\ r.at \in Nat
  BY FencesInUse, FenceIngestAssumption, Zenon DEF Vessels
<1>4. Folded(r, fences) \in [Fences -> FenceStates] /\ Transitions(r, fences) \subseteq Events
  <2> HIDE DEF fences
  <2> QED BY <1>3, Observed, Zenon DEF Observes, Emission
<1>5. CASE UNCHANGED <<evaluator, call>> /\ faults' = faults + 1
  <2>1. faults' \in Nat
    BY <1>5 DEF TypeOK
  <2> QED BY <1>1, <1>2, <1>5, <2>1, Zenon DEF TypeOK, table, evaluator
<1>6. CASE /\ cached' = fences /\ loaded' = TRUE
           /\ IF InOrder(r)
              THEN /\ state' = [state EXCEPT ![r.vessel] = Folded(r, fences)]
                   /\ last' = [last EXCEPT ![r.vessel] = r.at]
              ELSE UNCHANGED <<state, last>>
           /\ call' = [call EXCEPT ![w] = IF events = {} THEN Idle
                                          ELSE [pc |-> "announce", item |-> {}, events |-> events]]
           /\ UNCHANGED faults
  <2>1. events \in SUBSET Events
    BY <1>4, Zenon
  <2>2. [pc |-> "announce", item |-> {}, events |-> events] \in Calls
    <3> HIDE DEF events
    <3> QED BY <2>1, Zenon DEF Calls
  <2> HIDE DEF fences, events
  <2>3. state' \in [Vessels -> [Fences -> FenceStates]] /\ last' \in [Vessels -> Nat]
    BY <1>3, <1>4, <1>6, Zenon DEF TypeOK
  <2>4. call' \in [Workers -> Calls]
    BY <1>6, <2>2, IdleCall, Zenon DEF TypeOK
  <2> QED BY <1>1, <1>2, <1>3, <1>6, <2>3, <2>4, Zenon DEF TypeOK, table
<1> QED BY <1>5, <1>6, Zenon DEF ObservePosition

LEMMA TypeNext ==
  ASSUME TypeOK, [Next]_vars
  PROVE  TypeOK'
<1>1. ASSUME NEW f \in Fences, CreateGeofenceVersion(f) PROVE TypeOK'
  <2>1. version[f] + 1 \in Versions
    <3>1. version[f] \in Versions /\ version[f] < MaxVersions /\ MaxVersions \in Nat
      BY <1>1, FenceIngestAssumption, Zenon DEF CreateGeofenceVersion, TypeOK
    <3> QED BY <3>1 DEF Versions
  <2>2. version' \in [Fences -> Versions] /\ active' \in [Fences -> Versions \cup {0}]
    BY <1>1, <2>1, Zenon DEF CreateGeofenceVersion, TypeOK
  <2> QED BY <1>1, <2>2, Zenon DEF CreateGeofenceVersion, TypeOK, evaluator
<1>2. ASSUME NEW f \in Fences, RetireGeofence(f) PROVE TypeOK'
  <2>1. active' \in [Fences -> Versions \cup {0}]
    BY <1>2, Zenon DEF RetireGeofence, TypeOK
  <2> QED BY <1>2, <2>1, Zenon DEF RetireGeofence, TypeOK, evaluator
<1>3. CASE GoStale
  BY <1>3, Zenon DEF GoStale, TypeOK, table
<1>4. CASE Restart
  <2>1. cached' \in [Fences -> Versions \cup {0}] /\ last' \in [Vessels -> Nat] /\ restarts' \in Nat
    BY <1>4 DEF Restart, TypeOK
  <2>2. state' \in [Vessels -> [Fences -> FenceStates]] /\ call' \in [Workers -> Calls]
    BY <1>4, IdleCall, NewState, Zenon DEF Restart
  <2> QED BY <1>4, <2>1, <2>2, Zenon DEF Restart, TypeOK, table
<1>5. CASE UNCHANGED vars
  BY <1>5, Zenon DEF vars, TypeOK
<1> QED BY <1>1, <1>2, <1>3, <1>4, <1>5, TypeObserve, TypeAnnounce, TypePersist, Zenon DEF Next

-----------------------------------------------------------------------------
(* What the steps of a call do, as far as the invariants tell them apart. *)

(* A call has a transition in hand only while it persists it; one that ends has none left to announce. *)
Settled(d) == d \in Calls /\ (d.pc # "persist" => d.item = {}) /\ (d.pc = "idle" => d.events = {})

LEMMA OneCall ==
  ASSUME call \in [Workers -> Calls], NEW w \in Workers, NEW d, call' = [call EXCEPT ![w] = d]
  PROVE  /\ call'[w] = d /\ \A u \in Workers : u # w => call'[u] = call[u]
         /\ \A c \in Running' : c \in Running \/ c = d
<1>1. call'[w] = d /\ \A u \in Workers : u # w => call'[u] = call[u]
  BY Zenon
<1> QED BY <1>1, Zenon DEF Running

LEMMA ObserveCases ==
  ASSUME TypeOK, NEW w \in Workers, NEW r \in Reports, ObservePosition(w, r)
  PROVE  \/ UNCHANGED <<evaluator, call>> /\ faults' = faults + 1
         \/ \E d \in Calls :
              /\ Settled(d) /\ d.item = {} /\ cached' = CurrentFences /\ faults' = faults
              /\ call[w].pc = "idle" /\ call' = [call EXCEPT ![w] = d]
              /\ \/ d.events = {} /\ UNCHANGED <<state, last>>
                 \/ /\ d.events = Transitions(r, CurrentFences) /\ r.at > 0 /\ r.at >= last[r.vessel]
                    /\ state' = [state EXCEPT ![r.vessel] = Folded(r, CurrentFences)]
                    /\ last' = [last EXCEPT ![r.vessel] = r.at]
<1> DEFINE fences == CurrentFences
           events == IF InOrder(r) THEN Transitions(r, fences) ELSE {}
           started == [pc |-> "announce", item |-> {}, events |-> events]
<1>1. CASE UNCHANGED <<evaluator, call>> /\ faults' = faults + 1
  BY <1>1, Zenon
<1>2. CASE /\ cached' = fences /\ loaded' = TRUE
           /\ IF InOrder(r)
              THEN /\ state' = [state EXCEPT ![r.vessel] = Folded(r, fences)]
                   /\ last' = [last EXCEPT ![r.vessel] = r.at]
              ELSE UNCHANGED <<state, last>>
           /\ call' = [call EXCEPT ![w] = IF events = {} THEN Idle ELSE started]
           /\ UNCHANGED faults
  <2>1. Transitions(r, fences) \subseteq Events
    <3>1. fences \in [Fences -> Versions \cup {0}]
      BY FencesInUse, Zenon
    <3> HIDE DEF fences
    <3> QED BY <3>1, Observed, Zenon DEF Observes, Emission
  <2>2. events \in SUBSET Events
    BY <2>1, Zenon
  <2>3. PICK d : d = IF events = {} THEN Idle ELSE started
    BY Zenon
  <2>4. Settled(d) /\ d.item = {} /\ d.events = events
    <3> HIDE DEF events
    <3>1. started \in Calls /\ started.pc # "idle" /\ started.item = {} /\ started.events = events
      BY <2>2, Zenon DEF Calls
    <3> HIDE DEF started
    <3> QED BY <2>3, <3>1, IdleCall, Zenon DEF Settled
  <2>5. call' = [call EXCEPT ![w] = d] /\ call[w].pc = "idle"
    BY <1>2, <2>3, Zenon DEF ObservePosition
  <2>6. d \in Calls
    BY <2>4, Zenon DEF Settled
  <2>7. CASE InOrder(r)
    <3>1. d.events = Transitions(r, fences)
      BY <2>4, <2>7, Zenon
    <3> HIDE DEF fences, events
    <3> QED BY <1>2, <2>4, <2>5, <2>6, <2>7, <3>1, Zenon DEF InOrder, fences
  <2>8. CASE ~InOrder(r)
    <3>1. d.events = {}
      BY <2>4, <2>8, Zenon
    <3> HIDE DEF fences, events
    <3> QED BY <1>2, <2>4, <2>5, <2>6, <2>8, <3>1, Zenon DEF fences
  <2> QED BY <2>7, <2>8, Zenon
<1> QED BY <1>1, <1>2, Zenon DEF ObservePosition

LEMMA AnnounceCases ==
  ASSUME TypeOK, NEW w \in Workers, Announce(w)
  PROVE  \E event \in Events, d \in Calls :
           /\ call[w].pc = "announce" /\ event \in call[w].events
           /\ Settled(d) /\ call' = [call EXCEPT ![w] = d]
           /\ \/ /\ announced' = Append(announced, event) /\ faults' = faults
                 /\ d.item = {event} /\ d.events = call[w].events \ {event}
              \/ /\ announced' \in {announced, Append(announced, event)} /\ faults' = faults + 1
                 /\ d.item = {} /\ d.events = {}
<1>1. PICK event \in Foremost(call[w].events) :
        \/ announced' = Append(announced, event) /\ TakeUp(w, event) /\ UNCHANGED faults
        \/ announced' \in {announced, Append(announced, event)} /\ Fail(w)
  BY Zenon DEF Announce
<1>2. call \in [Workers -> Calls] /\ call[w].events \in SUBSET Events
  BY Zenon DEF TypeOK, Calls
<1>3. call[w].pc = "announce" /\ event \in call[w].events /\ event \in Events
  BY <1>2, Zenon DEF Announce, Foremost
<1>4. CASE announced' = Append(announced, event) /\ TakeUp(w, event) /\ UNCHANGED faults
  <2> DEFINE d == [pc |-> "persist", item |-> {event}, events |-> call[w].events \ {event}]
  <2>1. call' = [call EXCEPT ![w] = d]
    BY <1>2, <1>4, Zenon DEF TakeUp
  <2>2. d \in Calls /\ d.pc # "idle" /\ d.item = {event} /\ d.events = call[w].events \ {event}
    BY <1>2, <1>3, Zenon DEF Calls
  <2>3. Settled(d)
    BY <2>2, Zenon DEF Settled
  <2> HIDE DEF d
  <2> QED BY <1>3, <1>4, <2>1, <2>2, <2>3, Zenon
<1>5. CASE announced' \in {announced, Append(announced, event)} /\ Fail(w)
  <2>1. Settled(Idle)
    BY IdleCall, Zenon DEF Settled
  <2> QED BY <1>3, <1>5, <2>1, IdleCall, Zenon DEF Fail
<1> QED BY <1>1, <1>4, <1>5, Zenon

LEMMA PersistCases ==
  ASSUME TypeOK, NEW w \in Workers, Persist(w)
  PROVE  \E d \in Calls :
           /\ Settled(d) /\ d.item = {} /\ call' = [call EXCEPT ![w] = d]
           /\ persisted' \subseteq persisted \cup call[w].item
           /\ \/ d.events = call[w].events /\ faults' = faults /\ persisted' = persisted \cup call[w].item
              \/ d.events = {} /\ faults' = faults + 1
<1>1. call[w] \in Calls
  BY Zenon DEF TypeOK
<1>2. persisted' \subseteq persisted \cup call[w].item
  BY Zenon DEF Persist
<1>3. Settled(Idle)
  BY IdleCall, Zenon DEF Settled
<1>4. CASE Fail(w)
  BY <1>2, <1>3, <1>4, IdleCall, Zenon DEF Fail
<1>5. CASE ~Fail(w)
  <2> DEFINE more == [call[w] EXCEPT !.pc = "announce", !.item = {}]
  <2>1. /\ call' = [call EXCEPT ![w] = IF call[w].events = {} THEN Idle ELSE more] /\ faults' = faults
        /\ persisted' = persisted \cup call[w].item
    BY <1>5, Zenon DEF Persist
  <2>2. more \in Calls /\ more.pc # "idle" /\ more.item = {} /\ more.events = call[w].events
    BY <1>1, Zenon DEF Calls
  <2>3. Settled(more)
    BY <2>2, Zenon DEF Settled
  <2> HIDE DEF more
  <2>4. CASE call[w].events = {}
    <3>1. call' = [call EXCEPT ![w] = Idle]
      BY <2>1, <2>4, Zenon
    <3> QED BY <1>2, <1>3, <2>1, <2>4, <3>1, IdleCall, Zenon
  <2>5. CASE call[w].events # {}
    <3>1. call' = [call EXCEPT ![w] = more]
      BY <2>1, <2>5, Zenon
    <3> QED BY <1>2, <2>1, <2>2, <2>3, <3>1, Zenon
  <2> QED BY <2>4, <2>5, Zenon
<1> QED BY <1>4, <1>5, Zenon

-----------------------------------------------------------------------------
(* Announce first. *)

(* What was known of a transition stays known while the topic and the versions grow. *)
LEMMA StaysKnown ==
  ASSUME TypeOK, TypeOK', \A f \in Fences : version[f] <= version'[f], Topic \subseteq Topic'
  PROVE  /\ \A e \in Events : Vetted(e) => Vetted(e)'
         /\ \A c \in Calls : CallOK(c) => CallOK(c)'
<1>1. ASSUME NEW e \in Events, Vetted(e) PROVE Vetted(e)'
  <2>1. e.fence \in Fences
    BY Zenon DEF Events
  <2>2. version[e.fence] \in Nat /\ version'[e.fence] \in Nat /\ version[e.fence] <= version'[e.fence]
    BY <2>1 DEF TypeOK, Versions
  <2>3. e.version \in 1 .. version[e.fence] /\ Origin(e)
    BY <1>1, Zenon DEF Vetted
  <2>4. e.version \in 1 .. version'[e.fence]
    BY <2>2, <2>3
  <2>5. Origin(e)'
    BY <2>3, Zenon DEF Origin
  <2> QED BY <2>4, <2>5, Zenon DEF Vetted
<1>2. ASSUME NEW c \in Calls, CallOK(c) PROVE CallOK(c)'
  <2>1. c.events \subseteq Events
    BY Zenon DEF Calls
  <2> QED BY <1>1, <1>2, <2>1, Zenon DEF CallOK, Same
<1> QED BY <1>1, <1>2, Zenon

(* The parts of the invariant after a step, one by one. *)
LEMMA TransitCombine ==
  ASSUME TransitInv, TypeOK',
         \A f \in Fences : version[f] <= version'[f] /\ active'[f] \in {0, version'[f]} /\ cached'[f] <= version'[f],
         Topic \subseteq Topic', persisted' \subseteq persisted \cup Topic',
         \A e \in Topic' : e \in Topic \/ Vetted(e)',
         \A c \in Running' : c \in Running \/ CallOK(c)'
  PROVE  TransitInv'
<1>1. TypeOK /\ Topic \subseteq Events /\ Running \subseteq Calls
  <2>1. announced \in Seq(Events) /\ call \in [Workers -> Calls] /\ TypeOK
    BY Zenon DEF TransitInv, TypeOK
  <2>2. \A i \in DOMAIN announced : announced[i] \in Events
    BY <2>1
  <2> QED BY <2>1, <2>2, Zenon DEF Topic, Running
<1>2. /\ \A e \in Events : Vetted(e) => Vetted(e)'
      /\ \A c \in Calls : CallOK(c) => CallOK(c)'
  BY <1>1, StaysKnown, Zenon
<1>3. persisted' \subseteq Topic'
  BY Zenon DEF TransitInv
<1>4. \A e \in Topic' : Vetted(e)'
  BY <1>1, <1>2, Zenon DEF TransitInv
<1>5. \A c \in Running' : CallOK(c)'
  BY <1>1, <1>2, Zenon DEF TransitInv
<1> QED BY <1>3, <1>4, <1>5, Zenon DEF TransitInv

LEMMA TransitTypes ==
  ASSUME TransitInv
  PROVE  /\ TypeOK /\ Topic \subseteq Events /\ Running \subseteq Calls
         /\ \A f \in Fences : /\ version[f] \in Nat /\ active[f] \in Nat /\ cached[f] \in Nat
                              /\ active[f] \in {0, version[f]} /\ active[f] <= version[f]
                              /\ cached[f] <= version[f] /\ version[f] <= version[f]
         /\ \A w \in Workers : call[w] \in Running /\ CallOK(call[w])
<1>1. announced \in Seq(Events) /\ call \in [Workers -> Calls] /\ TypeOK
  BY Zenon DEF TransitInv, TypeOK
<1>2. \A i \in DOMAIN announced : announced[i] \in Events
  BY <1>1
<1>3. Topic \subseteq Events /\ Running \subseteq Calls
  BY <1>1, <1>2, Zenon DEF Topic, Running
<1>4. \A f \in Fences : /\ version[f] \in Nat /\ active[f] \in Nat /\ cached[f] \in Nat
                        /\ active[f] \in {0, version[f]} /\ active[f] <= version[f]
                        /\ cached[f] <= version[f] /\ version[f] <= version[f]
  BY VersionTypes DEF TransitInv
<1>5. \A w \in Workers : call[w] \in Running
  BY Zenon DEF Running
<1> QED BY <1>1, <1>3, <1>4, <1>5, Zenon DEF TransitInv

LEMMA TransitObserve ==
  ASSUME TransitInv, NEW w \in Workers, NEW r \in Reports, ObservePosition(w, r)
  PROVE  TransitInv'
<1>1. /\ TypeOK /\ TypeOK' /\ version' = version /\ active' = active
      /\ announced' = announced /\ persisted' = persisted
  BY TransitTypes, TypeObserve, Zenon DEF table
<1>2. Topic' = Topic
  BY <1>1, Zenon DEF Topic
<1>3. \A f \in Fences : version[f] <= version'[f] /\ active'[f] \in {0, version'[f]}
  BY <1>1, TransitTypes, Zenon
<1>4. CurrentFences \in [Fences -> Versions \cup {0}] /\ \A f \in Fences : CurrentFences[f] <= version[f]
  BY <1>1, FencesInUse, TransitTypes, Zenon DEF CurrentFences
<1>5. CASE UNCHANGED <<evaluator, call>>
  <2>1. Running' = Running /\ \A f \in Fences : cached'[f] <= version'[f]
    BY <1>1, <1>5, TransitTypes, Zenon DEF Running, evaluator
  <2> QED BY <1>1, <1>2, <1>3, <2>1, TransitCombine, Zenon
<1>6. ASSUME NEW d \in Calls, Settled(d), d.item = {}, cached' = CurrentFences,
             call' = [call EXCEPT ![w] = d], d.events = {} \/ d.events = Transitions(r, CurrentFences)
      PROVE  TransitInv'
  <2>1. \A f \in Fences : cached'[f] <= version'[f]
    BY <1>1, <1>4, <1>6, Zenon
  <2>2. \A c \in Running' : c \in Running \/ c = d
    BY <1>1, <1>6, OneCall, Zenon DEF TypeOK
  <2>3. Observes(r, CurrentFences, state[r.vessel], Transitions(r, CurrentFences), Folded(r, CurrentFences))
    BY <1>1, <1>4, Observed, Zenon
  <2>4. ASSUME NEW e \in d.events PROVE Vetted(e)'
    <3>1. /\ e \in Events /\ e.vessel = r.vessel /\ e.at = r.at /\ (e.type = "EXIT" <=> ~Inside(r, e.fence, e.version))
          /\ e.version = CurrentFences[e.fence] /\ e.version # 0
      BY <1>6, <2>3, Zenon DEF Observes, Emission
    <3>2. e.fence \in Fences
      BY <3>1, Zenon DEF Events
    <3>3. e.version \in Versions /\ e.version <= version'[e.fence] /\ version'[e.fence] \in Nat
      BY <1>1, <1>4, <3>1, <3>2, TransitTypes, Zenon DEF Events
    <3>4. e.version \in 1 .. version'[e.fence]
      BY <3>3 DEF Versions
    <3>5. Origin(e)'
      BY <3>1, Zenon DEF Origin
    <3> QED BY <3>4, <3>5, Zenon DEF Vetted
  <2>5. \A e, x \in d.events : Same(x, e) => x = e
    BY <1>6, <2>3, Zenon DEF Observes
  <2>6. CallOK(d)'
    BY <1>6, <2>4, <2>5, Zenon DEF CallOK, Settled, Same
  <2> QED BY <1>1, <1>2, <1>3, <2>1, <2>2, <2>6, TransitCombine, Zenon
<1> QED BY <1>1, <1>5, <1>6, ObserveCases, Zenon

LEMMA TransitAnnounce ==
  ASSUME TransitInv, NEW w \in Workers, Announce(w)
  PROVE  TransitInv'
<1>1. /\ TypeOK /\ TypeOK' /\ version' = version /\ active' = active /\ cached' = cached
      /\ persisted' = persisted
  BY TransitTypes, TypeAnnounce, Zenon DEF table, evaluator
<1>2. \A f \in Fences : version[f] <= version'[f] /\ active'[f] \in {0, version'[f]} /\ cached'[f] <= version'[f]
  BY <1>1, TransitTypes, Zenon
<1>3. PICK event \in Events, d \in Calls :
        /\ event \in call[w].events /\ Settled(d) /\ call' = [call EXCEPT ![w] = d]
        /\ \/ /\ announced' = Append(announced, event) /\ faults' = faults
              /\ d.item = {event} /\ d.events = call[w].events \ {event}
           \/ /\ announced' \in {announced, Append(announced, event)} /\ faults' = faults + 1
              /\ d.item = {} /\ d.events = {}
  BY <1>1, AnnounceCases, Zenon
<1>4. CallOK(call[w])
  BY TransitTypes, Zenon
<1>5. Topic' = Topic \/ (announced' = Append(announced, event) /\ Topic' = Topic \cup {event})
  <2>1. CASE announced' = announced
    BY <2>1, Zenon DEF Topic
  <2>2. CASE announced' = Append(announced, event)
    BY <1>1, <2>2, TopicGrows, Zenon DEF TypeOK
  <2> QED BY <1>3, <2>1, <2>2, Zenon
<1>6. Vetted(event)'
  <2>1. Vetted(event)
    BY <1>3, <1>4, Zenon DEF CallOK
  <2> QED BY <1>1, <2>1, Zenon DEF Vetted, Origin
<1>7. \A c \in Running' : c \in Running \/ c = d
  BY <1>1, <1>3, OneCall, Zenon DEF TypeOK
<1>8. CallOK(d)'
  <2>1. d.item \subseteq Topic'
    <3>1. CASE announced' = Append(announced, event)
      <4>1. Topic' = Topic \cup {event}
        BY <1>1, <3>1, TopicGrows, Zenon DEF TypeOK
      <4> QED BY <1>3, <4>1, Zenon
    <3> QED BY <1>3, <3>1, Zenon
  <2>2. \A e \in d.events : e \in call[w].events
    BY <1>3, Zenon
  <2>3. \A e \in d.events : Vetted(e)'
    <3>1. \A e \in d.events : Vetted(e)
      BY <1>4, <2>2, Zenon DEF CallOK
    <3> QED BY <1>1, <3>1, Zenon DEF Vetted, Origin
  <2>4. \A e, x \in d.events : Same(x, e) => x = e
    BY <1>4, <2>2, Zenon DEF CallOK
  <2> QED BY <1>3, <2>1, <2>3, <2>4, Zenon DEF CallOK, Settled, Same
<1> QED BY <1>1, <1>2, <1>5, <1>6, <1>7, <1>8, TransitCombine, Zenon

LEMMA TransitPersist ==
  ASSUME TransitInv, NEW w \in Workers, Persist(w)
  PROVE  TransitInv'
<1>1. /\ TypeOK /\ TypeOK' /\ version' = version /\ active' = active /\ cached' = cached
      /\ announced' = announced
  BY TransitTypes, TypePersist, Zenon DEF table, evaluator
<1>2. \A f \in Fences : version[f] <= version'[f] /\ active'[f] \in {0, version'[f]} /\ cached'[f] <= version'[f]
  BY <1>1, TransitTypes, Zenon
<1>3. PICK d \in Calls :
        /\ Settled(d) /\ d.item = {} /\ call' = [call EXCEPT ![w] = d]
        /\ persisted' \subseteq persisted \cup call[w].item
        /\ \/ d.events = call[w].events /\ faults' = faults
           \/ d.events = {} /\ faults' = faults + 1
  BY <1>1, PersistCases, Zenon
<1>4. CallOK(call[w])
  BY TransitTypes, Zenon
<1>5. Topic' = Topic
  BY <1>1, Zenon DEF Topic
<1>6. persisted' \subseteq persisted \cup Topic'
  BY <1>3, <1>4, <1>5, Zenon DEF CallOK
<1>7. \A c \in Running' : c \in Running \/ c = d
  BY <1>1, <1>3, OneCall, Zenon DEF TypeOK
<1>8. CallOK(d)'
  <2>1. \A e \in d.events : e \in call[w].events
    BY <1>3, Zenon
  <2>2. \A e \in d.events : Vetted(e)'
    <3>1. \A e \in d.events : Vetted(e)
      BY <1>4, <2>1, Zenon DEF CallOK
    <3> QED BY <1>1, <3>1, Zenon DEF Vetted, Origin
  <2>3. \A e, x \in d.events : Same(x, e) => x = e
    BY <1>4, <2>1, Zenon DEF CallOK
  <2> QED BY <1>3, <2>2, <2>3, Zenon DEF CallOK, Settled, Same
<1> QED BY <1>1, <1>2, <1>5, <1>6, <1>7, <1>8, TransitCombine, Zenon

LEMMA TransitNext ==
  ASSUME TransitInv, [Next]_vars
  PROVE  TransitInv'
<1>1. TypeOK /\ TypeOK'
  BY TransitTypes, TypeNext, Zenon
<1>2. ASSUME announced' = announced, persisted' = persisted, \A c \in Running' : c \in Running \/ CallOK(c)',
             \A f \in Fences : version[f] <= version'[f] /\ active'[f] \in {0, version'[f]} /\ cached'[f] <= version'[f]
      PROVE  TransitInv'
  <2>1. Topic' = Topic
    BY <1>2, Zenon DEF Topic
  <2> QED BY <1>1, <1>2, <2>1, TransitCombine, Zenon
<1>3. ASSUME NEW f \in Fences, CreateGeofenceVersion(f) PROVE TransitInv'
  <2>1. /\ version' = [version EXCEPT ![f] = @ + 1] /\ active' = [active EXCEPT ![f] = version[f] + 1]
        /\ cached' = cached /\ call' = call /\ announced' = announced /\ persisted' = persisted
    BY <1>3, Zenon DEF CreateGeofenceVersion, evaluator
  <2>2. \A g \in Fences : /\ version'[g] = IF g = f THEN version[f] + 1 ELSE version[g]
                          /\ active'[g] = IF g = f THEN version[f] + 1 ELSE active[g]
    BY <1>1, <2>1, Zenon DEF TypeOK
  <2>3. \A g \in Fences : version[g] <= version'[g] /\ active'[g] \in {0, version'[g]} /\ cached'[g] <= version'[g]
    <3> TAKE g \in Fences
    <3>1. /\ version[g] \in Nat /\ active[g] \in Nat /\ cached[g] \in Nat
          /\ active[g] \in {0, version[g]} /\ cached[g] <= version[g]
      BY TransitTypes, Zenon
    <3> QED BY <2>1, <2>2, <3>1
  <2>4. Running' = Running
    BY <2>1, Zenon DEF Running
  <2> QED BY <1>2, <2>1, <2>3, <2>4, Zenon
<1>4. ASSUME NEW f \in Fences, RetireGeofence(f) PROVE TransitInv'
  <2>1. /\ active' = [active EXCEPT ![f] = 0] /\ version' = version
        /\ cached' = cached /\ call' = call /\ announced' = announced /\ persisted' = persisted
    BY <1>4, Zenon DEF RetireGeofence, evaluator
  <2>2. \A g \in Fences : active'[g] = IF g = f THEN 0 ELSE active[g]
    BY <1>1, <2>1, Zenon DEF TypeOK
  <2>3. \A g \in Fences : version[g] <= version'[g] /\ active'[g] \in {0, version'[g]} /\ cached'[g] <= version'[g]
    <3> TAKE g \in Fences
    <3>1. /\ version[g] \in Nat /\ active[g] \in Nat /\ cached[g] \in Nat
          /\ active[g] \in {0, version[g]} /\ cached[g] <= version[g]
      BY TransitTypes, Zenon
    <3> QED BY <2>1, <2>2, <3>1
  <2>4. Running' = Running
    BY <2>1, Zenon DEF Running
  <2> QED BY <1>2, <2>1, <2>3, <2>4, Zenon
<1>5. CASE GoStale \/ UNCHANGED vars
  <2>1. /\ version' = version /\ active' = active /\ cached' = cached /\ call' = call
        /\ announced' = announced /\ persisted' = persisted
    BY <1>5, Zenon DEF GoStale, vars, table
  <2>2. Running' = Running
    BY <2>1, Zenon DEF Running
  <2> QED BY <1>2, <2>1, <2>2, TransitTypes, Zenon
<1>6. CASE Restart
  <2>1. /\ version' = version /\ active' = active /\ announced' = announced /\ persisted' = persisted
        /\ \A f \in Fences : cached'[f] = 0
        /\ \A w \in Workers : call'[w] = Idle
    BY <1>6, Zenon DEF Restart, table
  <2>2. \A c \in Running' : c = Idle
    BY <2>1, Zenon DEF Running
  <2>3. CallOK(Idle)'
    BY IdleCall, Zenon DEF CallOK, Idle
  <2>4. \A f \in Fences : version[f] <= version'[f] /\ active'[f] \in {0, version'[f]} /\ cached'[f] <= version'[f]
    <3> TAKE f \in Fences
    <3>1. version[f] \in Nat /\ active[f] \in {0, version[f]} /\ version[f] <= version[f]
      BY TransitTypes, Zenon
    <3>2. 0 <= version[f]
      BY <3>1
    <3> QED BY <2>1, <3>1, <3>2, Zenon
  <2>5. \A c \in Running' : CallOK(c)'
    BY <2>2, <2>3, Zenon
  <2> QED BY <1>2, <2>1, <2>4, <2>5, Zenon
<1> QED BY <1>3, <1>4, <1>5, <1>6, TransitObserve, TransitAnnounce, TransitPersist, Zenon DEF Next

LEMMA TransitInit ==
  ASSUME Init
  PROVE  TransitInv
<1>1. TypeOK
  <2>1. /\ version \in [Fences -> Versions]
        /\ active \in [Fences -> Versions \cup {0}] /\ cached \in [Fences -> Versions \cup {0}]
    <3>1. 1 \in Versions
      <4>1. MaxVersions \in Nat \ {0}
        BY FenceIngestAssumption, Zenon
      <4> QED BY <4>1 DEF Versions
    <3> QED BY <3>1, Zenon DEF Init
  <2>2. last \in [Vessels -> Nat] /\ calls \in [Reports -> Nat] /\ faults \in Nat /\ restarts \in Nat
    BY Zenon DEF Init
  <2>3. state \in [Vessels -> [Fences -> FenceStates]] /\ call \in [Workers -> Calls]
    BY IdleCall, NewState, Zenon DEF Init
  <2>4. announced \in Seq(Events) /\ persisted \in SUBSET Events
    BY DEF Init
  <2> QED BY <2>1, <2>2, <2>3, <2>4, Zenon DEF TypeOK
<1>2. \A f \in Fences : active[f] \in {0, version[f]} /\ cached[f] <= version[f]
  BY DEF Init
<1>3. Topic = {} /\ persisted = {}
  <2>1. DOMAIN announced = {} /\ persisted = {}
    BY DEF Init
  <2> QED BY <2>1, Zenon DEF Topic
<1>4. \A c \in Running : c = Idle
  BY Zenon DEF Init, Running
<1>5. CallOK(Idle)
  BY IdleCall, Zenon DEF CallOK
<1> QED BY <1>1, <1>2, <1>3, <1>4, <1>5, Zenon DEF TransitInv

(***************************************************************************)
(* ObservePosition announces before it persists: whatever fails, whenever  *)
(* the process restarts and however the fence table is edited meanwhile, a *)
(* persisted transition is on the topic, and an announced one cites a      *)
(* version that its fence has had.                                         *)
(***************************************************************************)
THEOREM AnnouncedBeforePersisted == Spec => []PersistedWasAnnounced
<1>1. TransitInv => PersistedWasAnnounced
  <2> SUFFICES ASSUME TransitInv PROVE PersistedWasAnnounced
    BY Zenon
  <2> QED BY Zenon DEF PersistedWasAnnounced, TransitInv, Vetted
<1> QED BY <1>1, TransitInit, TransitNext, PTL DEF Spec

-----------------------------------------------------------------------------
(* Nothing is announced twice. *)

INSTANCE FiniteSetTheorems

LEMMA AtMostOneMore ==
  ASSUME NEW S, NEW x, IsFiniteSet(S)
  PROVE  IsFiniteSet(S \cup {x}) /\ Cardinality(S \cup {x}) <= Cardinality(S) + 1
<1>1. Cardinality(S) \in Nat
  BY FS_CardinalityType, Zenon
<1>2. IsFiniteSet(S \cup {x})
  BY FS_AddElement, Zenon
<1>3. Cardinality(S \cup {x}) = Cardinality(S) \/ Cardinality(S \cup {x}) = Cardinality(S) + 1
  BY FS_AddElement, Zenon
<1> QED BY <1>1, <1>2, <1>3

(* How a transition stays bounded: nobody more is to announce it, one call is, or one has announced it. *)
LEMMA StaysBounded ==
  ASSUME NEW e, Bounded(e), Occurrences(e)' = Occurrences(e), Pending(e)' \subseteq Pending(e),
         Emissions(e) \in Nat, Emissions(e)' \in Nat, Emissions(e)' >= Emissions(e)
  PROVE  Bounded(e)'
<1> DEFINE R == Occurrences(e)
           A == Pending(e)
           B == Pending(e)'
<1>1. IsFiniteSet(R) /\ IsFiniteSet(A) /\ Cardinality(R) + Cardinality(A) <= Emissions(e) /\ B \in SUBSET A
  BY Zenon DEF Bounded
<1> HIDE DEF R, A, B
<1>2. IsFiniteSet(B) /\ Cardinality(B) <= Cardinality(A)
  BY <1>1, FS_Subset, Zenon
<1>3. Cardinality(R) \in Nat /\ Cardinality(A) \in Nat /\ Cardinality(B) \in Nat
  BY <1>1, <1>2, FS_CardinalityType, Zenon
<1>4. Cardinality(R) + Cardinality(B) <= Emissions(e)'
  BY <1>1, <1>2, <1>3
<1> QED BY <1>1, <1>2, <1>4, Zenon DEF Bounded, R, B

LEMMA EmitsOne ==
  ASSUME NEW e, NEW w, Bounded(e), Occurrences(e)' = Occurrences(e), Pending(e)' \subseteq Pending(e) \cup {w},
         Emissions(e) \in Nat, Emissions(e)' \in Nat, Emissions(e)' >= Emissions(e) + 1
  PROVE  Bounded(e)'
<1> DEFINE R == Occurrences(e)
           A == Pending(e)
           B == Pending(e)'
<1>1. /\ IsFiniteSet(R) /\ IsFiniteSet(A) /\ Cardinality(R) + Cardinality(A) <= Emissions(e)
      /\ B \in SUBSET (A \cup {w})
  BY Zenon DEF Bounded
<1> HIDE DEF R, A, B
<1>2. Cardinality(R) \in Nat /\ Cardinality(A) \in Nat
  BY <1>1, FS_CardinalityType, Zenon
<1>3. IsFiniteSet(A \cup {w}) /\ Cardinality(A \cup {w}) <= Cardinality(A) + 1
  BY <1>1, AtMostOneMore, Zenon
<1>4. IsFiniteSet(B) /\ Cardinality(B) <= Cardinality(A \cup {w})
  BY <1>1, <1>3, FS_Subset, Zenon
<1>5. Cardinality(A \cup {w}) \in Nat /\ Cardinality(B) \in Nat
  BY <1>3, <1>4, FS_CardinalityType, Zenon
<1>6. Cardinality(R) + Cardinality(B) <= Emissions(e)'
  BY <1>1, <1>2, <1>3, <1>4, <1>5
<1> QED BY <1>1, <1>4, <1>6, Zenon DEF Bounded, R, B

LEMMA AnnouncesOne ==
  ASSUME NEW e, NEW w \in Pending(e), NEW x, Bounded(e), Occurrences(e)' = Occurrences(e) \cup {x},
         Pending(e)' \subseteq Pending(e) \ {w}, Emissions(e)' = Emissions(e), Emissions(e) \in Nat
  PROVE  Bounded(e)'
<1> DEFINE R == Occurrences(e)
           A == Pending(e)
           B == Pending(e)'
<1>1. /\ IsFiniteSet(R) /\ IsFiniteSet(A) /\ Cardinality(R) + Cardinality(A) <= Emissions(e)
      /\ w \in A /\ B \in SUBSET (A \ {w})
  BY Zenon DEF Bounded
<1> HIDE DEF R, A, B
<1>2. Cardinality(R) \in Nat /\ Cardinality(A) \in Nat
  BY <1>1, FS_CardinalityType, Zenon
<1>3. IsFiniteSet(A \ {w}) /\ Cardinality(A \ {w}) = Cardinality(A) - 1
  BY <1>1, FS_RemoveElement, Zenon
<1>4. IsFiniteSet(B) /\ Cardinality(B) <= Cardinality(A \ {w})
  BY <1>1, <1>3, FS_Subset, Zenon
<1>5. Cardinality(B) \in Nat
  BY <1>4, FS_CardinalityType, Zenon
<1>6. IsFiniteSet(R \cup {x}) /\ Cardinality(R \cup {x}) <= Cardinality(R) + 1
  BY <1>1, AtMostOneMore, Zenon
<1>7. Cardinality(R \cup {x}) \in Nat
  BY <1>6, FS_CardinalityType, Zenon
<1>8. Cardinality(R \cup {x}) + Cardinality(B) <= Emissions(e)'
  BY <1>1, <1>2, <1>3, <1>4, <1>5, <1>6, <1>7
<1> QED BY <1>4, <1>6, <1>8, Zenon DEF Bounded, R, B

LEMMA EmissionsNat ==
  ASSUME TypeOK, TypeOK', NEW e
  PROVE  Emissions(e) \in Nat /\ Emissions(e)' \in Nat
<1>1. restarts \in Nat /\ restarts' \in Nat
  BY Zenon DEF TypeOK
<1>2. Emissions(e) = restarts \/ Emissions(e) = restarts + 1
  BY <1>1 DEF Emissions
<1>3. Emissions(e)' = restarts' \/ Emissions(e)' = restarts' + 1
  <2>1. Emissions(e)' = restarts' + 0 \/ Emissions(e)' = restarts' + 1
    BY Zenon DEF Emissions
  <2> QED BY <1>1, <2>1
<1> QED BY <1>1, <1>2, <1>3

(* A reload takes the versions on: what is past stays past, and the version in use stays or is past. *)
LEMMA PastReload ==
  ASSUME TransitInv, UNCHANGED table, cached' = CurrentFences, NEW f \in Fences, NEW n \in Versions
  PROVE  /\ Past(f, n) => Past(f, n)'
         /\ cached[f] = n => cached'[f] = n \/ Past(f, n)'
         /\ CurrentFences[f] = n => ~Past(f, n)
         /\ CurrentFences[f] # 0 /\ (Past(f, n) \/ cached[f] = n) => n <= CurrentFences[f]
<1>1. n \in Nat /\ n >= 1
  <2>1. MaxVersions \in Nat
    BY FenceIngestAssumption, Zenon
  <2> QED BY <2>1 DEF Versions
<1>2. /\ version[f] \in Nat /\ active[f] \in Nat /\ cached[f] \in Nat
      /\ active[f] \in {0, version[f]} /\ cached[f] <= version[f]
  BY TransitTypes, Zenon
<1>3. version'[f] = version[f] /\ active'[f] = active[f]
  BY Zenon DEF table
<1>4. /\ CurrentFences[f] = (IF loaded THEN cached[f] ELSE active[f])
      /\ cached'[f] = (IF loaded THEN cached[f] ELSE active[f])
  BY Zenon DEF CurrentFences
<1> QED BY <1>1, <1>2, <1>3, <1>4 DEF Past

(* A report that Observe folds, in the state and after it. *)
Folds(r, events) ==
  /\ r.at >= last[r.vessel]
  /\ Observes(r, CurrentFences, state[r.vessel], events, state'[r.vessel])
  /\ last'[r.vessel] = r.at
  /\ \A v \in Vessels : v # r.vessel => state'[v] = state[v] /\ last'[v] = last[v]

LEMMA FoldsReport ==
  ASSUME TypeOK, NEW r \in Reports, r.at >= last[r.vessel],
         state' = [state EXCEPT ![r.vessel] = Folded(r, CurrentFences)],
         last' = [last EXCEPT ![r.vessel] = r.at]
  PROVE  Folds(r, Transitions(r, CurrentFences))
<1>1. Observes(r, CurrentFences, state[r.vessel], Transitions(r, CurrentFences), Folded(r, CurrentFences))
  BY FencesInUse, Observed, Zenon
<1>2. r.vessel \in Vessels
  BY Zenon DEF Vessels
<1>3. state'[r.vessel] = Folded(r, CurrentFences) /\ last'[r.vessel] = r.at
  BY <1>2, Zenon DEF TypeOK
<1>4. \A v \in Vessels : v # r.vessel => state'[v] = state[v] /\ last'[v] = last[v]
  BY Zenon DEF TypeOK
<1> QED BY <1>1, <1>3, <1>4, Zenon DEF Folds

LEMMA ObserveFolds ==
  ASSUME TypeOK, NEW w \in Workers, NEW r \in Reports, ObservePosition(w, r)
  PROVE  \/ UNCHANGED <<evaluator, call>> /\ faults' = faults + 1
         \/ \E d \in Calls :
              /\ call[w].pc = "idle" /\ call' = [call EXCEPT ![w] = d]
              /\ cached' = CurrentFences /\ d.item = {}
              /\ \/ d.events = {} /\ UNCHANGED <<state, last>>
                 \/ d.events = Transitions(r, CurrentFences) /\ Folds(r, Transitions(r, CurrentFences))
<1>1. CASE UNCHANGED <<evaluator, call>> /\ faults' = faults + 1
  BY <1>1, Zenon
<1>2. CASE ~(UNCHANGED <<evaluator, call>> /\ faults' = faults + 1)
  <2>1. PICK d \in Calls :
          /\ call[w].pc = "idle" /\ call' = [call EXCEPT ![w] = d]
          /\ cached' = CurrentFences /\ d.item = {}
          /\ \/ d.events = {} /\ UNCHANGED <<state, last>>
             \/ /\ d.events = Transitions(r, CurrentFences) /\ r.at >= last[r.vessel]
                /\ state' = [state EXCEPT ![r.vessel] = Folded(r, CurrentFences)]
                /\ last' = [last EXCEPT ![r.vessel] = r.at]
    BY <1>2, ObserveCases
  <2>2. CASE d.events = {} /\ UNCHANGED <<state, last>>
    BY <2>1, <2>2, Zenon
  <2>3. CASE ~(d.events = {} /\ UNCHANGED <<state, last>>)
    <3>1. d.events = Transitions(r, CurrentFences) /\ Folds(r, Transitions(r, CurrentFences))
      BY <2>1, <2>3, FoldsReport, Zenon
    <3> QED BY <2>1, <3>1, Zenon
  <2> QED BY <2>2, <2>3, Zenon
<1> QED BY <1>1, <1>2, Zenon

(* What the engine cannot emit again, it never can: the three ways of being spent, over a reload. *)
LEMMA SpentReload ==
  ASSUME TransitInv, UNCHANGED table, cached' = CurrentFences, NEW e \in Events, Spent(e),
         last[e.vessel] > e.at => last'[e.vessel] > e.at,
         /\ last[e.vessel] = e.at /\ CurrentFences[e.fence] = e.version
         /\ state[e.vessel][e.fence].inside <=> e.type # "EXIT"
         /\ e.type = "DWELL" => state[e.vessel][e.fence].dwellEmitted
         => \/ last'[e.vessel] > e.at
            \/ /\ last'[e.vessel] = e.at
               /\ state'[e.vessel][e.fence].inside <=> e.type # "EXIT"
               /\ e.type = "DWELL" => state'[e.vessel][e.fence].dwellEmitted
  PROVE  Spent(e)'
<1>1. e.fence \in Fences /\ e.version \in Versions
  BY Zenon DEF Events
<1>2. /\ Past(e.fence, e.version) => Past(e.fence, e.version)'
      /\ cached[e.fence] = e.version => cached'[e.fence] = e.version \/ Past(e.fence, e.version)'
  BY <1>1, PastReload, Zenon
<1>3. CASE last[e.vessel] > e.at \/ Past(e.fence, e.version)
  BY <1>2, <1>3, Zenon DEF Spent
<1>4. CASE ~(last[e.vessel] > e.at \/ Past(e.fence, e.version))
  <2>1. /\ last[e.vessel] = e.at /\ cached[e.fence] = e.version
        /\ state[e.vessel][e.fence].inside <=> e.type # "EXIT"
        /\ e.type = "DWELL" => state[e.vessel][e.fence].dwellEmitted
    BY <1>4, Zenon DEF Spent
  <2>2. CASE Past(e.fence, e.version)'
    BY <2>2, Zenon DEF Spent
  <2>3. CASE cached'[e.fence] = e.version
    <3>1. CurrentFences[e.fence] = e.version
      BY <2>3, Zenon
    <3> QED BY <2>1, <2>3, <3>1, Zenon DEF Spent
  <2> QED BY <1>2, <2>1, <2>2, <2>3, Zenon
<1> QED BY <1>3, <1>4, Zenon

LEMMA SpentStays ==
  ASSUME DistinctTimes, TransitInv, UNCHANGED table, cached' = CurrentFences,
         NEW r \in Reports, NEW events, Folds(r, events), NEW e \in Events, Origin(e), Spent(e)
  PROVE  Spent(e)'
<1>1. e.vessel \in Vessels /\ e.fence \in Fences /\ e.at \in Nat /\ r.at \in Nat /\ last[e.vessel] \in Nat
  BY FenceIngestAssumption, TransitTypes, Zenon DEF Events, TypeOK
<1>2. CASE e.vessel # r.vessel
  <2>1. state'[e.vessel] = state[e.vessel] /\ last'[e.vessel] = last[e.vessel]
    BY <1>1, <1>2, Zenon DEF Folds
  <2> QED BY <2>1, SpentReload, Zenon
<1>3. CASE e.vessel = r.vessel
  <2>1. last'[e.vessel] = r.at /\ r.at >= last[e.vessel]
    BY <1>3, Zenon DEF Folds
  <2>2. last[e.vessel] > e.at => last'[e.vessel] > e.at
    BY <1>1, <2>1
  <2>3. ASSUME last[e.vessel] = e.at, CurrentFences[e.fence] = e.version,
               state[e.vessel][e.fence].inside <=> e.type # "EXIT",
               e.type = "DWELL" => state[e.vessel][e.fence].dwellEmitted,
               ~(last'[e.vessel] > e.at)
        PROVE  /\ last'[e.vessel] = e.at
               /\ state'[e.vessel][e.fence].inside <=> e.type # "EXIT"
               /\ e.type = "DWELL" => state'[e.vessel][e.fence].dwellEmitted
    <3>1. r.at = e.at
      BY <1>1, <2>1, <2>3
    <3>2. e.type = "EXIT" <=> ~Inside(r, e.fence, e.version)
      <4>1. PICK s \in Reports : /\ s.vessel = e.vessel /\ s.at = e.at
                                 /\ e.type = "EXIT" <=> ~Inside(s, e.fence, e.version)
        BY Zenon DEF Origin
      <4>2. s = r
        BY <1>3, <3>1, <4>1, Zenon DEF DistinctTimes
      <4> QED BY <4>1, <4>2, Zenon
    <3>3. \/ state'[e.vessel][e.fence] = state[e.vessel][e.fence]
          \/ /\ state'[e.vessel][e.fence].inside <=> Inside(r, e.fence, e.version)
             /\ /\ Inside(r, e.fence, e.version) /\ state[e.vessel][e.fence].inside
                /\ state[e.vessel][e.fence].dwellEmitted
                => state'[e.vessel][e.fence].dwellEmitted
      BY <1>1, <1>3, <2>3, Zenon DEF Folds, Observes
    <3>4. "DWELL" # "EXIT"
      BY Zenon
    <3> QED BY <2>1, <2>3, <3>1, <3>2, <3>3, <3>4, Zenon
  <2> QED BY <2>2, <2>3, SpentReload, Zenon
<1> QED BY <1>2, <1>3, Zenon

(* A transition is emitted once: before that the engine could, then it cannot. *)
LEMMA EmittedOnce ==
  ASSUME TransitInv, UNCHANGED table, cached' = CurrentFences, NEW r \in Reports, NEW events, Folds(r, events),
         NEW e \in Events, NEW x \in events, Same(x, e)
  PROVE  ~Spent(e) /\ Spent(e)'
<1>1. /\ e.vessel = r.vessel /\ e.at = r.at /\ e.version = CurrentFences[e.fence]
      /\ state'[e.vessel][e.fence].inside <=> e.type # "EXIT"
      /\ e.type # "DWELL" => (state[e.vessel][e.fence].inside <=> e.type = "EXIT")
      /\ e.type = "DWELL" => state'[e.vessel][e.fence].dwellEmitted
      /\ e.type = "DWELL" => ~(state[e.vessel][e.fence].inside /\ state[e.vessel][e.fence].dwellEmitted)
  <2>1. /\ Emission(x, r, state[r.vessel], state'[r.vessel]) /\ x.version = CurrentFences[x.fence]
        /\ x.vessel = e.vessel /\ x.fence = e.fence /\ x.version = e.version
        /\ x.type = e.type /\ x.at = e.at
    BY Zenon DEF Folds, Observes, Same
  <2>2. e.vessel = r.vessel /\ e.at = r.at /\ e.version = CurrentFences[e.fence]
    BY <2>1, Zenon DEF Emission
  <2> QED BY <2>1, <2>2, Zenon DEF Emission
<1>2. last'[e.vessel] = e.at /\ e.at >= last[e.vessel]
  BY <1>1, Zenon DEF Folds
<1>3. ~(last[e.vessel] > e.at)
  <2>1. e.at \in Nat /\ last[e.vessel] \in Nat
    BY TransitTypes, Zenon DEF Events, TypeOK
  <2> QED BY <1>2, <2>1
<1>4. ~Past(e.fence, e.version) /\ cached'[e.fence] = e.version
  <2>1. e.fence \in Fences /\ e.version \in Versions
    BY Zenon DEF Events
  <2> QED BY <1>1, <2>1, PastReload, Zenon
<1>5. "DWELL" # "EXIT"
  BY Zenon
<1>6. Spent(e)'
  BY <1>1, <1>2, <1>4, Zenon DEF Spent
<1>7. ~Spent(e)
  BY <1>1, <1>3, <1>4, <1>5, Zenon DEF Spent
<1> QED BY <1>6, <1>7, Zenon

(* Whom a step of w leaves to announce e. *)
LEMMA PendingOf ==
  ASSUME TypeOK, NEW w \in Workers, NEW d, call' = [call EXCEPT ![w] = d], NEW e
  PROVE  /\ w \in Pending(e) <=> \E x \in call[w].events : Same(x, e)
         /\ w \in Pending(e)' <=> \E x \in d.events : Same(x, e)
         /\ \A u \in Pending(e)' : u # w => u \in Pending(e)
<1>1. call'[w] = d /\ \A u \in Workers : u # w => call'[u] = call[u]
  BY OneCall, Zenon DEF TypeOK
<1> QED BY <1>1, Zenon DEF Pending, Same

LEMMA OccurrencesGrow ==
  ASSUME announced \in Seq(Events), NEW event \in Events, announced' = Append(announced, event), NEW e
  PROVE  /\ Same(event, e) => Occurrences(e)' = Occurrences(e) \cup {Len(announced) + 1}
         /\ ~Same(event, e) => Occurrences(e)' = Occurrences(e)
<1> DEFINE n == Len(announced) + 1
<1>1. /\ n \in DOMAIN announced' /\ announced'[n] = event /\ n \notin DOMAIN announced
      /\ \A i : i \in DOMAIN announced' <=> i \in DOMAIN announced \/ i = n
      /\ \A i \in DOMAIN announced : announced'[i] = announced[i]
  BY TopicGrows, Zenon
<1> HIDE DEF n
<1>2. \A i : i \in Occurrences(e) <=> i \in DOMAIN announced /\ Same(announced[i], e)
  BY Zenon DEF Occurrences, Same
<1>3. \A i : i \in Occurrences(e)' <=> i \in DOMAIN announced' /\ Same(announced'[i], e)
  BY Zenon DEF Occurrences, Same
<1>4. n \in Occurrences(e)' <=> Same(event, e)
  BY <1>1, <1>3, Zenon
<1>5. \A i : i # n => (i \in Occurrences(e)' <=> i \in Occurrences(e))
  BY <1>1, <1>2, <1>3, Zenon
<1>6. n \notin Occurrences(e)
  BY <1>1, <1>2, Zenon
<1>7. Same(event, e) => Occurrences(e)' = Occurrences(e) \cup {n}
  <2> HAVE Same(event, e)
  <2>1. \A i : i \in Occurrences(e)' <=> i \in Occurrences(e) \/ i = n
    BY <1>4, <1>5, Zenon
  <2> QED BY <2>1, Zenon
<1>8. ~Same(event, e) => Occurrences(e)' = Occurrences(e)
  <2> HAVE ~Same(event, e)
  <2>1. \A i : i \in Occurrences(e)' <=> i \in Occurrences(e)
    BY <1>4, <1>5, <1>6, Zenon
  <2> QED BY <2>1, Zenon
<1> QED BY <1>7, <1>8, Zenon DEF n

LEMMA OnceObserve ==
  ASSUME DistinctTimes, TransitInv, OnceInv, NEW w \in Workers, NEW r \in Reports, ObservePosition(w, r)
  PROVE  OnceInv'
<1>1. /\ TypeOK /\ TypeOK' /\ announced' = announced /\ restarts' = restarts /\ CallOK(call[w])
      /\ UNCHANGED table
  BY TransitTypes, TypeObserve, Zenon
<1> SUFFICES ASSUME NEW e \in Events, Origin(e) PROVE Bounded(e)'
  BY Zenon DEF OnceInv, Origin
<1>2. Bounded(e) /\ Occurrences(e)' = Occurrences(e) /\ Emissions(e) \in Nat /\ Emissions(e)' \in Nat
  BY <1>1, EmissionsNat, Zenon DEF OnceInv, Occurrences
<1>3. ASSUME Pending(e)' \subseteq Pending(e), Spent(e) => Spent(e)' PROVE Bounded(e)'
  <2>1. restarts \in Nat
    BY <1>1, Zenon DEF TypeOK
  <2>2. Emissions(e)' >= Emissions(e)
    BY <1>1, <1>3, <2>1 DEF Emissions
  <2> QED BY <1>2, <1>3, <2>2, StaysBounded, Zenon
<1>4. CASE UNCHANGED <<evaluator, call>>
  BY <1>1, <1>3, <1>4, Zenon DEF Pending, Spent, Past, evaluator, table
<1>5. ASSUME NEW d \in Calls, call[w].pc = "idle", call' = [call EXCEPT ![w] = d], cached' = CurrentFences,
             \/ d.events = {} /\ UNCHANGED <<state, last>>
             \/ d.events = Transitions(r, CurrentFences) /\ Folds(r, Transitions(r, CurrentFences))
      PROVE  Bounded(e)'
  <2>1. /\ w \in Pending(e)' <=> \E x \in d.events : Same(x, e)
        /\ \A u \in Pending(e)' : u # w => u \in Pending(e)
    BY <1>1, <1>5, PendingOf, Zenon
  <2>2. CASE d.events = {} /\ UNCHANGED <<state, last>>
    <3>1. Spent(e) => Spent(e)'
      BY <1>1, <1>5, <2>2, SpentReload, Zenon
    <3> QED BY <1>3, <2>1, <2>2, <3>1, Zenon
  <2>3. CASE d.events = Transitions(r, CurrentFences) /\ Folds(r, Transitions(r, CurrentFences))
    <3>1. CASE \E x \in d.events : Same(x, e)
      <4>1. ~Spent(e) /\ Spent(e)'
        BY <1>1, <1>5, <2>3, <3>1, EmittedOnce, Zenon
      <4>2. restarts \in Nat
        BY <1>1, Zenon DEF TypeOK
      <4>3. Emissions(e)' >= Emissions(e) + 1
        BY <1>1, <4>1, <4>2 DEF Emissions
      <4>4. Pending(e)' \subseteq Pending(e) \cup {w}
        BY <2>1, Zenon
      <4> QED BY <1>2, <4>3, <4>4, EmitsOne, Zenon
    <3>2. CASE ~\E x \in d.events : Same(x, e)
      <4>1. Pending(e)' \subseteq Pending(e)
        BY <2>1, <3>2, Zenon
      <4>2. Spent(e) => Spent(e)'
        BY <1>1, <1>5, <2>3, SpentStays, Zenon
      <4> QED BY <1>3, <4>1, <4>2, Zenon
    <3> QED BY <3>1, <3>2, Zenon
  <2> QED BY <1>5, <2>2, <2>3, Zenon
<1> QED BY <1>1, <1>4, <1>5, ObserveFolds, Zenon

LEMMA OnceAnnounce ==
  ASSUME TransitInv, OnceInv, NEW w \in Workers, Announce(w)
  PROVE  OnceInv'
<1>1. /\ TypeOK /\ TypeOK' /\ restarts' = restarts /\ UNCHANGED <<table, evaluator>>
      /\ announced \in Seq(Events) /\ CallOK(call[w])
  BY TransitTypes, TypeAnnounce, Zenon DEF TypeOK
<1> SUFFICES ASSUME NEW e \in Events, Origin(e) PROVE Bounded(e)'
  BY Zenon DEF OnceInv, Origin
<1>2. Bounded(e) /\ Emissions(e) \in Nat /\ Emissions(e)' = Emissions(e)
  BY <1>1, EmissionsNat, Zenon DEF OnceInv, Emissions, Spent, Past, table, evaluator
<1>3. Emissions(e)' >= Emissions(e)
  BY <1>2
<1>4. PICK event \in Events, d \in Calls :
        /\ event \in call[w].events /\ Settled(d) /\ call' = [call EXCEPT ![w] = d]
        /\ \/ /\ announced' = Append(announced, event) /\ faults' = faults
              /\ d.item = {event} /\ d.events = call[w].events \ {event}
           \/ /\ announced' \in {announced, Append(announced, event)} /\ faults' = faults + 1
              /\ d.item = {} /\ d.events = {}
  BY <1>1, AnnounceCases, Zenon
<1>5. /\ w \in Pending(e) <=> \E x \in call[w].events : Same(x, e)
      /\ w \in Pending(e)' <=> \E x \in d.events : Same(x, e)
      /\ \A u \in Pending(e)' : u # w => u \in Pending(e)
  BY <1>1, <1>4, PendingOf, Zenon
<1>6. d.events \subseteq call[w].events \ {event}
  BY <1>4, Zenon
<1>7. Pending(e)' \subseteq Pending(e)
  BY <1>5, <1>6, Zenon
<1>8. CASE announced' = announced
  <2>1. Occurrences(e)' = Occurrences(e)
    BY <1>8, Zenon DEF Occurrences
  <2> QED BY <1>2, <1>3, <1>7, <2>1, StaysBounded, Zenon
<1>9. CASE announced' = Append(announced, event)
  <2>1. /\ Same(event, e) => Occurrences(e)' = Occurrences(e) \cup {Len(announced) + 1}
        /\ ~Same(event, e) => Occurrences(e)' = Occurrences(e)
    BY <1>1, <1>9, OccurrencesGrow, Zenon
  <2>2. CASE ~Same(event, e)
    BY <1>2, <1>3, <1>7, <2>1, <2>2, StaysBounded, Zenon
  <2>3. CASE Same(event, e)
    <3>1. w \in Pending(e)
      BY <1>4, <1>5, <2>3, Zenon
    <3>2. w \notin Pending(e)'
      <4>1. ASSUME NEW x \in d.events, Same(x, e) PROVE FALSE
        <5>1. x \in call[w].events /\ x # event
          BY <1>6, Zenon
        <5>2. Same(x, event)
          BY <2>3, <4>1, Zenon DEF Same
        <5> QED BY <1>1, <1>4, <5>1, <5>2, Zenon DEF CallOK
      <4> QED BY <1>5, <4>1, Zenon
    <3>3. Pending(e)' \subseteq Pending(e) \ {w}
      BY <1>7, <3>2, Zenon
    <3> QED BY <1>2, <2>1, <2>3, <3>1, <3>3, AnnouncesOne, Zenon
  <2> QED BY <2>2, <2>3, Zenon
<1> QED BY <1>4, <1>8, <1>9, Zenon

(* Editing the fence table and the ageing of the copy bring no past version back. *)
LEMMA EditsKeepPast ==
  ASSUME TransitInv,
         (\E f \in Fences : CreateGeofenceVersion(f) \/ RetireGeofence(f)) \/ GoStale \/ UNCHANGED vars
  PROVE  /\ UNCHANGED <<cached, state, last, call, announced, persisted, faults, restarts>>
         /\ \A f \in Fences, n \in Versions : Past(f, n) => Past(f, n)'
<1>1. UNCHANGED <<cached, state, last, call, announced, persisted, faults, restarts>> /\ (loaded' => loaded)
  BY DEF CreateGeofenceVersion, RetireGeofence, GoStale, vars, evaluator
<1>2. ASSUME NEW f \in Fences
      PROVE  \/ version'[f] = version[f] /\ (active'[f] = active[f] \/ active'[f] = 0)
             \/ version'[f] = version[f] + 1 /\ active'[f] = version[f] + 1
  <2>1. version = [g \in Fences |-> version[g]] /\ active = [g \in Fences |-> active[g]]
    BY TransitTypes, Zenon DEF TypeOK
  <2>2. ASSUME NEW g \in Fences, CreateGeofenceVersion(g) PROVE <1>2!2
    <3>1. version' = [version EXCEPT ![g] = @ + 1] /\ active' = [active EXCEPT ![g] = version[g] + 1]
      BY <2>2, Zenon DEF CreateGeofenceVersion
    <3> QED BY <2>1, <3>1, Zenon
  <2>3. ASSUME NEW g \in Fences, RetireGeofence(g) PROVE <1>2!2
    <3>1. version' = version /\ active' = [active EXCEPT ![g] = 0]
      BY <2>3, Zenon DEF RetireGeofence
    <3> QED BY <2>1, <3>1, Zenon
  <2>4. CASE GoStale \/ UNCHANGED vars
    BY <2>4, Zenon DEF GoStale, vars, table
  <2> QED BY <2>2, <2>3, <2>4, Zenon
<1>3. ASSUME NEW f \in Fences, NEW n \in Versions, Past(f, n) PROVE Past(f, n)'
  <2>1. n \in Nat /\ version[f] \in Nat /\ active[f] \in Nat /\ cached[f] \in Nat
    BY TransitTypes, VersionTypes, Zenon
  <2>2. \/ version'[f] = version[f] /\ (active'[f] = active[f] \/ active'[f] = 0)
        \/ version'[f] = version[f] + 1 /\ active'[f] = version[f] + 1
    BY <1>2, Zenon
  <2> QED BY <1>1, <1>3, <2>1, <2>2 DEF Past
<1> QED BY <1>1, <1>3, Zenon

LEMMA OnceNext ==
  ASSUME DistinctTimes, TransitInv, OnceInv, [Next]_vars
  PROVE  OnceInv'
<1>1. TypeOK /\ TypeOK'
  BY TransitTypes, TypeNext, Zenon
<1>2. ASSUME UNCHANGED <<announced, restarts>>, \A e \in Events : Pending(e)' \subseteq Pending(e),
             \A e \in Events : Spent(e) => Spent(e)'
      PROVE  OnceInv'
  <2> SUFFICES ASSUME NEW e \in Events, Origin(e) PROVE Bounded(e)'
    BY Zenon DEF OnceInv, Origin
  <2>1. /\ Bounded(e) /\ Occurrences(e)' = Occurrences(e) /\ Pending(e)' \subseteq Pending(e)
        /\ Emissions(e) \in Nat /\ Emissions(e)' \in Nat /\ restarts \in Nat
    BY <1>1, <1>2, EmissionsNat, Zenon DEF OnceInv, Occurrences, TypeOK
  <2>2. Emissions(e)' >= Emissions(e)
    BY <1>2, <2>1 DEF Emissions
  <2> QED BY <2>1, <2>2, StaysBounded, Zenon
<1>3. ASSUME NEW w \in Workers, Persist(w) PROVE OnceInv'
  <2>1. UNCHANGED <<table, evaluator, announced, restarts>>
    BY <1>1, <1>3, TypePersist, Zenon
  <2>2. PICK d \in Calls : call' = [call EXCEPT ![w] = d] /\ d.events \subseteq call[w].events
    BY <1>1, <1>3, PersistCases, Zenon
  <2>3. ASSUME NEW e \in Events PROVE Pending(e)' \subseteq Pending(e) /\ (Spent(e) => Spent(e)')
    <3>1. Pending(e)' \subseteq Pending(e)
      BY <1>1, <2>2, PendingOf, Zenon
    <3> QED BY <2>1, <3>1, Zenon DEF Spent, Past, table, evaluator
  <2> QED BY <1>2, <2>1, <2>3, Zenon
<1>4. CASE (\E f \in Fences : CreateGeofenceVersion(f) \/ RetireGeofence(f)) \/ GoStale \/ UNCHANGED vars
  <2>1. /\ UNCHANGED <<cached, state, last, call, announced, restarts>>
        /\ \A f \in Fences, n \in Versions : Past(f, n) => Past(f, n)'
    BY <1>4, EditsKeepPast, Zenon
  <2>2. ASSUME NEW e \in Events PROVE Pending(e)' \subseteq Pending(e) /\ (Spent(e) => Spent(e)')
    <3>1. e.fence \in Fences /\ e.version \in Versions
      BY Zenon DEF Events
    <3> QED BY <2>1, <3>1, Zenon DEF Pending, Spent
  <2> QED BY <1>2, <2>1, <2>2, Zenon
<1>5. CASE Restart
  <2> SUFFICES ASSUME NEW e \in Events, Origin(e) PROVE Bounded(e)'
    BY Zenon DEF OnceInv, Origin
  <2>1. restarts' = restarts + 1 /\ announced' = announced /\ \A w \in Workers : call'[w] = Idle
    BY <1>5, Zenon DEF Restart
  <2>2. Pending(e)' = {} /\ Occurrences(e)' = Occurrences(e)
    BY <2>1, IdleCall, Zenon DEF Pending, Occurrences
  <2>3. Bounded(e) /\ Emissions(e) \in Nat /\ restarts \in Nat /\ Emissions(e)' \in Nat
    BY <1>1, EmissionsNat, Zenon DEF OnceInv, TypeOK
  <2>4. Emissions(e)' >= Emissions(e)
    BY <2>1, <2>3 DEF Emissions
  <2>5. Pending(e)' \subseteq Pending(e)
    BY <2>2, Zenon
  <2> QED BY <2>2, <2>3, <2>4, <2>5, StaysBounded, Zenon
<1> QED BY <1>3, <1>4, <1>5, OnceObserve, OnceAnnounce, Zenon DEF Next

(***************************************************************************)
(* When reports of a vessel have distinct times, redelivery, late arrival  *)
(* and the workers' interleaving announce no transition of a fence version *)
(* twice, whatever ring and dwell rule each version has: a second          *)
(* announcement takes a restart that emptied the engine, and each restart  *)
(* allows one more.                                                        *)
(***************************************************************************)
THEOREM TransitionsAnnouncedOnce == ASSUME DistinctTimes PROVE Spec => []NoDuplicateTransitions
<1>1. Init => OnceInv
  <2> SUFFICES ASSUME Init, NEW e \in Events PROVE Bounded(e)
    BY Zenon DEF OnceInv
  <2>1. Occurrences(e) = {}
    <3>1. DOMAIN announced = {}
      BY DEF Init
    <3> QED BY <3>1, Zenon DEF Occurrences
  <2>2. Pending(e) = {}
    BY IdleCall, Zenon DEF Init, Pending
  <2>3. Emissions(e) \in Nat
    BY DEF Init, Emissions
  <2>4. IsFiniteSet({}) /\ Cardinality({}) = 0
    BY FS_EmptySet, Zenon
  <2> QED BY <2>1, <2>2, <2>3, <2>4 DEF Bounded
<1>2. TransitInv /\ OnceInv => NoDuplicateTransitions
  <2> SUFFICES ASSUME TransitInv, OnceInv, NEW i \in DOMAIN announced
               PROVE  Cardinality(Occurrences(announced[i])) <= 1 + restarts
    BY Zenon DEF NoDuplicateTransitions
  <2>1. announced[i] \in Topic
    BY Zenon DEF Topic
  <2>2. PICK e \in Events : e = announced[i] /\ Origin(e)
    BY <2>1, TransitTypes, Zenon DEF TransitInv, Vetted
  <2>3. /\ IsFiniteSet(Occurrences(e)) /\ IsFiniteSet(Pending(e))
        /\ Cardinality(Occurrences(e)) + Cardinality(Pending(e)) <= Emissions(e)
    BY <2>2, Zenon DEF OnceInv, Bounded
  <2>4. Cardinality(Occurrences(e)) \in Nat /\ Cardinality(Pending(e)) \in Nat
    BY <2>3, FS_CardinalityType, Zenon
  <2>5. restarts \in Nat
    BY TransitTypes, Zenon DEF TypeOK
  <2>6. Emissions(e) \in Nat /\ Emissions(e) <= 1 + restarts
    BY <2>5 DEF Emissions
  <2>7. Cardinality(Occurrences(e)) <= 1 + restarts
    BY <2>3, <2>4, <2>5, <2>6
  <2> QED BY <2>2, <2>7, Zenon
<1>3. TransitInv /\ OnceInv /\ [Next]_vars => OnceInv'
  BY OnceNext, Zenon
<1> QED BY <1>1, <1>2, <1>3, TransitInit, TransitNext, PTL DEF Spec

-----------------------------------------------------------------------------
(* The rows tell who is inside. *)

(* Crossings, as far as their order goes. *)
Timed(e) == e.at \in Nat /\ e.version \in Nat /\ (e.type = "ENTER" \/ e.type = "EXIT")

(* A crossing after the others that changes where they end leaves them alternating. *)
LEMMA OneMoreCrossing ==
  ASSUME NEW C, \A e \in C : Timed(e), Alternates(C), NEW c, Timed(c), \A e \in C : Before(e, c),
         c.type = "ENTER" <=> ~EndsInside(C)
  PROVE  Alternates(C \cup {c}) /\ (EndsInside(C \cup {c}) <=> c.type = "ENTER")
<1> DEFINE D == C \cup {c}
           Earlier(S, e) == {x \in S : Before(x, e)}
<1>1. ASSUME NEW e \in C PROVE ~Before(c, e)
  <2>1. e.at \in Nat /\ e.version \in Nat /\ c.at \in Nat /\ c.version \in Nat /\ Before(e, c)
    BY Zenon DEF Timed
  <2> QED BY <2>1 DEF Before
<1>2. ~Before(c, c)
  <2>1. c.at \in Nat /\ c.version \in Nat
    BY Zenon DEF Timed
  <2> QED BY <2>1 DEF Before
<1>3. ASSUME NEW e \in C PROVE Earlier(D, e) = Earlier(C, e)
  BY <1>1, <1>3, Zenon
<1>4. Earlier(D, c) = C
  BY <1>2, Zenon
<1>5. Latest(D) = {c}
  BY <1>1, <1>2, Zenon DEF Latest
<1>6. EndsInside(D) <=> c.type = "ENTER"
  BY <1>5, Zenon DEF EndsInside
<1>7. c.type = "ENTER" <=> \A b \in Latest(C) : b.type = "EXIT"
  <2>1. \A b \in Latest(C) : b.type = "EXIT" <=> b.type # "ENTER"
    <3>1. Latest(C) \subseteq C /\ "ENTER" # "EXIT"
      BY Zenon DEF Latest
    <3> QED BY <3>1, Zenon DEF Timed
  <2> QED BY <2>1, Zenon DEF EndsInside
<1>8. ASSUME NEW e \in D
      PROVE  e.type = "ENTER" <=> \A b \in Latest(Earlier(D, e)) : b.type = "EXIT"
  <2>1. CASE e \in C
    <3>1. e.type = "ENTER" <=> \A b \in Latest(Earlier(C, e)) : b.type = "EXIT"
      BY <2>1, Zenon DEF Alternates
    <3>2. Earlier(D, e) = Earlier(C, e)
      BY <1>3, <2>1, Zenon
    <3> HIDE DEF Earlier, D
    <3> QED BY <3>1, <3>2, Zenon
  <2>2. CASE e = c
    <3> HIDE DEF Earlier, D
    <3> QED BY <1>4, <1>7, <2>2, Zenon
  <2> QED BY <2>1, <2>2, Zenon
<1>9. Alternates(D)
  BY <1>8, Zenon DEF Alternates
<1> QED BY <1>6, <1>9, Zenon

(* What a pair is told of: its crossings have a report each. *)
LEMMA ToldIs ==
  ASSUME TransitInv, NEW v \in Vessels, NEW f \in Fences, NEW e \in Told(v, f)
  PROVE  /\ e \in Events /\ Timed(e) /\ Origin(e)
         /\ e.vessel = v /\ e.fence = f /\ e.version \in Versions /\ e.type # "DWELL"
<1>1. e \in Known /\ e.vessel = v /\ e.fence = f /\ e.type # "DWELL"
  BY Zenon DEF Told, Crossings
<1>2. e \in Events /\ Origin(e)
  <2>1. \A x \in Topic : x \in Events /\ Origin(x)
    BY TransitTypes, Zenon DEF TransitInv, Vetted
  <2>2. CASE e \in persisted
    BY <2>1, <2>2, Zenon DEF TransitInv
  <2>3. CASE e \in UNION {Held(c) : c \in Running}
    <3>1. PICK S \in {Held(c) : c \in Running} : e \in S
      BY <2>3, Zenon
    <3>2. PICK c \in Running : S = Held(c)
      BY Zenon
    <3>3. CallOK(c) /\ c.events \subseteq Events
      BY TransitTypes, Zenon DEF TransitInv, Calls
    <3> QED BY <2>1, <3>1, <3>2, <3>3, Zenon DEF CallOK, Held, Vetted
  <2> QED BY <1>1, <2>2, <2>3, Zenon DEF Known
<1>3. e.at \in Nat /\ e.version \in Versions /\ e.version \in Nat /\ e.type \in EventTypes
  BY <1>2, TransitTypes, VersionTypes, Zenon DEF Events
<1>4. e.type = "ENTER" \/ e.type = "EXIT"
  BY <1>1, <1>3, Zenon DEF EventTypes
<1> QED BY <1>1, <1>2, <1>3, <1>4, Zenon DEF Timed

(* What a step of w adds to the transitions known. *)
LEMMA KnownOf ==
  ASSUME TypeOK, NEW w \in Workers, NEW d, call' = [call EXCEPT ![w] = d], NEW new,
         \A e : e \in persisted' \/ e \in Held(d) <=> e \in persisted \/ e \in Held(call[w]) \/ e \in new
  PROVE  Known' = Known \cup new
<1>1. call'[w] = d /\ \A u \in Workers : u # w => call'[u] = call[u]
  BY OneCall, Zenon DEF TypeOK
<1>2. \A e : e \in UNION {Held(c) : c \in Running} <=> \E u \in Workers : e \in Held(call[u])
  BY Zenon DEF Running
<1>3. \A e : e \in UNION {Held(c) : c \in Running'} <=> \E u \in Workers : e \in Held(call'[u])
  BY Zenon DEF Running
<1>4. \A e : e \in Known <=> e \in persisted \/ \E u \in Workers : e \in Held(call[u])
  BY <1>2, Zenon DEF Known
<1>5. \A e : e \in Known' <=> e \in persisted' \/ \E u \in Workers : e \in Held(call'[u])
  BY <1>3, Zenon DEF Known, Held
<1>6. ASSUME NEW e PROVE e \in Known' <=> e \in Known \/ e \in new
  <2>1. (\E u \in Workers : e \in Held(call[u]))
          <=> e \in Held(call[w]) \/ \E u \in Workers \ {w} : e \in Held(call[u])
    BY Zenon
  <2>2. (\E u \in Workers : e \in Held(call'[u]))
          <=> e \in Held(d) \/ \E u \in Workers \ {w} : e \in Held(call[u])
    BY <1>1, Zenon
  <2>3. e \in persisted' \/ e \in Held(d) <=> e \in persisted \/ e \in Held(call[w]) \/ e \in new
    BY Zenon
  <2>4. e \in Known <=> e \in persisted \/ \E u \in Workers : e \in Held(call[u])
    BY <1>4, Zenon
  <2>5. e \in Known' <=> e \in persisted' \/ \E u \in Workers : e \in Held(call'[u])
    BY <1>5, Zenon
  <2> QED BY <2>1, <2>2, <2>3, <2>4, <2>5, Zenon
<1> QED BY <1>6, Zenon

(* A crossing that the engine emits comes after all those it has emitted for the pair. *)
LEMMA LaterCrossing ==
  ASSUME DistinctTimes, TransitInv, UNCHANGED table, cached' = CurrentFences,
         NEW r \in Reports, NEW events, Folds(r, events),
         NEW c \in events, c.type # "DWELL", Agrees(r.vessel, c.fence)
  PROVE  /\ Timed(c) /\ c.at = r.at /\ c.version = CurrentFences[c.fence]
         /\ \A e \in Told(r.vessel, c.fence) : Before(e, c)
         /\ c.type = "ENTER" <=> ~EndsInside(Told(r.vessel, c.fence))
         /\ state'[r.vessel][c.fence].inside <=> c.type = "ENTER"
<1> DEFINE v == r.vessel
           f == c.fence
           C == Told(v, f)
<1>1. /\ c \in Events /\ c.at = r.at /\ (c.type = "EXIT" <=> ~Inside(r, f, c.version))
      /\ c.version = CurrentFences[f] /\ c.version # 0
      /\ state'[v][f].inside <=> c.type # "EXIT"
      /\ state[v][f].inside <=> c.type = "EXIT"
  BY Zenon DEF Folds, Observes, Emission
<1>2. v \in Vessels /\ f \in Fences /\ c.at \in Nat /\ c.version \in Nat /\ c.type \in EventTypes
  <2>1. v \in Vessels
    BY Zenon DEF Vessels
  <2> QED BY <1>1, <2>1, TransitTypes, VersionTypes, Zenon DEF Events
<1>3. c.type = "ENTER" <=> c.type # "EXIT"
  BY <1>2, Zenon DEF EventTypes
<1>4. Timed(c)
  BY <1>2, <1>3, Zenon DEF Timed
<1>5. last[v] \in Nat /\ r.at >= last[v]
  <2>1. last[v] \in Nat
    BY <1>2, TransitTypes, Zenon DEF TypeOK
  <2> QED BY <2>1, Zenon DEF Folds
<1>6. ASSUME NEW e \in C PROVE Timed(e) /\ Origin(e) /\ e.vessel = v /\ e.fence = f /\ e.version \in Versions
  <2> HIDE DEF v, f
  <2> QED BY <1>2, <1>6, ToldIs, Zenon
<1>7. ASSUME NEW e \in C, e.at = r.at, e.version = c.version PROVE e.type = "EXIT" <=> c.type = "EXIT"
  <2>1. PICK s \in Reports : /\ s.vessel = e.vessel /\ s.at = e.at
                             /\ e.type = "EXIT" <=> ~Inside(s, e.fence, e.version)
    BY <1>6, Zenon DEF Origin
  <2>2. s = r /\ e.fence = f
    BY <1>6, <1>7, <2>1, Zenon DEF DistinctTimes
  <2> QED BY <1>1, <1>7, <2>1, <2>2, Zenon
<1>8. ASSUME NEW e \in C
      PROVE  e.at <= last[v] /\ e.at \in Nat /\ e.version \in Nat /\ e.version <= c.version
  <2>1. e.at <= last[v] /\ (Past(f, e.version) \/ cached[f] = e.version)
    BY Zenon DEF Agrees
  <2>2. e.version \in Versions /\ e.at \in Nat /\ e.version \in Nat
    BY <1>6, Zenon DEF Timed
  <2>3. e.version <= CurrentFences[f]
    BY <1>1, <1>2, <2>1, <2>2, PastReload, Zenon
  <2> QED BY <1>1, <2>1, <2>2, <2>3, Zenon
<1>9. state[v][f].inside <=> EndsInside(C)
  BY Zenon DEF Agrees
<1> HIDE DEF v, f, C
<1>10. ASSUME NEW e \in C, ~Before(e, c) PROVE FALSE
  <2>1. e.at \in Nat /\ e.version \in Nat /\ e.at = last[v] /\ e.at = r.at /\ e.version = c.version
    <3>1. e.at <= last[v] /\ e.at \in Nat /\ e.version \in Nat /\ e.version <= c.version
      BY <1>8, Zenon
    <3> QED BY <1>1, <1>2, <1>5, <1>10, <3>1 DEF Before
  <2>2. ASSUME NEW x \in C PROVE ~Before(e, x) /\ (Before(x, e) \/ (x.at = r.at /\ x.version = c.version))
    <3>1. x.at <= last[v] /\ x.at \in Nat /\ x.version \in Nat /\ x.version <= c.version
      BY <1>8, Zenon
    <3> QED BY <2>1, <3>1 DEF Before
  <2>3. e \in Latest(C)
    BY <2>2, Zenon DEF Latest
  <2>4. CASE c.type = "EXIT"
    <3>1. PICK x \in Latest(C) : x.type = "ENTER"
      BY <1>1, <1>9, <2>4, Zenon DEF EndsInside
    <3>2. x \in C /\ ~Before(x, e)
      BY Zenon DEF Latest
    <3>3. x.at = r.at /\ x.version = c.version
      BY <2>2, <3>2, Zenon
    <3>4. "ENTER" # "EXIT"
      BY Zenon
    <3> QED BY <1>7, <2>4, <3>1, <3>2, <3>3, <3>4, Zenon
  <2>5. CASE c.type # "EXIT"
    <3>1. e.type = "ENTER"
      BY <1>6, <1>7, <2>1, <2>5, Zenon DEF Timed
    <3>2. EndsInside(C)
      BY <2>3, <3>1, Zenon DEF EndsInside
    <3> QED BY <1>1, <1>9, <2>5, <3>2, Zenon
  <2> QED BY <2>4, <2>5, Zenon
<1>11. \A e \in C : Before(e, c)
  BY <1>10, Zenon
<1>12. c.type = "ENTER" <=> ~EndsInside(C)
  BY <1>1, <1>3, <1>9, Zenon
<1>13. state'[v][f].inside <=> c.type = "ENTER"
  BY <1>1, <1>3, Zenon
<1> QED BY <1>1, <1>4, <1>11, <1>12, <1>13, Zenon DEF v, f, C

LEMMA RowsObserve ==
  ASSUME DistinctTimes, TransitInv, NEW w \in Workers, NEW r \in Reports,
         ObservePosition(w, r), faults' # faults + 1,
         NEW v \in Vessels, NEW f \in Fences, Agrees(v, f)
  PROVE  Agrees(v, f)'
<1>1. TypeOK /\ TypeOK' /\ persisted' = persisted /\ UNCHANGED table /\ CallOK(call[w])
  BY TransitTypes, TypeObserve, Zenon
<1>2. PICK d \in Calls :
        /\ call[w].pc = "idle" /\ call' = [call EXCEPT ![w] = d]
        /\ cached' = CurrentFences /\ d.item = {}
        /\ \/ d.events = {} /\ UNCHANGED <<state, last>>
           \/ d.events = Transitions(r, CurrentFences) /\ Folds(r, Transitions(r, CurrentFences))
  BY <1>1, ObserveFolds, Zenon
<1>3. Known' = Known \cup d.events
  <2>1. "idle" # "persist"
    BY Zenon
  <2>2. Held(call[w]) = {} /\ Held(d) = d.events
    BY <1>1, <1>2, <2>1, Zenon DEF CallOK, Held
  <2>3. \A e : e \in persisted' \/ e \in Held(d) <=> e \in persisted \/ e \in Held(call[w]) \/ e \in d.events
    BY <1>1, <2>2, Zenon
  <2> QED BY <1>1, <1>2, <2>3, KnownOf, Zenon
<1>4. ASSUME NEW e \in Told(v, f)
      PROVE  /\ Timed(e) /\ e.at <= last[v]
             /\ Past(f, e.version)' \/ cached'[f] = e.version
  <2>1. Timed(e) /\ e.version \in Versions
    BY ToldIs, Zenon
  <2>2. e.at <= last[v] /\ (Past(f, e.version) \/ cached[f] = e.version)
    BY Zenon DEF Agrees
  <2> QED BY <1>1, <1>2, <2>1, <2>2, PastReload, Zenon
<1>5. CASE d.events = {} /\ UNCHANGED <<state, last>>
  <2>1. Told(v, f)' = Told(v, f)
    <3>1. Known' = Known
      BY <1>3, <1>5, Zenon
    <3> QED BY <3>1, Zenon DEF Told, Crossings
  <2> QED BY <1>4, <1>5, <2>1, Zenon DEF Agrees
<1>6. ASSUME d.events = Transitions(r, CurrentFences), Folds(r, Transitions(r, CurrentFences))
      PROVE  Agrees(v, f)'
  <2> DEFINE E == d.events
  <2>1. Folds(r, E)
    BY <1>6, Zenon
  <2>2. \A e \in E : Emission(e, r, state[r.vessel], state'[r.vessel]) /\ e.version = CurrentFences[e.fence]
    BY <2>1, Zenon DEF Folds, Observes
  <2>3. \A e : e \in Told(v, f)' <=> e \in Told(v, f)
                                     \/ (e \in E /\ e.vessel = v /\ e.fence = f /\ e.type # "DWELL")
    BY <1>3, Zenon DEF Told, Crossings
  <2> HIDE DEF E
  <2>4. CASE \E c \in E : c.vessel = v /\ c.fence = f /\ c.type # "DWELL"
    <3>1. PICK c \in E : c.vessel = v /\ c.fence = f /\ c.type # "DWELL"
      BY <2>4, Zenon
    <3>2. v = r.vessel
      BY <2>2, <3>1, Zenon DEF Emission
    <3>3. ASSUME NEW e \in E, e.vessel = v, e.fence = f, e.type # "DWELL" PROVE e = c
      <4>1. /\ e \in Events /\ c \in Events /\ e.at = r.at /\ c.at = r.at /\ e.version = c.version
            /\ e.type = "EXIT" <=> c.type = "EXIT"
        BY <2>2, <3>1, <3>3 DEF Emission
      <4>2. e.type \in EventTypes /\ c.type \in EventTypes
        BY <4>1, Zenon DEF Events
      <4>3. e.type = c.type
        BY <3>1, <3>3, <4>1, <4>2, Zenon DEF EventTypes
      <4>4. Same(e, c)
        BY <3>1, <3>3, <4>1, <4>3, Zenon DEF Same
      <4> QED BY <2>1, <3>1, <3>3, <4>4, Zenon DEF Folds, Observes
    <3>4. Told(v, f)' = Told(v, f) \cup {c}
      <4>1. \A e : e \in Told(v, f)' <=> e \in Told(v, f) \/ e = c
        BY <2>3, <3>1, <3>3, Zenon
      <4> QED BY <4>1, Zenon
    <3>5. /\ Timed(c) /\ c.at = r.at /\ c.version = CurrentFences[f]
          /\ \A e \in Told(v, f) : Before(e, c)
          /\ c.type = "ENTER" <=> ~EndsInside(Told(v, f))
          /\ state'[v][f].inside <=> c.type = "ENTER"
      BY <1>1, <1>2, <2>1, <3>1, <3>2, LaterCrossing, Zenon
    <3>6. /\ Alternates(Told(v, f) \cup {c})
          /\ EndsInside(Told(v, f) \cup {c}) <=> c.type = "ENTER"
      <4>1. Alternates(Told(v, f))
        BY Zenon DEF Agrees
      <4> QED BY <1>4, <3>5, <4>1, OneMoreCrossing, Zenon
    <3>7. last'[v] = c.at
      BY <2>1, <3>2, <3>5, Zenon DEF Folds
    <3>8. ASSUME NEW e \in Told(v, f) \cup {c}
          PROVE  e.at <= last'[v] /\ (Past(f, e.version)' \/ cached'[f] = e.version)
      <4>1. e.at \in Nat /\ c.at \in Nat /\ (Before(e, c) \/ e = c)
        BY <1>4, <3>5, Zenon DEF Timed
      <4>2. e.at <= c.at
        BY <4>1 DEF Before
      <4> QED BY <1>2, <1>4, <3>5, <3>7, <4>2, Zenon
    <3>9. Alternates(Told(v, f))' /\ (EndsInside(Told(v, f))' <=> c.type = "ENTER")
      BY <3>4, <3>6, Zenon DEF Alternates, EndsInside
    <3> QED BY <3>4, <3>5, <3>8, <3>9, Zenon DEF Agrees
  <2>5. CASE ~\E c \in E : c.vessel = v /\ c.fence = f /\ c.type # "DWELL"
    <3>1. Told(v, f)' = Told(v, f)
      BY <2>3, <2>5, Zenon
    <3>2. state'[v][f].inside <=> state[v][f].inside
      <4>1. CASE v # r.vessel
        BY <2>1, <4>1, Zenon DEF Folds
      <4>2. CASE v = r.vessel
        <5>1. \A e \in E : e.vessel = v
          BY <2>2, <4>2, Zenon DEF Emission
        <5> QED BY <2>1, <2>5, <4>2, <5>1, Zenon DEF Folds, Observes
      <4> QED BY <4>1, <4>2, Zenon
    <3>3. last[v] \in Nat /\ last'[v] \in Nat /\ last[v] <= last'[v]
      <4>1. last[v] \in Nat /\ last'[v] \in Nat
        BY <1>1, Zenon DEF TypeOK
      <4>2. last'[v] = last[v] \/ last'[v] >= last[v]
        BY <2>1, Zenon DEF Folds
      <4> QED BY <4>1, <4>2
    <3>4. \A e \in Told(v, f) : e.at <= last'[v]
      <4> TAKE e \in Told(v, f)
      <4>1. e.at \in Nat /\ e.at <= last[v]
        BY <1>4, Zenon DEF Timed
      <4> QED BY <3>3, <4>1
    <3> QED BY <1>4, <3>1, <3>2, <3>4, Zenon DEF Agrees
  <2> QED BY <2>4, <2>5, Zenon
<1> QED BY <1>2, <1>5, <1>6, Zenon

LEMMA RowsNext ==
  ASSUME DistinctTimes, TransitInv, RowsInv, [Next]_vars
  PROVE  RowsInv'
<1>1. TypeOK /\ TypeOK'
  BY TransitTypes, TypeNext, Zenon
<1>2. ASSUME UNCHANGED <<faults, restarts, state, last, cached>>, Known' = Known,
             \A f \in Fences, n \in Versions : Past(f, n) => Past(f, n)'
      PROVE  RowsInv'
  <2> SUFFICES ASSUME faults = 0, restarts = 0, NEW v \in Vessels, NEW f \in Fences PROVE Agrees(v, f)'
    BY <1>2, Zenon DEF RowsInv
  <2>1. Agrees(v, f) /\ Told(v, f)' = Told(v, f)
    BY <1>2, Zenon DEF RowsInv, Told, Crossings
  <2>2. \A e \in Told(v, f) : e.version \in Versions
    BY ToldIs, Zenon
  <2> QED BY <1>2, <2>1, <2>2, Zenon DEF Agrees
<1>3. faults' = faults + 1 => faults' # 0
  BY <1>1 DEF TypeOK
<1>4. ASSUME NEW w \in Workers, NEW r \in Reports, ObservePosition(w, r) PROVE RowsInv'
  <2>1. CASE faults' = faults + 1
    BY <1>3, <2>1, Zenon DEF RowsInv
  <2>2. CASE faults' # faults + 1
    <3>1. faults' = faults /\ restarts' = restarts
      BY <1>1, <1>4, <2>2, ObserveCases, TypeObserve, Zenon
    <3> QED BY <1>4, <2>2, <3>1, RowsObserve, Zenon DEF RowsInv
  <2> QED BY <2>1, <2>2, Zenon
<1>5. ASSUME NEW w \in Workers, Announce(w) PROVE RowsInv'
  <2>1. restarts' = restarts /\ persisted' = persisted /\ UNCHANGED <<table, evaluator>> /\ CallOK(call[w])
    BY <1>1, <1>5, TransitTypes, TypeAnnounce, Zenon
  <2>2. CASE faults' = faults + 1
    BY <1>3, <2>2, Zenon DEF RowsInv
  <2>3. CASE faults' # faults + 1
    <3>1. PICK event \in Events, d \in Calls :
            /\ call[w].pc = "announce" /\ event \in call[w].events /\ call' = [call EXCEPT ![w] = d]
            /\ faults' = faults /\ d.item = {event} /\ d.events = call[w].events \ {event}
      BY <1>1, <1>5, <2>3, AnnounceCases, Zenon
    <3>2. "announce" # "persist"
      BY Zenon
    <3>3. Held(d) = Held(call[w])
      BY <2>1, <3>1, <3>2, Zenon DEF CallOK, Held
    <3>4. Known' = Known \cup {}
      BY <1>1, <2>1, <3>1, <3>3, KnownOf, Zenon
    <3> QED BY <1>2, <2>1, <3>1, <3>4, Zenon DEF Past, table, evaluator
  <2> QED BY <2>2, <2>3, Zenon
<1>6. ASSUME NEW w \in Workers, Persist(w) PROVE RowsInv'
  <2>1. restarts' = restarts /\ UNCHANGED <<table, evaluator>>
    BY <1>1, <1>6, TypePersist, Zenon
  <2>2. CASE faults' = faults + 1
    BY <1>3, <2>2, Zenon DEF RowsInv
  <2>3. CASE faults' # faults + 1
    <3>1. PICK d \in Calls :
            /\ call' = [call EXCEPT ![w] = d] /\ d.item = {} /\ d.events = call[w].events
            /\ faults' = faults /\ persisted' = persisted \cup call[w].item
      BY <1>1, <1>6, <2>3, PersistCases, Zenon
    <3>2. \A e : e \in persisted' \/ e \in Held(d) <=> e \in persisted \/ e \in Held(call[w]) \/ e \in {}
      BY <3>1, Zenon DEF Held
    <3>3. Known' = Known \cup {}
      BY <1>1, <3>1, <3>2, KnownOf, Zenon
    <3> QED BY <1>2, <2>1, <3>1, <3>3, Zenon DEF Past, table, evaluator
  <2> QED BY <2>2, <2>3, Zenon
<1>7. CASE (\E f \in Fences : CreateGeofenceVersion(f) \/ RetireGeofence(f)) \/ GoStale \/ UNCHANGED vars
  <2>1. /\ UNCHANGED <<cached, state, last, call, persisted, faults, restarts>>
        /\ \A f \in Fences, n \in Versions : Past(f, n) => Past(f, n)'
    BY <1>7, EditsKeepPast, Zenon
  <2>2. Known' = Known
    BY <2>1, Zenon DEF Known, Running, Held
  <2> QED BY <1>2, <2>1, <2>2, Zenon
<1>8. CASE Restart
  <2>1. restarts' = restarts + 1
    BY <1>8, Zenon DEF Restart
  <2>2. restarts' # 0
    BY <1>1, <2>1 DEF TypeOK
  <2> QED BY <2>2, Zenon DEF RowsInv
<1> QED BY <1>4, <1>5, <1>6, <1>7, <1>8, Zenon DEF Next

(***************************************************************************)
(* While no call fails and the process does not restart, the rows of       *)
(* geofence_transition_events tell who is inside: read by time and, at one *)
(* time, by fence version, the entries and exits of every pair alternate   *)
(* and end with the engine's view whenever no call is running, in whatever *)
(* order the workers persisted them and whatever ring and dwell rule each  *)
(* fence version has.  Reports of a vessel have distinct times.            *)
(***************************************************************************)
THEOREM RowsTellWhoIsInside == ASSUME DistinctTimes PROVE Spec => []RowsTellMembership
<1>1. Init => RowsInv
  <2> SUFFICES ASSUME Init, NEW v \in Vessels, NEW f \in Fences PROVE Agrees(v, f)
    BY Zenon DEF RowsInv
  <2>1. Told(v, f) = {}
    <3>1. \A c \in Running : c = Idle
      BY Zenon DEF Init, Running
    <3>2. persisted = {} /\ \A c \in Running : Held(c) = {}
      BY <3>1, IdleCall, Zenon DEF Init, Held
    <3>3. \A e : e \notin Known
      BY <3>2 DEF Known
    <3> QED BY <3>3, Zenon DEF Told, Crossings
  <2>2. state[v][f] = NewFenceState
    BY Zenon DEF Init
  <2> QED BY <2>1, <2>2, NewState, Zenon DEF Agrees, Alternates, EndsInside, Latest
<1>2. TransitInv /\ RowsInv => RowsTellMembership
  <2> SUFFICES ASSUME TransitInv, RowsInv, Quiet, faults = 0, restarts = 0,
                      NEW v \in Vessels, NEW f \in Fences
               PROVE  /\ Alternates(Crossings(persisted, v, f))
                      /\ state[v][f].inside <=> EndsInside(Crossings(persisted, v, f))
    BY Zenon DEF RowsTellMembership
  <2>1. \A w \in Workers : Held(call[w]) = {}
    <3>1. "idle" # "persist"
      BY Zenon
    <3> QED BY <3>1, TransitTypes, Zenon DEF Quiet, CallOK, Held
  <2>2. Known = persisted
    <3>1. \A c \in Running : Held(c) = {}
      BY <2>1, Zenon DEF Running
    <3> QED BY <3>1, Zenon DEF Known
  <2>3. Agrees(v, f)
    BY Zenon DEF RowsInv
  <2> QED BY <2>2, <2>3, Zenon DEF Agrees, Told
<1>3. TransitInv /\ RowsInv /\ [Next]_vars => RowsInv'
  BY RowsNext, Zenon
<1> QED BY <1>1, <1>2, <1>3, TransitInit, TransitNext, PTL DEF Spec
=============================================================================
