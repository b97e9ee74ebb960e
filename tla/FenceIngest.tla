----------------------------- MODULE FenceIngest -----------------------------
(***************************************************************************)
(* FenceV2Evaluator of internal/connectors/fencev2.go: the fence engine in *)
(* the ingest hot path.  ObservePosition folds a report into the engine    *)
(* under a mutex, against a cached copy of the active fence versions, and  *)
(* then, outside the mutex, announces and persists each transition.        *)
(*                                                                         *)
(* The fence table is edited meanwhile: a version of a fence has a ring    *)
(* and a dwell rule of its own.  A reload, a publication or an insert may  *)
(* fail, and a failed publication or insert may have landed.               *)
(***************************************************************************)
EXTENDS FenceRules, Sequences, FiniteSets

CONSTANTS
  Workers,       \* goroutines that call ObservePosition
  Reports,       \* records: vessel, inside (the <<fence, version>> whose ring holds the point), speed, at
  Fences,        \* geofence ids
  Threshold, Gate,  \* the dwell rule of each <<fence, version>>
  MaxCalls,      \* bound: deliveries of one report
  MaxVersions,   \* bound: versions of one fence
  MaxFaults, MaxRestarts

Versions == 1 .. MaxVersions

ASSUME FenceIngestAssumption ==
  /\ Fences \subseteq Nat
  /\ \A f \in Fences, n \in Versions : Threshold[f, n] \in Nat /\ Gate[f, n] \in Nat
  /\ MaxCalls \in Nat /\ MaxVersions \in Nat \ {0} /\ MaxFaults \in Nat /\ MaxRestarts \in Nat
  /\ \A r \in Reports : r.inside \subseteq Fences \X Versions /\ r.speed \in Int /\ r.at \in Nat

VARIABLES
  version,    \* geofences: version[f] is the latest version
  active,     \* geofences: active[f] is the ACTIVE version, 0 for none
  cached,     \* the evaluator's copy of active; meaningless until loaded
  loaded,     \* FALSE when the copy is missing or older than ReloadInterval
  state,      \* engine.state
  last,       \* engine.last
  call,       \* call[w]: where the worker is, the transition in hand, the ones still to announce
  announced,  \* geo.geofence-event.v1 envelopes, in topic order
  persisted,  \* geofence_transition_events
  calls, faults, restarts

table == <<version, active>>
evaluator == <<cached, loaded, state, last>>
vars == <<version, active, cached, loaded, state, last, call, announced, persisted,
          calls, faults, restarts>>

Vessels == {r.vessel : r \in Reports}
Idle == [pc |-> "idle", item |-> {}, events |-> {}]

Init ==
  /\ version = [f \in Fences |-> 1] /\ active = [f \in Fences |-> 1]
  /\ cached = [f \in Fences |-> 0] /\ loaded = FALSE
  /\ state = [v \in Vessels |-> [f \in Fences |-> NewFenceState]]
  /\ last = [v \in Vessels |-> 0]
  /\ call = [w \in Workers |-> Idle]
  /\ announced = <<>> /\ persisted = {}
  /\ calls = [r \in Reports |-> 0]
  /\ faults = 0 /\ restarts = 0

-----------------------------------------------------------------------------
(* A worker's call. *)

(* fencesLocked: the copy in use, reloaded from the table when it is stale. *)
CurrentFences == IF loaded THEN cached ELSE active

(* The position of r lies in the ring of version n of fence f. *)
Inside(r, f, n) == <<f, n>> \in r.inside

(* The engine's rules for r and version n of fence f: the new memory of the pair, the events. *)
FoldUnder(r, f, n) ==
  Fold(state[r.vessel][f], Inside(r, f, n), r.speed, r.at, Threshold[f, n], Gate[f, n])

EmitsUnder(r, f, n) ==
  Emits(state[r.vessel][f], Inside(r, f, n), r.speed, r.at, Threshold[f, n], Gate[f, n])

(* The transitions of report r against the fence versions in use. *)
Transitions(r, fences) ==
  {[vessel |-> r.vessel, fence |-> p[1], version |-> fences[p[1]], type |-> p[2],
    at |-> r.at, call |-> calls[r]] :
     p \in {q \in Fences \X EventTypes : fences[q[1]] # 0 /\ q[2] \in EmitsUnder(r, q[1], fences[q[1]])}}

(* Observe sorts the fences, and a fence has at most one transition: the next to announce. *)
Foremost(events) == {e \in events : \A x \in events : e.fence <= x.fence}

(* Mutant: the memory of a fence that has no active version is dropped. *)
FoldedForgetting(r, fences) ==
  [f \in Fences |-> IF fences[f] # 0 THEN FoldUnder(r, f, fences[f]) ELSE NewFenceState]

(* The engine's memory of the vessel after r; it is kept per fence, not per version. *)
Folded(r, fences) ==
  [f \in Fences |-> IF fences[f] # 0 THEN FoldUnder(r, f, fences[f]) ELSE state[r.vessel][f]]

(* Mutant: a report older than the latest one is folded as well. *)
InOrderAlways(r) == r.at > 0

InOrder(r) == r.at > 0 /\ r.at >= last[r.vessel]

(* The critical section: reload if stale, Observe, and remember what to announce. *)
ObservePosition(w, r) ==
  LET fences == CurrentFences
      events == IF InOrder(r) THEN Transitions(r, fences) ELSE {}
  IN  /\ call[w].pc = "idle"
      /\ calls[r] < MaxCalls
      /\ calls' = [calls EXCEPT ![r] = @ + 1]
      /\ \/ /\ cached' = fences /\ loaded' = TRUE
            /\ IF InOrder(r)
               THEN /\ state' = [state EXCEPT ![r.vessel] = Folded(r, fences)]
                    /\ last' = [last EXCEPT ![r.vessel] = r.at]
               ELSE UNCHANGED <<state, last>>
            /\ call' = [call EXCEPT ![w] = IF events = {} THEN Idle
                                           ELSE [pc |-> "announce", item |-> {}, events |-> events]]
            /\ UNCHANGED faults
         \/ /\ ~loaded /\ faults < MaxFaults
            /\ faults' = faults + 1
            /\ UNCHANGED <<evaluator, call>>
      /\ UNCHANGED <<table, announced, persisted, restarts>>

(* A call fails: the error ends it, the remaining transitions are gone. *)
Fail(w) ==
  /\ faults < MaxFaults
  /\ faults' = faults + 1
  /\ call' = [call EXCEPT ![w] = Idle]

(* The event is in hand, to be persisted. *)
TakeUp(w, event) ==
  call' = [call EXCEPT ![w] = [pc |-> "persist", item |-> {event}, events |-> @.events \ {event}]]

(* Mutant: the transition is persisted although its announcement failed. *)
AnnounceAnyway(w) ==
  /\ call[w].pc = "announce"
  /\ \E event \in Foremost(call[w].events) :
       /\ \/ announced' = Append(announced, event) /\ UNCHANGED faults
          \/ faults < MaxFaults /\ faults' = faults + 1 /\ UNCHANGED announced
       /\ TakeUp(w, event)
  /\ UNCHANGED <<table, evaluator, persisted, calls, restarts>>

(* PublishSignedEnvelope for the next transition. *)
Announce(w) ==
  /\ call[w].pc = "announce"
  /\ \E event \in Foremost(call[w].events) :
       \/ announced' = Append(announced, event) /\ TakeUp(w, event) /\ UNCHANGED faults
       \/ announced' \in {announced, Append(announced, event)} /\ Fail(w)
  /\ UNCHANGED <<table, evaluator, persisted, calls, restarts>>

(* InsertGeofenceEventIngest, then the next transition. *)
Persist(w) ==
  LET c == call[w]
  IN  /\ c.pc = "persist"
      /\ \/ /\ persisted' = persisted \cup c.item
            /\ call' = [call EXCEPT ![w] = IF c.events = {} THEN Idle
                                           ELSE [c EXCEPT !.pc = "announce", !.item = {}]]
            /\ UNCHANGED faults
         \/ persisted' \in {persisted, persisted \cup c.item} /\ Fail(w)
      /\ UNCHANGED <<table, evaluator, announced, calls, restarts>>

-----------------------------------------------------------------------------
(* What happens around the calls. *)

(* ReloadInterval has passed since the last load. *)
GoStale ==
  /\ loaded
  /\ loaded' = FALSE
  /\ UNCHANGED <<table, cached, state, last, call, announced, persisted, calls, faults, restarts>>

(* CreateGeofenceVersion retires the active row and inserts the next version. *)
CreateGeofenceVersion(f) ==
  /\ version[f] < MaxVersions
  /\ version' = [version EXCEPT ![f] = @ + 1]
  /\ active' = [active EXCEPT ![f] = version[f] + 1]
  /\ UNCHANGED <<evaluator, call, announced, persisted, calls, faults, restarts>>

RetireGeofence(f) ==
  /\ active[f] # 0
  /\ active' = [active EXCEPT ![f] = 0]
  /\ UNCHANGED <<version, evaluator, call, announced, persisted, calls, faults, restarts>>

(* The engine and the copy of the fences are in memory. *)
Restart ==
  /\ restarts < MaxRestarts
  /\ restarts' = restarts + 1
  /\ cached' = [f \in Fences |-> 0] /\ loaded' = FALSE
  /\ state' = [v \in Vessels |-> [f \in Fences |-> NewFenceState]]
  /\ last' = [v \in Vessels |-> 0]
  /\ call' = [w \in Workers |-> Idle]
  /\ UNCHANGED <<table, announced, persisted, calls, faults>>

Next ==
  \/ \E w \in Workers : \/ \E r \in Reports : ObservePosition(w, r)
                        \/ Announce(w) \/ Persist(w)
  \/ GoStale
  \/ \E f \in Fences : CreateGeofenceVersion(f) \/ RetireGeofence(f)
  \/ Restart

Spec == Init /\ [][Next]_vars

-----------------------------------------------------------------------------
(* Properties. *)

Topic == {announced[i] : i \in DOMAIN announced}

(***************************************************************************)
(* "Announce first; a transition that cannot be announced is not           *)
(* persisted": whatever fails, a row of geofence_transition_events has     *)
(* its envelope on the topic, and an envelope cites a version the fence    *)
(* has had, although the engine's copy of the table may be stale.          *)
(***************************************************************************)
PersistedWasAnnounced ==
  /\ persisted \subseteq Topic
  /\ \A e \in Topic : e.version \in 1 .. version[e.fence]

(* The positions at which the topic carries one transition of a pair, under one version, at one time. *)
Occurrences(e) ==
  {i \in DOMAIN announced : /\ announced[i].vessel = e.vessel /\ announced[i].fence = e.fence
                            /\ announced[i].version = e.version
                            /\ announced[i].type = e.type /\ announced[i].at = e.at}

(***************************************************************************)
(* Redelivered and out-of-order reports announce nothing twice, whatever   *)
(* the workers' interleaving: when reports carry distinct times, each      *)
(* transition a fence version makes is announced once, and once more at    *)
(* most for each restart that emptied the engine.  A redelivered report    *)
(* may well make a transition under a version with another ring, but no    *)
(* version comes back into use after a later one.                          *)
(***************************************************************************)
NoDuplicateTransitions ==
  \A i \in DOMAIN announced : Cardinality(Occurrences(announced[i])) <= 1 + restarts

(* The entries and exits of a pair. *)
Crossings(events, v, f) == {e \in events : e.vessel = v /\ e.fence = f /\ e.type # "DWELL"}

(* The order of occurred_at, and of geofence_version at one time. *)
Before(x, e) == x.at < e.at \/ (x.at = e.at /\ x.version < e.version)

Latest(events) == {e \in events : ~\E x \in events : Before(e, x)}

(* In that order a crossing is an ENTER when the one before it is an EXIT, or none. *)
Alternates(events) ==
  \A e \in events : e.type = "ENTER" <=> \A b \in Latest({x \in events : Before(x, e)}) : b.type = "EXIT"

EndsInside(events) == \E e \in Latest(events) : e.type = "ENTER"

Quiet == \A w \in Workers : call[w].pc = "idle"

(***************************************************************************)
(* Workers announce and persist outside the mutex, so the rows may come    *)
(* in another order than the crossings; but read by occurred_at and, at    *)
(* one time, by geofence_version, and while no call is running, ENTER and  *)
(* EXIT of each pair alternate and end with the engine's view of the pair. *)
(* It holds across fence versions with other rings, retirement and stale   *)
(* copies of the table until a call fails or the process restarts.         *)
(***************************************************************************)
RowsTellMembership ==
  (Quiet /\ faults = 0 /\ restarts = 0) =>
    \A v \in Vessels, f \in Fences :
      LET rows == Crossings(persisted, v, f)
      IN  Alternates(rows) /\ (state[v][f].inside <=> EndsInside(rows))

(***************************************************************************)
(* A reading of the topic that the code does not support: occurredAt tells *)
(* the crossings of a pair apart.  A report delivered again after its      *)
(* fence has moved is announced as an EXIT at the time of its own ENTER,   *)
(* and the envelope, unlike the row, does not carry the version.           *)
(***************************************************************************)
TimeOrdersCrossings ==
  \A v \in Vessels, f \in Fences :
    \A x, e \in Crossings(Topic, v, f) : x.at = e.at => x.type = e.type

(***************************************************************************)
(* "Nothing is silently dropped", a statement the code does not keep: the  *)
(* engine's view of a pair is on the topic whenever no call is running.    *)
(* After a failed announcement it is not, and no later report announces    *)
(* the transition again, because the engine has moved on.                  *)
(***************************************************************************)
NothingDropped ==
  (Quiet /\ restarts = 0) =>
    \A v \in Vessels, f \in Fences : state[v][f].inside <=> EndsInside(Crossings(Topic, v, f))
=============================================================================
