----------------------------- MODULE FenceEngine -----------------------------
(***************************************************************************)
(* fence.Engine: the memory of all vessels and fences, and Observe, which  *)
(* folds one report into it against the fences that are active at the      *)
(* time.  Callers serialise Observe with a mutex.                          *)
(***************************************************************************)
EXTENDS FenceRules

CONSTANTS
  Vessels, Fences,
  Threshold,   \* Threshold[f]: DwellThresholdSeconds, 0 for none
  Gate,        \* Gate[f]: DwellSpeedGateMilliknots
  Speeds,      \* reported speeds, -1 when unknown
  Times,       \* observation times
  Churn        \* TRUE when fences may be retired and activated again

ASSUME FenceAssumption ==
  /\ Threshold \in [Fences -> Nat] /\ Gate \in [Fences -> Nat]
  /\ Speeds \subseteq Int /\ Times \subseteq Int
  /\ Churn \in BOOLEAN

VARIABLES
  state,  \* state[v][f]: the memory of the pair
  last,   \* last[v]: time of the latest accepted report, 0 for none
  out     \* out[f]: the events the last call of Observe returned

vars == <<state, last, out>>

Init ==
  /\ state = [v \in Vessels |-> [f \in Fences |-> NewFenceState]]
  /\ last = [v \in Vessels |-> 0]
  /\ out = [f \in Fences |-> {}]

ActiveSets == IF Churn THEN SUBSET Fences ELSE {Fences}

(* A report without a time, or one that predates the vessel's latest, changes nothing. *)
Ignore(v, at) ==
  /\ at <= 0 \/ at < last[v]
  /\ out' = [f \in Fences |-> {}]
  /\ UNCHANGED <<state, last>>

(* The report is folded into each active fence; the others are not looked at. *)
Observe(v, inside, speed, at, active) ==
  LET events == [f \in Fences |->
        IF f \in active THEN Emits(state[v][f], f \in inside, speed, at, Threshold[f], Gate[f]) ELSE {}]
      folded == [f \in Fences |->
        IF f \in active THEN Fold(state[v][f], f \in inside, speed, at, Threshold[f], Gate[f])
        ELSE state[v][f]]
  IN  /\ at > 0 /\ at >= last[v]
      /\ last' = [last EXCEPT ![v] = at]
      /\ state' = [state EXCEPT ![v] = folded]
      /\ out' = events

Next ==
  \E v \in Vessels, at \in Times :
    \/ Ignore(v, at)
    \/ \E inside \in SUBSET Fences, speed \in Speeds, active \in ActiveSets :
         Observe(v, inside, speed, at, active)

Spec == Init /\ [][Next]_vars

-----------------------------------------------------------------------------
(* Type correctness of the engine's memory. *)
TypeOK ==
  /\ state \in [Vessels -> [Fences -> FenceStates]]
  /\ last \in [Vessels -> Nat]
  /\ out \in [Fences -> SUBSET EventTypes]

(***************************************************************************)
(* The engine implements the abstract stay: ENTER and EXIT alternate, each *)
(* continuous stay has at most one DWELL, and a report causes at most one  *)
(* event per fence, whatever the order of the reports and however the set  *)
(* of active fences changes.                                               *)
(***************************************************************************)
PhaseOf(st) == IF ~st.inside THEN "out" ELSE IF st.dwellEmitted THEN "dwelled" ELSE "in"

Stays == INSTANCE FenceStay WITH
  phase <- [v \in Vessels |-> [f \in Fences |-> PhaseOf(state[v][f])]]

ImplementsStays == Stays!Spec
=============================================================================
