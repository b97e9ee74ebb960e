----------------------------- MODULE FenceRules -----------------------------
(***************************************************************************)
(* The decision of internal/fence/engine.go for one vessel, one fence and  *)
(* one report: what happens to the memory of the pair and which events are *)
(* emitted.  Whether the point lies in the polygon is an input here.       *)
(***************************************************************************)
EXTENDS Integers

EventTypes == {"ENTER", "EXIT", "DWELL"}

(* vesselFenceState; slowSince = 0 means "not currently slow". *)
FenceStates == [inside : BOOLEAN, enteredAt : Nat, dwellEmitted : BOOLEAN, slowSince : Nat]

NewFenceState == [inside |-> FALSE, enteredAt |-> 0, dwellEmitted |-> FALSE, slowSince |-> 0]

(* Mutant: the dwell flag survives the next entry. *)
CrossKeepingDwell(st, inside, at) ==
  IF inside /\ ~st.inside THEN [st EXCEPT !.inside = TRUE, !.enteredAt = at, !.slowSince = 0]
  ELSE IF ~inside /\ st.inside THEN [st EXCEPT !.inside = FALSE, !.slowSince = 0]
  ELSE st

(* The membership switch: an entry starts a new stay, an exit ends it. *)
Cross(st, inside, at) ==
  IF inside /\ ~st.inside
  THEN [inside |-> TRUE, enteredAt |-> at, dwellEmitted |-> FALSE, slowSince |-> 0]
  ELSE IF ~inside /\ st.inside THEN [st EXCEPT !.inside = FALSE, !.slowSince = 0]
  ELSE st

(* Mutant: an unknown speed, -1, passes for a slow one. *)
UnknownIsSlow(st, inside, speed, threshold, gate) ==
  inside /\ threshold > 0 /\ ~st.dwellEmitted /\ speed <= gate

(* The report counts toward a dwell; an unknown speed, -1, never does. *)
Counts(st, inside, speed, threshold, gate) ==
  inside /\ threshold > 0 /\ ~st.dwellEmitted /\ speed >= 0 /\ speed <= gate

SlowSince(st, at) == IF st.slowSince = 0 THEN at ELSE st.slowSince

Dwells(st, inside, speed, at, threshold, gate) ==
  LET crossed == Cross(st, inside, at)
  IN  Counts(crossed, inside, speed, threshold, gate) /\ at - SlowSince(crossed, at) >= threshold

(* The loop body of Observe: the new memory of the pair. *)
Fold(st, inside, speed, at, threshold, gate) ==
  LET crossed == Cross(st, inside, at)
  IN  IF Counts(crossed, inside, speed, threshold, gate)
      THEN [crossed EXCEPT !.slowSince = SlowSince(crossed, at),
                           !.dwellEmitted = Dwells(st, inside, speed, at, threshold, gate)]
      ELSE IF inside /\ speed > gate THEN [crossed EXCEPT !.slowSince = 0]
      ELSE crossed

(* The loop body of Observe: the events it appends. *)
Emits(st, inside, speed, at, threshold, gate) ==
  (IF inside /\ ~st.inside THEN {"ENTER"} ELSE {})
  \cup (IF ~inside /\ st.inside THEN {"EXIT"} ELSE {})
  \cup (IF Dwells(st, inside, speed, at, threshold, gate) THEN {"DWELL"} ELSE {})
=============================================================================
