----------------------------- MODULE FenceStay -----------------------------
(***************************************************************************)
(* What the fence engine promises about the events of one vessel and one   *)
(* fence: a stay begins with ENTER, has at most one DWELL and ends with    *)
(* EXIT, and nothing is emitted outside a stay.                            *)
(***************************************************************************)
CONSTANTS Vessels, Fences

VARIABLES phase,  \* phase[v][f]: "out", "in" or "dwelled"
          out     \* out[f]: the events the last report caused

vars == <<phase, out>>

Init ==
  /\ phase = [v \in Vessels |-> [f \in Fences |-> "out"]]
  /\ out = [f \in Fences |-> {}]

(* One report emits nothing, or the one event that fits the phase. *)
Stay(p, q, events) ==
  \/ events = {} /\ q = p
  \/ events = {"ENTER"} /\ p = "out" /\ q = "in"
  \/ events = {"DWELL"} /\ p = "in" /\ q = "dwelled"
  \/ events = {"EXIT"} /\ p \in {"in", "dwelled"} /\ q = "out"

Report(v) ==
  /\ phase' \in [Vessels -> [Fences -> {"out", "in", "dwelled"}]]
  /\ out' \in [Fences -> SUBSET {"ENTER", "EXIT", "DWELL"}]
  /\ \A u \in Vessels \ {v} : phase'[u] = phase[u]
  /\ \A f \in Fences : Stay(phase[v][f], phase'[v][f], out'[f])

Next == \E v \in Vessels : Report(v)

Spec == Init /\ [][Next]_vars
=============================================================================
