---------------------------- MODULE MCAppReports ----------------------------
(* A small instance of AppReports. *)
EXTENDS AppReports, TLC

MCEntry(kind, outbox, payload) == [kind |-> kind, outbox |-> outbox, payload |-> payload]

(* A report and an alert under one outbox id, and a conflicting reuse of the alert's. *)
MixedEntries == {MCEntry("report", 1, "p"), MCEntry("sos", 1, "p"), MCEntry("sos", 1, "q")}

Symmetry == Permutations(Workers)
=============================================================================
