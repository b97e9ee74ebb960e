------------------------------- MODULE MrvOutbox -------------------------------
(***************************************************************************)
(* The transactional outbox of internal/mrv: publishers (one per replica   *)
(* of the service) drain mrv_outbox to Kafka.  Rows are numbered by        *)
(* created_at, the start of the transaction that wrote them, and become    *)
(* visible when it commits, in any order.  A drain is one transaction: it  *)
(* holds the locks of its batch until it commits or is rolled back.        *)
(***************************************************************************)
EXTENDS Naturals, Sequences, FiniteSets, FiniteSetsExt

CONSTANTS
  Publishers,
  OutboxSize,      \* bound: rows in all
  DrainBatch,      \* batchSize
  MaxDrainFaults   \* bound: drains that fail, replicas that stop

ASSUME OutboxAssumption == {OutboxSize, DrainBatch} \subseteq Nat \ {0} /\ MaxDrainFaults \in Nat

OutboxRows == 1 .. OutboxSize

VARIABLES
  rowState,     \* rowState[r]: "absent", "pending" (published_at IS NULL) or "published"
  drain,        \* drain[p]: the rows of the open transaction of p, {} when there is none
  sent,         \* sent[p]: the rows of the drain that are published to Kafka
  topic,        \* the rows on their Kafka topics in the order the broker took them
  undone,       \* history: undone[r], publications of r whose drain did not commit
  drainFaults   \* faults so far

outboxVars == <<rowState, drain, sent, topic, undone, drainFaults>>

OutboxInit ==
  /\ rowState = [r \in OutboxRows |-> "absent"]
  /\ drain = [p \in Publishers |-> {}]
  /\ sent = [p \in Publishers |-> {}]
  /\ topic = <<>>
  /\ undone = [r \in OutboxRows |-> 0]
  /\ drainFaults = 0

(* A transaction that wrote an event commits. *)
CommitEvent(r) ==
  /\ rowState[r] = "absent"
  /\ rowState' = [rowState EXCEPT ![r] = "pending"]
  /\ UNCHANGED <<drain, sent, topic, undone, drainFaults>>

(* Mutant: FOR UPDATE without SKIP LOCKED and without waiting. *)
PollIgnoringLocks == {r \in OutboxRows : rowState[r] = "pending"}

(* WHERE published_at IS NULL ... FOR UPDATE SKIP LOCKED. *)
PollOutbox == {r \in OutboxRows : rowState[r] = "pending"} \ UNION {drain[p] : p \in Publishers}

(* The batch: the DrainBatch rows of lowest created_at. *)
Batch == {r \in PollOutbox : Cardinality({q \in PollOutbox : q < r}) < DrainBatch}

(* Run calls Drain at every tick: the SELECT. *)
BeginDrain(p) ==
  /\ drain[p] = {} /\ Batch # {}
  /\ drain' = [drain EXCEPT ![p] = Batch]
  /\ sent' = [sent EXCEPT ![p] = {}]
  /\ UNCHANGED <<rowState, topic, undone, drainFaults>>

Current(p) == Min(drain[p] \ sent[p])

(* Publish is acknowledged, and published_at is set in the transaction. *)
PublishNext(p) ==
  /\ drain[p] \ sent[p] # {}
  /\ topic' = Append(topic, Current(p))
  /\ sent' = [sent EXCEPT ![p] = @ \cup {Current(p)}]
  /\ UNCHANGED <<rowState, drain, undone, drainFaults>>

CommitDrain(p) ==
  /\ drain[p] # {} /\ sent[p] = drain[p]
  /\ rowState' = [r \in OutboxRows |-> IF r \in drain[p] THEN "published" ELSE rowState[r]]
  /\ drain' = [drain EXCEPT ![p] = {}]
  /\ sent' = [sent EXCEPT ![p] = {}]
  /\ UNCHANGED <<topic, undone, drainFaults>>

(* Mutant: the rows that were sent stay marked. *)
RollbackKeeping(p, landed) ==
  /\ rowState' = [r \in OutboxRows |-> IF r \in drain[p] THEN "published" ELSE rowState[r]]
  /\ undone' = [r \in OutboxRows |-> IF r \in landed THEN undone[r] + 1 ELSE undone[r]]

(* Every published_at of the drain is rolled back with it. *)
Rollback(p, landed) ==
  /\ undone' = [r \in OutboxRows |-> IF r \in landed THEN undone[r] + 1 ELSE undone[r]]
  /\ UNCHANGED rowState

(***************************************************************************)
(* Publish fails, and the message may have reached the broker all the      *)
(* same; or a statement or the COMMIT fails, or the replica stops.         *)
(***************************************************************************)
FailDrain(p, reached) ==
  LET last == IF reached THEN {Current(p)} ELSE {}
  IN  /\ drain[p] # {} /\ drainFaults < MaxDrainFaults
      /\ reached => sent[p] # drain[p]
      /\ topic' = IF reached THEN Append(topic, Current(p)) ELSE topic
      /\ Rollback(p, sent[p] \cup last)
      /\ drain' = [drain EXCEPT ![p] = {}]
      /\ sent' = [sent EXCEPT ![p] = {}]
      /\ drainFaults' = drainFaults + 1

DrainStep(p) == BeginDrain(p) \/ PublishNext(p) \/ CommitDrain(p)

OutboxNext ==
  \/ \E r \in OutboxRows : CommitEvent(r)
  \/ \E p \in Publishers : DrainStep(p) \/ \E reached \in BOOLEAN : FailDrain(p, reached)

(* Run's ticker calls Drain again until the process ends. *)
OutboxFairness == \A p \in Publishers : WF_outboxVars(DrainStep(p))

OutboxSpec == OutboxInit /\ [][OutboxNext]_outboxVars /\ OutboxFairness

-----------------------------------------------------------------------------
(* Properties. *)

Copies(r) == Cardinality({i \in DOMAIN topic : topic[i] = r})

(***************************************************************************)
(* An event is on its topic a second time only because a drain that had    *)
(* published it was rolled back: two replicas that drain together never    *)
(* publish a row twice, and a published row is on the topic.               *)
(***************************************************************************)
DuplicatesAreRollbacks ==
  \A r \in OutboxRows :
    /\ Copies(r) <= undone[r] + 1
    /\ rowState[r] = "published" => Copies(r) = undone[r] + 1

(***************************************************************************)
(* "Drains mrv_outbox at-least-once": every event that was committed is    *)
(* eventually on its topic and marked, whatever finite number of drains    *)
(* fail.                                                                   *)
(***************************************************************************)
EventuallyPublished == \A r \in OutboxRows : rowState[r] = "pending" ~> rowState[r] = "published" /\ Copies(r) > 0
=============================================================================
