---------------------------- MODULE Investigation ----------------------------
(***************************************************************************)
(* One marine accident investigation case of internal/store/safety.go: its *)
(* state machine, the hash-chained evidence, findings and recommendations. *)
(*                                                                         *)
(* Each operation is a database transaction.  It starts, and now() is      *)
(* fixed; it locks the case row and reads the state; it may read the chain *)
(* head; it writes and commits.  Transactions of several callers interleave *)
(* between these steps and may be rolled back at any of them.              *)
(***************************************************************************)
EXTENDS Integers, FiniteSets, Sequences

CONSTANTS
  Callers,     \* API requests that run at the same time
  Contents,    \* content hashes of evidence artefacts
  Recs,        \* recommendation ids
  MaxStarts    \* bound: transactions started in all

Free == "free"

ASSUME InvestigationAssumption == MaxStarts \in Nat /\ Free \notin Callers

VARIABLES
  state,      \* investigation_cases.state
  lock,       \* who holds the case row FOR UPDATE
  tx,         \* tx[c]: the caller's transaction
  evidence,   \* investigation_evidence
  findings,   \* investigation_findings, as their ids
  recs,       \* investigation_recommendations: status by id
  clock       \* the database clock; no two transactions start at one instant

investigationVars == <<state, lock, tx, evidence, findings, recs, clock>>

Genesis == <<>>

(* sha256 over the previous hash and the content: a hash is the sequence it stands for. *)
EvidenceChainHash(prev, content) == Append(prev, content)

(* The operations and, for each, the states of the case it is allowed in. *)
Transitions == [evidence |-> [from |-> "OPEN", to |-> "EVIDENCE"],
                analysis |-> [from |-> "EVIDENCE", to |-> "ANALYSIS"],
                report   |-> [from |-> "ANALYSIS", to |-> "REPORTED"],
                close    |-> [from |-> "REPORTED", to |-> "CLOSED"]]

Operations ==
  [kind : {"append"}, content : Contents] \cup [kind : {"finding"}]
  \cup [kind : {"recommend"}, rec : Recs] \cup [kind : {"transition"}, action : DOMAIN Transitions]

AllowedIn(op) ==
  CASE op.kind = "append" -> {"EVIDENCE"}
    [] op.kind \in {"finding", "recommend"} -> {"ANALYSIS", "REPORTED"}
    [] op.kind = "transition" -> {Transitions[op.action].from}

NoTx == [pc |-> "none"]

InvestigationInit ==
  /\ state = "OPEN" /\ lock = Free
  /\ tx = [c \in Callers |-> NoTx]
  /\ evidence = {} /\ findings = {}
  /\ recs = [r \in Recs |-> "NONE"]
  /\ clock = 0

-----------------------------------------------------------------------------
(* BEGIN; now() stays at this instant until the end of the transaction. *)
Begin(c, op) ==
  /\ tx[c].pc = "none"
  /\ clock < MaxStarts
  /\ clock' = clock + 1
  /\ tx' = [tx EXCEPT ![c] = [pc |-> "lock", op |-> op, at |-> clock + 1, prev |-> Genesis]]
  /\ UNCHANGED <<state, lock, evidence, findings, recs>>

End(c) ==
  /\ tx' = [tx EXCEPT ![c] = NoTx]
  /\ lock' = IF lock = c THEN Free ELSE lock

(* Mutant: SELECT state without FOR UPDATE. *)
LockNothing(c) ==
  /\ tx[c].pc = "lock"
  /\ IF state \in AllowedIn(tx[c].op)
     THEN /\ tx' = [tx EXCEPT ![c].pc = IF tx[c].op.kind = "append" THEN "head" ELSE "write"]
          /\ UNCHANGED lock
     ELSE End(c)
  /\ UNCHANGED <<state, evidence, findings, recs, clock>>

(* SELECT state ... FOR UPDATE, and the early return from a state that forbids the operation. *)
Lock(c) ==
  /\ tx[c].pc = "lock"
  /\ lock = Free
  /\ IF state \in AllowedIn(tx[c].op)
     THEN /\ lock' = c
          /\ tx' = [tx EXCEPT ![c].pc = IF tx[c].op.kind = "append" THEN "head" ELSE "write"]
     ELSE End(c)
  /\ UNCHANGED <<state, evidence, findings, recs, clock>>

(* The latest item by collected_at, which is the start of its transaction. *)
Heads == {e \in evidence : \A other \in evidence : other.at <= e.at}

(* AppendEvidence: the chain head. *)
ReadHead(c) ==
  /\ tx[c].pc = "head"
  /\ IF evidence = {} THEN tx' = [tx EXCEPT ![c].pc = "write"]
     ELSE \E e \in Heads : tx' = [tx EXCEPT ![c].pc = "write", ![c].prev = e.chain]
  /\ UNCHANGED <<state, lock, evidence, findings, recs, clock>>

(* The new item; nth, its place in the order of the commits, is not in the table. *)
Item(c) ==
  [content |-> tx[c].op.content, prev |-> tx[c].prev, at |-> tx[c].at,
   nth |-> Cardinality(evidence) + 1,
   chain |-> EvidenceChainHash(tx[c].prev, tx[c].op.content)]

(* AppendEvidence: INSERT and COMMIT, under UNIQUE (case_id, chain_hash). *)
AppendEvidence(c) ==
  /\ tx[c].pc = "write" /\ tx[c].op.kind = "append"
  /\ evidence' = IF \E e \in evidence : e.chain = Item(c).chain THEN evidence
                 ELSE evidence \cup {Item(c)}
  /\ End(c)
  /\ UNCHANGED <<state, findings, recs, clock>>

AddFinding(c) ==
  /\ tx[c].pc = "write" /\ tx[c].op.kind = "finding"
  /\ findings' = findings \cup {tx[c].at}
  /\ End(c)
  /\ UNCHANGED <<state, evidence, recs, clock>>

(* AddRecommendation; the primary key rejects an id that is taken. *)
AddRecommendation(c) ==
  /\ tx[c].pc = "write" /\ tx[c].op.kind = "recommend"
  /\ recs' = IF recs[tx[c].op.rec] = "NONE" THEN [recs EXCEPT ![tx[c].op.rec] = "PROPOSED"] ELSE recs
  /\ End(c)
  /\ UNCHANGED <<state, evidence, findings, clock>>

TransitionInvestigationCase(c) ==
  /\ tx[c].pc = "write" /\ tx[c].op.kind = "transition"
  /\ state' = Transitions[tx[c].op.action].to
  /\ End(c)
  /\ UNCHANGED <<evidence, findings, recs, clock>>

(* The transaction is rolled back: a lost connection or a cancelled request. *)
Rollback(c) ==
  /\ tx[c].pc # "none"
  /\ End(c)
  /\ UNCHANGED <<state, evidence, findings, recs, clock>>

(* The decision table of DecideRecommendation; an illegal step changes nothing. *)
Decided(status, action) ==
  CASE action = "accept" /\ status = "PROPOSED" -> "ACCEPTED"
    [] action = "reject" /\ status = "PROPOSED" -> "REJECTED"
    [] action = "implement" /\ status = "ACCEPTED" -> "IMPLEMENTED"
    [] OTHER -> status

(* DecideRecommendation locks the recommendation, not the case. *)
DecideRecommendation(r, action) ==
  /\ recs' = [recs EXCEPT ![r] = Decided(recs[r], action)]
  /\ UNCHANGED <<state, lock, tx, evidence, findings, clock>>

InvestigationNext ==
  \/ \E c \in Callers :
       \/ \E op \in Operations : Begin(c, op)
       \/ Lock(c) \/ ReadHead(c) \/ Rollback(c)
       \/ AppendEvidence(c) \/ AddFinding(c) \/ AddRecommendation(c)
       \/ TransitionInvestigationCase(c)
  \/ \E r \in Recs, action \in {"accept", "reject", "implement"} : DecideRecommendation(r, action)

InvestigationSpec == InvestigationInit /\ [][InvestigationNext]_investigationVars

-----------------------------------------------------------------------------
(* VerifyEvidenceChain, over ListEvidence. *)

(* ListEvidence orders by collected_at: the items it lists before e. *)
ListedBefore(rows, e) == {f \in rows : f.at < e.at}

(* The chain hash of the item that is listed just before e. *)
PreviousHash(rows, e) ==
  LET before == ListedBefore(rows, e)
  IN  IF before = {} THEN Genesis ELSE (CHOOSE f \in before : \A g \in before : g.at <= f.at).chain

(* Mutant: only the links are followed, the hashes are not recomputed. *)
VerifyLinksOnly(rows) == \A e \in rows : e.prev = PreviousHash(rows, e)

VerifyEvidenceChain(rows) ==
  \A e \in rows : /\ e.prev = PreviousHash(rows, e)
                   /\ e.chain = EvidenceChainHash(PreviousHash(rows, e), e.content)

-----------------------------------------------------------------------------
(* Properties. *)

(***************************************************************************)
(* The row lock makes the state check and the insert one: evidence enters  *)
(* only while the case is in EVIDENCE, findings and recommendations only   *)
(* in ANALYSIS or REPORTED, although a transition may be waiting.  A       *)
(* recommendation never leaves REJECTED or IMPLEMENTED and is implemented  *)
(* only after it was accepted.                                             *)
(***************************************************************************)
RecordsFrozen ==
  [][/\ evidence' # evidence => state = "EVIDENCE"
     /\ findings' # findings => state \in {"ANALYSIS", "REPORTED"}
     /\ \A r \in Recs : recs[r] = "NONE" /\ recs'[r] # "NONE" => state \in {"ANALYSIS", "REPORTED"}
     /\ \A r \in Recs : recs[r] \in {"REJECTED", "IMPLEMENTED"} => recs'[r] = recs[r]
     /\ \A r \in Recs : recs[r] # "IMPLEMENTED" /\ recs'[r] = "IMPLEMENTED" => recs[r] = "ACCEPTED"]_investigationVars

(***************************************************************************)
(* "Chain heads serialize": concurrent appends never start a second chain. *)
(* One item links to the genesis hash, every other to the hash of an item  *)
(* that is there.                                                          *)
(***************************************************************************)
OneRoot ==
  /\ Cardinality({e \in evidence : e.prev = Genesis}) <= 1
  /\ \A e \in evidence : e.prev # Genesis => \E other \in evidence : other.chain = e.prev

(***************************************************************************)
(* Evidence that was only ever appended through AppendEvidence verifies.   *)
(* With two callers it does not: the chain follows the order of the locks, *)
(* the listing the order in which the transactions started.                *)
(***************************************************************************)
ChainVerifies == VerifyEvidenceChain(evidence)

(***************************************************************************)
(* The order of the transactions is all that can break a chain: when the   *)
(* appends committed in the order in which they started, the evidence      *)
(* verifies, whatever was rolled back, rejected or transitioned between.   *)
(* And a chain that verifies shows tampering: replacing the content of any *)
(* item, or removing one that is not the last, is seen.                    *)
(***************************************************************************)
ChainShowsTampering ==
  /\ (\A e, f \in evidence : e.at < f.at => e.nth < f.nth) => VerifyEvidenceChain(evidence)
  /\ VerifyEvidenceChain(evidence) =>
       \A e \in evidence :
         /\ \A content \in Contents \ {e.content} :
              ~VerifyEvidenceChain((evidence \ {e}) \cup {[e EXCEPT !.content = content]})
         /\ e \notin Heads => ~VerifyEvidenceChain(evidence \ {e})
=============================================================================
