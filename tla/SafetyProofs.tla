----------------------------- MODULE SafetyProofs -----------------------------
(***************************************************************************)
(* Investigation cases and the other safety registers, proved for every    *)
(* number of callers and every bound.                                      *)
(***************************************************************************)
EXTENDS Investigation, SafetyRegisters, FiniteSetTheorems, TLAPS

-----------------------------------------------------------------------------
(* Least elements, and the checks of a handler. *)

(* A set of natural numbers that is not empty has a least element. *)
LEMMA LeastElement ==
  ASSUME NEW T \in SUBSET Nat, T # {}
  PROVE  \E m \in T : \A n \in T : m <= n
<1> DEFINE R == {ss \in Nat \X Nat : ss[1] < ss[2]}
<1>1. IsWellFoundedOn(R, Nat)
  BY NatLessThanWellFounded, Zenon DEF OpToRel
<1>2. PICK m \in T : \A y \in T : ~(<<y, m>> \in R)
  <2> HIDE DEF R
  <2> QED BY <1>1, WFMin, Zenon
<1>3. ASSUME NEW n \in T PROVE m <= n
  <2>1. m \in Nat /\ n \in Nat
    BY Zenon
  <2>2. n < m => <<n, m>> \in R
    BY <2>1, Zenon
  <2> QED BY <2>1, <2>2, <1>2
<1> QED BY <1>3, Zenon

(* A choice among five places has a first. *)
LEMMA LeastOfFive ==
  ASSUME NEW hits \in SUBSET (1 .. 5), hits # {}
  PROVE  \E i \in hits : \A j \in hits : i <= j
<1>1. \A i \in hits : i = 1 \/ i = 2 \/ i = 3 \/ i = 4 \/ i = 5
  OBVIOUS
<1>2. CASE 1 \in hits
  BY <1>1, <1>2
<1>3. CASE 1 \notin hits /\ 2 \in hits
  BY <1>1, <1>3
<1>4. CASE 1 \notin hits /\ 2 \notin hits /\ 3 \in hits
  BY <1>1, <1>4
<1>5. CASE 1 \notin hits /\ 2 \notin hits /\ 3 \notin hits /\ 4 \in hits
  BY <1>1, <1>5
<1>6. CASE 1 \notin hits /\ 2 \notin hits /\ 3 \notin hits /\ 4 \notin hits
  <2>1. \A i \in hits : i = 5
    BY <1>1, <1>6, Zenon
  <2>2. PICK i \in hits : TRUE
    BY Zenon
  <2>3. \A j \in hits : i <= j
    BY <2>1, 5 <= 5, Zenon
  <2> QED BY <2>3, Zenon
<1> QED BY <1>2, <1>3, <1>4, <1>5, <1>6, Zenon

(* FirstError answers "nil" exactly when no check applies: every check has an error to give. *)
LEMMA FirstErrorEmpty ==
  ASSUME NEW n \in 1 .. 5, NEW checks, DOMAIN checks = 1 .. n,
         \A i \in 1 .. n : checks[i][2] # "nil"
  PROVE  FirstError(checks) = "nil" <=> \A i \in 1 .. n : ~checks[i][1]
<1> DEFINE hits == {i \in DOMAIN checks : checks[i][1]}
           m == CHOOSE i \in hits : \A j \in hits : i <= j
<1>1. FirstError(checks) = IF hits = {} THEN "nil" ELSE checks[m][2]
  BY Zenon DEF FirstError
<1>2. hits # {} => m \in hits
  <2> SUFFICES ASSUME hits # {} PROVE \E i \in hits : \A j \in hits : i <= j
    BY Zenon
  <2>1. \A i \in hits : i \in 1 .. 5
    OBVIOUS
  <2> HIDE DEF hits
  <2>2. hits \in SUBSET (1 .. 5)
    BY <2>1, Zenon
  <2> QED BY <2>2, LeastOfFive, Zenon
<1> HIDE DEF m
<1> QED BY <1>1, <1>2, Zenon

-----------------------------------------------------------------------------
(* Investigation: the inductive invariant. *)

Transaction == [pc : {"lock", "head", "write"}, op : Operations, at : Nat, prev : Seq(Contents)]

InvestigationTypeOK ==
  /\ lock \in Callers \cup {Free}
  /\ tx \in [Callers -> {NoTx} \cup Transaction]
  /\ recs \in [Recs -> {"NONE", "PROPOSED", "ACCEPTED", "REJECTED", "IMPLEMENTED"}]
  /\ clock \in Nat

(* A transaction past its lock holds the row, in a state that allows the operation. *)
HoldsCase(c) ==
  /\ tx[c].pc \in {"head", "write"} => lock = c /\ state \in AllowedIn(tx[c].op)
  /\ tx[c].pc \in {"lock", "head"} => tx[c].prev = Genesis
  /\ tx[c].pc = "head" => tx[c].op.kind = "append"

(* The head an append has read is still the one to link to. *)
HeadIsFresh(c) ==
  tx[c].pc = "write" /\ tx[c].op.kind = "append" =>
    IF tx[c].prev = Genesis THEN evidence = {} ELSE \E e \in Heads : e.chain = tx[c].prev

EvidenceLinked ==
  /\ \A e \in evidence : e.chain # Genesis /\ e.chain \in Seq(Contents)
  /\ \A e, f \in evidence : e.prev = Genesis /\ f.prev = Genesis => e = f
  /\ \A e \in evidence : e.prev # Genesis => \E other \in evidence : other.chain = e.prev

InvestigationInv ==
  /\ InvestigationTypeOK
  /\ \A c \in Callers : HoldsCase(c) /\ HeadIsFresh(c)
  /\ EvidenceLinked

LEMMA InvestigationInitInv == InvestigationInit => InvestigationInv
<1> SUFFICES ASSUME InvestigationInit PROVE InvestigationInv
  BY Zenon
<1>1. InvestigationTypeOK
  BY Zenon DEF InvestigationInit, InvestigationTypeOK
<1>2. \A c \in Callers : HoldsCase(c) /\ HeadIsFresh(c)
  BY Zenon DEF InvestigationInit, HoldsCase, HeadIsFresh, Heads, NoTx
<1>3. EvidenceLinked
  BY Zenon DEF InvestigationInit, EvidenceLinked
<1> QED BY <1>1, <1>2, <1>3, Zenon DEF InvestigationInv

LEMMA TransactionTyped ==
  ASSUME InvestigationInv, NEW c \in Callers, tx[c].pc # "none"
  PROVE  tx[c] \in Transaction
BY DEF InvestigationInv, InvestigationTypeOK, NoTx

(* The row lock excludes: no two transactions are past it, and none while it is free. *)
LEMMA OneHolder ==
  ASSUME InvestigationInv, NEW b \in Callers, tx[b].pc \in {"head", "write"}
  PROVE  lock = b /\ lock # Free /\ \A c \in Callers : tx[c].pc \in {"head", "write"} => c = b
BY InvestigationAssumption, Zenon DEF InvestigationInv, HoldsCase

(* A transaction that ends has changed the case only if it held the row. *)
LEMMA EndInvestigation ==
  ASSUME InvestigationInv, NEW c \in Callers, End(c), clock' = clock,
         recs' \in [Recs -> {"NONE", "PROPOSED", "ACCEPTED", "REJECTED", "IMPLEMENTED"}],
         tx[c].pc \in {"head", "write"} \/ UNCHANGED <<state, evidence>>,
         EvidenceLinked'
  PROVE  InvestigationInv'
<1>1. \A b \in Callers : tx'[b] = IF b = c THEN NoTx ELSE tx[b]
  BY Zenon DEF End, InvestigationInv, InvestigationTypeOK
<1>2. InvestigationTypeOK'
  BY Zenon DEF End, InvestigationInv, InvestigationTypeOK
<1>3. ASSUME NEW b \in Callers PROVE HoldsCase(b)' /\ HeadIsFresh(b)'
  <2>1. CASE b = c
    BY <1>1, <2>1 DEF HoldsCase, HeadIsFresh, Heads, NoTx
  <2>2. CASE b # c /\ tx[b].pc \in {"head", "write"}
    <3>1. lock = b /\ lock' = lock /\ UNCHANGED <<state, evidence>>
      BY <2>2, OneHolder, Zenon DEF End
    <3>2. tx'[b] = tx[b] /\ HoldsCase(b) /\ HeadIsFresh(b)
      BY <1>1, <2>2, Zenon DEF InvestigationInv
    <3> QED BY <3>1, <3>2, Zenon DEF HoldsCase, HeadIsFresh, Heads
  <2>3. CASE b # c /\ tx[b].pc \notin {"head", "write"}
    <3>1. tx'[b] = tx[b] /\ HoldsCase(b)
      BY <1>1, <2>3, Zenon DEF InvestigationInv
    <3> QED BY <2>3, <3>1, Zenon DEF HoldsCase, HeadIsFresh, Heads
  <2> QED BY <2>1, <2>2, <2>3, Zenon
<1> QED BY <1>2, <1>3, Zenon DEF InvestigationInv

LEMMA BeginStep ==
  ASSUME InvestigationInv, NEW c \in Callers, NEW op \in Operations, Begin(c, op)
  PROVE  InvestigationInv'
<1> DEFINE t == [pc |-> "lock", op |-> op, at |-> clock + 1, prev |-> Genesis]
<1>1. t \in Transaction
  BY DEF Transaction, Genesis, InvestigationInv, InvestigationTypeOK
<1>2. t.pc = "lock" /\ t.prev = Genesis
  BY Zenon
<1> HIDE DEF t
<1>3. /\ tx' = [tx EXCEPT ![c] = t] /\ clock' = clock + 1
      /\ UNCHANGED <<state, lock, evidence, findings, recs>>
  BY Zenon DEF Begin, t
<1>4. \A b \in Callers : tx'[b] = IF b = c THEN t ELSE tx[b]
  BY <1>3, Zenon DEF InvestigationInv, InvestigationTypeOK
<1>5. InvestigationTypeOK'
  BY <1>1, <1>3 DEF InvestigationInv, InvestigationTypeOK
<1>6. ASSUME NEW b \in Callers PROVE HoldsCase(b)' /\ HeadIsFresh(b)'
  <2>1. CASE b = c
    BY <1>2, <1>4, <2>1, Zenon DEF HoldsCase, HeadIsFresh, Heads
  <2>2. CASE b # c
    BY <1>3, <1>4, <2>2 DEF InvestigationInv, HoldsCase, HeadIsFresh, Heads
  <2> QED BY <2>1, <2>2, Zenon
<1>7. EvidenceLinked'
  BY <1>3, Zenon DEF InvestigationInv, EvidenceLinked
<1> QED BY <1>5, <1>6, <1>7, Zenon DEF InvestigationInv

LEMMA LockStep ==
  ASSUME InvestigationInv, NEW c \in Callers, Lock(c)
  PROVE  InvestigationInv'
<1>1. /\ tx[c].pc = "lock" /\ lock = Free /\ tx[c] \in Transaction
      /\ UNCHANGED <<state, evidence, findings, recs, clock>>
  BY TransactionTyped, Zenon DEF Lock
<1>2. EvidenceLinked'
  BY <1>1, Zenon DEF InvestigationInv, EvidenceLinked
<1>3. CASE state \in AllowedIn(tx[c].op)
  <2> DEFINE pc == IF tx[c].op.kind = "append" THEN "head" ELSE "write"
             t == [tx[c] EXCEPT !.pc = pc]
  <2>1. /\ t \in Transaction /\ t.pc = pc /\ t.op = tx[c].op /\ t.prev = tx[c].prev
    BY <1>1, Zenon DEF Transaction
  <2>2. lock' = c /\ tx' = [tx EXCEPT ![c] = t]
    BY <1>3, Zenon DEF Lock, InvestigationInv, InvestigationTypeOK
  <2> HIDE DEF t
  <2>3. \A b \in Callers : tx'[b] = IF b = c THEN t ELSE tx[b]
    BY <2>2, Zenon DEF InvestigationInv, InvestigationTypeOK
  <2>4. InvestigationTypeOK'
    BY <1>1, <2>1, <2>2, Zenon DEF InvestigationInv, InvestigationTypeOK
  <2>5. ASSUME NEW b \in Callers PROVE HoldsCase(b)' /\ HeadIsFresh(b)'
    <3>1. CASE b = c
      BY <1>1, <1>3, <2>1, <2>2, <2>3, <3>1 DEF InvestigationInv, HoldsCase, HeadIsFresh, Heads
    <3>2. CASE b # c
      <4>1. tx'[b] = tx[b] /\ tx[b].pc \notin {"head", "write"}
        BY <1>1, <2>3, <3>2, OneHolder, Zenon
      <4> QED BY <1>1, <4>1, Zenon DEF InvestigationInv, HoldsCase, HeadIsFresh, Heads
    <3> QED BY <3>1, <3>2, Zenon
  <2> QED BY <1>2, <2>4, <2>5, Zenon DEF InvestigationInv
<1>4. CASE state \notin AllowedIn(tx[c].op)
  <2>1. End(c) /\ recs' = recs
    BY <1>1, <1>4, Zenon DEF Lock
  <2> QED BY <1>1, <1>2, <2>1, EndInvestigation, Zenon DEF InvestigationInv, InvestigationTypeOK
<1> QED BY <1>3, <1>4, Zenon

LEMMA ReadHeadStep ==
  ASSUME InvestigationInv, NEW c \in Callers, ReadHead(c)
  PROVE  InvestigationInv'
<1>1. /\ tx[c].pc = "head" /\ tx[c] \in Transaction /\ tx[c].prev = Genesis /\ lock = c
      /\ state \in AllowedIn(tx[c].op)
      /\ UNCHANGED <<state, lock, evidence, findings, recs, clock>>
  BY TransactionTyped, Zenon DEF ReadHead, InvestigationInv, HoldsCase
<1>2. PICK t \in Transaction :
        /\ tx' = [tx EXCEPT ![c] = t] /\ t.pc = "write" /\ t.op = tx[c].op
        /\ IF t.prev = Genesis THEN evidence = {} ELSE \E e \in Heads : e.chain = t.prev
  <2>1. CASE evidence = {}
    <3> DEFINE t == [tx[c] EXCEPT !.pc = "write"]
    <3>1. t \in Transaction /\ t.pc = "write" /\ t.op = tx[c].op /\ t.prev = Genesis
      BY <1>1, Zenon DEF Transaction
    <3>2. tx' = [tx EXCEPT ![c] = t]
      BY <2>1, Zenon DEF ReadHead, InvestigationInv, InvestigationTypeOK
    <3> HIDE DEF t
    <3> QED BY <2>1, <3>1, <3>2, Zenon
  <2>2. CASE evidence # {}
    <3>1. PICK e \in Heads : tx' = [tx EXCEPT ![c].pc = "write", ![c].prev = e.chain]
      BY <2>2, Zenon DEF ReadHead
    <3>2. e \in evidence /\ e.chain # Genesis /\ e.chain \in Seq(Contents)
      BY Zenon DEF Heads, InvestigationInv, EvidenceLinked
    <3> DEFINE t == [tx[c] EXCEPT !.pc = "write", !.prev = e.chain]
    <3>3. t \in Transaction /\ t.pc = "write" /\ t.op = tx[c].op /\ t.prev = e.chain
      BY <1>1, <3>2, Zenon DEF Transaction
    <3>4. tx' = [tx EXCEPT ![c] = t]
      BY <1>1, <3>1, Zenon DEF Transaction, InvestigationInv, InvestigationTypeOK
    <3> HIDE DEF t
    <3> QED BY <3>2, <3>3, <3>4, Zenon
  <2> QED BY <2>1, <2>2, Zenon
<1>3. \A b \in Callers : tx'[b] = IF b = c THEN t ELSE tx[b]
  BY <1>2, Zenon DEF InvestigationInv, InvestigationTypeOK
<1>4. InvestigationTypeOK'
  BY <1>1, <1>2, Zenon DEF InvestigationInv, InvestigationTypeOK
<1>5. ASSUME NEW b \in Callers PROVE HoldsCase(b)' /\ HeadIsFresh(b)'
  <2>1. CASE b = c
    BY <1>1, <1>2, <1>3, <2>1 DEF HoldsCase, HeadIsFresh, Heads
  <2>2. CASE b # c
    BY <1>1, <1>3, <2>2, Zenon DEF InvestigationInv, HoldsCase, HeadIsFresh, Heads
  <2> QED BY <2>1, <2>2, Zenon
<1>6. EvidenceLinked'
  BY <1>1, Zenon DEF InvestigationInv, EvidenceLinked
<1> QED BY <1>4, <1>5, <1>6, Zenon DEF InvestigationInv

(* The new item links to the head that was read, which the lock has kept. *)
LEMMA AppendEvidenceStep ==
  ASSUME InvestigationInv, NEW c \in Callers, AppendEvidence(c)
  PROVE  InvestigationInv'
<1>1. /\ tx[c].pc = "write" /\ tx[c].op.kind = "append" /\ tx[c] \in Transaction
      /\ End(c) /\ UNCHANGED <<state, findings, recs, clock>>
  BY TransactionTyped, Zenon DEF AppendEvidence
<1>2. EvidenceLinked'
  <2>1. CASE evidence' = evidence
    BY <2>1, Zenon DEF InvestigationInv, EvidenceLinked
  <2>2. CASE evidence' = evidence \cup {Item(c)}
    <3>1. tx[c].prev \in Seq(Contents) /\ tx[c].op.content \in Contents
      BY <1>1, Zenon DEF Transaction, Operations
    <3>2. /\ Item(c).prev = tx[c].prev
          /\ Item(c).chain = Append(tx[c].prev, tx[c].op.content)
      BY Zenon DEF Item, EvidenceChainHash
    <3>3. Item(c).chain # Genesis /\ Item(c).chain \in Seq(Contents)
      BY <3>1, <3>2 DEF Genesis
    <3>4. IF Item(c).prev = Genesis THEN evidence = {} ELSE \E e \in evidence : e.chain = Item(c).prev
      BY <1>1, <3>2, Zenon DEF InvestigationInv, HeadIsFresh, Heads
    <3> QED BY <2>2, <3>3, <3>4, Zenon DEF InvestigationInv, EvidenceLinked
  <2> QED BY <2>1, <2>2, Zenon DEF AppendEvidence
<1> QED BY <1>1, <1>2, EndInvestigation, Zenon DEF InvestigationInv, InvestigationTypeOK

LEMMA OtherWritesStep ==
  ASSUME InvestigationInv, NEW c \in Callers,
         AddFinding(c) \/ AddRecommendation(c) \/ TransitionInvestigationCase(c) \/ Rollback(c)
  PROVE  InvestigationInv'
<1>1. End(c) /\ clock' = clock /\ evidence' = evidence
  BY Zenon DEF AddFinding, AddRecommendation, TransitionInvestigationCase, Rollback
<1>2. tx[c].pc \in {"head", "write"} \/ UNCHANGED <<state, evidence>>
  BY Zenon DEF AddFinding, AddRecommendation, TransitionInvestigationCase, Rollback
<1>3. recs' \in [Recs -> {"NONE", "PROPOSED", "ACCEPTED", "REJECTED", "IMPLEMENTED"}]
  BY Zenon DEF AddFinding, AddRecommendation, TransitionInvestigationCase, Rollback,
         InvestigationInv, InvestigationTypeOK
<1>4. EvidenceLinked'
  BY <1>1, Zenon DEF InvestigationInv, EvidenceLinked
<1> QED BY <1>1, <1>2, <1>3, <1>4, EndInvestigation, Zenon

LEMMA InvestigationStep == InvestigationInv /\ [InvestigationNext]_investigationVars => InvestigationInv'
<1> SUFFICES ASSUME InvestigationInv, [InvestigationNext]_investigationVars PROVE InvestigationInv'
  BY Zenon
<1>1. CASE UNCHANGED investigationVars
  BY <1>1, Zenon DEF investigationVars, InvestigationInv, InvestigationTypeOK, HoldsCase, HeadIsFresh, Heads, EvidenceLinked
<1>2. ASSUME NEW c \in Callers, NEW op \in Operations, Begin(c, op) PROVE InvestigationInv'
  BY <1>2, BeginStep, Zenon
<1>3. ASSUME NEW c \in Callers, Lock(c) \/ ReadHead(c) \/ AppendEvidence(c) PROVE InvestigationInv'
  BY <1>3, LockStep, ReadHeadStep, AppendEvidenceStep, Zenon
<1>4. ASSUME NEW c \in Callers,
             AddFinding(c) \/ AddRecommendation(c) \/ TransitionInvestigationCase(c) \/ Rollback(c)
      PROVE  InvestigationInv'
  BY <1>4, OtherWritesStep, Zenon
<1>5. ASSUME NEW r \in Recs, NEW action \in {"accept", "reject", "implement"}, DecideRecommendation(r, action)
      PROVE  InvestigationInv'
  <2>1. UNCHANGED <<state, lock, tx, evidence, findings, clock>>
    BY <1>5, Zenon DEF DecideRecommendation
  <2>2. recs' \in [Recs -> {"NONE", "PROPOSED", "ACCEPTED", "REJECTED", "IMPLEMENTED"}]
    BY <1>5, Zenon DEF DecideRecommendation, Decided, InvestigationInv, InvestigationTypeOK
  <2> QED BY <2>1, <2>2, Zenon DEF InvestigationInv, InvestigationTypeOK, HoldsCase, HeadIsFresh, Heads, EvidenceLinked
<1> QED BY <1>1, <1>2, <1>3, <1>4, <1>5, Zenon DEF InvestigationNext

LEMMA InvestigationInvariant == InvestigationSpec => []InvestigationInv
BY InvestigationInitInv, InvestigationStep, PTL DEF InvestigationSpec

(***************************************************************************)
(* "Chain heads serialize" for any number of concurrent AppendEvidence     *)
(* calls: one item at most links to the genesis hash and every other to    *)
(* the hash of an item that is there.                                      *)
(***************************************************************************)
THEOREM OneChain == InvestigationSpec => []OneRoot
<1>1. InvestigationInv => OneRoot
  <2> SUFFICES ASSUME InvestigationInv PROVE OneRoot
    BY Zenon
  <2> DEFINE roots == {e \in evidence : e.prev = Genesis}
  <2>1. Cardinality(roots) <= 1
    <3>1. CASE roots = {}
      BY <3>1, FS_EmptySet
    <3>2. CASE roots # {}
      <4>1. PICK e \in roots : TRUE
        BY <3>2, Zenon
      <4>2. roots = {e}
        BY <4>1, Zenon DEF InvestigationInv, EvidenceLinked
      <4>3. Cardinality({e}) = 1
        BY FS_Singleton, Zenon
      <4> QED BY <4>2, <4>3
    <3> QED BY <3>1, <3>2, Zenon
  <2>2. \A e \in evidence : e.prev # Genesis => \E other \in evidence : other.chain = e.prev
    BY Zenon DEF InvestigationInv, EvidenceLinked
  <2> QED BY <2>1, <2>2, Zenon DEF OneRoot
<1> QED BY <1>1, InvestigationInvariant, PTL

(* The rows of the table: what AppendEvidence computed, at the start of one transaction each. *)
EvidenceRow == [content : Contents, prev : Seq(Contents), at : Nat, nth : Nat, chain : Seq(Contents)]

EvidenceRows ==
  /\ IsFiniteSet(evidence)
  /\ \A e \in evidence : /\ e \in EvidenceRow /\ e.at <= clock /\ e.nth \in 1 .. Cardinality(evidence)
                         /\ e.chain = EvidenceChainHash(e.prev, e.content)
  /\ \A e, f \in evidence : e.at = f.at => e = f

(* now() of an open transaction belongs to it alone. *)
StartsDiffer ==
  /\ \A c \in Callers : tx[c].pc # "none" => tx[c].at <= clock /\ \A e \in evidence : e.at # tx[c].at
  /\ \A b, c \in Callers : tx[b].pc # "none" /\ tx[c].pc # "none" /\ tx[b].at = tx[c].at => b = c

(* An item links to the latest, by collected_at, of those that were committed before it. *)
CommittedBefore(e) == {f \in evidence : f.nth < e.nth}

LinksBack(e) ==
  IF e.prev = Genesis THEN CommittedBefore(e) = {}
  ELSE \E h \in CommittedBefore(e) : h.chain = e.prev /\ \A f \in CommittedBefore(e) : f.at <= h.at

ChainInv ==
  /\ InvestigationInv
  /\ EvidenceRows /\ StartsDiffer
  /\ \A e \in evidence : LinksBack(e)

LEMMA ChainInitInv == InvestigationInit => ChainInv
<1> SUFFICES ASSUME InvestigationInit PROVE ChainInv
  BY Zenon
<1>1. EvidenceRows
  BY FS_EmptySet, Zenon DEF InvestigationInit, EvidenceRows
<1>2. StartsDiffer
  BY Zenon DEF InvestigationInit, StartsDiffer, NoTx
<1> QED BY <1>1, <1>2, InvestigationInitInv, Zenon DEF InvestigationInit, ChainInv

(* A transaction that keeps its instant or ends, and leaves the evidence as it is. *)
LEMMA ChainKept ==
  ASSUME ChainInv, InvestigationInv', UNCHANGED <<evidence, clock>>,
         \A c \in Callers : tx'[c].pc # "none" => tx[c].pc # "none" /\ tx'[c].at = tx[c].at
  PROVE  ChainInv'
<1>1. EvidenceRows' /\ \A e \in evidence' : LinksBack(e)'
  BY Zenon DEF ChainInv, EvidenceRows, LinksBack, CommittedBefore
<1>2. StartsDiffer'
  BY Zenon DEF ChainInv, StartsDiffer
<1> QED BY <1>1, <1>2, Zenon DEF ChainInv

LEMMA EndKeepsStarts ==
  ASSUME InvestigationInv, NEW c \in Callers, End(c)
  PROVE  \A b \in Callers : tx'[b].pc # "none" => b # c /\ tx'[b] = tx[b]
BY Zenon DEF InvestigationInv, InvestigationTypeOK, End, NoTx

LEMMA BeginKeepsChain ==
  ASSUME ChainInv, InvestigationInv', NEW c \in Callers, NEW op \in Operations, Begin(c, op)
  PROVE  ChainInv'
<1> DEFINE t == [pc |-> "lock", op |-> op, at |-> clock + 1, prev |-> Genesis]
<1>1. tx' = [tx EXCEPT ![c] = t] /\ clock' = clock + 1 /\ evidence' = evidence /\ tx[c].pc = "none" /\ clock \in Nat
  BY Zenon DEF Begin, ChainInv, InvestigationInv, InvestigationTypeOK
<1>2. t.at = clock + 1
  BY Zenon
<1> HIDE DEF t
<1>3. \A b \in Callers : tx'[b] = IF b = c THEN t ELSE tx[b]
  BY <1>1, Zenon DEF ChainInv, InvestigationInv, InvestigationTypeOK
<1>4. EvidenceRows'
  BY <1>1 DEF ChainInv, EvidenceRows, EvidenceRow
<1>5. \A b \in Callers : tx[b].pc # "none" => tx[b].at \in Nat /\ tx[b].at <= clock
  BY TransactionTyped, Zenon DEF ChainInv, StartsDiffer, Transaction
<1>6. StartsDiffer'
  BY <1>1, <1>2, <1>3, <1>5 DEF ChainInv, StartsDiffer, EvidenceRows, EvidenceRow
<1>7. \A e \in evidence' : LinksBack(e)'
  BY <1>1, Zenon DEF ChainInv, LinksBack, CommittedBefore
<1> QED BY <1>4, <1>6, <1>7, Zenon DEF ChainInv

(* The new item: the last to be committed, and it links to the latest of the others. *)
LEMMA AppendKeepsChain ==
  ASSUME ChainInv, InvestigationInv', NEW c \in Callers, AppendEvidence(c)
  PROVE  ChainInv'
<1> DEFINE new == Item(c)
           n == Cardinality(evidence)
<1>1. /\ tx[c].pc = "write" /\ tx[c].op.kind = "append" /\ tx[c] \in Transaction
      /\ End(c) /\ clock' = clock /\ clock \in Nat
  BY TransactionTyped, Zenon DEF AppendEvidence, ChainInv, InvestigationInv, InvestigationTypeOK
<1>2. \A b \in Callers : tx'[b].pc # "none" => b # c /\ tx'[b] = tx[b]
  BY <1>1, EndKeepsStarts, Zenon DEF ChainInv
<1>3. CASE evidence' = evidence
  BY <1>1, <1>2, <1>3, ChainKept, Zenon
<1>4. CASE evidence' = evidence \cup {new}
  <2>1. /\ new.prev = tx[c].prev /\ new.content = tx[c].op.content /\ new.at = tx[c].at /\ new.nth = n + 1
        /\ new.chain = EvidenceChainHash(new.prev, new.content)
    BY Zenon DEF Item
  <2>2. /\ tx[c].prev \in Seq(Contents) /\ tx[c].op.content \in Contents
        /\ tx[c].at \in Nat /\ tx[c].at <= clock
    BY <1>1, Zenon DEF Transaction, Operations, ChainInv, StartsDiffer
  <2>3. \A e \in evidence : e.at # new.at
    BY <1>1, <2>1, Zenon DEF ChainInv, StartsDiffer
  <2>4. IsFiniteSet(evidence) /\ n \in Nat /\ \A e \in evidence : e.nth \in 1 .. n
    BY FS_CardinalityType, Zenon DEF ChainInv, EvidenceRows
  <2>5. IF new.prev = Genesis THEN evidence = {} ELSE \E h \in Heads : h.chain = new.prev
    BY <1>1, <2>1, Zenon DEF ChainInv, InvestigationInv, HeadIsFresh
  <2> HIDE DEF new, n
  <2>6. IsFiniteSet(evidence') /\ Cardinality(evidence') = n + 1
    <3>1. new \notin evidence
      BY <2>3, Zenon
    <3> QED BY <1>4, <2>4, <3>1, FS_AddElement, Zenon DEF n
  <2>7. EvidenceRows'
    <3>1. ASSUME NEW e \in evidence'
          PROVE  /\ e \in EvidenceRow /\ e.at <= clock /\ e.nth \in 1 .. n + 1
                 /\ e.chain = EvidenceChainHash(e.prev, e.content)
      <4>1. CASE e = new
        <5>1. new \in EvidenceRow
          BY <2>2, <2>4 DEF EvidenceRow, new, Item, EvidenceChainHash, n
        <5> QED BY <2>1, <2>2, <2>4, <4>1, <5>1
      <4>2. CASE e \in evidence
        BY <2>4, <4>2 DEF ChainInv, EvidenceRows
      <4> QED BY <1>4, <4>1, <4>2, Zenon
    <3>2. \A e, f \in evidence' : e.at = f.at => e = f
      BY <1>4, <2>3, Zenon DEF ChainInv, EvidenceRows
    <3> QED BY <1>1, <2>6, <3>1, <3>2, Zenon DEF EvidenceRows
  <2>8. StartsDiffer'
    <3>1. \A b \in Callers : tx'[b].pc # "none" => tx'[b].at # new.at
      BY <1>1, <1>2, <2>1 DEF ChainInv, StartsDiffer
    <3> QED BY <1>1, <1>2, <1>4, <3>1 DEF ChainInv, StartsDiffer
  <2>9. ASSUME NEW e \in evidence' PROVE LinksBack(e)'
    <3>1. CASE e = new
      <4>1. CommittedBefore(e)' = evidence
        BY <1>4, <2>1, <2>4, <3>1 DEF CommittedBefore
      <4> QED BY <2>5, <3>1, <4>1, Zenon DEF LinksBack, Heads
    <3>2. CASE e \in evidence
      <4>1. CommittedBefore(e)' = CommittedBefore(e)
        BY <1>4, <2>1, <2>4, <3>2 DEF CommittedBefore
      <4> QED BY <3>2, <4>1, Zenon DEF LinksBack, ChainInv
    <3> QED BY <1>4, <3>1, <3>2, Zenon
  <2> QED BY <2>7, <2>8, <2>9, Zenon DEF ChainInv
<1> QED BY <1>3, <1>4, Zenon DEF AppendEvidence

LEMMA ChainStep == ChainInv /\ [InvestigationNext]_investigationVars => ChainInv'
<1> SUFFICES ASSUME ChainInv, [InvestigationNext]_investigationVars PROVE ChainInv'
  BY Zenon
<1>1. InvestigationInv /\ InvestigationInv'
  BY InvestigationStep, Zenon DEF ChainInv
<1>2. ASSUME UNCHANGED <<tx, evidence, clock>> PROVE ChainInv'
  BY <1>1, <1>2, ChainKept, Zenon
<1>3. ASSUME NEW c \in Callers, End(c), UNCHANGED <<evidence, clock>> PROVE ChainInv'
  BY <1>1, <1>3, EndKeepsStarts, ChainKept, Zenon
<1>4. ASSUME NEW c \in Callers, NEW op \in Operations, Begin(c, op) PROVE ChainInv'
  BY <1>1, <1>4, BeginKeepsChain, Zenon
<1>5. ASSUME NEW c \in Callers, AppendEvidence(c) PROVE ChainInv'
  BY <1>1, <1>5, AppendKeepsChain, Zenon
<1>6. ASSUME NEW c \in Callers, Lock(c) \/ ReadHead(c) PROVE ChainInv'
  <2>1. CASE End(c)
    BY <1>3, <1>6, <2>1, Zenon DEF Lock, ReadHead
  <2>2. CASE ~End(c)
    <3>1. tx[c].pc # "none" /\ tx[c] \in Transaction /\ UNCHANGED <<evidence, clock>>
      BY <1>1, <1>6, TransactionTyped, Zenon DEF Lock, ReadHead
    <3>2. \A b \in Callers : tx'[b].pc # "none" => tx[b].pc # "none" /\ tx'[b].at = tx[b].at
      BY <1>1, <1>6, <2>2, <3>1 DEF Lock, ReadHead, InvestigationInv, InvestigationTypeOK, Transaction
    <3> QED BY <1>1, <3>1, <3>2, ChainKept, Zenon
  <2> QED BY <2>1, <2>2, Zenon
<1>7. ASSUME NEW c \in Callers,
             AddFinding(c) \/ AddRecommendation(c) \/ TransitionInvestigationCase(c) \/ Rollback(c)
      PROVE  ChainInv'
  BY <1>3, <1>7, Zenon DEF AddFinding, AddRecommendation, TransitionInvestigationCase, Rollback
<1>8. ASSUME NEW r \in Recs, NEW action \in {"accept", "reject", "implement"}, DecideRecommendation(r, action)
      PROVE  ChainInv'
  BY <1>2, <1>8, Zenon DEF DecideRecommendation
<1>9. CASE UNCHANGED investigationVars
  BY <1>2, <1>9, Zenon DEF investigationVars
<1> QED BY <1>4, <1>5, <1>6, <1>7, <1>8, <1>9, Zenon DEF InvestigationNext

(* The item that is listed just before another, when the items have instants of their own. *)
LEMMA PreviousItem ==
  ASSUME NEW items, NEW e, NEW h \in ListedBefore(items, e), \A f \in ListedBefore(items, e) : f.at <= h.at,
         \A f \in ListedBefore(items, e) : f.at \in Nat,
         \A f \in ListedBefore(items, e) : f.at = h.at => f = h
  PROVE  PreviousHash(items, e) = h.chain
<1> DEFINE before == ListedBefore(items, e)
           last == CHOOSE f \in before : \A g \in before : g.at <= f.at
<1> HIDE DEF before
<1>1. last \in before /\ \A g \in before : g.at <= last.at
  BY Zenon DEF before
<1>2. last.at = h.at
  BY <1>1 DEF before
<1>3. last = h
  BY <1>1, <1>2, Zenon DEF before
<1>4. before # {} /\ PreviousHash(items, e) = last.chain
  BY <1>1, Zenon DEF PreviousHash, before
<1> QED BY <1>3, <1>4, Zenon

(* The appends were committed in the order in which they started. *)
LEMMA OrderedChainVerifies ==
  ASSUME ChainInv, \A e, f \in evidence : e.at < f.at => e.nth < f.nth
  PROVE  VerifyEvidenceChain(evidence)
<1> SUFFICES ASSUME NEW e \in evidence PROVE e.prev = PreviousHash(evidence, e)
  BY Zenon DEF VerifyEvidenceChain, ChainInv, EvidenceRows
<1>1. /\ \A f \in evidence : f.at \in Nat /\ f.nth \in Int
      /\ \A f, g \in evidence : f.at = g.at => f = g
  <2>1. Cardinality(evidence) \in Nat
    BY FS_CardinalityType, Zenon DEF ChainInv, EvidenceRows
  <2> QED BY <2>1 DEF ChainInv, EvidenceRows, EvidenceRow
<1>2. CommittedBefore(e) = ListedBefore(evidence, e)
  BY <1>1 DEF CommittedBefore, ListedBefore
<1>3. CASE e.prev = Genesis
  BY <1>2, <1>3, Zenon DEF ChainInv, LinksBack, PreviousHash
<1>4. CASE e.prev # Genesis
  <2>1. PICK h \in ListedBefore(evidence, e) : h.chain = e.prev /\ \A f \in ListedBefore(evidence, e) : f.at <= h.at
    BY <1>2, <1>4, Zenon DEF ChainInv, LinksBack
  <2>2. /\ \A f \in ListedBefore(evidence, e) : f.at \in Nat
        /\ \A f \in ListedBefore(evidence, e) : f.at = h.at => f = h
    BY <1>1, Zenon DEF ListedBefore
  <2>3. PreviousHash(evidence, e) = h.chain
    BY <2>1, <2>2, PreviousItem, Zenon
  <2> QED BY <2>1, <2>3, Zenon
<1> QED BY <1>3, <1>4, Zenon

(* A hash is never the hash it extends, and it tells the contents apart. *)
LEMMA HashesDiffer ==
  ASSUME NEW prev \in Seq(Contents), NEW content \in Contents, NEW other \in Contents \ {content}
  PROVE  EvidenceChainHash(prev, content) # EvidenceChainHash(prev, other)
<1>1. /\ Append(prev, content)[Len(prev) + 1] = content
      /\ Append(prev, other)[Len(prev) + 1] = other
  OBVIOUS
<1> QED BY <1>1, Zenon DEF EvidenceChainHash

LEMMA HashesGrow ==
  ASSUME NEW prev \in Seq(Contents), NEW content \in Contents
  PROVE  EvidenceChainHash(prev, content) # prev
<1>1. Len(Append(prev, content)) = Len(prev) + 1 /\ Len(prev) \in Nat
  OBVIOUS
<1> QED BY <1>1 DEF EvidenceChainHash

LEMMA ReplacedContentShows ==
  ASSUME ChainInv, VerifyEvidenceChain(evidence), NEW e \in evidence, NEW content \in Contents \ {e.content}
  PROVE  ~VerifyEvidenceChain((evidence \ {e}) \cup {[e EXCEPT !.content = content]})
<1> DEFINE forged == [e EXCEPT !.content = content]
           rows2 == (evidence \ {e}) \cup {forged}
<1>1. /\ e \in EvidenceRow /\ \A f \in evidence : f.at \in Nat
      /\ e.chain = EvidenceChainHash(e.prev, e.content) /\ e.prev = PreviousHash(evidence, e)
  BY Zenon DEF ChainInv, EvidenceRows, VerifyEvidenceChain, EvidenceRow
<1>2. /\ forged.at = e.at /\ forged.chain = e.chain /\ forged.content = content
      /\ e.at \in Nat /\ e.prev \in Seq(Contents) /\ e.content \in Contents
  BY <1>1, Zenon DEF EvidenceRow
<1> HIDE DEF forged
<1>3. ListedBefore(rows2, forged) = ListedBefore(evidence, e)
  BY <1>1, <1>2 DEF ListedBefore
<1>4. PreviousHash(rows2, forged) = e.prev
  BY <1>1, <1>3, Zenon DEF PreviousHash
<1>5. forged.chain # EvidenceChainHash(e.prev, forged.content)
  BY <1>1, <1>2, HashesDiffer, Zenon
<1> QED BY <1>4, <1>5, Zenon DEF VerifyEvidenceChain, forged

(* The item listed next linked to the one that is gone. *)
LEMMA RemovalShows ==
  ASSUME ChainInv, VerifyEvidenceChain(evidence), NEW e \in evidence, e \notin Heads
  PROVE  ~VerifyEvidenceChain(evidence \ {e})
<1>1. /\ e.prev \in Seq(Contents) /\ e.content \in Contents
      /\ e.chain = EvidenceChainHash(e.prev, e.content)
      /\ \A f \in evidence : f.at \in Nat /\ f.prev = PreviousHash(evidence, f)
      /\ \A f, g \in evidence : f.at = g.at => f = g
  BY Zenon DEF ChainInv, EvidenceRows, VerifyEvidenceChain, EvidenceRow
<1>2. PICK f \in evidence : e.at < f.at /\ \A g \in evidence : e.at < g.at => f.at <= g.at
  <2> DEFINE later == {n \in Nat : e.at < n /\ \E g \in evidence : g.at = n}
  <2>1. later \in SUBSET Nat /\ later # {}
    BY <1>1 DEF Heads
  <2>2. PICK m \in later : \A n \in later : m <= n
    <3> HIDE DEF later
    <3> QED BY <2>1, LeastElement, Zenon
  <2> QED BY <1>1, <2>2
<1>3. PreviousHash(evidence, f) = e.chain
  <2> DEFINE before == ListedBefore(evidence, f)
  <2>1. /\ e \in before /\ \A g \in before : g.at <= e.at
        /\ \A g \in before : g.at \in Nat /\ (g.at = e.at => g = e)
    BY <1>1, <1>2 DEF ListedBefore
  <2> QED BY <2>1, PreviousItem, Zenon
<1>4. ListedBefore(evidence \ {e}, f) = ListedBefore(evidence, e)
  BY <1>1, <1>2 DEF ListedBefore
<1>5. PreviousHash(evidence \ {e}, f) = e.prev
  BY <1>1, <1>4, Zenon DEF PreviousHash
<1>6. f.prev = e.chain /\ e.chain # e.prev /\ f \in evidence \ {e}
  BY <1>1, <1>2, <1>3, HashesGrow, Zenon
<1> QED BY <1>5, <1>6, Zenon DEF VerifyEvidenceChain

(***************************************************************************)
(* The hash chain does what it is for, for any number of callers: evidence *)
(* whose appends committed in the order of their transactions verifies,    *)
(* and what verifies shows a replaced content and a removed item.          *)
(***************************************************************************)
THEOREM ChainIsTamperEvident == InvestigationSpec => []ChainShowsTampering
<1>1. ChainInv => ChainShowsTampering
  BY OrderedChainVerifies, ReplacedContentShows, RemovalShows, Zenon DEF ChainShowsTampering
<1> QED BY <1>1, ChainInitInv, ChainStep, PTL DEF InvestigationSpec

(* What a step may do to the records of the case. *)
FrozenStep ==
  /\ evidence' # evidence => state = "EVIDENCE"
  /\ findings' # findings => state \in {"ANALYSIS", "REPORTED"}
  /\ \A r \in Recs : recs[r] = "NONE" /\ recs'[r] # "NONE" => state \in {"ANALYSIS", "REPORTED"}
  /\ \A r \in Recs : recs[r] \in {"REJECTED", "IMPLEMENTED"} => recs'[r] = recs[r]
  /\ \A r \in Recs : recs[r] # "IMPLEMENTED" /\ recs'[r] = "IMPLEMENTED" => recs[r] = "ACCEPTED"

(***************************************************************************)
(* The state check and the insert of AppendEvidence, AddFinding and        *)
(* AddRecommendation are one although they are two statements, and the     *)
(* decision of a recommendation is final, for any number of callers.       *)
(***************************************************************************)
THEOREM ChecksAndInsertsAreOne == InvestigationSpec => RecordsFrozen
<1>1. InvestigationInv /\ [InvestigationNext]_investigationVars => [FrozenStep]_investigationVars
  <2> SUFFICES ASSUME InvestigationInv, InvestigationNext PROVE FrozenStep
    BY Zenon DEF investigationVars
  <2>1. ASSUME UNCHANGED <<evidence, findings, recs>> PROVE FrozenStep
    BY <2>1, Zenon DEF FrozenStep
  <2>2. ASSUME NEW c \in Callers, AppendEvidence(c) PROVE FrozenStep
    <3>1. state \in AllowedIn(tx[c].op) /\ tx[c].op.kind = "append"
      BY <2>2, Zenon DEF AppendEvidence, InvestigationInv, HoldsCase
    <3> QED BY <2>2, <3>1, Zenon DEF AppendEvidence, AllowedIn, FrozenStep
  <2>3. ASSUME NEW c \in Callers, AddFinding(c) PROVE FrozenStep
    <3>1. state \in AllowedIn(tx[c].op) /\ tx[c].op.kind = "finding"
      BY <2>3, Zenon DEF AddFinding, InvestigationInv, HoldsCase
    <3> QED BY <2>3, <3>1, Zenon DEF AddFinding, AllowedIn, FrozenStep
  <2>4. ASSUME NEW c \in Callers, AddRecommendation(c) PROVE FrozenStep
    <3>1. state \in AllowedIn(tx[c].op) /\ tx[c].op.kind = "recommend"
      BY <2>4, Zenon DEF AddRecommendation, InvestigationInv, HoldsCase
    <3>2. state \in {"ANALYSIS", "REPORTED"}
      BY <3>1, Zenon DEF AllowedIn
    <3>3. UNCHANGED <<evidence, findings>>
      BY <2>4, Zenon DEF AddRecommendation
    <3>4. \A r \in Recs : recs'[r] = recs[r] \/ (recs[r] = "NONE" /\ recs'[r] = "PROPOSED")
      BY <2>4, Zenon DEF AddRecommendation, InvestigationInv, InvestigationTypeOK
    <3> QED BY <3>2, <3>3, <3>4, Zenon DEF FrozenStep
  <2>5. ASSUME NEW r \in Recs, NEW action \in {"accept", "reject", "implement"}, DecideRecommendation(r, action)
        PROVE  FrozenStep
    <3>1. UNCHANGED <<evidence, findings>> /\ recs' = [recs EXCEPT ![r] = Decided(recs[r], action)]
      BY <2>5, Zenon DEF DecideRecommendation
    <3>2. \A q \in Recs : recs'[q] = IF q = r THEN Decided(recs[r], action) ELSE recs[q]
      BY <3>1, Zenon DEF InvestigationInv, InvestigationTypeOK
    <3> QED BY <3>1, <3>2 DEF FrozenStep, Decided
  <2>6. ASSUME NEW c \in Callers,
               Lock(c) \/ ReadHead(c) \/ Rollback(c) \/ TransitionInvestigationCase(c)
                 \/ \E op \in Operations : Begin(c, op)
        PROVE  FrozenStep
    BY <2>1, <2>6, Zenon DEF Lock, ReadHead, Rollback, TransitionInvestigationCase, Begin
  <2> QED BY <2>2, <2>3, <2>4, <2>5, <2>6, Zenon DEF InvestigationNext
<1> QED BY <1>1, InvestigationInvariant, PTL DEF InvestigationSpec, RecordsFrozen, FrozenStep

-----------------------------------------------------------------------------
(* The other safety registers: the inductive invariant. *)

SafetyOps ==
  {"start", "complete", "detain", "rectify", "release", "close", "alert", "distress", "rescue",
   "evidence", "analysis", "report", "deficiency", "task", "item"}
RowStates ==
  {"NONE", "SCHEDULED", "IN_PROGRESS", "COMPLETED", "DETAINED", "RECTIFICATION", "RELEASED", "CLOSED",
   "UNCERTAINTY", "ALERT", "DISTRESS", "RESCUE", "OPEN", "EVIDENCE", "ANALYSIS", "REPORTED"}
Handling ==
  {Ready} \cup [pc : {"count", "write"}, op : SafetyOps, actor : Persons]
    \cup [pc : {"reread"}, op : SafetyOps]
    \cup [pc : {"publish"}, event : [action : SafetyOps \cup {"create"}, state : RowStates]]

DeficiencyRow ==
  [state : {"NONE", "OPEN", "RECTIFIED", "VERIFIED"}, severity : {"NONE", "MINOR", "CRITICAL"},
   by : Persons \cup {"nobody"}]
TaskingState == {"NONE", "TASKED", "EN_ROUTE", "ON_SCENE", "RELEASED"}

SafetyTypeOK ==
  /\ handling \in [Handlers -> Handling]
  /\ deficiencies \in [DeficiencyIds -> DeficiencyRow]
  /\ taskings \in [TaskingIds -> TaskingState]
  /\ changes \in Nat
  /\ row \in RowStates

(* One request at most is past the lock on the row. *)
OneRowHolder ==
  \A g, h \in Handlers : handling[g].pc \in {"count", "write"} /\ handling[h].pc \in {"count", "write"} => g = h

(* What a request checked under the lock still holds. *)
CheckHolds(h) ==
  /\ handling[h].pc = "write" /\ handling[h].op = "release" => OpenCritical = {}
  /\ handling[h].pc \in {"count", "write"} /\ handling[h].op = "task" => row # "CLOSED"
  /\ handling[h].pc = "count" => handling[h].op = "release"
  /\ handling[h].pc \in {"count", "write", "reread"} => row # "NONE"
  /\ handling[h].pc = "reread" => handling[h].op = Attachment
  /\ handling[h].pc = "write" /\ handling[h].op \in {"task", "item"} => handling[h].op = Attachment

SafetyInv ==
  /\ SafetyTypeOK
  /\ OneRowHolder
  /\ \A h \in Handlers : CheckHolds(h)

LEMMA SafetyInitInv == SafetyInit => SafetyInv
<1> SUFFICES ASSUME SafetyInit PROVE SafetyInv
  BY Zenon
<1>1. SafetyTypeOK
  BY Zenon DEF SafetyInit, SafetyTypeOK, Handling, NoDeficiency, DeficiencyRow, TaskingState, RowStates
<1>2. OneRowHolder /\ (\A h \in Handlers : CheckHolds(h))
  BY Zenon DEF SafetyInit, OneRowHolder, CheckHolds, Ready
<1> QED BY <1>1, <1>2, Zenon DEF SafetyInv

LEMMA RegisterKept ==
  ASSUME register' = register
  PROVE  Ladder' = Ladder /\ FirstState' = FirstState /\ Attachment' = Attachment
BY Zenon DEF Ladder, FirstState, Attachment

(* A request moves on or ends without the lock; what others have checked is left alone. *)
LEMMA HandlingStep ==
  ASSUME SafetyInv, NEW h \in Handlers, NEW next \in Handling, next.pc \notin {"count", "write"},
         next.pc = "reread" => next.op = Attachment /\ row' # "NONE",
         handling' = [handling EXCEPT ![h] = next], register' = register,
         deficiencies' \in [DeficiencyIds -> DeficiencyRow],
         taskings' \in [TaskingIds -> TaskingState], changes' \in Nat, row' \in RowStates,
         row' = row \/ row' # "NONE",
         handling[h].pc \in {"count", "write"} \/ (deficiencies' = deficiencies /\ (row' = row \/ row' # "CLOSED"))
  PROVE  SafetyInv'
<1>1. \A g \in Handlers : handling'[g] = IF g = h THEN next ELSE handling[g]
  BY Zenon DEF SafetyInv, SafetyTypeOK
<1>2. SafetyTypeOK'
  BY Zenon DEF SafetyInv, SafetyTypeOK
<1>3. OneRowHolder'
  BY <1>1, Zenon DEF SafetyInv, OneRowHolder
<1>4. ASSUME NEW g \in Handlers PROVE CheckHolds(g)'
  <2>1. CASE g = h
    BY <1>1, <2>1, Zenon DEF CheckHolds, Attachment
  <2>2. CASE g # h /\ handling[g].pc \in {"count", "write"}
    <3>1. deficiencies' = deficiencies /\ (row' = row \/ row' # "CLOSED")
      BY <2>2, Zenon DEF SafetyInv, OneRowHolder
    <3>2. handling'[g] = handling[g] /\ CheckHolds(g)
      BY <1>1, <2>2, Zenon DEF SafetyInv
    <3>3. row' # "NONE" /\ Attachment' = Attachment
      BY <2>2, <3>2, RegisterKept, Zenon DEF CheckHolds
    <3> QED BY <2>2, <3>1, <3>2, <3>3, Zenon DEF CheckHolds, OpenCritical
  <2>3. CASE g # h /\ handling[g].pc \notin {"count", "write"}
    BY <1>1, <2>3, Zenon DEF CheckHolds, Attachment, SafetyInv
  <2> QED BY <2>1, <2>2, <2>3, Zenon
<1> QED BY <1>2, <1>3, <1>4, Zenon DEF SafetyInv

LEMMA ReplyStep ==
  ASSUME SafetyInv, NEW h \in Handlers, NEW success, Reply(h, success),
         UNCHANGED <<register, row, deficiencies, taskings, changes>>
  PROVE  SafetyInv'
<1>1. Ready \in Handling /\ Ready.pc = "idle" /\ handling' = [handling EXCEPT ![h] = Ready]
  BY Zenon DEF Reply, Handling, Ready
<1>2. /\ deficiencies' \in [DeficiencyIds -> DeficiencyRow]
      /\ taskings' \in [TaskingIds -> TaskingState] /\ changes' \in Nat /\ row' \in RowStates
  BY Zenon DEF SafetyInv, SafetyTypeOK
<1> QED BY <1>1, <1>2, HandlingStep, Zenon

(* The checks of RowError. *)
LEMMA RowErrorNone ==
  ASSUME NEW op, NEW actor, RowError(op, actor) = "nil"
  PROVE  row # "NONE" /\ (op = "task" => row # "CLOSED")
<1> DEFINE a == row = "NONE"
           b == op = "task" /\ row = "CLOSED"
           c == op = "item" /\ row # "EVIDENCE"
           d == op # Attachment /\ \A step \in Ladder : step[1] = op => step[2] # row
           e == op = "release" /\ detainer = actor
           invalid == "ErrSafetyInvalidTransition"
           checks == << <<a, "ErrSafetyNotFound">>, <<b, invalid>>, <<c, invalid>>, <<d, invalid>>,
                        <<e, "ErrSafetyMakerChecker">> >>
<1>1. FirstError(checks) = "nil"
  BY Zenon DEF RowError
<1>2. a \in BOOLEAN /\ b \in BOOLEAN
  BY Zenon
<1> HIDE DEF a, b, c, d, e
<1>3. /\ DOMAIN checks = 1 .. 5
      /\ checks[1][1] = a /\ checks[2][1] = b
      /\ checks[1][2] = "ErrSafetyNotFound" /\ checks[2][2] = invalid /\ checks[3][2] = invalid
      /\ checks[4][2] = invalid /\ checks[5][2] = "ErrSafetyMakerChecker"
  OBVIOUS
<1> HIDE DEF checks
<1>4. \A i \in 1 .. 5 : checks[i][2] # "nil"
  <2> TAKE i \in 1 .. 5
  <2>1. i = 1 \/ i = 2 \/ i = 3 \/ i = 4 \/ i = 5
    OBVIOUS
  <2> QED BY <2>1, <1>3, Zenon
<1>5. \A i \in 1 .. 5 : ~checks[i][1]
  BY <1>1, <1>3, <1>4, FirstErrorEmpty, 5 \in 1 .. 5, Zenon
<1>6. ~a /\ ~b
  BY <1>2, <1>3, <1>5, 1 \in 1 .. 5, 2 \in 1 .. 5, Zenon
<1> QED BY <1>6, Zenon DEF a, b

LEMMA LockRowStep ==
  ASSUME SafetyInv, NEW h \in Handlers, NEW op \in SafetyOps, NEW actor \in Persons, LockRow(h, op, actor),
         op \in {"task", "item"} => op = Attachment
  PROVE  SafetyInv'
<1> DEFINE err == RowError(op, actor)
<1>1. handling[h].pc = "idle" /\ ~RowLocked /\ UNCHANGED <<register, registerVars, changes>>
  BY Zenon DEF LockRow
<1>2. CASE err = "nil"
  <2> DEFINE next == [pc |-> IF op = "release" THEN "count" ELSE "write", op |-> op, actor |-> actor]
  <2>1. next \in Handling /\ next.op = op /\ next.pc = IF op = "release" THEN "count" ELSE "write"
    BY Zenon DEF Handling
  <2>2. handling' = [handling EXCEPT ![h] = next]
    BY <1>2, Zenon DEF LockRow
  <2> HIDE DEF next
  <2>3. \A g \in Handlers : handling'[g] = IF g = h THEN next ELSE handling[g]
    BY <2>2, Zenon DEF SafetyInv, SafetyTypeOK
  <2>4. \A g \in Handlers : g # h => handling'[g].pc \notin {"count", "write"}
    BY <1>1, <2>3, Zenon DEF RowLocked
  <2>5. SafetyTypeOK'
    BY <1>1, <2>1, <2>2, Zenon DEF SafetyInv, SafetyTypeOK, registerVars
  <2>6. OneRowHolder'
    BY <2>4, Zenon DEF OneRowHolder
  <2>7. CheckHolds(h)'
    BY <1>1, <1>2, <2>1, <2>3, RowErrorNone, Zenon DEF CheckHolds, Attachment, registerVars
  <2>8. \A g \in Handlers : CheckHolds(g)'
    <3> SUFFICES ASSUME NEW g \in Handlers, g # h PROVE CheckHolds(g)'
      BY <2>7, Zenon
    <3>1. CheckHolds(g) /\ handling'[g] = handling[g] /\ handling'[g].pc \notin {"count", "write"}
      BY <2>3, <2>4, Zenon DEF SafetyInv
    <3> QED BY <1>1, <3>1, Zenon DEF CheckHolds, Attachment, registerVars
  <2> QED BY <2>5, <2>6, <2>8, Zenon DEF SafetyInv
<1>3. CASE err # "nil"
  BY <1>1, <1>3, ReplyStep, Zenon DEF LockRow, registerVars
<1> QED BY <1>2, <1>3, Zenon

LEMMA CountCriticalStep ==
  ASSUME SafetyInv, NEW h \in Handlers, CountCritical(h)
  PROVE  SafetyInv'
<1>1. handling[h].pc = "count" /\ UNCHANGED <<register, registerVars, changes>>
  BY Zenon DEF CountCritical
<1>2. CASE OpenCritical = {}
  <2> DEFINE next == [handling[h] EXCEPT !.pc = "write"]
  <2>1. handling[h] \in [pc : {"count", "write"}, op : SafetyOps, actor : Persons] /\ handling[h].op = "release"
    BY <1>1 DEF SafetyInv, SafetyTypeOK, Handling, Ready, CheckHolds
  <2>2. next \in Handling /\ next.pc = "write" /\ next.op = "release"
    BY <2>1, Zenon DEF Handling
  <2>3. handling' = [handling EXCEPT ![h] = next]
    BY <1>2, Zenon DEF CountCritical, SafetyInv, SafetyTypeOK
  <2> HIDE DEF next
  <2>4. \A g \in Handlers : handling'[g] = IF g = h THEN next ELSE handling[g]
    BY <2>3, Zenon DEF SafetyInv, SafetyTypeOK
  <2>5. SafetyTypeOK'
    BY <1>1, <2>2, <2>3, Zenon DEF SafetyInv, SafetyTypeOK, registerVars
  <2>6. OneRowHolder'
    BY <1>1, <2>4, Zenon DEF SafetyInv, OneRowHolder
  <2>7. CheckHolds(h)
    BY Zenon DEF SafetyInv
  <2>8. row' = row /\ OpenCritical' = OpenCritical /\ Attachment' = Attachment /\ handling'[h] = next
    BY <1>1, <2>4, Zenon DEF OpenCritical, Attachment, registerVars
  <2>9. CheckHolds(h)'
    BY <1>1, <1>2, <2>2, <2>7, <2>8, Zenon DEF CheckHolds
  <2>10. \A g \in Handlers : CheckHolds(g)'
    <3> SUFFICES ASSUME NEW g \in Handlers, g # h PROVE CheckHolds(g)'
      BY <2>9, Zenon
    <3>1. CheckHolds(g) /\ handling'[g] = handling[g]
      BY <2>4, Zenon DEF SafetyInv
    <3> QED BY <2>8, <3>1, Zenon DEF CheckHolds
  <2> QED BY <2>5, <2>6, <2>10, Zenon DEF SafetyInv
<1>3. CASE OpenCritical # {}
  BY <1>1, <1>3, ReplyStep, Zenon DEF CountCritical, registerVars
<1> QED BY <1>2, <1>3, Zenon

(* A committed change: its request goes on to "reread" or "publish". *)
LEMMA CommittedHandling ==
  ASSUME SafetyInv, NEW h \in Handlers, NEW next, Committed(h, next)
  PROVE  handling' = [handling EXCEPT ![h] = next] /\ changes' \in Nat
BY DEF Committed, SafetyInv, SafetyTypeOK

LEMMA EventTypes ==
  /\ \A action \in SafetyOps \cup {"create"}, to \in RowStates :
       EventOf(action, to) \in Handling /\ EventOf(action, to).pc = "publish"
  /\ \A op \in SafetyOps : EventToRead(op) \in Handling /\ EventToRead(op).pc = "reread" /\ EventToRead(op).op = op
BY Zenon DEF EventOf, EventToRead, Handling

LEMMA CreateRowStep ==
  ASSUME SafetyInv, NEW h \in Handlers, NEW err, CreateRow(h, err)
  PROVE  SafetyInv'
<1>1. UNCHANGED <<register, template, detainer, deficiencies, taskings, comms>>
  BY Zenon DEF CreateRow
<1>2. CASE err = "nil"
  <2> DEFINE next == EventOf("create", FirstState)
  <2>1. row' = FirstState /\ Committed(h, next)
    BY <1>2, Zenon DEF CreateRow
  <2>2. FirstState \in RowStates /\ FirstState # "CLOSED" /\ FirstState # "NONE"
    BY Zenon DEF FirstState, RowStates
  <2>3. next \in Handling /\ next.pc = "publish"
    BY <2>2, EventTypes, Zenon
  <2>4. handling' = [handling EXCEPT ![h] = next] /\ changes' \in Nat
    BY <2>1, CommittedHandling, Zenon
  <2>5. deficiencies' \in [DeficiencyIds -> DeficiencyRow] /\ taskings' \in [TaskingIds -> TaskingState]
    BY <1>1, Zenon DEF SafetyInv, SafetyTypeOK
  <2> HIDE DEF next
  <2> QED BY <1>1, <2>1, <2>2, <2>3, <2>4, <2>5, HandlingStep, Zenon
<1>3. CASE err # "nil"
  BY <1>1, <1>3, ReplyStep, Zenon DEF CreateRow
<1> QED BY <1>2, <1>3, Zenon

(* The ladders, and what they never mention. *)
LEMMA LadderSteps ==
  \A step \in Ladder :
    /\ step = <<step[1], step[2], step[3]>>
    /\ step[1] \in SafetyOps /\ step[2] # "NONE" /\ step[3] \in RowStates /\ step[3] # "NONE"
<1> DEFINE Good(step) ==
      /\ step = <<step[1], step[2], step[3]>>
      /\ step[1] \in SafetyOps /\ step[2] # "NONE" /\ step[3] \in RowStates /\ step[3] # "NONE"
<1>1. \A a \in SafetyOps, b, c \in RowStates \ {"NONE"} : Good(<<a, b, c>>)
  OBVIOUS
<1> HIDE DEF Good
<1>2. \A step \in InspectionLadder : Good(step)
  BY <1>1, Zenon DEF InspectionLadder, SafetyOps, RowStates
<1>3. \A step \in SarLadder : Good(step)
  BY <1>1, Zenon DEF SarLadder, SafetyOps, RowStates
<1>4. \A step \in CaseLadder : Good(step)
  BY <1>1, Zenon DEF CaseLadder, SafetyOps, RowStates
<1>5. Ladder = InspectionLadder \/ Ladder = SarLadder \/ Ladder = CaseLadder
  BY Zenon DEF Ladder
<1>6. \A step \in Ladder : Good(step)
  BY <1>2, <1>3, <1>4, <1>5, Zenon
<1> QED BY <1>6, Zenon DEF Good

LEMMA AttachmentOp == Attachment \in SafetyOps /\ Attachment # "create"
BY Zenon DEF Attachment, SafetyOps

(* The requests that hold the row write it, attach to it, and let it go. *)
LEMMA WriteRowStep ==
  ASSUME SafetyInv, NEW h \in Handlers, WriteRow(h)
  PROVE  SafetyInv'
<1>1. PICK step \in Ladder : row' = step[3] /\ Committed(h, EventOf(step[1], step[3]))
  BY Zenon DEF WriteRow
<1> DEFINE next == EventOf(step[1], step[3])
<1>2. next \in Handling /\ next.pc = "publish" /\ row' \in RowStates /\ row' # "NONE"
  BY <1>1, EventTypes, LadderSteps, Zenon
<1>3. handling' = [handling EXCEPT ![h] = next] /\ changes' \in Nat
  BY <1>1, CommittedHandling, Zenon
<1>4. handling[h].pc = "write" /\ UNCHANGED <<register, deficiencies, taskings>>
  BY Zenon DEF WriteRow
<1> HIDE DEF next
<1> QED BY <1>2, <1>3, <1>4, HandlingStep, Zenon DEF SafetyInv, SafetyTypeOK

LEMMA AttachStep ==
  ASSUME SafetyInv, NEW h \in Handlers, handling[h].pc = "write", handling[h].op = Attachment,
         Committed(h, EventToRead(Attachment)),
         taskings' \in [TaskingIds -> TaskingState], UNCHANGED <<register, row, deficiencies>>
  PROVE  SafetyInv'
<1> DEFINE next == EventToRead(Attachment)
<1>1. next \in Handling /\ next.pc = "reread" /\ next.op = Attachment
  BY EventTypes, AttachmentOp, Zenon
<1>2. handling' = [handling EXCEPT ![h] = next] /\ changes' \in Nat
  BY CommittedHandling, Zenon
<1>3. row' # "NONE" /\ row' \in RowStates /\ deficiencies' \in [DeficiencyIds -> DeficiencyRow]
  BY Zenon DEF SafetyInv, CheckHolds, SafetyTypeOK
<1> HIDE DEF next
<1> QED BY <1>1, <1>2, <1>3, HandlingStep, Zenon

LEMMA WritesStep ==
  ASSUME SafetyInv, NEW h \in Handlers,
         \/ WriteRow(h) \/ AppendItem(h)
         \/ \E d \in DeficiencyIds, severity \in {"MINOR", "CRITICAL"}, known \in BOOLEAN :
              RecordDeficiency(h, d, severity, known)
         \/ \E t \in TaskingIds : TaskSarResource(h, t)
  PROVE  SafetyInv'
<1>1. CASE WriteRow(h)
  BY <1>1, WriteRowStep, Zenon
<1>2. CASE AppendItem(h)
  <2>1. handling[h].pc = "write" /\ handling[h].op = Attachment /\ Attachment = "item"
    BY <1>2, Zenon DEF AppendItem, SafetyInv, CheckHolds
  <2> QED BY <1>2, <2>1, AttachStep, Zenon DEF AppendItem, registerVars, SafetyInv, SafetyTypeOK
<1>3. ASSUME NEW d \in DeficiencyIds, NEW severity \in {"MINOR", "CRITICAL"}, NEW known,
             RecordDeficiency(h, d, severity, known)
      PROVE  SafetyInv'
  <2>1. \E success \in BOOLEAN : Reply(h, success)
    BY <1>3, Zenon DEF RecordDeficiency
  <2>2. handling[h].pc = "write" /\ UNCHANGED <<register, row, taskings, changes>>
    BY <1>3, Zenon DEF RecordDeficiency
  <2>3. deficiencies' \in [DeficiencyIds -> DeficiencyRow]
    <3> DEFINE new == [state |-> "OPEN", severity |-> severity, by |-> "nobody"]
    <3>1. new \in DeficiencyRow
      BY Zenon DEF DeficiencyRow
    <3>2. deficiencies' = deficiencies \/ deficiencies' = [deficiencies EXCEPT ![d] = new]
      BY <1>3, Zenon DEF RecordDeficiency
    <3> HIDE DEF new
    <3> QED BY <3>1, <3>2, Zenon DEF SafetyInv, SafetyTypeOK
  <2>4. Ready \in Handling /\ Ready.pc = "idle" /\ handling' = [handling EXCEPT ![h] = Ready]
    BY <2>1, Zenon DEF Reply, Handling, Ready
  <2> QED BY <2>2, <2>3, <2>4, HandlingStep, Zenon DEF SafetyInv, SafetyTypeOK
<1>4. ASSUME NEW t \in TaskingIds, TaskSarResource(h, t)
      PROVE  SafetyInv'
  <2>1. handling[h].pc = "write" /\ handling[h].op = Attachment /\ Attachment = "task"
        /\ UNCHANGED <<register, row, deficiencies>>
    BY <1>4, Zenon DEF TaskSarResource, SafetyInv, CheckHolds
  <2>2. CASE taskings[t] = "NONE"
    <3>1. taskings' \in [TaskingIds -> TaskingState]
      BY <1>4, <2>2, Zenon DEF TaskSarResource, SafetyInv, SafetyTypeOK, TaskingState
    <3> QED BY <1>4, <2>1, <2>2, <3>1, AttachStep, Zenon DEF TaskSarResource
  <2>3. CASE taskings[t] # "NONE"
    BY <1>4, <2>1, <2>3, ReplyStep, Zenon DEF TaskSarResource
  <2> QED BY <2>2, <2>3, Zenon
<1> QED BY <1>1, <1>2, <1>3, <1>4, Zenon

LEMMA AnnounceStep ==
  ASSUME SafetyInv, NEW h \in Handlers,
         RereadRow(h) \/ FailRequest(h) \/ \E sent \in BOOLEAN : PublishEvent(h, sent)
  PROVE  SafetyInv'
<1>1. CASE RereadRow(h)
  <2> DEFINE next == [pc |-> "publish", event |-> [action |-> handling[h].op, state |-> row]]
  <2>1. handling[h].op \in SafetyOps /\ row \in RowStates
    BY <1>1, AttachmentOp, Zenon DEF RereadRow, SafetyInv, SafetyTypeOK, CheckHolds
  <2>2. next \in Handling /\ next.pc = "publish"
    BY <2>1, Zenon DEF Handling
  <2>3. handling' = [handling EXCEPT ![h] = next] /\ UNCHANGED <<register, row, deficiencies, taskings, changes>>
    BY <1>1, Zenon DEF RereadRow, registerVars
  <2> HIDE DEF next
  <2> QED BY <2>2, <2>3, HandlingStep, Zenon DEF SafetyInv, SafetyTypeOK
<1>2. CASE FailRequest(h)
  BY <1>2, ReplyStep, Zenon DEF FailRequest, registerVars
<1>3. ASSUME NEW sent \in BOOLEAN, PublishEvent(h, sent) PROVE SafetyInv'
  BY <1>3, ReplyStep, Zenon DEF PublishEvent, registerVars
<1> QED BY <1>1, <1>2, <1>3, Zenon

(* Deficiencies and taskings that change without the lock on the row. *)
LEMMA OwnRowStep ==
  ASSUME SafetyInv,
         \/ \E d \in DeficiencyIds, actor \in Persons, action \in {"rectify", "verify"} :
              TransitionDeficiency(d, actor, action)
         \/ \E t \in TaskingIds, action \in {"enroute", "onscene", "release"} : TransitionSarTasking(t, action)
         \/ AppendSarComms
  PROVE  SafetyInv'
<1>1. UNCHANGED <<register, row, handling, changes>>
  BY Zenon DEF TransitionDeficiency, TransitionSarTasking, AppendSarComms
<1>2. deficiencies' \in [DeficiencyIds -> DeficiencyRow] /\ (OpenCritical = {} => OpenCritical' = {})
  <2>1. CASE deficiencies' = deficiencies
    BY <2>1, Zenon DEF SafetyInv, SafetyTypeOK, OpenCritical
  <2>2. ASSUME NEW d \in DeficiencyIds, NEW actor \in Persons, NEW action, TransitionDeficiency(d, actor, action)
        PROVE  deficiencies' \in [DeficiencyIds -> DeficiencyRow] /\ (OpenCritical = {} => OpenCritical' = {})
    <3>1. deficiencies[d] \in DeficiencyRow
      BY Zenon DEF SafetyInv, SafetyTypeOK
    <3>2. PICK next \in DeficiencyRow :
            /\ deficiencies' = [deficiencies EXCEPT ![d] = next]
            /\ next.severity = deficiencies[d].severity /\ deficiencies[d].state # "VERIFIED"
      <4>1. CASE deficiencies[d].state = "OPEN"
                 /\ deficiencies' = [deficiencies EXCEPT ![d].state = "RECTIFIED", ![d].by = actor]
        <5> DEFINE next == [deficiencies[d] EXCEPT !.state = "RECTIFIED", !.by = actor]
        <5>1. next \in DeficiencyRow /\ next.severity = deficiencies[d].severity
          BY <3>1, Zenon DEF DeficiencyRow
        <5>2. deficiencies' = [deficiencies EXCEPT ![d] = next]
          BY <3>1, <4>1, Zenon DEF SafetyInv, SafetyTypeOK, DeficiencyRow
        <5> HIDE DEF next
        <5> QED BY <4>1, <5>1, <5>2, Zenon
      <4>2. CASE deficiencies[d].state = "RECTIFIED"
                 /\ deficiencies' = [deficiencies EXCEPT ![d].state = "VERIFIED"]
        <5> DEFINE next == [deficiencies[d] EXCEPT !.state = "VERIFIED"]
        <5>1. next \in DeficiencyRow /\ next.severity = deficiencies[d].severity
          BY <3>1, Zenon DEF DeficiencyRow
        <5>2. deficiencies' = [deficiencies EXCEPT ![d] = next]
          BY <4>2, Zenon DEF SafetyInv, SafetyTypeOK
        <5> HIDE DEF next
        <5> QED BY <4>2, <5>1, <5>2, Zenon
      <4> QED BY <2>2, <4>1, <4>2, Zenon DEF TransitionDeficiency
    <3>3. \A x \in DeficiencyIds : deficiencies'[x] = IF x = d THEN next ELSE deficiencies[x]
      BY <3>2, Zenon DEF SafetyInv, SafetyTypeOK
    <3>4. deficiencies' \in [DeficiencyIds -> DeficiencyRow]
      BY <3>2, Zenon DEF SafetyInv, SafetyTypeOK
    <3>5. \A x \in OpenCritical' : x \in OpenCritical
      BY <3>2, <3>3, Zenon DEF OpenCritical
    <3> QED BY <3>4, <3>5, Zenon
  <2> QED BY <2>1, <2>2, Zenon DEF TransitionSarTasking, AppendSarComms
<1>3. taskings' \in [TaskingIds -> TaskingState]
  BY Zenon DEF TransitionDeficiency, TransitionSarTasking, AppendSarComms, SafetyInv, SafetyTypeOK, TaskingState
<1>4. SafetyTypeOK' /\ OneRowHolder'
  BY <1>1, <1>2, <1>3, Zenon DEF SafetyInv, SafetyTypeOK, OneRowHolder
<1>5. \A h \in Handlers : CheckHolds(h)'
  BY <1>1, <1>2, Zenon DEF SafetyInv, CheckHolds, Attachment
<1> QED BY <1>4, <1>5, Zenon DEF SafetyInv

LEMMA LadderOps == \A step \in Ladder : step[1] \in SafetyOps /\ step[1] \notin {"task", "item"}
BY DEF Ladder, InspectionLadder, SarLadder, CaseLadder, SafetyOps

LEMMA SafetyStep == SafetyInv /\ [SafetyNext]_safetyVars => SafetyInv'
<1> SUFFICES ASSUME SafetyInv, [SafetyNext]_safetyVars PROVE SafetyInv'
  BY Zenon
<1>1. CASE UNCHANGED safetyVars
  BY <1>1, Zenon DEF safetyVars, registerVars, SafetyInv, SafetyTypeOK, OneRowHolder, CheckHolds, OpenCritical,
              Attachment
<1>2. ASSUME NEW h \in Handlers, Refuse(h) PROVE SafetyInv'
  BY <1>2, ReplyStep, Zenon DEF Refuse, registerVars
<1>3. ASSUME NEW h \in Handlers, NEW regime, createChecklistTemplate(h, regime) PROVE SafetyInv'
  BY <1>3, ReplyStep DEF createChecklistTemplate
<1>4. ASSUME NEW h \in Handlers, NEW regime,
             createInspection(h, regime) \/ createSarIncident(h) \/ createInvestigationCase(h)
      PROVE  SafetyInv'
  BY <1>4, CreateRowStep, Zenon DEF createInspection, createSarIncident, createInvestigationCase
<1>5. ASSUME NEW h \in Handlers, NEW step \in Ladder, NEW actor \in Persons,
             transitionInspection(h, step, actor) \/ transitionSarIncident(h, step, actor)
               \/ transitionInvestigationCase(h, step, actor)
      PROVE  SafetyInv'
  BY <1>5, LadderOps, LockRowStep, Zenon DEF transitionInspection, transitionSarIncident, transitionInvestigationCase
<1>6. ASSUME NEW h \in Handlers, NEW actor \in Persons,
             recordDeficiency(h, actor) \/ taskSarResource(h, actor) \/ appendEvidence(h, actor)
      PROVE  SafetyInv'
  BY <1>6, AttachmentOp, LockRowStep, Zenon DEF recordDeficiency, taskSarResource, appendEvidence
<1>7. ASSUME NEW h \in Handlers, CountCritical(h) PROVE SafetyInv'
  BY <1>7, CountCriticalStep, Zenon
<1>8. ASSUME NEW h \in Handlers,
             \/ WriteRow(h) \/ AppendItem(h)
             \/ \E d \in DeficiencyIds, severity \in {"MINOR", "CRITICAL"}, known \in BOOLEAN :
                  RecordDeficiency(h, d, severity, known)
             \/ \E t \in TaskingIds : TaskSarResource(h, t)
      PROVE  SafetyInv'
  BY <1>8, WritesStep, Zenon
<1>9. ASSUME NEW h \in Handlers,
             RereadRow(h) \/ FailRequest(h) \/ \E sent \in BOOLEAN : PublishEvent(h, sent)
      PROVE  SafetyInv'
  BY <1>9, AnnounceStep, Zenon
<1>10. CASE \/ \E d \in DeficiencyIds, actor \in Persons, action \in {"rectify", "verify"} :
                 TransitionDeficiency(d, actor, action)
            \/ \E t \in TaskingIds, action \in {"enroute", "onscene", "release"} : TransitionSarTasking(t, action)
            \/ AppendSarComms
  BY <1>10, OwnRowStep, Zenon
<1> QED BY <1>1, <1>2, <1>3, <1>4, <1>5, <1>6, <1>7, <1>8, <1>9, <1>10, Zenon DEF SafetyNext

LEMMA SafetyInvariant == SafetySpec => []SafetyInv
BY SafetyInitInv, SafetyStep, PTL DEF SafetySpec

(***************************************************************************)
(* The path on the topic.  The inductive invariant is about the events on  *)
(* the topic together with those that requests carry to it.                *)
(***************************************************************************)
AllEvents == safetyTopic \cup {handling[h].event : h \in {g \in Handlers : handling[g].pc = "publish"}}

PathInv == ~broken => TellsPath(AllEvents)

(* A request that carried no event comes to carry one, or none; or it puts its event on the topic. *)
LEMMA EventsOfStep ==
  ASSUME SafetyInv, NEW h \in Handlers, NEW next, handling' = [handling EXCEPT ![h] = next]
  PROVE  /\ handling[h].pc # "publish" /\ next.pc # "publish" /\ safetyTopic' = safetyTopic
              => AllEvents' = AllEvents
         /\ handling[h].pc # "publish" /\ next.pc = "publish" /\ safetyTopic' = safetyTopic
              => AllEvents' = AllEvents \cup {next.event}
         /\ handling[h].pc = "publish" /\ next.pc # "publish" /\ safetyTopic' = safetyTopic \cup {handling[h].event}
              => AllEvents' = AllEvents
<1> DEFINE Carries(g, e) == handling[g].pc = "publish" /\ e = handling[g].event
           Others(e) == \E g \in Handlers \ {h} : Carries(g, e)
<1>1. handling'[h] = next /\ \A g \in Handlers \ {h} : handling'[g] = handling[g]
  BY Zenon DEF SafetyInv, SafetyTypeOK
<1>2. \A e : e \in AllEvents <=> e \in safetyTopic \/ Others(e) \/ Carries(h, e)
  BY Zenon DEF AllEvents
<1>3. \A e : e \in AllEvents' <=> e \in safetyTopic' \/ Others(e) \/ (next.pc = "publish" /\ e = next.event)
  <2>1. \A e : e \in AllEvents' <=> e \in safetyTopic' \/ \E g \in Handlers : Carries(g, e)'
    BY Zenon DEF AllEvents
  <2>2. \A e : Carries(h, e)' <=> next.pc = "publish" /\ e = next.event
    BY <1>1, Zenon
  <2>3. \A e : \A g \in Handlers \ {h} : Carries(g, e)' <=> Carries(g, e)
    BY <1>1, Zenon
  <2> HIDE DEF Carries
  <2> QED BY <2>1, <2>2, <2>3, Zenon
<1>4. \A e : Carries(h, e) <=> handling[h].pc = "publish" /\ e = handling[h].event
  BY Zenon
<1> HIDE DEF Others, Carries
<1> QED BY <1>2, <1>3, <1>4

LEMMA SameEvents ==
  ASSUME PathInv, AllEvents' = AllEvents, UNCHANGED <<register, row>>, broken => broken'
  PROVE  PathInv'
BY RegisterKept, Zenon DEF PathInv, TellsPath, StepEvents, StatesAnnounced

(* A row comes into being, or moves up its ladder. *)
LEMMA CreationIsTold ==
  ASSUME PathInv, row = "NONE", row' = FirstState, UNCHANGED <<register, broken>>,
         AllEvents' = AllEvents \cup {[action |-> "create", state |-> FirstState]}
  PROVE  PathInv'
<1> SUFFICES ASSUME ~broken PROVE TellsPath(AllEvents)'
  BY Zenon DEF PathInv
<1> DEFINE new == [action |-> "create", state |-> FirstState]
           A == AllEvents
           B == AllEvents'
<1>1. TellsPath(A) /\ B = A \cup {new} /\ new.action = "create" /\ new.state = FirstState
  BY Zenon DEF PathInv
<1>2. Ladder' = Ladder /\ FirstState' = FirstState /\ Attachment' = Attachment
  BY RegisterKept, Zenon
<1>3. FirstState # "NONE" /\ Attachment # "create"
  BY Zenon DEF FirstState, Attachment
<1> HIDE DEF new, A, B
<1>4. StepEvents(B) = StepEvents(A) \cup {new}
  BY <1>1, <1>3, Zenon DEF StepEvents
<1>5. StatesAnnounced(B) = StatesAnnounced(A) \cup {FirstState}
  BY <1>1, <1>4, Zenon DEF StatesAnnounced
<1>6. \A e \in StepEvents(A) : e.state # "NONE"
  <2> TAKE e \in StepEvents(A)
  <2>1. CASE e = new
    BY <1>1, <1>3, <2>1, Zenon
  <2>2. ASSUME NEW s, <<e.action, s, e.state>> \in Ladder PROVE e.state # "NONE"
    BY <2>2, LadderSteps
  <2> QED BY <1>1, <2>1, <2>2, Zenon DEF TellsPath, new
<1>7. \A s \in StatesAnnounced(A) : s # "NONE"
  BY <1>6, Zenon DEF StatesAnnounced
<1>8. \A e \in StepEvents(B) : e = new \/ \E s \in StatesAnnounced(B) : <<e.action, s, e.state>> \in Ladder
  BY <1>1, <1>4, <1>5, Zenon DEF TellsPath, new
<1>9. \A s \in StatesAnnounced(B) \ {FirstState} : \E e \in StepEvents(B) : <<e.action, s, e.state>> \in Ladder
  BY <1>1, <1>4, <1>5, <1>7, Zenon DEF TellsPath
<1>10. \A e \in B : e.state \in StatesAnnounced(B)
  BY <1>1, <1>5, Zenon DEF TellsPath
<1>11. StepEvents(AllEvents)' = StepEvents(B) /\ StatesAnnounced(AllEvents)' = StatesAnnounced(B)
  BY <1>2, Zenon DEF StepEvents, StatesAnnounced, B
<1>12. (row # "NONE" => row \in StatesAnnounced(AllEvents))'
  BY <1>5, <1>11, Zenon
<1>13. (\A e \in StepEvents(AllEvents) :
           \/ e = [action |-> "create", state |-> FirstState]
           \/ \E s \in StatesAnnounced(AllEvents) : <<e.action, s, e.state>> \in Ladder)'
  BY <1>2, <1>8, <1>11, Zenon DEF new
<1>14. (\A s \in StatesAnnounced(AllEvents) \ {row} :
           \E e \in StepEvents(AllEvents) : <<e.action, s, e.state>> \in Ladder)'
  BY <1>2, <1>9, <1>11, Zenon
<1>15. (\A e \in AllEvents : e.state \in StatesAnnounced(AllEvents))'
  BY <1>10, <1>11, Zenon DEF B
<1> QED BY <1>12, <1>13, <1>14, <1>15, Zenon DEF TellsPath

LEMMA TransitionIsTold ==
  ASSUME PathInv, row # "NONE", NEW step \in Ladder, step[1] # Attachment, step[2] = row, row' = step[3],
         UNCHANGED <<register, broken>>, AllEvents' = AllEvents \cup {[action |-> step[1], state |-> step[3]]}
  PROVE  PathInv'
<1> SUFFICES ASSUME ~broken PROVE TellsPath(AllEvents)'
  BY Zenon DEF PathInv
<1> DEFINE new == [action |-> step[1], state |-> step[3]]
           A == AllEvents
           B == AllEvents'
<1>1. TellsPath(A) /\ B = A \cup {new} /\ new.action = step[1] /\ new.state = step[3]
  BY Zenon DEF PathInv
<1>2. Ladder' = Ladder /\ FirstState' = FirstState /\ Attachment' = Attachment
  BY RegisterKept, Zenon
<1>3. <<new.action, row, new.state>> \in Ladder
  <2>1. <<step[1], step[2], step[3]>> \in Ladder
    BY LadderSteps, Zenon
  <2> QED BY <1>1, <2>1, Zenon
<1> HIDE DEF new, A, B
<1>4. StepEvents(B) = StepEvents(A) \cup {new}
  BY <1>1, Zenon DEF StepEvents
<1>5. StatesAnnounced(B) = StatesAnnounced(A) \cup {row'}
  BY <1>1, <1>4, Zenon DEF StatesAnnounced
<1>6. row \in StatesAnnounced(A)
  BY <1>1, Zenon DEF TellsPath
<1>8. \A e \in StepEvents(B) : \/ e = [action |-> "create", state |-> FirstState]
                               \/ \E s \in StatesAnnounced(B) : <<e.action, s, e.state>> \in Ladder
  BY <1>1, <1>3, <1>4, <1>5, <1>6, Zenon DEF TellsPath
<1>9. \A s \in StatesAnnounced(B) \ {row'} : \E e \in StepEvents(B) : <<e.action, s, e.state>> \in Ladder
  BY <1>1, <1>3, <1>4, <1>5, Zenon DEF TellsPath
<1>10. \A e \in B : e.state \in StatesAnnounced(B)
  BY <1>1, <1>5, Zenon DEF TellsPath
<1>11. StepEvents(AllEvents)' = StepEvents(B) /\ StatesAnnounced(AllEvents)' = StatesAnnounced(B)
  BY <1>2, Zenon DEF StepEvents, StatesAnnounced, B
<1>12. (row # "NONE" => row \in StatesAnnounced(AllEvents))'
  BY <1>5, <1>11, Zenon
<1>13. (\A e \in StepEvents(AllEvents) :
           \/ e = [action |-> "create", state |-> FirstState]
           \/ \E s \in StatesAnnounced(AllEvents) : <<e.action, s, e.state>> \in Ladder)'
  BY <1>2, <1>8, <1>11, Zenon
<1>14. (\A s \in StatesAnnounced(AllEvents) \ {row} :
           \E e \in StepEvents(AllEvents) : <<e.action, s, e.state>> \in Ladder)'
  BY <1>2, <1>9, <1>11, Zenon
<1>15. (\A e \in AllEvents : e.state \in StatesAnnounced(AllEvents))'
  BY <1>10, <1>11, Zenon DEF B
<1> QED BY <1>12, <1>13, <1>14, <1>15, Zenon DEF TellsPath

(* The event of an attachment carries the state the row is in by now. *)
LEMMA AttachmentIsTold ==
  ASSUME PathInv, row # "NONE", UNCHANGED <<register, row, broken>>,
         AllEvents' = AllEvents \cup {[action |-> Attachment, state |-> row]}
  PROVE  PathInv'
<1> SUFFICES ASSUME ~broken PROVE TellsPath(AllEvents)'
  BY Zenon DEF PathInv
<1> DEFINE new == [action |-> Attachment, state |-> row]
<1>1. TellsPath(AllEvents) /\ AllEvents' = AllEvents \cup {new} /\ new.action = Attachment /\ new.state = row
  BY Zenon DEF PathInv
<1> HIDE DEF new
<1>2. Ladder' = Ladder /\ FirstState' = FirstState /\ Attachment' = Attachment
  BY RegisterKept, Zenon
<1>3. StepEvents(AllEvents)' = StepEvents(AllEvents)
  BY <1>1, <1>2, Zenon DEF StepEvents
<1>4. StatesAnnounced(AllEvents)' = StatesAnnounced(AllEvents)
  BY <1>3, Zenon DEF StatesAnnounced
<1>5. row \in StatesAnnounced(AllEvents)
  BY <1>1, Zenon DEF TellsPath
<1> QED BY <1>1, <1>2, <1>3, <1>4, <1>5, Zenon DEF TellsPath

(* A row is created only where there is none. *)
LEMMA CreateInspectionNone ==
  ASSUME NEW regime, CreateInspection(regime) = "nil"
  PROVE  row = "NONE"
<1> DEFINE a == template = "none"
           b == template # regime
           c == row # "NONE"
           checks == << <<a, "ErrSafetyNotFound">>, <<b, "ErrSafetyInvalidTransition">>, <<c, "duplicate key">> >>
<1>1. FirstError(checks) = "nil" /\ c \in BOOLEAN
  BY Zenon DEF CreateInspection
<1> HIDE DEF a, b, c
<1>2. /\ DOMAIN checks = 1 .. 3
      /\ checks[3][1] = c
      /\ checks[1][2] = "ErrSafetyNotFound" /\ checks[2][2] = "ErrSafetyInvalidTransition"
      /\ checks[3][2] = "duplicate key"
  OBVIOUS
<1> HIDE DEF checks
<1>3. \A i \in 1 .. 3 : checks[i][2] # "nil"
  <2> TAKE i \in 1 .. 3
  <2>1. i = 1 \/ i = 2 \/ i = 3
    OBVIOUS
  <2> QED BY <2>1, <1>2, Zenon
<1>4. 3 \in 1 .. 5 /\ 3 \in 1 .. 3
  OBVIOUS
<1>5. \A i \in 1 .. 3 : ~checks[i][1]
  BY <1>1, <1>2, <1>3, <1>4, FirstErrorEmpty, Zenon
<1> QED BY <1>1, <1>2, <1>4, <1>5, Zenon DEF c

LEMMA ReplyPath ==
  ASSUME SafetyInv, PathInv, NEW h \in Handlers, NEW success, Reply(h, success), handling[h].pc # "publish",
         UNCHANGED <<register, row, safetyTopic>>, broken => broken'
  PROVE  PathInv'
<1>1. handling' = [handling EXCEPT ![h] = Ready] /\ Ready.pc # "publish"
  BY Zenon DEF Reply, Ready
<1> QED BY <1>1, EventsOfStep, SameEvents, Zenon

LEMMA CreateRowPath ==
  ASSUME SafetyInv, PathInv, NEW h \in Handlers, NEW err, CreateRow(h, err), err = "nil" => row = "NONE"
  PROVE  PathInv'
<1>1. handling[h].pc = "idle" /\ register' = register
  BY Zenon DEF CreateRow
<1>2. CASE err = "nil"
  <2> DEFINE next == EventOf("create", FirstState)
  <2>1. row' = FirstState /\ handling' = [handling EXCEPT ![h] = next] /\ UNCHANGED <<safetyTopic, broken>>
    BY <1>2, Zenon DEF CreateRow, Committed
  <2>2. next.pc = "publish" /\ next.event = [action |-> "create", state |-> FirstState]
    BY Zenon DEF EventOf
  <2> HIDE DEF next
  <2>3. AllEvents' = AllEvents \cup {[action |-> "create", state |-> FirstState]}
    BY <1>1, <2>1, <2>2, EventsOfStep, Zenon
  <2> QED BY <1>1, <1>2, <2>1, <2>3, CreationIsTold, Zenon
<1>3. CASE err # "nil"
  <2>1. Reply(h, FALSE) /\ UNCHANGED <<row, safetyTopic, broken>>
    BY <1>3, Zenon DEF CreateRow
  <2> QED BY <1>1, <2>1, ReplyPath, Zenon
<1> QED BY <1>2, <1>3, Zenon

LEMMA LockRowPath ==
  ASSUME SafetyInv, PathInv, NEW h \in Handlers, NEW op, NEW actor, LockRow(h, op, actor)
  PROVE  PathInv'
<1>1. handling[h].pc = "idle" /\ UNCHANGED <<register, row, safetyTopic, broken>>
  BY Zenon DEF LockRow, registerVars
<1>2. CASE RowError(op, actor) = "nil"
  <2> DEFINE next == [pc |-> IF op = "release" THEN "count" ELSE "write", op |-> op, actor |-> actor]
  <2>1. handling' = [handling EXCEPT ![h] = next] /\ next.pc # "publish"
    BY <1>2, Zenon DEF LockRow
  <2> HIDE DEF next
  <2> QED BY <1>1, <2>1, EventsOfStep, SameEvents, Zenon
<1>3. CASE RowError(op, actor) # "nil"
  <2>1. Reply(h, FALSE)
    BY <1>3, Zenon DEF LockRow
  <2> QED BY <1>1, <2>1, ReplyPath, Zenon
<1> QED BY <1>2, <1>3, Zenon

LEMMA CountCriticalPath ==
  ASSUME SafetyInv, PathInv, NEW h \in Handlers, CountCritical(h)
  PROVE  PathInv'
<1>1. handling[h].pc = "count" /\ UNCHANGED <<register, row, safetyTopic, broken>>
  BY Zenon DEF CountCritical, registerVars
<1>2. CASE OpenCritical = {}
  <2> DEFINE next == [handling[h] EXCEPT !.pc = "write"]
  <2>1. handling[h] \in [pc : {"count", "write"}, op : SafetyOps, actor : Persons]
    BY <1>1 DEF SafetyInv, SafetyTypeOK, Handling, Ready
  <2>2. handling' = [handling EXCEPT ![h] = next] /\ next.pc # "publish"
    BY <1>2, <2>1, Zenon DEF CountCritical, SafetyInv, SafetyTypeOK
  <2> HIDE DEF next
  <2> QED BY <1>1, <2>2, EventsOfStep, SameEvents, Zenon
<1>3. CASE OpenCritical # {}
  <2>1. Reply(h, FALSE)
    BY <1>3, Zenon DEF CountCritical
  <2> QED BY <1>1, <2>1, ReplyPath, Zenon
<1> QED BY <1>2, <1>3, Zenon

LEMMA WriteRowPath ==
  ASSUME SafetyInv, PathInv, NEW h \in Handlers, WriteRow(h)
  PROVE  PathInv'
<1>1. handling[h].pc = "write" /\ handling[h].op # Attachment /\ register' = register
  BY Zenon DEF WriteRow
<1>2. PICK step \in Ladder : /\ step[1] = handling[h].op /\ step[2] = row /\ row' = step[3]
                             /\ Committed(h, EventOf(step[1], step[3]))
  BY Zenon DEF WriteRow
<1> DEFINE next == EventOf(step[1], step[3])
<1>3. handling' = [handling EXCEPT ![h] = next] /\ UNCHANGED <<safetyTopic, broken>>
  BY <1>2, Zenon DEF Committed
<1>4. next.pc = "publish" /\ next.event = [action |-> step[1], state |-> step[3]]
  BY Zenon DEF EventOf
<1> HIDE DEF next
<1>5. AllEvents' = AllEvents \cup {[action |-> step[1], state |-> step[3]]}
  BY <1>1, <1>3, <1>4, EventsOfStep, Zenon
<1>6. row # "NONE"
  BY <1>1, Zenon DEF SafetyInv, CheckHolds
<1> QED BY <1>1, <1>2, <1>3, <1>5, <1>6, TransitionIsTold, Zenon

LEMMA AttachPath ==
  ASSUME SafetyInv, PathInv, NEW h \in Handlers, NEW op, handling[h].pc = "write", Committed(h, EventToRead(op)),
         UNCHANGED <<register, row>>
  PROVE  PathInv'
<1> DEFINE next == EventToRead(op)
<1>1. handling' = [handling EXCEPT ![h] = next] /\ UNCHANGED <<safetyTopic, broken>>
  BY Zenon DEF Committed
<1>2. next.pc # "publish"
  BY Zenon DEF EventToRead
<1> HIDE DEF next
<1> QED BY <1>1, <1>2, EventsOfStep, SameEvents, Zenon

LEMMA WritesPath ==
  ASSUME SafetyInv, PathInv, NEW h \in Handlers,
         \/ WriteRow(h) \/ AppendItem(h)
         \/ \E d \in DeficiencyIds, severity \in {"MINOR", "CRITICAL"}, known \in BOOLEAN :
              RecordDeficiency(h, d, severity, known)
         \/ \E t \in TaskingIds : TaskSarResource(h, t)
  PROVE  PathInv'
<1>1. CASE WriteRow(h)
  BY <1>1, WriteRowPath, Zenon
<1>2. CASE AppendItem(h)
  BY <1>2, AttachPath, Zenon DEF AppendItem, registerVars
<1>3. ASSUME NEW d, NEW severity, NEW known, RecordDeficiency(h, d, severity, known) PROVE PathInv'
  <2>1. \E success \in BOOLEAN : Reply(h, success)
    BY <1>3, Zenon DEF RecordDeficiency
  <2>2. handling[h].pc = "write" /\ UNCHANGED <<register, row, safetyTopic, broken>>
    BY <1>3, Zenon DEF RecordDeficiency
  <2> QED BY <2>1, <2>2, ReplyPath, Zenon
<1>4. ASSUME NEW t, TaskSarResource(h, t) PROVE PathInv'
  <2>1. handling[h].pc = "write" /\ UNCHANGED <<register, row>>
    BY <1>4, Zenon DEF TaskSarResource
  <2>2. Committed(h, EventToRead("task")) \/ (Reply(h, FALSE) /\ UNCHANGED <<safetyTopic, broken>>)
    BY <1>4, Zenon DEF TaskSarResource
  <2>3. CASE Committed(h, EventToRead("task"))
    BY <2>1, <2>3, AttachPath, Zenon
  <2>4. CASE Reply(h, FALSE) /\ UNCHANGED <<safetyTopic, broken>>
    BY <2>1, <2>4, ReplyPath, Zenon
  <2> QED BY <2>2, <2>3, <2>4, Zenon
<1> QED BY <1>1, <1>2, <1>3, <1>4, Zenon

LEMMA AnnouncePath ==
  ASSUME SafetyInv, PathInv, NEW h \in Handlers,
         RereadRow(h) \/ FailRequest(h) \/ \E sent \in BOOLEAN : PublishEvent(h, sent)
  PROVE  PathInv'
<1>1. CASE RereadRow(h)
  <2> DEFINE next == [pc |-> "publish", event |-> [action |-> handling[h].op, state |-> row]]
  <2>1. handling[h].pc = "reread" /\ handling[h].op = Attachment /\ row # "NONE"
    BY <1>1, Zenon DEF RereadRow, SafetyInv, CheckHolds
  <2>2. handling' = [handling EXCEPT ![h] = next] /\ UNCHANGED <<register, row, safetyTopic, broken>>
    BY <1>1, Zenon DEF RereadRow, registerVars
  <2>3. next.pc = "publish" /\ next.event = [action |-> Attachment, state |-> row]
    BY <2>1, Zenon
  <2> HIDE DEF next
  <2>4. AllEvents' = AllEvents \cup {[action |-> Attachment, state |-> row]}
    BY <2>1, <2>2, <2>3, EventsOfStep, Zenon
  <2> QED BY <2>1, <2>2, <2>4, AttachmentIsTold, Zenon
<1>2. CASE FailRequest(h)
  BY <1>2, ReplyPath, Zenon DEF FailRequest, registerVars
<1>3. ASSUME NEW sent \in BOOLEAN, PublishEvent(h, sent) PROVE PathInv'
  <2>1. CASE ~sent
    BY <1>3, <2>1, Zenon DEF PublishEvent, PathInv
  <2>2. CASE sent
    <3>1. /\ handling[h].pc = "publish" /\ handling' = [handling EXCEPT ![h] = Ready] /\ Ready.pc # "publish"
          /\ safetyTopic' = safetyTopic \cup {handling[h].event}
          /\ UNCHANGED <<register, row>> /\ (broken => broken')
      BY <1>3, <2>2, Zenon DEF PublishEvent, Reply, Ready, registerVars
    <3> QED BY <3>1, EventsOfStep, SameEvents, Zenon
  <2> QED BY <2>1, <2>2, Zenon
<1> QED BY <1>1, <1>2, <1>3, Zenon

LEMMA OwnRowPath ==
  ASSUME PathInv,
         \/ \E d \in DeficiencyIds, actor \in Persons, action \in {"rectify", "verify"} :
              TransitionDeficiency(d, actor, action)
         \/ \E t \in TaskingIds, action \in {"enroute", "onscene", "release"} : TransitionSarTasking(t, action)
         \/ AppendSarComms
  PROVE  PathInv'
<1>1. UNCHANGED <<register, row, handling, safetyTopic, broken>>
  BY Zenon DEF TransitionDeficiency, TransitionSarTasking, AppendSarComms
<1> QED BY <1>1, SameEvents, Zenon DEF AllEvents

LEMMA PathStep == SafetyInv /\ PathInv /\ [SafetyNext]_safetyVars => PathInv'
<1> SUFFICES ASSUME SafetyInv, PathInv, [SafetyNext]_safetyVars PROVE PathInv'
  BY Zenon
<1>1. CASE UNCHANGED safetyVars
  BY <1>1, SameEvents, Zenon DEF safetyVars, registerVars, AllEvents
<1>2. ASSUME NEW h \in Handlers, Refuse(h) PROVE PathInv'
  BY <1>2, ReplyPath, Zenon DEF Refuse, registerVars
<1>3. ASSUME NEW h \in Handlers, NEW regime, createChecklistTemplate(h, regime) PROVE PathInv'
  BY <1>3, ReplyPath, Zenon DEF createChecklistTemplate
<1>4. ASSUME NEW h \in Handlers, NEW regime,
             createInspection(h, regime) \/ createSarIncident(h) \/ createInvestigationCase(h)
      PROVE  PathInv'
  BY <1>4, CreateRowPath, CreateInspectionNone, Zenon
  DEF createInspection, createSarIncident, createInvestigationCase, CreateSarIncident
<1>5. ASSUME NEW h \in Handlers, NEW op, NEW actor, LockRow(h, op, actor) PROVE PathInv'
  BY <1>5, LockRowPath, Zenon
<1>6. ASSUME NEW h \in Handlers, CountCritical(h) PROVE PathInv'
  BY <1>6, CountCriticalPath, Zenon
<1>7. ASSUME NEW h \in Handlers,
             \/ WriteRow(h) \/ AppendItem(h)
             \/ \E d \in DeficiencyIds, severity \in {"MINOR", "CRITICAL"}, known \in BOOLEAN :
                  RecordDeficiency(h, d, severity, known)
             \/ \E t \in TaskingIds : TaskSarResource(h, t)
      PROVE  PathInv'
  BY <1>7, WritesPath, Zenon
<1>8. ASSUME NEW h \in Handlers,
             RereadRow(h) \/ FailRequest(h) \/ \E sent \in BOOLEAN : PublishEvent(h, sent)
      PROVE  PathInv'
  BY <1>8, AnnouncePath, Zenon
<1>9. CASE \/ \E d \in DeficiencyIds, actor \in Persons, action \in {"rectify", "verify"} :
                TransitionDeficiency(d, actor, action)
           \/ \E t \in TaskingIds, action \in {"enroute", "onscene", "release"} : TransitionSarTasking(t, action)
           \/ AppendSarComms
  BY <1>9, OwnRowPath, Zenon
<1> QED BY <1>1, <1>2, <1>3, <1>4, <1>5, <1>6, <1>7, <1>8, <1>9, Zenon
        DEF SafetyNext, transitionInspection, transitionSarIncident, transitionInvestigationCase,
            recordDeficiency, taskSarResource, appendEvidence

(***************************************************************************)
(* The topic tells the path of the row, from its creation along the ladder *)
(* to the state it is in, once every change is answered with success, in   *)
(* whatever order the requests publish after their commits, for any number *)
(* of requests and changes.                                                *)
(***************************************************************************)
THEOREM TopicTellsWholePath == SafetySpec => []TopicTellsPath
<1>1. SafetyInit => PathInv
  <2> SUFFICES ASSUME SafetyInit PROVE TellsPath(AllEvents)
    BY Zenon DEF PathInv
  <2>1. AllEvents = {} /\ row = "NONE"
    BY Zenon DEF SafetyInit, AllEvents, Ready
  <2> QED BY <2>1, Zenon DEF TellsPath, StepEvents, StatesAnnounced
<1>2. PathInv => TopicTellsPath
  <2> SUFFICES ASSUME PathInv, ~broken, \A h \in Handlers : handling[h].pc \notin {"reread", "publish"}
               PROVE  TellsPath(safetyTopic)
    BY Zenon DEF TopicTellsPath
  <2>1. AllEvents = safetyTopic
    BY Zenon DEF AllEvents
  <2> QED BY <2>1, Zenon DEF PathInv
<1> QED BY <1>1, <1>2, SafetyInvariant, PathStep, PTL DEF SafetySpec

CheckStep ==
  /\ row' = "RELEASED" /\ row # "RELEASED" => OpenCritical = {}
  /\ \A t \in TaskingIds : taskings[t] = "NONE" /\ taskings'[t] # "NONE" => row # "CLOSED"

(* Only the writes of a request that holds the row change its state after the creation. *)
LEMMA RowChangesStep ==
  ASSUME SafetyNext, row' = "RELEASED", row # "RELEASED"
  PROVE  \E h \in Handlers : WriteRow(h)
<1>1. ASSUME NEW h \in Handlers, Refuse(h) PROVE FALSE
  BY <1>1, Zenon DEF Refuse, registerVars
<1>2. ASSUME NEW h \in Handlers, NEW regime, createChecklistTemplate(h, regime) PROVE FALSE
  BY <1>2, Zenon DEF createChecklistTemplate
<1>3. ASSUME NEW h \in Handlers, NEW err, CreateRow(h, err) PROVE FALSE
  BY <1>3, Zenon DEF CreateRow, FirstState
<1>4. ASSUME NEW h \in Handlers, NEW op, NEW actor, LockRow(h, op, actor) PROVE FALSE
  BY <1>4, Zenon DEF LockRow, registerVars
<1>5. ASSUME NEW h \in Handlers, CountCritical(h) \/ AppendItem(h) \/ RereadRow(h) \/ FailRequest(h) PROVE FALSE
  BY <1>5, Zenon DEF CountCritical, AppendItem, RereadRow, FailRequest, registerVars
<1>6. ASSUME NEW h \in Handlers, NEW sent, PublishEvent(h, sent) PROVE FALSE
  BY <1>6, Zenon DEF PublishEvent, registerVars
<1>7. ASSUME NEW h \in Handlers, NEW d, NEW severity, NEW known, RecordDeficiency(h, d, severity, known) PROVE FALSE
  BY <1>7, Zenon DEF RecordDeficiency
<1>8. ASSUME NEW h \in Handlers, NEW t, TaskSarResource(h, t) PROVE FALSE
  BY <1>8, Zenon DEF TaskSarResource
<1>9. ASSUME NEW d, NEW actor, NEW action, TransitionDeficiency(d, actor, action) PROVE FALSE
  BY <1>9, Zenon DEF TransitionDeficiency
<1>10. ASSUME NEW t, NEW action, TransitionSarTasking(t, action) PROVE FALSE
  BY <1>10, Zenon DEF TransitionSarTasking
<1>11. ~AppendSarComms
  BY Zenon DEF AppendSarComms
<1> QED
  BY <1>1, <1>2, <1>3, <1>4, <1>5, <1>6, <1>7, <1>8, <1>9, <1>10, <1>11, Zenon
  DEF SafetyNext, createInspection, createSarIncident, createInvestigationCase, transitionInspection,
      transitionSarIncident, transitionInvestigationCase, recordDeficiency, taskSarResource, appendEvidence

LEMMA ReleaseIsAWrite ==
  ASSUME SafetyNext, row' = "RELEASED", row # "RELEASED"
  PROVE  \E h \in Handlers : handling[h].pc = "write" /\ handling[h].op = "release"
<1>1. PICK h \in Handlers : WriteRow(h)
  BY RowChangesStep, Zenon
<1>2. PICK step \in Ladder : step[1] = handling[h].op /\ step[3] = "RELEASED"
  BY <1>1, Zenon DEF WriteRow
<1>3. step[1] = "release"
  BY <1>2 DEF Ladder, InspectionLadder, SarLadder, CaseLadder
<1> QED BY <1>1, <1>2, <1>3, Zenon DEF WriteRow

LEMMA NewTaskingIsAWrite ==
  ASSUME SafetyInv, SafetyNext, NEW t \in TaskingIds, taskings[t] = "NONE", taskings'[t] # "NONE"
  PROVE  \E h \in Handlers : handling[h].pc = "write" /\ handling[h].op = "task"
<1>1. ASSUME NEW h \in Handlers, Refuse(h) PROVE FALSE
  BY <1>1, Zenon DEF Refuse, registerVars
<1>2. ASSUME NEW h \in Handlers, NEW regime, createChecklistTemplate(h, regime) PROVE FALSE
  BY <1>2, Zenon DEF createChecklistTemplate
<1>3. ASSUME NEW h \in Handlers, NEW err, CreateRow(h, err) PROVE FALSE
  BY <1>3, Zenon DEF CreateRow
<1>4. ASSUME NEW h \in Handlers, NEW op, NEW actor, LockRow(h, op, actor) PROVE FALSE
  BY <1>4, Zenon DEF LockRow, registerVars
<1>5. ASSUME NEW h \in Handlers, CountCritical(h) \/ AppendItem(h) \/ RereadRow(h) \/ FailRequest(h) PROVE FALSE
  BY <1>5, Zenon DEF CountCritical, AppendItem, RereadRow, FailRequest, registerVars
<1>6. ASSUME NEW h \in Handlers, NEW sent, PublishEvent(h, sent) PROVE FALSE
  BY <1>6, Zenon DEF PublishEvent, registerVars
<1>7. ASSUME NEW h \in Handlers, NEW d, NEW severity, NEW known, RecordDeficiency(h, d, severity, known) PROVE FALSE
  BY <1>7, Zenon DEF RecordDeficiency
<1>8. ASSUME NEW h \in Handlers, WriteRow(h) PROVE FALSE
  BY <1>8, Zenon DEF WriteRow
<1>9. ASSUME NEW d, NEW actor, NEW action, TransitionDeficiency(d, actor, action) PROVE FALSE
  BY <1>9, Zenon DEF TransitionDeficiency
<1>10. ASSUME NEW u \in TaskingIds, NEW action, TransitionSarTasking(u, action) PROVE FALSE
  BY <1>10, Zenon DEF TransitionSarTasking, SafetyInv, SafetyTypeOK
<1>11. ~AppendSarComms
  BY Zenon DEF AppendSarComms
<1>12. PICK h \in Handlers, u \in TaskingIds : TaskSarResource(h, u)
  BY <1>1, <1>2, <1>3, <1>4, <1>5, <1>6, <1>7, <1>8, <1>9, <1>10, <1>11, Zenon
  DEF SafetyNext, createInspection, createSarIncident, createInvestigationCase, transitionInspection,
      transitionSarIncident, transitionInvestigationCase, recordDeficiency, taskSarResource, appendEvidence
<1> QED BY <1>12, Zenon DEF TaskSarResource

(***************************************************************************)
(* What a request checked before its write still holds at the write: a     *)
(* vessel is released only with no open critical deficiency, and a         *)
(* resource is tasked only to an incident that is not closed, for any      *)
(* number of concurrent requests, deficiencies and taskings.               *)
(***************************************************************************)
THEOREM WritesMeetTheirChecks == SafetySpec => CheckedStillHolds
<1>1. SafetyInv /\ [SafetyNext]_safetyVars => [CheckStep]_safetyVars
  <2> SUFFICES ASSUME SafetyInv, SafetyNext PROVE CheckStep
    BY Zenon
  <2>1. row' = "RELEASED" /\ row # "RELEASED" => OpenCritical = {}
    BY ReleaseIsAWrite, Zenon DEF SafetyInv, CheckHolds
  <2>2. \A t \in TaskingIds : taskings[t] = "NONE" /\ taskings'[t] # "NONE" => row # "CLOSED"
    BY NewTaskingIsAWrite, Zenon DEF SafetyInv, CheckHolds
  <2> QED BY <2>1, <2>2, Zenon DEF CheckStep
<1> QED BY <1>1, SafetyInvariant, PTL DEF SafetySpec, CheckedStillHolds, CheckStep
=============================================================================
