------------------------------ MODULE MrvProofs ------------------------------
(***************************************************************************)
(* Proofs about internal/mrv: monitoring plans, fuel reports, annual       *)
(* reports, decisions and Statements of Compliance under requests that     *)
(* overlap, and the events the outbox has for them.                        *)
(***************************************************************************)
EXTENDS MrvWorkflow, TLAPS

-----------------------------------------------------------------------------
(* The checks of a handler. *)

(* A choice among five places has a first. *)
LEMMA LeastOfFive ==
  ASSUME NEW hits \in SUBSET (1 .. 5), hits # {}
  PROVE  \E i \in hits : \A j \in hits : i <= j
<1>1. \A i \in hits : i = 1 \/ i = 2 \/ i = 3 \/ i = 4 \/ i = 5
  OBVIOUS
<1>2. CASE 1 \in hits
  BY <1>1, <1>2
<1>3. CASE 1 \notin hits /\ 2 \in hits
  BY <1>1, <1>3
<1>4. CASE 1 \notin hits /\ 2 \notin hits /\ 3 \in hits
  BY <1>1, <1>4
<1>5. CASE 1 \notin hits /\ 2 \notin hits /\ 3 \notin hits /\ 4 \in hits
  BY <1>1, <1>5
<1>6. CASE 1 \notin hits /\ 2 \notin hits /\ 3 \notin hits /\ 4 \notin hits
  <2>1. \A i \in hits : i = 5
    BY <1>1, <1>6, Zenon
  <2>2. PICK i \in hits : TRUE
    BY Zenon
  <2>3. \A j \in hits : i <= j
    BY <2>1, 5 <= 5, Zenon
  <2> QED BY <2>3, Zenon
<1> QED BY <1>2, <1>3, <1>4, <1>5, <1>6, Zenon

(* FirstError answers "nil" exactly when no check applies: every check has an error to give. *)
LEMMA FirstErrorEmpty ==
  ASSUME NEW n \in 1 .. 5, NEW checks, DOMAIN checks = 1 .. n,
         \A i \in 1 .. n : checks[i][2] # "nil"
  PROVE  FirstError(checks) = "nil" <=> \A i \in 1 .. n : ~checks[i][1]
<1> DEFINE hits == {i \in DOMAIN checks : checks[i][1]}
           m == CHOOSE i \in hits : \A j \in hits : i <= j
<1>1. FirstError(checks) = IF hits = {} THEN "nil" ELSE checks[m][2]
  BY Zenon DEF FirstError
<1>2. hits # {} => m \in hits
  <2> SUFFICES ASSUME hits # {} PROVE \E i \in hits : \A j \in hits : i <= j
    BY Zenon
  <2>1. \A i \in hits : i \in 1 .. 5
    OBVIOUS
  <2> HIDE DEF hits
  <2>2. hits \in SUBSET (1 .. 5)
    BY <2>1, Zenon
  <2> QED BY <2>2, LeastOfFive, Zenon
<1> HIDE DEF m
<1> QED BY <1>1, <1>2, Zenon

(* The same for two checks. *)
LEMMA FirstErrorOfTwo ==
  ASSUME NEW a \in BOOLEAN, NEW b \in BOOLEAN, NEW x, NEW y, x # "nil", y # "nil"
  PROVE  FirstError(<< <<a, x>>, <<b, y>> >>) = "nil" <=> ~a /\ ~b
<1> DEFINE checks == << <<a, x>>, <<b, y>> >>
<1>1. /\ DOMAIN checks = 1 .. 2
      /\ checks[1][1] = a /\ checks[1][2] = x /\ checks[2][1] = b /\ checks[2][2] = y
  OBVIOUS
<1> HIDE DEF checks
<1>2. \A i \in 1 .. 2 : checks[i][2] # "nil"
  <2> TAKE i \in 1 .. 2
  <2>1. i = 1 \/ i = 2
    OBVIOUS
  <2> QED BY <2>1, <1>1, Zenon
<1>3. FirstError(checks) = "nil" <=> \A i \in 1 .. 2 : ~checks[i][1]
  BY <1>1, <1>2, FirstErrorEmpty, 2 \in 1 .. 5, Zenon
<1>4. (\A i \in 1 .. 2 : ~checks[i][1]) <=> ~a /\ ~b
  BY <1>1, 1 \in 1 .. 2, 2 \in 1 .. 2, \A i \in 1 .. 2 : i = 1 \/ i = 2, Zenon
<1> QED BY <1>3, <1>4, Zenon DEF checks

(* The same for three checks. *)
LEMMA FirstErrorOfThree ==
  ASSUME NEW a \in BOOLEAN, NEW b \in BOOLEAN, NEW c \in BOOLEAN, NEW x, NEW y, NEW z,
         x # "nil", y # "nil", z # "nil"
  PROVE  FirstError(<< <<a, x>>, <<b, y>>, <<c, z>> >>) = "nil" <=> ~a /\ ~b /\ ~c
<1> DEFINE checks == << <<a, x>>, <<b, y>>, <<c, z>> >>
<1>1. /\ DOMAIN checks = 1 .. 3
      /\ checks[1][1] = a /\ checks[1][2] = x /\ checks[2][1] = b /\ checks[2][2] = y
      /\ checks[3][1] = c /\ checks[3][2] = z
  OBVIOUS
<1> HIDE DEF checks
<1>2. \A i \in 1 .. 3 : checks[i][2] # "nil"
  <2> TAKE i \in 1 .. 3
  <2>1. i = 1 \/ i = 2 \/ i = 3
    OBVIOUS
  <2> QED BY <2>1, <1>1, Zenon
<1>3. FirstError(checks) = "nil" <=> \A i \in 1 .. 3 : ~checks[i][1]
  BY <1>1, <1>2, FirstErrorEmpty, 3 \in 1 .. 5, Zenon
<1>4. (\A i \in 1 .. 3 : ~checks[i][1]) <=> ~a /\ ~b /\ ~c
  BY <1>1, 1 \in 1 .. 3, 2 \in 1 .. 3, 3 \in 1 .. 3, \A i \in 1 .. 3 : i = 1 \/ i = 2 \/ i = 3, Zenon
<1> QED BY <1>3, <1>4, Zenon DEF checks

-----------------------------------------------------------------------------
(***************************************************************************)
(* The workflow.  Of a request the invariant says what it has checked and  *)
(* nobody can have changed since, because the request holds the row lock.  *)
(***************************************************************************)
Serving(c) == mrvTx[c].pc # "done"

TxOK ==
  /\ DOMAIN mrvTx = MrvCallers
  /\ \A c \in MrvCallers :
       /\ mrvTx[c].pc \in {"done", "begun", "insert", "scan", "confirm", "find", "locked"}
       /\ Serving(c) => mrvTx[c].op \in MrvRequests

(* A request that holds the row of a plan: the plan is a DRAFT that somebody else made. *)
HoldsPlan(c) == Serving(c) /\ mrvTx[c].pc \in {"scan", "confirm"}

Plan ==
  [form : PlanForms, state : {"DRAFT", "CONFIRMED", "SUPERSEDED"}, by : MrvActors,
   checker : MrvActors \cup {"none"}, during : SUBSET Nat]

PlanHeld(tx) ==
  /\ tx.op.kind = "confirm"
  /\ tx.op.version \in DOMAIN plans[tx.op.ship]
  /\ plans[tx.op.ship][tx.op.version].state = "DRAFT"
  /\ plans[tx.op.ship][tx.op.version].by # tx.op.actor

(* What was confirmed since the snapshot of a confirmation was confirmed during it. *)
SnapshotKept(tx) ==
  \A v \in DOMAIN plans[tx.op.ship] : plans[tx.op.ship][v].state = "CONFIRMED" =>
     v \in tx.read \/ tx.op.version \in plans[tx.op.ship][v].during

PlansInv ==
  /\ plans \in [MrvShips -> Seq(Plan)]
  /\ \A c \in MrvCallers : HoldsPlan(c) => PlanHeld(mrvTx[c])
  /\ \A c \in MrvCallers : HoldsPlan(c) /\ mrvTx[c].pc = "confirm" => SnapshotKept(mrvTx[c])
  /\ \A c, d \in MrvCallers :
       HoldsPlan(c) /\ HoldsPlan(d) /\ mrvTx[c].op.ship = mrvTx[d].op.ship
         /\ mrvTx[c].op.version = mrvTx[d].op.version => c = d
  /\ ConfirmedTogetherOverlapped

(* A request that holds the row of a report. *)
Report ==
  [state : {"DRAFT", "SUBMITTED", "VERIFIED", "REJECTED"}, by : MrvActors,
   submitter : MrvActors \cup {"none"}, totals : SUBSET MrvKeys]

ReportHeld(op) ==
  /\ op.kind \in {"submit", "decide", "soc"}
  /\ op.kind = "submit" => annual[op.ship].state = "DRAFT"
  /\ op.kind = "decide" => annual[op.ship].state = "SUBMITTED" /\ annual[op.ship].submitter # op.actor
  /\ op.kind = "soc" => annual[op.ship].state = "VERIFIED" /\ soc[op.ship] = NoRow

(* The row of a report, its ledger of decisions and its statement; before the submission there is no ledger. *)
LedgerFits(row, ledger, statement) ==
  /\ row.state \in {"none", "DRAFT"} => ledger = <<>>
  /\ ledger = <<>> => row.state \in {"none", "DRAFT", "SUBMITTED"}
  /\ ledger # <<>> => row.state = Outcome(ledger[Len(ledger)].decision)
  /\ \A i \in 1 .. Len(ledger) : /\ ledger[i].by # row.submitter
                                 /\ i < Len(ledger) => ledger[i].decision = "REQUEST_CLARIFICATION"
  /\ statement # NoRow => row.state = "VERIFIED" /\ statement.totals = row.totals

Ledger == Seq([decision : Decisions, by : MrvActors])
Statement == [state : {"issued"}, totals : SUBSET MrvKeys]

ReportsTypeOK ==
  /\ annual \in [MrvShips -> {NoRow} \cup Report]
  /\ decisions \in [MrvShips -> Ledger]
  /\ soc \in [MrvShips -> {NoRow} \cup Statement]

Compiling(c) == mrvTx[c].pc \in {"find", "insert"} /\ mrvTx[c].op.kind = "compile"

ReportsInv ==
  /\ ReportsTypeOK
  /\ \A c \in MrvCallers : Compiling(c) => mrvTx[c].read \in SUBSET MrvKeys
  /\ \A c \in MrvCallers : mrvTx[c].pc = "locked" => ReportHeld(mrvTx[c].op)
  /\ \A c, d \in MrvCallers :
       mrvTx[c].pc = "locked" /\ mrvTx[d].pc = "locked" /\ mrvTx[c].op.ship = mrvTx[d].op.ship => c = d
  /\ \A s \in MrvShips : LedgerFits(annual[s], decisions[s], soc[s])

-----------------------------------------------------------------------------
(* The requests. *)

LEMMA RequestShape ==
  ASSUME NEW op \in MrvRequests
  PROVE  /\ op.ship \in MrvShips
         /\ op.kind \in {"put", "confirm", "compile", "submit", "decide"} => op.actor \in MrvActors
         /\ op.kind = "put" => op.form \in PlanForms
         /\ op.kind = "confirm" => op.version \in 1 .. MaxPlans
         /\ op.kind = "fuel" => op.key \in MrvKeys
         /\ op.kind = "decide" => op.decision \in Decisions
BY Zenon DEF MrvRequests

(* The request of c goes to the state x, and no other request moves. *)
Moves(c, x) == mrvTx' = [mrvTx EXCEPT ![c] = x]

Done == [pc |-> "done"]
Continues(c, pc, read) == [pc |-> pc, op |-> mrvTx[c].op, read |-> read]

LEMMA ProceedMoves ==
  ASSUME NEW c, NEW err, NEW pc, NEW read, Proceed(c, err, pc, read)
  PROVE  /\ Moves(c, Done) \/ (err = "nil" /\ Moves(c, Continues(c, pc, read)))
         /\ UNCHANGED mrvTables
BY Zenon DEF Proceed, Answer, Moves, Done, Continues

LEMMA TxMoves ==
  ASSUME TxOK, NEW c \in MrvCallers, NEW x, Moves(c, x),
         x.pc \in {"done", "begun", "insert", "scan", "confirm", "find", "locked"},
         x.pc # "done" => x.op \in MrvRequests
  PROVE  TxOK'
BY Zenon DEF TxOK, Moves, Serving

LEMMA MovesTo ==
  ASSUME TxOK, NEW c \in MrvCallers, NEW x, Moves(c, x)
  PROVE  \A d \in MrvCallers : mrvTx'[d] = IF d = c THEN x ELSE mrvTx[d]
BY Zenon DEF TxOK, Moves

(* What every step of a request but the first does to it. *)
LEMMA StepMoves ==
  ASSUME TxOK, NEW c \in MrvCallers, MrvStep(c)
  PROVE  /\ Serving(c)
         /\ \/ Moves(c, Done)
            \/ \E pc \in {"insert", "scan", "confirm", "find", "locked"} :
                  \E read : Moves(c, Continues(c, pc, read))
<1>1. ASSUME NEW err, NEW pc \in {"insert", "scan", "confirm", "find", "locked"}, NEW read,
             Proceed(c, err, pc, read)
      PROVE  \/ Moves(c, Done)
             \/ \E p \in {"insert", "scan", "confirm", "find", "locked"} : \E r : Moves(c, Continues(c, p, r))
  BY <1>1, ProceedMoves, Zenon
<1>2. ASSUME NEW err, Answer(c, err) PROVE Moves(c, Done)
  BY <1>2, Zenon DEF Answer, Moves, Done
<1>3. CASE RegisterShip(c) \/ RollbackRequest(c)
  BY <1>3, <1>2, Zenon DEF RegisterShip, RollbackRequest, At, Serving
<1>4. CASE ReadVersion(c) \/ ScanConfirmed(c)
  BY <1>4, <1>1, Zenon DEF ReadVersion, ScanConfirmed, At, Serving
<1>5. CASE LockPlan(c)
  BY <1>5, <1>1, Zenon DEF LockPlan, At, Serving
<1>6. CASE CheckFuelReport(c)
  BY <1>6, <1>1, Zenon DEF CheckFuelReport, At, Serving
<1>7. CASE ReadFuelReports(c) \/ FindReport(c) \/ lockReport(c)
  BY <1>7, <1>1, Zenon DEF ReadFuelReports, FindReport, lockReport, At, Serving
<1>8. CASE PutMonitoringPlan(c) \/ ConfirmMonitoringPlan(c) \/ SubmitFuelReport(c)
  BY <1>8, <1>2, Zenon DEF PutMonitoringPlan, ConfirmMonitoringPlan, SubmitFuelReport, At, Serving
<1>9. CASE CompileAnnualReport(c) \/ SubmitAnnualReport(c) \/ RecordDecision(c) \/ IssueSoC(c)
  BY <1>9, <1>2, Zenon DEF CompileAnnualReport, SubmitAnnualReport, RecordDecision, IssueSoC, At, Serving
<1> QED BY <1>3, <1>4, <1>5, <1>6, <1>7, <1>8, <1>9, Zenon DEF MrvStep

LEMMA BeginMoves ==
  ASSUME NEW c, NEW op, BeginRequest(c, op)
  PROVE  Moves(c, [pc |-> "begun", op |-> op]) /\ UNCHANGED mrvTables
BY Zenon DEF BeginRequest, Moves

LEMMA TxStep == TxOK /\ [MrvNext]_mrvVars => TxOK'
<1> SUFFICES ASSUME TxOK, [MrvNext]_mrvVars PROVE TxOK'
  BY Zenon
<1>1. CASE UNCHANGED mrvVars
  BY <1>1, Zenon DEF mrvVars, TxOK, Serving
<1>2. ASSUME NEW c \in MrvCallers, NEW op \in MrvRequests, BeginRequest(c, op)
      PROVE  TxOK'
  <2> DEFINE x == [pc |-> "begun", op |-> op]
  <2>1. x.pc = "begun" /\ x.op = op
    BY Zenon
  <2>2. Moves(c, x)
    BY <1>2, BeginMoves, Zenon
  <2> HIDE DEF x
  <2> QED BY <2>1, <2>2, TxMoves, Zenon
<1>3. ASSUME NEW c \in MrvCallers, MrvStep(c)
      PROVE  TxOK'
  <2>1. CASE Moves(c, Done)
    <3>1. Done.pc = "done"
      BY Zenon DEF Done
    <3> QED BY <2>1, <3>1, TxMoves, Zenon
  <2>2. ASSUME NEW pc \in {"insert", "scan", "confirm", "find", "locked"}, NEW read, Serving(c),
               Moves(c, Continues(c, pc, read))
        PROVE  TxOK'
    <3> DEFINE x == Continues(c, pc, read)
    <3>1. x.pc = pc /\ x.op = mrvTx[c].op /\ x.op \in MrvRequests
      BY <2>2, Zenon DEF Continues, TxOK
    <3> HIDE DEF x
    <3> QED BY <2>2, <3>1, TxMoves, Zenon DEF x
  <2> QED BY <1>3, <2>1, <2>2, StepMoves, Zenon
<1> QED BY <1>1, <1>2, <1>3, Zenon DEF MrvNext

-----------------------------------------------------------------------------
(* Monitoring plans. *)

(* New plans are drafts and the others stay: whoever holds a plan holds what they held. *)
LEMMA PlansGrow ==
  ASSUME TxOK, PlansInv, NEW c \in MrvCallers, NEW x, Moves(c, x), x.pc \notin {"scan", "confirm"},
         plans' \in [MrvShips -> Seq(Plan)],
         \A s \in MrvShips : \A v \in DOMAIN plans[s] : v \in DOMAIN plans'[s] /\ plans'[s][v] = plans[s][v],
         \A s \in MrvShips : \A v \in DOMAIN plans'[s] : v \in DOMAIN plans[s] \/ plans'[s][v].state = "DRAFT"
  PROVE  PlansInv'
<1>1. ASSUME NEW d \in MrvCallers, HoldsPlan(d)'
      PROVE  HoldsPlan(d) /\ mrvTx'[d] = mrvTx[d] /\ mrvTx[d].op.ship \in MrvShips
  <2>1. mrvTx'[d] = IF d = c THEN x ELSE mrvTx[d]
    BY MovesTo, Zenon
  <2>2. d # c
    BY <1>1, <2>1, Zenon DEF HoldsPlan
  <2>3. mrvTx'[d] = mrvTx[d] /\ HoldsPlan(d)
    BY <1>1, <2>1, <2>2, Zenon DEF HoldsPlan, Serving
  <2> QED BY <2>3, RequestShape, Zenon DEF HoldsPlan, TxOK
<1>2. ASSUME NEW d \in MrvCallers, HoldsPlan(d)' PROVE PlanHeld(mrvTx[d])'
  <2>1. PlanHeld(mrvTx[d])
    BY <1>1, <1>2, Zenon DEF PlansInv
  <2>2. mrvTx'[d] = mrvTx[d] /\ mrvTx[d].op.ship \in MrvShips
    BY <1>1, <1>2, Zenon
  <2>3. \A v \in DOMAIN plans[mrvTx[d].op.ship] :
          v \in DOMAIN plans'[mrvTx[d].op.ship] /\ plans'[mrvTx[d].op.ship][v] = plans[mrvTx[d].op.ship][v]
    BY <2>2, Zenon
  <2> QED BY <2>1, <2>2, <2>3, ZenonT(40) DEF PlanHeld
<1>3. ASSUME NEW d \in MrvCallers, HoldsPlan(d)', mrvTx'[d].pc = "confirm" PROVE SnapshotKept(mrvTx[d])'
  <2>1. SnapshotKept(mrvTx[d]) /\ mrvTx'[d] = mrvTx[d] /\ mrvTx[d].op.ship \in MrvShips
    BY <1>1, <1>3, Zenon DEF PlansInv
  <2>2. PICK s \in MrvShips : s = mrvTx[d].op.ship
    BY <2>1, Zenon
  <2>3. ASSUME NEW v \in DOMAIN plans'[s], plans'[s][v].state = "CONFIRMED"
        PROVE  v \in mrvTx[d].read \/ mrvTx[d].op.version \in plans'[s][v].during
    <3>1. v \in DOMAIN plans[s]
      BY <2>3, Zenon
    <3>2. plans'[s][v] = plans[s][v]
      BY <3>1, Zenon
    <3> QED BY <2>1, <2>2, <2>3, <3>1, <3>2, Zenon DEF SnapshotKept
  <2> QED BY <2>1, <2>2, <2>3, Zenon DEF SnapshotKept
<1>4. \A d, e \in MrvCallers :
        HoldsPlan(d)' /\ HoldsPlan(e)' /\ mrvTx'[d].op.ship = mrvTx'[e].op.ship
          /\ mrvTx'[d].op.version = mrvTx'[e].op.version => d = e
  <2> SUFFICES ASSUME NEW d \in MrvCallers, NEW e \in MrvCallers, HoldsPlan(d)', HoldsPlan(e)',
                      mrvTx'[d].op.ship = mrvTx'[e].op.ship, mrvTx'[d].op.version = mrvTx'[e].op.version
               PROVE  d = e
    BY Zenon
  <2>1. HoldsPlan(d) /\ mrvTx'[d] = mrvTx[d] /\ HoldsPlan(e) /\ mrvTx'[e] = mrvTx[e]
    BY <1>1, Zenon
  <2> QED BY <2>1, Zenon DEF PlansInv
<1>5. ConfirmedTogetherOverlapped'
  BY DEF PlansInv, ConfirmedTogetherOverlapped, Confirmed
<1> QED BY <1>2, <1>3, <1>4, <1>5, Zenon DEF PlansInv

LEMMA PlansKept ==
  ASSUME TxOK, PlansInv, NEW c \in MrvCallers, NEW x, Moves(c, x), x.pc \notin {"scan", "confirm"},
         plans' = plans
  PROVE  PlansInv'
<1>1. plans \in [MrvShips -> Seq(Plan)]
  BY Zenon DEF PlansInv
<1> QED BY <1>1, PlansGrow, Zenon

LEMMA PutPlanStep ==
  ASSUME TxOK, PlansInv, NEW c \in MrvCallers, PutMonitoringPlan(c)
  PROVE  PlansInv'
<1> DEFINE s == mrvTx[c].op.ship
           new == [form |-> mrvTx[c].op.form, state |-> "DRAFT", by |-> mrvTx[c].op.actor,
                   checker |-> "none", during |-> {}]
<1>1. Moves(c, Done) /\ (plans' = plans \/ plans' = [plans EXCEPT ![s] = Append(plans[s], new)])
  BY Zenon DEF PutMonitoringPlan, Answer, Moves, Done
<1>2. Done.pc = "done"
  BY Zenon DEF Done
<1>3. s \in MrvShips /\ new \in Plan /\ new.state = "DRAFT"
  BY RequestShape, Zenon DEF PutMonitoringPlan, At, TxOK, Serving, Plan
<1>4. CASE plans' = plans
  BY <1>1, <1>2, <1>4, PlansKept, Zenon
<1>5. CASE plans' = [plans EXCEPT ![s] = Append(plans[s], new)]
  <2> HIDE DEF s, new
  <2>1. plans \in [MrvShips -> Seq(Plan)]
    BY Zenon DEF PlansInv
  <2>2. plans[s] \in Seq(Plan) /\ Append(plans[s], new) \in Seq(Plan)
    BY <1>3, <2>1
  <2>3. plans' \in [MrvShips -> Seq(Plan)]
    BY <1>5, <2>1, <2>2, Zenon
  <2>4. \A t \in MrvShips : plans'[t] = IF t = s THEN Append(plans[s], new) ELSE plans[t]
    BY <1>5, <2>1, Zenon
  <2>5. /\ \A v \in DOMAIN plans[s] : v \in DOMAIN Append(plans[s], new) /\ Append(plans[s], new)[v] = plans[s][v]
        /\ \A v \in DOMAIN Append(plans[s], new) : v \in DOMAIN plans[s] \/ Append(plans[s], new)[v] = new
    BY <1>3, <2>2
  <2>6. \A t \in MrvShips : \A v \in DOMAIN plans[t] : v \in DOMAIN plans'[t] /\ plans'[t][v] = plans[t][v]
    BY <2>4, <2>5, Zenon
  <2>7. \A t \in MrvShips : \A v \in DOMAIN plans'[t] : v \in DOMAIN plans[t] \/ plans'[t][v].state = "DRAFT"
    BY <1>3, <2>4, <2>5, Zenon
  <2> QED BY <1>1, <1>2, <2>3, <2>6, <2>7, PlansGrow, Zenon
<1> QED BY <1>1, <1>4, <1>5, Zenon

(* A request comes to hold a plan, or goes on with the plan it holds. *)
LEMMA PlanTaken ==
  ASSUME TxOK, PlansInv, NEW c \in MrvCallers, NEW x, Moves(c, x), plans' = plans,
         x.pc \in {"scan", "confirm"}, x.op = mrvTx[c].op, PlanHeld(x), x.pc = "confirm" => SnapshotKept(x),
         \A d \in MrvCallers \ {c} :
            ~(HoldsPlan(d) /\ mrvTx[d].op.ship = x.op.ship /\ mrvTx[d].op.version = x.op.version)
  PROVE  PlansInv'
<1>1. \A d \in MrvCallers : mrvTx'[d] = IF d = c THEN x ELSE mrvTx[d]
  BY MovesTo, Zenon
<1>2. \A d \in MrvCallers : HoldsPlan(d)' => d = c \/ HoldsPlan(d)
  BY <1>1, Zenon DEF HoldsPlan, Serving
<1>3. \A d \in MrvCallers : HoldsPlan(d)' => PlanHeld(mrvTx[d])'
  BY <1>1, <1>2, ZenonT(40) DEF PlansInv, PlanHeld
<1>4. ASSUME NEW d \in MrvCallers, HoldsPlan(d)', mrvTx'[d].pc = "confirm" PROVE SnapshotKept(mrvTx[d])'
  <2>1. CASE d = c
    BY <1>1, <1>4, <2>1, Zenon DEF SnapshotKept
  <2>2. CASE d # c
    <3>1. mrvTx'[d] = mrvTx[d] /\ HoldsPlan(d)
      BY <1>1, <1>2, <1>4, <2>2, Zenon
    <3> QED BY <1>4, <3>1, Zenon DEF PlansInv, SnapshotKept
  <2> QED BY <2>1, <2>2, Zenon
<1>5. \A d, e \in MrvCallers :
        HoldsPlan(d)' /\ HoldsPlan(e)' /\ mrvTx'[d].op.ship = mrvTx'[e].op.ship
          /\ mrvTx'[d].op.version = mrvTx'[e].op.version => d = e
  BY <1>1, <1>2, ZenonT(40) DEF PlansInv
<1>6. ConfirmedTogetherOverlapped'
  BY ZenonT(40) DEF PlansInv, ConfirmedTogetherOverlapped, Confirmed
<1> QED BY <1>3, <1>4, <1>5, <1>6, Zenon DEF PlansInv

LEMMA LockPlanStep ==
  ASSUME TxOK, PlansInv, NEW c \in MrvCallers, LockPlan(c)
  PROVE  PlansInv'
<1> DEFINE s == mrvTx[c].op.ship
           v == mrvTx[c].op.version
           found == v \in DOMAIN plans[s]
           mine == found /\ plans[s][v].by = mrvTx[c].op.actor
           settled == found /\ plans[s][v].state # "DRAFT"
           lost == ~found
           err == FirstError(<< <<lost, "ErrPlanNotFound">>, <<mine, "ErrMakerCheckerConflict">>,
                                <<settled, "ErrPlanState">> >>)
           x == Continues(c, "scan", {})
<1>1. /\ mrvTx[c].pc = "begun" /\ mrvTx[c].op.kind = "confirm"
      /\ v \notin Confirming(s, {"scan", "confirm"})
      /\ Proceed(c, err, "scan", {})
  BY Zenon DEF LockPlan, At
<1>2. err = "nil" <=> found /\ ~mine /\ ~settled
  <2>1. lost \in BOOLEAN /\ mine \in BOOLEAN /\ settled \in BOOLEAN
    BY Zenon
  <2>2. "ErrPlanNotFound" # "nil" /\ "ErrMakerCheckerConflict" # "nil" /\ "ErrPlanState" # "nil"
    BY Zenon
  <2> HIDE DEF lost, mine, settled
  <2>3. err = "nil" <=> ~lost /\ ~mine /\ ~settled
    <3>1. \A p, q, r \in BOOLEAN :
            FirstError(<< <<p, "ErrPlanNotFound">>, <<q, "ErrMakerCheckerConflict">>, <<r, "ErrPlanState">> >>) = "nil"
              <=> ~p /\ ~q /\ ~r
      BY <2>2, FirstErrorOfThree
    <3> QED BY <2>1, <3>1, Zenon
  <2> QED BY <2>3, Zenon DEF lost
<1> HIDE DEF err
<1>3. UNCHANGED mrvTables /\ (Moves(c, Done) \/ (err = "nil" /\ Moves(c, x)))
  BY <1>1, ProceedMoves, Zenon
<1>4. plans' = plans
  BY <1>3, Zenon DEF mrvTables
<1>5. CASE Moves(c, Done)
  <2>1. Done.pc = "done"
    BY Zenon DEF Done
  <2> QED BY <1>4, <1>5, <2>1, PlansKept, Zenon
<1>6. CASE err = "nil" /\ Moves(c, x)
  <2>1. x.pc = "scan" /\ x.op = mrvTx[c].op
    BY Zenon DEF Continues
  <2>2. PlanHeld(x)
    BY <1>1, <1>2, <1>6, <2>1, Zenon DEF PlanHeld
  <2>3. \A d \in MrvCallers : HoldsPlan(d) => mrvTx[d].op.kind = "confirm"
    BY Zenon DEF PlansInv, PlanHeld
  <2>4. \A d \in MrvCallers \ {c} :
          ~(HoldsPlan(d) /\ mrvTx[d].op.ship = x.op.ship /\ mrvTx[d].op.version = x.op.version)
    BY <1>1, <2>1, <2>3, Zenon DEF Confirming, HoldsPlan
  <2> HIDE DEF x
  <2> QED BY <1>4, <1>6, <2>1, <2>2, <2>4, PlanTaken, Zenon
<1> QED BY <1>3, <1>5, <1>6, Zenon

LEMMA ScanStep ==
  ASSUME TxOK, PlansInv, NEW c \in MrvCallers, ScanConfirmed(c)
  PROVE  PlansInv'
<1> DEFINE x == Continues(c, "confirm", Confirmed(mrvTx[c].op.ship))
<1>1. mrvTx[c].pc = "scan" /\ Proceed(c, "nil", "confirm", Confirmed(mrvTx[c].op.ship))
  BY Zenon DEF ScanConfirmed, At
<1>2. UNCHANGED mrvTables /\ (Moves(c, Done) \/ Moves(c, x))
  BY <1>1, ProceedMoves, Zenon
<1>3. plans' = plans
  BY <1>2, Zenon DEF mrvTables
<1>4. CASE Moves(c, Done)
  <2>1. Done.pc = "done"
    BY Zenon DEF Done
  <2> QED BY <1>3, <1>4, <2>1, PlansKept, Zenon
<1>5. CASE Moves(c, x)
  <2>1. x.pc = "confirm" /\ x.op = mrvTx[c].op /\ x.read = Confirmed(mrvTx[c].op.ship)
    BY Zenon DEF Continues
  <2>2. HoldsPlan(c) /\ PlanHeld(mrvTx[c])
    BY <1>1, Zenon DEF HoldsPlan, Serving, PlansInv
  <2>3. PlanHeld(x) /\ SnapshotKept(x)
    BY <2>1, <2>2, Zenon DEF PlanHeld, SnapshotKept, Confirmed
  <2>4. \A d \in MrvCallers \ {c} :
          ~(HoldsPlan(d) /\ mrvTx[d].op.ship = x.op.ship /\ mrvTx[d].op.version = x.op.version)
    BY <2>1, <2>2, Zenon DEF PlansInv
  <2> HIDE DEF x
  <2> QED BY <1>3, <1>5, <2>1, <2>3, <2>4, PlanTaken, Zenon
<1> QED BY <1>2, <1>4, <1>5, Zenon

(***************************************************************************)
(* The confirmation: every plan that is CONFIRMED afterwards and was not   *)
(* before is the plan itself, and every other one that is CONFIRMED was    *)
(* not in the snapshot, so that its confirmation overlapped this one.      *)
(***************************************************************************)
LEMMA ConfirmStep ==
  ASSUME TxOK, PlansInv, NEW c \in MrvCallers, ConfirmMonitoringPlan(c)
  PROVE  PlansInv'
<1> DEFINE s == mrvTx[c].op.ship
           version == mrvTx[c].op.version
           rivals == Confirming(s, {"confirm"}) \ {version}
           seen == mrvTx[c].read
           actor == mrvTx[c].op.actor
           after(v) == IF v = version
                       THEN [plans[s][v] EXCEPT !.state = "CONFIRMED", !.checker = actor, !.during = rivals]
                       ELSE Supersede(plans[s][v], v \in seen)
<1>1. /\ mrvTx[c].pc = "confirm" /\ mrvTx[c].op.kind = "confirm"
      /\ Moves(c, Done)
      /\ plans' = [plans EXCEPT ![s] = [v \in DOMAIN plans[s] |-> after(v)]]
  BY Zenon DEF ConfirmMonitoringPlan, At, Answer, Moves, Done
<1>2. HoldsPlan(c) /\ PlanHeld(mrvTx[c]) /\ SnapshotKept(mrvTx[c])
  BY <1>1, Zenon DEF HoldsPlan, Serving, PlansInv
<1>3. s \in MrvShips /\ actor \in MrvActors
  BY <1>1, RequestShape, Zenon DEF TxOK, Serving
<1>4. /\ version \in DOMAIN plans[s] /\ plans[s][version].state = "DRAFT" /\ plans[s][version].by # actor
      /\ \A v \in DOMAIN plans[s] : plans[s][v].state = "CONFIRMED" => v \in seen \/ version \in plans[s][v].during
  BY <1>2, Zenon DEF PlanHeld, SnapshotKept
<1>5. rivals \in SUBSET Nat
  <2>1. \A d \in MrvCallers : mrvTx[d].pc = "confirm" /\ mrvTx[d].op.kind = "confirm" =>
          mrvTx[d].op.version \in 1 .. MaxPlans
    BY RequestShape, Zenon DEF TxOK, Serving
  <2> QED BY <2>1, MrvAssumption DEF Confirming
<1>6. \A d \in MrvCallers : mrvTx[d].pc = "confirm" /\ mrvTx[d].op.kind = "confirm" /\ mrvTx[d].op.ship = s =>
        mrvTx[d].op.version = version \/ mrvTx[d].op.version \in rivals
  BY Zenon DEF Confirming
<1> HIDE DEF rivals, seen, actor
<1>7. plans \in [MrvShips -> Seq(Plan)] /\ plans[s] \in Seq(Plan) /\ \A v \in DOMAIN plans[s] : plans[s][v] \in Plan
  BY <1>3 DEF PlansInv
<1>8. ASSUME NEW v \in DOMAIN plans[s]
      PROVE  /\ after(v) \in Plan /\ after(v).by = plans[s][v].by
             /\ v = version => /\ after(v).state = "CONFIRMED" /\ after(v).checker = actor
                              /\ after(v).during = rivals
             /\ v # version => \/ (after(v) = plans[s][v] /\ ~(v \in seen /\ plans[s][v].state = "CONFIRMED"))
                              \/ (after(v).state = "SUPERSEDED" /\ plans[s][v].state = "CONFIRMED")
  <2>1. plans[s][v] \in Plan
    BY <1>7, Zenon
  <2>2. CASE v = version
    BY <1>3, <1>5, <2>1, <2>2, Zenon DEF Plan
  <2>3. CASE v # version
    <3>1. after(v) = Supersede(plans[s][v], v \in seen)
      BY <2>3, Zenon
    <3>2. CASE v \in seen /\ plans[s][v].state = "CONFIRMED"
      <4>1. after(v) = [plans[s][v] EXCEPT !.state = "SUPERSEDED"]
        BY <3>1, <3>2, Zenon DEF Supersede
      <4> HIDE DEF after
      <4> QED BY <2>1, <2>3, <3>2, <4>1, Zenon DEF Plan
    <3>3. CASE ~(v \in seen /\ plans[s][v].state = "CONFIRMED")
      <4>1. after(v) = plans[s][v]
        BY <3>1, <3>3, Zenon DEF Supersede
      <4> HIDE DEF after
      <4> QED BY <2>1, <2>3, <3>3, <4>1, Zenon
    <3> QED BY <3>2, <3>3, Zenon
  <2> QED BY <2>2, <2>3, Zenon
<1> DEFINE new == [v \in DOMAIN plans[s] |-> after(v)]
<1>9. DOMAIN new = DOMAIN plans[s] /\ \A v \in DOMAIN plans[s] : new[v] = after(v)
  BY Zenon
<1>10. plans' = [plans EXCEPT ![s] = new]
  BY <1>1, Zenon
<1> HIDE DEF after
<1>11. new \in Seq(Plan)
  <2>1. DOMAIN plans[s] = 1 .. Len(plans[s]) /\ Len(plans[s]) \in Nat
    BY <1>7
  <2>2. new \in [1 .. Len(plans[s]) -> Plan]
    BY <1>8, <2>1, Zenon
  <2> QED BY <2>1, <2>2
<1> HIDE DEF new, s, version
<1>12. plans' \in [MrvShips -> Seq(Plan)] /\ \A t \in MrvShips : plans'[t] = IF t = s THEN new ELSE plans[t]
  BY <1>3, <1>7, <1>10, <1>11, Zenon
<1>13. /\ DOMAIN plans'[s] = DOMAIN plans[s]
       /\ \A v \in DOMAIN plans[s] : plans'[s][v] = after(v)
  BY <1>3, <1>9, <1>12, Zenon
<1>14. ASSUME NEW d \in MrvCallers, HoldsPlan(d)'
       PROVE  /\ d # c /\ HoldsPlan(d) /\ mrvTx'[d] = mrvTx[d] /\ mrvTx[d].op.ship \in MrvShips
              /\ mrvTx[d].op.ship = s => mrvTx[d].op.version # version
  <2>1. d # c /\ HoldsPlan(d) /\ mrvTx'[d] = mrvTx[d]
    BY <1>1, <1>14, MovesTo DEF HoldsPlan, Serving, Done
  <2>2. mrvTx[d].op.ship \in MrvShips
    BY <2>1, RequestShape, Zenon DEF HoldsPlan, TxOK, Serving
  <2>3. mrvTx[d].op.ship = s => mrvTx[d].op.version # version
    BY <1>2, <2>1, Zenon DEF PlansInv, s, version
  <2> QED BY <2>1, <2>2, <2>3, Zenon
<1>15. ASSUME NEW d \in MrvCallers, HoldsPlan(d)' PROVE PlanHeld(mrvTx[d])'
  <2>1. PlanHeld(mrvTx[d])
    BY <1>14, <1>15, Zenon DEF PlansInv
  <2>2. CASE mrvTx[d].op.ship = s
    <3>1. mrvTx[d].op.version \in DOMAIN plans[s] /\ plans[s][mrvTx[d].op.version].state = "DRAFT"
      BY <2>1, <2>2, Zenon DEF PlanHeld
    <3>2. plans'[s][mrvTx[d].op.version] = plans[s][mrvTx[d].op.version]
      BY <1>8, <1>13, <1>14, <1>15, <2>2, <3>1, ZenonT(40)
    <3> QED BY <1>13, <1>14, <1>15, <2>1, <2>2, <3>1, <3>2, Zenon DEF PlanHeld
  <2>3. CASE mrvTx[d].op.ship # s
    <3>1. mrvTx[d].op.ship \in MrvShips /\ mrvTx'[d] = mrvTx[d]
      BY <1>14, <1>15, Zenon
    <3>2. plans'[mrvTx[d].op.ship] = plans[mrvTx[d].op.ship]
      BY <1>12, <2>3, <3>1, Zenon
    <3> QED BY <2>1, <3>1, <3>2, Zenon DEF PlanHeld
  <2> QED BY <2>2, <2>3, Zenon
<1>16. ASSUME NEW d \in MrvCallers, HoldsPlan(d)', mrvTx'[d].pc = "confirm" PROVE SnapshotKept(mrvTx[d])'
  <2>1. SnapshotKept(mrvTx[d]) /\ PlanHeld(mrvTx[d]) /\ mrvTx'[d] = mrvTx[d]
    BY <1>14, <1>16, Zenon DEF PlansInv
  <2>2. CASE mrvTx[d].op.ship = s
    <3>1. mrvTx[d].op.version \in rivals
      BY <1>6, <1>14, <1>16, <2>1, <2>2, Zenon DEF PlanHeld
    <3>2. ASSUME NEW v \in DOMAIN plans[s], plans'[s][v].state = "CONFIRMED"
          PROVE  v \in mrvTx[d].read \/ mrvTx[d].op.version \in plans'[s][v].during
      <4>1. CASE v = version
        BY <1>8, <1>13, <3>1, <4>1, Zenon
      <4>2. CASE v # version
        <5>1. plans'[s][v] = plans[s][v]
          BY <1>8, <1>13, <3>2, <4>2, Zenon
        <5> QED BY <2>1, <2>2, <3>2, <5>1, Zenon DEF SnapshotKept
      <4> QED BY <4>1, <4>2, Zenon
    <3> QED BY <1>13, <2>1, <2>2, <3>2, Zenon DEF SnapshotKept
  <2>3. CASE mrvTx[d].op.ship # s
    <3>1. mrvTx[d].op.ship \in MrvShips
      BY <1>14, <1>16, Zenon
    <3>2. plans'[mrvTx[d].op.ship] = plans[mrvTx[d].op.ship]
      BY <1>12, <2>3, <3>1, Zenon
    <3> QED BY <2>1, <3>2, Zenon DEF SnapshotKept
  <2> QED BY <2>2, <2>3, Zenon
<1>17. \A d, e \in MrvCallers :
         HoldsPlan(d)' /\ HoldsPlan(e)' /\ mrvTx'[d].op.ship = mrvTx'[e].op.ship
           /\ mrvTx'[d].op.version = mrvTx'[e].op.version => d = e
  BY <1>14, Zenon DEF PlansInv
<1>18. ConfirmedTogetherOverlapped'
  <2> SUFFICES ASSUME NEW t \in MrvShips, NEW v \in DOMAIN plans'[t], NEW w \in DOMAIN plans'[t],
                      plans'[t][v].state = "CONFIRMED", plans'[t][w].state = "CONFIRMED"
               PROVE  /\ plans'[t][v].checker # plans'[t][v].by
                      /\ v # w => v \in plans'[t][w].during \/ w \in plans'[t][v].during
    BY Zenon DEF ConfirmedTogetherOverlapped, Confirmed
  <2>1. CASE t # s
    BY <1>12, <2>1, Zenon DEF PlansInv, ConfirmedTogetherOverlapped, Confirmed
  <2>2. CASE t = s
    <3>1. ASSUME NEW u \in DOMAIN plans'[s], plans'[s][u].state = "CONFIRMED", u # version
          PROVE  plans'[s][u] = plans[s][u] /\ u \in Confirmed(s) /\ version \in plans[s][u].during
      <4>1. plans'[s][u] = plans[s][u] /\ u \notin seen /\ u \in DOMAIN plans[s]
        BY <1>8, <1>13, <3>1, Zenon
      <4> QED BY <1>4, <3>1, <4>1, Zenon DEF Confirmed
    <3>2. plans'[s][version].checker = actor /\ plans'[s][version].by = plans[s][version].by
      BY <1>4, <1>8, <1>13, Zenon
    <3>3. \A x, y \in Confirmed(s) : /\ plans[s][x].checker # plans[s][x].by
                                     /\ x # y => x \in plans[s][y].during \/ y \in plans[s][x].during
      BY <1>3, Zenon DEF PlansInv, ConfirmedTogetherOverlapped
    <3> QED BY <1>4, <2>2, <3>1, <3>2, <3>3, ZenonT(40)
  <2> QED BY <2>1, <2>2, Zenon
<1> QED BY <1>12, <1>15, <1>16, <1>17, <1>18, Zenon DEF PlansInv

LEMMA PlansInitInv == MrvInit => TxOK /\ PlansInv
<1> SUFFICES ASSUME MrvInit PROVE TxOK /\ PlansInv
  BY Zenon
<1>1. TxOK /\ \A c \in MrvCallers : ~HoldsPlan(c)
  BY Zenon DEF MrvInit, TxOK, HoldsPlan, Serving
<1>2. \A p \in ConfirmedBefore : p \in Plan /\ p.checker # p.by
  BY Zenon DEF ConfirmedBefore, Plan
<1>3. ASSUME NEW s \in MrvShips
      PROVE  plans[s] = <<>> \/ \E p \in ConfirmedBefore : plans[s] = <<p>>
  BY Zenon DEF MrvInit
<1>4. ASSUME NEW s \in MrvShips PROVE plans[s] \in Seq(Plan)
  <2>1. CASE plans[s] = <<>>
    BY <2>1
  <2>2. ASSUME NEW p \in ConfirmedBefore, plans[s] = <<p>> PROVE plans[s] \in Seq(Plan)
    <3>1. p \in Plan
      BY <1>2, Zenon
    <3> HIDE DEF Plan
    <3> QED BY <2>2, <3>1
  <2> QED BY <1>3, <2>1, <2>2, Zenon
<1>5. plans \in [MrvShips -> Seq(Plan)]
  BY <1>4, Zenon DEF MrvInit
<1>6. ASSUME NEW s \in MrvShips, NEW v \in Confirmed(s)
      PROVE  v = 1 /\ plans[s][v].checker # plans[s][v].by
  BY <1>2, <1>3 DEF Confirmed
<1>7. ConfirmedTogetherOverlapped
  BY <1>6, Zenon DEF ConfirmedTogetherOverlapped
<1> QED BY <1>1, <1>5, <1>7, Zenon DEF PlansInv

LEMMA PlansStep == TxOK /\ PlansInv /\ [MrvNext]_mrvVars => PlansInv'
<1> SUFFICES ASSUME TxOK, PlansInv, [MrvNext]_mrvVars PROVE PlansInv'
  BY Zenon
<1>1. CASE UNCHANGED mrvVars
  BY <1>1, ZenonT(40) DEF mrvVars, PlansInv, HoldsPlan, Serving, PlanHeld, SnapshotKept, ConfirmedTogetherOverlapped, Confirmed
<1>2. ASSUME NEW c \in MrvCallers, NEW op \in MrvRequests, BeginRequest(c, op)
      PROVE  PlansInv'
  <2> DEFINE x == [pc |-> "begun", op |-> op]
  <2>1. x.pc = "begun" /\ Moves(c, x) /\ plans' = plans
    BY <1>2, BeginMoves, Zenon DEF mrvTables
  <2> HIDE DEF x
  <2> QED BY <2>1, PlansKept, Zenon
<1>3. ASSUME NEW c \in MrvCallers, Moves(c, Done), plans' = plans
      PROVE  PlansInv'
  <2>1. Done.pc = "done"
    BY Zenon DEF Done
  <2> QED BY <1>3, <2>1, PlansKept, Zenon
<1>4. ASSUME NEW c \in MrvCallers, NEW err, NEW pc \in {"insert", "find", "locked"}, NEW read,
             Proceed(c, err, pc, read)
      PROVE  PlansInv'
  <2>1. plans' = plans /\ (Moves(c, Done) \/ Moves(c, Continues(c, pc, read)))
    BY <1>4, ProceedMoves, Zenon DEF mrvTables
  <2>2. Continues(c, pc, read).pc = pc
    BY Zenon DEF Continues
  <2> QED BY <1>3, <2>1, <2>2, PlansKept, Zenon
<1>5. ASSUME NEW c \in MrvCallers, MrvStep(c)
      PROVE  PlansInv'
  <2>1. CASE \/ RegisterShip(c) \/ SubmitFuelReport(c) \/ CompileAnnualReport(c) \/ RollbackRequest(c)
             \/ SubmitAnnualReport(c) \/ RecordDecision(c) \/ IssueSoC(c)
    <3>1. Moves(c, Done) /\ plans' = plans
      BY <2>1, Zenon DEF RegisterShip, SubmitFuelReport, CompileAnnualReport, RollbackRequest, SubmitAnnualReport,
                  RecordDecision, IssueSoC, Answer, Moves, Done, mrvTables
    <3> QED BY <1>3, <3>1, Zenon
  <2>2. CASE ReadVersion(c)
    BY <1>4, <2>2, Zenon DEF ReadVersion
  <2>3. CASE CheckFuelReport(c)
    BY <1>4, <2>3, Zenon DEF CheckFuelReport
  <2>4. CASE ReadFuelReports(c)
    BY <1>4, <2>4, Zenon DEF ReadFuelReports
  <2>5. CASE FindReport(c)
    BY <1>4, <2>5, Zenon DEF FindReport
  <2>6. CASE lockReport(c)
    BY <1>4, <2>6, Zenon DEF lockReport
  <2> QED BY <1>5, <2>1, <2>2, <2>3, <2>4, <2>5, <2>6, PutPlanStep, LockPlanStep, ScanStep, ConfirmStep, Zenon
          DEF MrvStep
<1> QED BY <1>1, <1>2, <1>5, Zenon DEF MrvNext

(***************************************************************************)
(* ConfirmMonitoringPlan under any number of overlapping confirmations:    *)
(* two plans of a ship are CONFIRMED together only if one confirmation     *)
(* took its snapshot before the other committed, and nobody confirms a     *)
(* plan they submitted.                                                    *)
(***************************************************************************)
THEOREM PlansConfirmedTogether == MrvSpec => []ConfirmedTogetherOverlapped
<1>1. MrvInit => TxOK /\ PlansInv
  BY PlansInitInv, Zenon
<1>2. (TxOK /\ PlansInv) /\ [MrvNext]_mrvVars => (TxOK /\ PlansInv)'
  BY TxStep, PlansStep, Zenon
<1>3. PlansInv => ConfirmedTogetherOverlapped
  BY Zenon DEF PlansInv
<1> QED BY <1>1, <1>2, <1>3, PTL DEF MrvSpec

-----------------------------------------------------------------------------
(* Annual reports. *)

LEMMA ReportsKept ==
  ASSUME TxOK, ReportsInv, NEW c \in MrvCallers, NEW x, Moves(c, x), UNCHANGED <<annual, decisions, soc>>,
         x.pc # "locked",
         x.pc \in {"find", "insert"} /\ x.op.kind = "compile" => x.read \in SUBSET MrvKeys
  PROVE  ReportsInv'
<1>1. \A d \in MrvCallers : mrvTx'[d] = IF d = c THEN x ELSE mrvTx[d]
  BY MovesTo, Zenon
<1>2. ReportsTypeOK' /\ \A s \in MrvShips : LedgerFits(annual'[s], decisions'[s], soc'[s])
  BY Zenon DEF ReportsInv, ReportsTypeOK
<1>3. \A d \in MrvCallers : Compiling(d)' => mrvTx'[d].read \in SUBSET MrvKeys
  BY <1>1, Zenon DEF ReportsInv, Compiling
<1>4. \A d \in MrvCallers : mrvTx'[d].pc = "locked" => mrvTx'[d] = mrvTx[d] /\ mrvTx[d].pc = "locked"
  BY <1>1, Zenon
<1>5. \A d \in MrvCallers : mrvTx'[d].pc = "locked" => ReportHeld(mrvTx[d].op)'
  <2>1. \A d \in MrvCallers : mrvTx'[d].pc = "locked" => mrvTx'[d] = mrvTx[d] /\ ReportHeld(mrvTx[d].op)
    BY <1>4, Zenon DEF ReportsInv
  <2>2. ASSUME NEW d \in MrvCallers, mrvTx'[d].pc = "locked" PROVE ReportHeld(mrvTx[d].op)'
    <3>1. mrvTx'[d] = mrvTx[d] /\ ReportHeld(mrvTx[d].op)
      BY <2>1, <2>2, Zenon
    <3> QED BY <3>1, Zenon DEF ReportHeld
  <2> QED BY <2>2, Zenon
<1> QED BY <1>2, <1>3, <1>4, <1>5, ZenonT(40) DEF ReportsInv

LEMMA ReportsKeptDone ==
  ASSUME TxOK, ReportsInv, NEW c \in MrvCallers, Moves(c, Done), UNCHANGED <<annual, decisions, soc>>
  PROVE  ReportsInv'
<1>1. Done.pc = "done"
  BY Zenon DEF Done
<1> QED BY <1>1, ReportsKept, Zenon

(* A request changes the records of the report of s, which no other request holds, and ends. *)
LEMMA ReportChanges ==
  ASSUME TxOK, ReportsInv, NEW c \in MrvCallers, Moves(c, Done), NEW s \in MrvShips,
         NEW row \in Report, NEW ledger \in Ledger, NEW statement \in {NoRow} \cup Statement,
         annual' = [annual EXCEPT ![s] = row], decisions' = [decisions EXCEPT ![s] = ledger],
         soc' = [soc EXCEPT ![s] = statement], LedgerFits(row, ledger, statement),
         \A d \in MrvCallers \ {c} : ~(mrvTx[d].pc = "locked" /\ mrvTx[d].op.ship = s)
  PROVE  ReportsInv'
<1>1. ReportsTypeOK'
  BY Zenon DEF ReportsInv, ReportsTypeOK
<1>2. \A t \in MrvShips : /\ annual'[t] = IF t = s THEN row ELSE annual[t]
                          /\ decisions'[t] = IF t = s THEN ledger ELSE decisions[t]
                          /\ soc'[t] = IF t = s THEN statement ELSE soc[t]
  BY Zenon DEF ReportsInv, ReportsTypeOK
<1>3. ASSUME NEW t \in MrvShips PROVE LedgerFits(annual'[t], decisions'[t], soc'[t])
  <2>1. CASE t = s
    <3>1. annual'[t] = row /\ decisions'[t] = ledger /\ soc'[t] = statement
      BY <1>2, <2>1, Zenon
    <3> QED BY <3>1, Zenon
  <2>2. CASE t # s
    <3>1. annual'[t] = annual[t] /\ decisions'[t] = decisions[t] /\ soc'[t] = soc[t]
      BY <1>2, <2>2, Zenon
    <3>2. LedgerFits(annual[t], decisions[t], soc[t])
      BY Zenon DEF ReportsInv
    <3> QED BY <3>1, <3>2, Zenon
  <2> QED BY <2>1, <2>2, Zenon
<1>4. \A d \in MrvCallers : mrvTx'[d].pc # "done" => d # c /\ mrvTx'[d] = mrvTx[d] /\ mrvTx[d].op.ship \in MrvShips
  <2>1. \A d \in MrvCallers : mrvTx'[d] = IF d = c THEN Done ELSE mrvTx[d]
    BY MovesTo, Zenon
  <2>2. Done.pc = "done"
    BY Zenon DEF Done
  <2>3. \A d \in MrvCallers : mrvTx'[d].pc # "done" => d # c /\ mrvTx'[d] = mrvTx[d] /\ Serving(d)
    BY <2>1, <2>2, Zenon DEF Serving
  <2> QED BY <2>3, RequestShape, Zenon DEF TxOK
<1>5. \A d \in MrvCallers : Compiling(d)' => mrvTx'[d].read \in SUBSET MrvKeys
  BY <1>4, Zenon DEF ReportsInv, Compiling
<1>6. ASSUME NEW d \in MrvCallers, mrvTx'[d].pc = "locked" PROVE ReportHeld(mrvTx[d].op)'
  <2>1. /\ mrvTx'[d] = mrvTx[d] /\ mrvTx[d].pc = "locked" /\ mrvTx[d].op.ship \in MrvShips
        /\ mrvTx[d].op.ship # s
    BY <1>4, <1>6, Zenon
  <2>2. ReportHeld(mrvTx[d].op)
    BY <2>1, Zenon DEF ReportsInv
  <2> QED BY <1>2, <2>1, <2>2, Zenon DEF ReportHeld
<1> QED BY <1>1, <1>3, <1>4, <1>5, <1>6, Zenon DEF ReportsInv

(* The request that holds the row of a report, and the report. *)
LEMMA Holder ==
  ASSUME TxOK, ReportsInv, NEW c \in MrvCallers, mrvTx[c].pc = "locked"
  PROVE  \E s \in MrvShips :
           /\ s = mrvTx[c].op.ship /\ ReportHeld(mrvTx[c].op) /\ annual[s] \in Report
           /\ decisions[s] \in Ledger /\ soc[s] \in {NoRow} \cup Statement
           /\ LedgerFits(annual[s], decisions[s], soc[s])
           /\ \A d \in MrvCallers \ {c} : ~(mrvTx[d].pc = "locked" /\ mrvTx[d].op.ship = s)
<1>1. mrvTx[c].op.ship \in MrvShips
  BY RequestShape, Zenon DEF TxOK, Serving
<1>2. ReportHeld(mrvTx[c].op)
  BY Zenon DEF ReportsInv
<1>3. annual[mrvTx[c].op.ship] \in Report
  <2>1. annual[mrvTx[c].op.ship] \in {NoRow} \cup Report
    BY <1>1, Zenon DEF ReportsInv, ReportsTypeOK
  <2>2. annual[mrvTx[c].op.ship].state # "none"
    BY <1>2, Zenon DEF ReportHeld
  <2>3. NoRow.state = "none"
    BY Zenon DEF NoRow
  <2> QED BY <2>1, <2>2, <2>3, Zenon
<1> QED BY <1>1, <1>2, <1>3, Zenon DEF ReportsInv, ReportsTypeOK

LEMMA CompileStep ==
  ASSUME TxOK, ReportsInv, NEW c \in MrvCallers, CompileAnnualReport(c)
  PROVE  ReportsInv'
<1>1. PICK s \in MrvShips : s = mrvTx[c].op.ship
  BY RequestShape, Zenon DEF CompileAnnualReport, At, TxOK, Serving
<1>2. /\ Moves(c, Done) /\ UNCHANGED <<decisions, soc>>
      /\ Compiling(c) /\ mrvTx[c].op.actor \in MrvActors
  BY RequestShape, Zenon DEF CompileAnnualReport, At, Answer, Moves, Done, Compiling, TxOK, Serving
<1>3. CASE annual' = annual
  BY <1>2, <1>3, ReportsKeptDone, Zenon
<1>4. CASE annual' # annual
  <2> DEFINE row == [state |-> "DRAFT", by |-> mrvTx[c].op.actor, submitter |-> "none", totals |-> mrvTx[c].read]
  <2>1. annual[s] = NoRow /\ annual' = [annual EXCEPT ![s] = row]
    BY <1>1, <1>4, Zenon DEF CompileAnnualReport
  <2>2. row \in Report /\ row.state = "DRAFT"
    BY <1>2, Zenon DEF ReportsInv, Report
  <2> HIDE DEF row
  <2>3. annual[s].state = "none" /\ LedgerFits(annual[s], decisions[s], soc[s])
    <3>1. NoRow.state = "none"
      BY Zenon DEF NoRow
    <3> QED BY <2>1, <3>1, Zenon DEF ReportsInv
  <2>4. decisions[s] = <<>> /\ soc[s] = NoRow
    BY <2>3, Zenon DEF LedgerFits
  <2>5. LedgerFits(row, decisions[s], soc[s])
    BY <2>2, <2>4 DEF LedgerFits
  <2>6. decisions[s] \in Ledger /\ soc[s] \in {NoRow} \cup Statement
        /\ decisions' = [decisions EXCEPT ![s] = decisions[s]] /\ soc' = [soc EXCEPT ![s] = soc[s]]
    BY <1>2, Zenon DEF ReportsInv, ReportsTypeOK
  <2>7. \A d \in MrvCallers : ~(mrvTx[d].pc = "locked" /\ mrvTx[d].op.ship = s)
    BY <2>3, Zenon DEF ReportsInv, ReportHeld
  <2> QED BY <1>2, <2>1, <2>2, <2>5, <2>6, <2>7, ReportChanges, Zenon
<1> QED BY <1>3, <1>4, Zenon

LEMMA SubmitStep ==
  ASSUME TxOK, ReportsInv, NEW c \in MrvCallers, SubmitAnnualReport(c)
  PROVE  ReportsInv'
<1>1. /\ mrvTx[c].pc = "locked" /\ mrvTx[c].op.kind = "submit" /\ Moves(c, Done)
      /\ UNCHANGED <<decisions, soc>> /\ mrvTx[c].op.actor \in MrvActors
  BY RequestShape, Zenon DEF SubmitAnnualReport, At, Answer, Moves, Done, TxOK, Serving
<1>2. PICK s \in MrvShips :
        /\ s = mrvTx[c].op.ship /\ ReportHeld(mrvTx[c].op) /\ annual[s] \in Report
        /\ decisions[s] \in Ledger /\ soc[s] \in {NoRow} \cup Statement
        /\ LedgerFits(annual[s], decisions[s], soc[s])
        /\ \A d \in MrvCallers \ {c} : ~(mrvTx[d].pc = "locked" /\ mrvTx[d].op.ship = s)
  BY <1>1, Holder, Zenon
<1> DEFINE row == [annual[s] EXCEPT !.state = "SUBMITTED", !.submitter = mrvTx[c].op.actor]
<1>3. annual' = [annual EXCEPT ![s] = row]
  BY <1>2, Zenon DEF SubmitAnnualReport, ReportsInv, ReportsTypeOK
<1>4. row \in Report /\ row.state = "SUBMITTED"
  BY <1>1, <1>2, Zenon DEF Report
<1> HIDE DEF row
<1>5. decisions[s] = <<>> /\ soc[s] = NoRow
  BY <1>1, <1>2, Zenon DEF ReportHeld, LedgerFits
<1>6. LedgerFits(row, decisions[s], soc[s])
  BY <1>4, <1>5 DEF LedgerFits
<1>7. decisions' = [decisions EXCEPT ![s] = decisions[s]] /\ soc' = [soc EXCEPT ![s] = soc[s]]
  BY <1>1, Zenon DEF ReportsInv, ReportsTypeOK
<1>8. /\ Moves(c, Done) /\ row \in Report /\ decisions[s] \in Ledger /\ soc[s] \in {NoRow} \cup Statement
      /\ \A d \in MrvCallers \ {c} : ~(mrvTx[d].pc = "locked" /\ mrvTx[d].op.ship = s)
  BY <1>1, <1>2, <1>4, Zenon
<1> QED BY <1>3, <1>6, <1>7, <1>8, ReportChanges, Zenon

(* A decision on a report that is open: the decisions before it asked for clarification. *)
LEMMA DecisionStep ==
  ASSUME TxOK, ReportsInv, NEW c \in MrvCallers, RecordDecision(c)
  PROVE  ReportsInv'
<1> DEFINE entry == [decision |-> mrvTx[c].op.decision, by |-> mrvTx[c].op.actor]
<1>1. /\ mrvTx[c].pc = "locked" /\ mrvTx[c].op.kind = "decide" /\ Moves(c, Done) /\ soc' = soc
      /\ mrvTx[c].op.actor \in MrvActors /\ mrvTx[c].op.decision \in Decisions
  BY RequestShape, Zenon DEF RecordDecision, At, Answer, Moves, Done, TxOK, Serving
<1>2. PICK s \in MrvShips :
        /\ s = mrvTx[c].op.ship /\ ReportHeld(mrvTx[c].op) /\ annual[s] \in Report
        /\ decisions[s] \in Ledger /\ soc[s] \in {NoRow} \cup Statement
        /\ LedgerFits(annual[s], decisions[s], soc[s])
        /\ \A d \in MrvCallers \ {c} : ~(mrvTx[d].pc = "locked" /\ mrvTx[d].op.ship = s)
  BY <1>1, Holder, Zenon
<1> DEFINE row == [annual[s] EXCEPT !.state = Outcome(mrvTx[c].op.decision)]
           ledger == Append(decisions[s], entry)
<1>3. /\ annual' = [annual EXCEPT ![s] = row]
      /\ decisions' = [decisions EXCEPT ![s] = ledger]
      /\ soc' = [soc EXCEPT ![s] = soc[s]]
  BY <1>1, <1>2, Zenon DEF RecordDecision, ReportsInv, ReportsTypeOK
<1>4. Outcome(mrvTx[c].op.decision) \in {"SUBMITTED", "VERIFIED", "REJECTED"}
  BY Zenon DEF Outcome
<1>5. /\ row \in Report /\ row.state = Outcome(entry.decision) /\ row.submitter = annual[s].submitter
      /\ entry \in [decision : Decisions, by : MrvActors]
      /\ annual[s].state = "SUBMITTED" /\ entry.by # row.submitter
  BY <1>1, <1>2, <1>4, Zenon DEF Report, ReportHeld
<1>6. ledger \in Ledger
  BY <1>2, <1>5 DEF Ledger
<1>7. LedgerFits(row, ledger, soc[s])
  <2> DEFINE old == decisions[s]
             n == Len(old)
  <2>1. old \in Seq([decision : Decisions, by : MrvActors]) /\ n \in Nat
    BY <1>2 DEF Ledger
  <2> HIDE DEF entry, row
  <2>2. /\ Len(ledger) = n + 1 /\ ledger # <<>> /\ ledger[n + 1] = entry
        /\ \A i \in 1 .. n : ledger[i] = old[i]
    BY <1>5, <2>1
  <2>3. \A i \in 1 .. n : old[i].by # row.submitter /\ old[i].decision = "REQUEST_CLARIFICATION"
    <3> SUFFICES ASSUME NEW i \in 1 .. n
                 PROVE  old[i].by # row.submitter /\ old[i].decision = "REQUEST_CLARIFICATION"
      BY Zenon
    <3>1. old[i].by # row.submitter /\ (i < n => old[i].decision = "REQUEST_CLARIFICATION")
      BY <1>2, <1>5, Zenon DEF LedgerFits
    <3>2. i = n => old[i].decision = "REQUEST_CLARIFICATION"
      <4> SUFFICES ASSUME i = n PROVE old[i].decision = "REQUEST_CLARIFICATION"
        BY Zenon
      <4>1. old # <<>> /\ old[n] \in [decision : Decisions, by : MrvActors]
        <5> DEFINE Entry == [decision : Decisions, by : MrvActors]
        <5>1. old \in Seq(Entry) /\ n \in 1 .. Len(old)
          BY <2>1, Zenon
        <5> HIDE DEF Entry, old, n
        <5>2. old[n] \in Entry /\ old # <<>>
          BY <5>1
        <5> QED BY <5>2, Zenon DEF Entry
      <4>2. Outcome(old[n].decision) = "SUBMITTED"
        BY <1>2, <1>5, <4>1, Zenon DEF LedgerFits
      <4>3. old[n].decision \in Decisions
        BY <4>1, Zenon
      <4> QED BY <4>2, <4>3, Zenon DEF Outcome, Decisions
    <3> QED BY <2>1, <3>1, <3>2
  <2>4. \A i \in 1 .. n + 1 : /\ ledger[i].by # row.submitter
                              /\ i < n + 1 => ledger[i].decision = "REQUEST_CLARIFICATION"
    <3>1. \A i \in 1 .. n + 1 : i \in 1 .. n \/ i = n + 1
      BY <2>1
    <3> HIDE DEF ledger, n
    <3>2. ~(n + 1 < n + 1)
      BY <2>1
    <3>3. \A i \in 1 .. n : ledger[i].by # row.submitter /\ ledger[i].decision = "REQUEST_CLARIFICATION"
      BY <2>2, <2>3, Zenon
    <3>4. ledger[n + 1].by # row.submitter
      BY <1>5, <2>2, Zenon
    <3> TAKE i \in 1 .. n + 1
    <3>5. CASE i \in 1 .. n
      BY <3>3, <3>5, Zenon
    <3>6. CASE i = n + 1
      <4>1. ledger[i].by # row.submitter
        BY <3>4, <3>6, Zenon
      <4>2. ~(i < n + 1)
        BY <3>2, <3>6, Zenon
      <4> QED BY <4>1, <4>2, Zenon
    <3> QED BY <3>1, <3>5, <3>6, Zenon
  <2>5. soc[s] = NoRow /\ row.state = Outcome(ledger[Len(ledger)].decision) /\ row.state \notin {"none", "DRAFT"}
    <3>1. soc[s] = NoRow
      BY <1>2, <1>5, Zenon DEF LedgerFits
    <3>2. ledger[Len(ledger)] = entry
      BY <2>2, Zenon
    <3>3. entry.decision = mrvTx[c].op.decision
      BY Zenon DEF entry
    <3>4. row.state \in {"SUBMITTED", "VERIFIED", "REJECTED"}
      BY <1>4, <1>5, <3>3, Zenon
    <3>5. row.state \notin {"none", "DRAFT"}
      BY <3>4, Zenon
    <3> QED BY <1>5, <3>1, <3>2, <3>5, Zenon
  <2> HIDE DEF ledger, n
  <2> QED BY <2>2, <2>4, <2>5, Zenon DEF LedgerFits
<1> HIDE DEF row, ledger
<1>8. /\ Moves(c, Done) /\ row \in Report /\ soc[s] \in {NoRow} \cup Statement
      /\ \A d \in MrvCallers \ {c} : ~(mrvTx[d].pc = "locked" /\ mrvTx[d].op.ship = s)
  BY <1>1, <1>2, <1>5, Zenon
<1> QED BY <1>3, <1>6, <1>7, <1>8, ReportChanges, Zenon

LEMMA IssueStep ==
  ASSUME TxOK, ReportsInv, NEW c \in MrvCallers, IssueSoC(c)
  PROVE  ReportsInv'
<1>1. /\ mrvTx[c].pc = "locked" /\ mrvTx[c].op.kind = "soc" /\ Moves(c, Done) /\ UNCHANGED <<annual, decisions>>
  BY Zenon DEF IssueSoC, At, Answer, Moves, Done
<1>2. PICK s \in MrvShips :
        /\ s = mrvTx[c].op.ship /\ ReportHeld(mrvTx[c].op) /\ annual[s] \in Report
        /\ decisions[s] \in Ledger /\ soc[s] \in {NoRow} \cup Statement
        /\ LedgerFits(annual[s], decisions[s], soc[s])
        /\ \A d \in MrvCallers \ {c} : ~(mrvTx[d].pc = "locked" /\ mrvTx[d].op.ship = s)
  BY <1>1, Holder, Zenon
<1> DEFINE statement == [state |-> "issued", totals |-> annual[s].totals]
<1>3. soc' = [soc EXCEPT ![s] = statement]
  BY <1>2, Zenon DEF IssueSoC, buildArtifact
<1>4. statement \in {NoRow} \cup Statement /\ statement.totals = annual[s].totals
  BY <1>2, Zenon DEF Report, Statement
<1> HIDE DEF statement
<1>5. annual' = [annual EXCEPT ![s] = annual[s]] /\ decisions' = [decisions EXCEPT ![s] = decisions[s]]
  BY <1>1, Zenon DEF ReportsInv, ReportsTypeOK
<1>6. LedgerFits(annual[s], decisions[s], statement)
  BY <1>1, <1>2, <1>4, Zenon DEF LedgerFits, ReportHeld
<1>7. /\ Moves(c, Done) /\ annual[s] \in Report /\ decisions[s] \in Ledger
      /\ \A d \in MrvCallers \ {c} : ~(mrvTx[d].pc = "locked" /\ mrvTx[d].op.ship = s)
  BY <1>1, <1>2, Zenon
<1> QED BY <1>3, <1>4, <1>5, <1>6, <1>7, ReportChanges, Zenon

(* What lockReport has checked when it goes on. *)
LEMMA ReportErrorNone ==
  ASSUME ReportsInv, NEW op \in MrvRequests, op.kind \in {"submit", "decide", "soc"}, ReportError(op) = "nil"
  PROVE  ReportHeld(op)
<1> DEFINE s == op.ship
<1>1. s \in MrvShips
  BY RequestShape, Zenon
<1>2. annual[s] # NoRow /\ annual[s] \in Report
  BY <1>1, Zenon DEF ReportError, ReportsInv, ReportsTypeOK
<1>3. CASE op.kind = "submit"
  <2> DEFINE a == annual[s].state # "DRAFT"
             b == annual[s].state = "DRAFT" /\ annual[s].by # op.actor
  <2>1. a \in BOOLEAN /\ b \in BOOLEAN
    BY Zenon
  <2>2. FirstError(<< <<a, "ErrReportState">>, <<b, "notMaker">> >>) = "nil"
    BY <1>2, <1>3, Zenon DEF ReportError, SubmitError
  <2> HIDE DEF a, b
  <2>3. ~a
    BY <2>1, <2>2, FirstErrorOfTwo
  <2> QED BY <1>3, <2>3, Zenon DEF a, ReportHeld
<1>4. CASE op.kind = "decide"
  <2> DEFINE open == annual[s].state \in {"SUBMITTED", "VERIFIER_REVIEW"}
             a == ~open
             b == open /\ annual[s].submitter = op.actor
  <2>1. a \in BOOLEAN /\ b \in BOOLEAN
    BY Zenon
  <2>2. FirstError(<< <<a, "ErrReportState">>, <<b, "ErrMakerCheckerConflict">> >>) = "nil"
    BY <1>2, <1>4, Zenon DEF ReportError, DecisionError
  <2> HIDE DEF a, b
  <2>3. ~a /\ ~b
    BY <2>1, <2>2, FirstErrorOfTwo
  <2> QED BY <1>2, <1>4, <2>3, Zenon DEF a, b, ReportHeld, Report
<1>5. CASE op.kind = "soc"
  <2> DEFINE a == annual[s].state # "VERIFIED"
             b == soc[s] # NoRow
  <2>1. a \in BOOLEAN /\ b \in BOOLEAN
    BY Zenon
  <2>2. FirstError(<< <<a, "ErrReportState">>, <<b, "ErrSoCExists">> >>) = "nil"
    BY <1>2, <1>5, Zenon DEF ReportError, SoCError
  <2> HIDE DEF a, b
  <2>3. ~a /\ ~b
    BY <2>1, <2>2, FirstErrorOfTwo
  <2> QED BY <1>5, <2>3, Zenon DEF a, b, ReportHeld
<1> QED BY <1>3, <1>4, <1>5, Zenon

LEMMA LockReportStep ==
  ASSUME TxOK, ReportsInv, NEW c \in MrvCallers, lockReport(c)
  PROVE  ReportsInv'
<1> DEFINE x == Continues(c, "locked", {})
<1>1. /\ mrvTx[c].op \in MrvRequests /\ mrvTx[c].op.kind \in {"submit", "decide", "soc"}
      /\ ~ReportLocked(mrvTx[c].op.ship)
      /\ Proceed(c, ReportError(mrvTx[c].op), "locked", {})
  BY Zenon DEF lockReport, TxOK, Serving
<1>2. /\ UNCHANGED <<annual, decisions, soc>>
      /\ Moves(c, Done) \/ (ReportError(mrvTx[c].op) = "nil" /\ Moves(c, x))
  BY <1>1, ProceedMoves, Zenon DEF mrvTables
<1>3. CASE Moves(c, Done)
  BY <1>2, <1>3, ReportsKeptDone, Zenon
<1>4. CASE ReportError(mrvTx[c].op) = "nil" /\ Moves(c, x)
  <2>1. x.pc = "locked" /\ x.op = mrvTx[c].op
    BY Zenon DEF Continues
  <2> HIDE DEF x
  <2>2. \A d \in MrvCallers : mrvTx'[d] = IF d = c THEN x ELSE mrvTx[d]
    BY <1>4, MovesTo, Zenon
  <2>3. ReportHeld(mrvTx[c].op)
    BY <1>1, <1>4, ReportErrorNone, Zenon
  <2>4. \A d \in MrvCallers : mrvTx'[d].pc = "locked" => ReportHeld(mrvTx[d].op)'
    <3>1. ASSUME NEW d \in MrvCallers, mrvTx'[d].pc = "locked"
          PROVE  ReportHeld(mrvTx'[d].op)
      BY <2>1, <2>2, <2>3, <3>1, Zenon DEF ReportsInv
    <3> QED BY <1>2, <3>1, Zenon DEF ReportHeld
  <2>5. \A d, e \in MrvCallers :
          mrvTx'[d].pc = "locked" /\ mrvTx'[e].pc = "locked" /\ mrvTx'[d].op.ship = mrvTx'[e].op.ship => d = e
    BY <1>1, <2>1, <2>2 DEF ReportsInv, ReportLocked
  <2>6. \A d \in MrvCallers : Compiling(d)' => mrvTx'[d].read \in SUBSET MrvKeys
    BY <2>1, <2>2, Zenon DEF ReportsInv, Compiling
  <2>7. ReportsTypeOK' /\ \A s \in MrvShips : LedgerFits(annual'[s], decisions'[s], soc'[s])
    BY <1>2, Zenon DEF ReportsInv, ReportsTypeOK
  <2> QED BY <2>4, <2>5, <2>6, <2>7, Zenon DEF ReportsInv
<1> QED BY <1>2, <1>3, <1>4, Zenon

LEMMA ReportsInitInv == MrvInit => ReportsInv
<1> SUFFICES ASSUME MrvInit PROVE ReportsInv
  BY Zenon
<1>1. ReportsTypeOK
  BY DEF MrvInit, ReportsTypeOK, Ledger
<1>2. \A c \in MrvCallers : mrvTx[c].pc = "done"
  BY Zenon DEF MrvInit
<1>3. ASSUME NEW s \in MrvShips PROVE LedgerFits(annual[s], decisions[s], soc[s])
  <2>1. annual[s] = NoRow /\ decisions[s] = <<>> /\ soc[s] = NoRow /\ NoRow.state = "none"
    BY Zenon DEF MrvInit, NoRow
  <2> QED BY <2>1 DEF LedgerFits
<1> QED BY <1>1, <1>2, <1>3, Zenon DEF ReportsInv, Compiling

LEMMA ReportsStep == TxOK /\ ReportsInv /\ [MrvNext]_mrvVars => ReportsInv'
<1> SUFFICES ASSUME TxOK, ReportsInv, [MrvNext]_mrvVars PROVE ReportsInv'
  BY Zenon
<1>1. CASE UNCHANGED mrvVars
  BY <1>1, Zenon DEF mrvVars, ReportsInv, ReportsTypeOK, Compiling, ReportHeld
<1>2. ASSUME NEW c \in MrvCallers, NEW op \in MrvRequests, BeginRequest(c, op)
      PROVE  ReportsInv'
  <2> DEFINE x == [pc |-> "begun", op |-> op]
  <2>1. x.pc = "begun" /\ Moves(c, x) /\ UNCHANGED <<annual, decisions, soc>>
    BY <1>2, BeginMoves, Zenon DEF mrvTables
  <2> HIDE DEF x
  <2> QED BY <2>1, ReportsKept, Zenon
<1>3. ASSUME NEW c \in MrvCallers, NEW err, NEW pc \in {"insert", "find", "scan", "confirm"}, NEW read,
             Proceed(c, err, pc, read),
             pc \in {"find", "insert"} /\ mrvTx[c].op.kind = "compile" => read \in SUBSET MrvKeys
      PROVE  ReportsInv'
  <2> DEFINE x == Continues(c, pc, read)
  <2>1. UNCHANGED <<annual, decisions, soc>> /\ (Moves(c, Done) \/ Moves(c, x))
    BY <1>3, ProceedMoves, Zenon DEF mrvTables
  <2>2. x.pc = pc /\ x.op = mrvTx[c].op /\ x.read = read
    BY Zenon DEF Continues
  <2> HIDE DEF x
  <2> QED BY <1>3, <2>1, <2>2, ReportsKept, ReportsKeptDone, Zenon
<1>4. ASSUME NEW c \in MrvCallers, MrvStep(c)
      PROVE  ReportsInv'
  <2>1. CASE RegisterShip(c) \/ PutMonitoringPlan(c) \/ ConfirmMonitoringPlan(c) \/ SubmitFuelReport(c) \/ RollbackRequest(c)
    <3>1. Moves(c, Done) /\ UNCHANGED <<annual, decisions, soc>>
      BY <2>1, Zenon DEF RegisterShip, PutMonitoringPlan, ConfirmMonitoringPlan, SubmitFuelReport, RollbackRequest,
                  Answer, Moves, Done, mrvTables
    <3> QED BY <3>1, ReportsKeptDone, Zenon
  <2>2. CASE ReadVersion(c)
    BY <1>3, <2>2, Zenon DEF ReadVersion, At
  <2>3. CASE CheckFuelReport(c)
    BY <1>3, <2>3, Zenon DEF CheckFuelReport, At
  <2>4. CASE LockPlan(c)
    BY <1>3, <2>4, Zenon DEF LockPlan, At
  <2>5. CASE ScanConfirmed(c)
    BY <1>3, <2>5, Zenon DEF ScanConfirmed, At
  <2>6. CASE ReadFuelReports(c)
    BY <1>3, <2>6, Zenon DEF ReadFuelReports, YearRows
  <2>7. CASE FindReport(c)
    <3>1. mrvTx[c].read \in SUBSET MrvKeys
      BY <2>7, Zenon DEF FindReport, At, ReportsInv, Compiling
    <3> QED BY <1>3, <2>7, <3>1, Zenon DEF FindReport
  <2> QED BY <1>4, <2>1, <2>2, <2>3, <2>4, <2>5, <2>6, <2>7, CompileStep, LockReportStep, SubmitStep,
             DecisionStep, IssueStep, Zenon
          DEF MrvStep
<1> QED BY <1>1, <1>2, <1>4, Zenon DEF MrvNext

(***************************************************************************)
(* lockReport serializes the requests on a report, for any number of them: *)
(* the state of the report is what the ledger says, nothing follows a      *)
(* final decision, nobody decides on what they submitted, and a statement  *)
(* is about the totals that were verified.                                 *)
(***************************************************************************)
THEOREM LedgersExplainStates == MrvSpec => []LedgerExplainsState
<1>1. MrvInit => TxOK /\ ReportsInv
  BY PlansInitInv, ReportsInitInv, Zenon
<1>2. (TxOK /\ ReportsInv) /\ [MrvNext]_mrvVars => (TxOK /\ ReportsInv)'
  BY TxStep, ReportsStep, Zenon
<1>3. ReportsInv => LedgerExplainsState
  <2> SUFFICES ASSUME ReportsInv, NEW s \in MrvShips
               PROVE  /\ decisions[s] # <<>> => annual[s].state = Outcome(decisions[s][Len(decisions[s])].decision)
                      /\ decisions[s] = <<>> /\ annual[s] # NoRow => annual[s].state \in {"DRAFT", "SUBMITTED"}
                      /\ \A i \in DOMAIN decisions[s] :
                           /\ decisions[s][i].by # annual[s].submitter
                           /\ i < Len(decisions[s]) => decisions[s][i].decision = "REQUEST_CLARIFICATION"
                      /\ soc[s] # NoRow => annual[s].state = "VERIFIED" /\ soc[s].totals = annual[s].totals
    BY Zenon DEF LedgerExplainsState
  <2>1. LedgerFits(annual[s], decisions[s], soc[s]) /\ annual[s] \in {NoRow} \cup Report
    BY Zenon DEF ReportsInv, ReportsTypeOK
  <2>2. DOMAIN decisions[s] = 1 .. Len(decisions[s])
    BY DEF ReportsInv, ReportsTypeOK, Ledger
  <2>3. annual[s] # NoRow => annual[s].state # "none"
    BY <2>1, Zenon DEF Report
  <2> QED BY <2>1, <2>2, <2>3, Zenon DEF LedgerFits
<1> QED BY <1>1, <1>2, <1>3, PTL DEF MrvSpec

-----------------------------------------------------------------------------
(* Counting. *)

INSTANCE FiniteSetTheorems

(* How often x is in seq. *)
Occurrences(seq, x) == Cardinality({i \in DOMAIN seq : seq[i] = x})

LEMMA OccurrencesEmpty ==
  ASSUME NEW x
  PROVE  Occurrences(<<>>, x) = 0
<1>1. {i \in DOMAIN <<>> : <<>>[i] = x} = {}
  OBVIOUS
<1> QED BY <1>1, FS_EmptySet, Zenon DEF Occurrences

(* An element that is appended is counted once. *)
LEMMA OccurrencesAppend ==
  ASSUME NEW S, NEW seq \in Seq(S), NEW e \in S, NEW x
  PROVE  /\ Occurrences(seq, x) \in Nat
         /\ Occurrences(Append(seq, e), x) = Occurrences(seq, x) + (IF e = x THEN 1 ELSE 0)
<1> DEFINE at == {i \in DOMAIN seq : seq[i] = x}
           n == Len(seq) + 1
<1>1. IsFiniteSet(at) /\ Cardinality(at) \in Nat
  <2>1. DOMAIN seq = 1 .. Len(seq) /\ Len(seq) \in Nat
    OBVIOUS
  <2>2. IsFiniteSet(1 .. Len(seq))
    BY <2>1, FS_Interval
  <2>3. at \subseteq 1 .. Len(seq)
    BY <2>1, Zenon
  <2> HIDE DEF at
  <2> QED BY <2>2, <2>3, FS_Subset, FS_CardinalityType, Zenon
<1>2. n \notin at
  OBVIOUS
<1>3. {i \in DOMAIN Append(seq, e) : Append(seq, e)[i] = x} = IF e = x THEN at \cup {n} ELSE at
  <2>1. /\ DOMAIN Append(seq, e) = 1 .. n /\ DOMAIN seq = 1 .. Len(seq) /\ Len(seq) \in Nat
        /\ Append(seq, e)[n] = e
        /\ \A i \in 1 .. Len(seq) : Append(seq, e)[i] = seq[i]
    OBVIOUS
  <2>2. \A i \in 1 .. n : i \in 1 .. Len(seq) \/ i = n
    BY <2>1
  <2>3. n \in 1 .. n /\ \A i \in 1 .. Len(seq) : i \in 1 .. n
    BY <2>1
  <2> DEFINE more == Append(seq, e)
  <2> HIDE DEF n, more
  <2> QED BY <2>1, <2>2, <2>3, Zenon DEF more
<1> HIDE DEF n
<1>4. Cardinality(at \cup {n}) = Cardinality(at) + 1
  <2> HIDE DEF at
  <2> QED BY <1>1, <1>2, FS_AddElement, Zenon
<1>5. Occurrences(seq, x) = Cardinality(at)
  BY Zenon DEF Occurrences
<1>6. Occurrences(Append(seq, e), x) = Cardinality(IF e = x THEN at \cup {n} ELSE at)
  BY <1>3, Zenon DEF Occurrences
<1> HIDE DEF at
<1> QED BY <1>1, <1>4, <1>5, <1>6

-----------------------------------------------------------------------------
(* The events. *)

(* The events: one per row and transition, in the counts that ReportingIsAnnounced has. *)
EventTypes == {"fuel", "annual", "verification", "soc"}

Event(type, s) == [type |-> type, ship |-> s]

FuelKeys(s) == {k \in MrvKeys : fuel[k] # NoRow /\ fuel[k].ship = s}

Announced(s) ==
  /\ IsFiniteSet(FuelKeys(s)) /\ Occurrences(mrvOutbox, Event("fuel", s)) = Cardinality(FuelKeys(s))
  /\ Occurrences(mrvOutbox, Event("annual", s)) =
       IF annual[s].state = "none" THEN 0 ELSE IF annual[s].state = "DRAFT" THEN 1 ELSE 2
  /\ Occurrences(mrvOutbox, Event("verification", s)) = Len(decisions[s])
  /\ Occurrences(mrvOutbox, Event("soc", s)) = IF soc[s] = NoRow THEN 0 ELSE 1

EventsInv ==
  /\ mrvOutbox \in Seq([type : EventTypes, ship : MrvShips])
  /\ DOMAIN fuel = MrvKeys
  /\ \A s \in MrvShips : Announced(s)

MrvInv == TxOK /\ PlansInv /\ ReportsInv /\ EventsInv

(* One more event of its type about its ship, and no more of any other. *)
LEMMA EventAppended ==
  ASSUME EventsInv, NEW type \in EventTypes, NEW s \in MrvShips, enqueueOutbox(type, s)
  PROVE  /\ mrvOutbox' \in Seq([type : EventTypes, ship : MrvShips])
         /\ \A other \in EventTypes, t \in MrvShips :
              /\ Occurrences(mrvOutbox, Event(other, t)) \in Nat
              /\ Occurrences(mrvOutbox', Event(other, t)) =
                   Occurrences(mrvOutbox, Event(other, t)) + (IF other = type /\ t = s THEN 1 ELSE 0)
<1> DEFINE Events == [type : EventTypes, ship : MrvShips]
           new == Event(type, s)
<1>1. mrvOutbox \in Seq(Events) /\ new \in Events /\ mrvOutbox' = Append(mrvOutbox, new)
  BY Zenon DEF EventsInv, EventTypes, Event, enqueueOutbox
<1>2. \A other \in EventTypes, t \in MrvShips : new = Event(other, t) <=> other = type /\ t = s
  BY Zenon DEF Event
<1> HIDE DEF Events, new
<1>3. mrvOutbox' \in Seq(Events)
  BY <1>1
<1>4. \A x : /\ Occurrences(mrvOutbox, x) \in Nat
             /\ Occurrences(mrvOutbox', x) = Occurrences(mrvOutbox, x) + (IF new = x THEN 1 ELSE 0)
  BY <1>1, OccurrencesAppend
<1>5. ASSUME NEW other \in EventTypes, NEW t \in MrvShips
      PROVE  /\ Occurrences(mrvOutbox, Event(other, t)) \in Nat
             /\ Occurrences(mrvOutbox', Event(other, t)) =
                  Occurrences(mrvOutbox, Event(other, t)) + (IF other = type /\ t = s THEN 1 ELSE 0)
  BY <1>2, <1>4, Zenon
<1> QED BY <1>3, <1>5, Zenon DEF Events

LEMMA EventsInitInv == MrvInit => EventsInv
<1> SUFFICES ASSUME MrvInit PROVE EventsInv
  BY Zenon
<1>1. mrvOutbox = <<>> /\ DOMAIN fuel = MrvKeys
  BY Zenon DEF MrvInit
<1>2. ASSUME NEW s \in MrvShips PROVE Announced(s)
  <2>1. FuelKeys(s) = {}
    BY Zenon DEF FuelKeys, MrvInit
  <2>2. \A x : Occurrences(mrvOutbox, x) = 0
    BY <1>1, OccurrencesEmpty, Zenon
  <2>3. annual[s].state = "none" /\ Len(decisions[s]) = 0 /\ soc[s] = NoRow
    BY Zenon DEF MrvInit, NoRow
  <2> QED BY <2>1, <2>2, <2>3, FS_EmptySet, Zenon DEF Announced
<1> QED BY <1>1, <1>2 DEF EventsInv

LEMMA EventsKept ==
  ASSUME EventsInv, UNCHANGED <<fuel, annual, decisions, soc, mrvOutbox>>
  PROVE  EventsInv'
BY Zenon DEF EventsInv, Announced, FuelKeys

(* SubmitFuelReport: the key is new, so that the ship has one row more. *)
LEMMA FuelEvent ==
  ASSUME TxOK, EventsInv, NEW c \in MrvCallers, SubmitFuelReport(c)
  PROVE  EventsInv'
<1> DEFINE op == mrvTx[c].op
<1>1. PICK s \in MrvShips, k \in MrvKeys : s = op.ship /\ k = op.key
  BY RequestShape, Zenon DEF SubmitFuelReport, At, TxOK, Serving
<1>2. CASE fuel[op.key] # NoRow
  BY <1>2, EventsKept, Zenon DEF SubmitFuelReport
<1>3. CASE fuel[op.key] = NoRow
  <2> DEFINE row == FuelRow(op)
  <2>1. /\ fuel' = [fuel EXCEPT ![k] = row] /\ enqueueOutbox("fuel", s)
        /\ UNCHANGED <<annual, decisions, soc>> /\ fuel[k] = NoRow
    BY <1>1, <1>3, Zenon DEF SubmitFuelReport
  <2>2. row # NoRow /\ row.ship = s
    BY <1>1, Zenon DEF FuelRow, NoRow
  <2> HIDE DEF row
  <2>3. /\ mrvOutbox' \in Seq([type : EventTypes, ship : MrvShips])
        /\ \A other \in EventTypes, t \in MrvShips :
             /\ Occurrences(mrvOutbox, Event(other, t)) \in Nat
             /\ Occurrences(mrvOutbox', Event(other, t)) =
                  Occurrences(mrvOutbox, Event(other, t)) + (IF other = "fuel" /\ t = s THEN 1 ELSE 0)
    BY <2>1, EventAppended, ZenonT(40) DEF EventTypes
  <2>4. ASSUME NEW t \in MrvShips PROVE Announced(t)'
    <3>1. FuelKeys(t)' = IF t = s THEN FuelKeys(t) \cup {k} ELSE FuelKeys(t)
      BY <2>1, <2>2, Zenon DEF FuelKeys, EventsInv
    <3>2. k \notin FuelKeys(t) /\ IsFiniteSet(FuelKeys(t))
      BY <2>1, Zenon DEF FuelKeys, EventsInv, Announced
    <3> DEFINE old == FuelKeys(t)
    <3>3. /\ IsFiniteSet(FuelKeys(t)')
          /\ Cardinality(FuelKeys(t)') = Cardinality(old) + (IF t = s THEN 1 ELSE 0)
      <4> HIDE DEF old
      <4>1. /\ IsFiniteSet(old \cup {k}) /\ Cardinality(old \cup {k}) = Cardinality(old) + 1
            /\ Cardinality(old) \in Nat
        BY <3>2, FS_AddElement, FS_CardinalityType, Zenon DEF old
      <4> QED BY <3>1, <3>2, <4>1 DEF old
    <3>4. /\ "fuel" \in EventTypes
          /\ \A other \in EventTypes \ {"fuel"} :
               Occurrences(mrvOutbox', Event(other, t)) = Occurrences(mrvOutbox, Event(other, t))
      <4>1. "fuel" \in EventTypes
        BY Zenon DEF EventTypes
      <4> QED BY <2>3, <4>1
    <3>5. Occurrences(mrvOutbox', Event("fuel", t)) =
            Occurrences(mrvOutbox, Event("fuel", t)) + (IF t = s THEN 1 ELSE 0)
      BY <2>3, <3>4, Zenon
    <3>6. Occurrences(mrvOutbox', Event("fuel", t)) = Cardinality(FuelKeys(t)')
      BY <3>3, <3>5, Zenon DEF EventsInv, Announced
    <3>7. {"annual", "verification", "soc"} \subseteq EventTypes \ {"fuel"}
      BY Zenon DEF EventTypes
    <3>8. /\ Occurrences(mrvOutbox', Event("annual", t)) = Occurrences(mrvOutbox, Event("annual", t))
          /\ Occurrences(mrvOutbox', Event("verification", t)) = Occurrences(mrvOutbox, Event("verification", t))
          /\ Occurrences(mrvOutbox', Event("soc", t)) = Occurrences(mrvOutbox, Event("soc", t))
      BY <3>4, <3>7, Zenon
    <3> QED BY <2>1, <3>3, <3>6, <3>8, Zenon DEF Announced, EventsInv
  <2>5. DOMAIN fuel' = MrvKeys
    BY <2>1, Zenon DEF EventsInv
  <2> QED BY <2>3, <2>4, <2>5, Zenon DEF EventsInv
<1> QED BY <1>2, <1>3, Zenon

(* The events a report has had: none, its compilation, or its submission too. *)
Submissions(row) == IF row.state = "none" THEN 0 ELSE IF row.state = "DRAFT" THEN 1 ELSE 2
Statements(row) == IF row = NoRow THEN 0 ELSE 1

(* A request that changes the records of the report of s in one respect, with its event. *)
LEMMA ReportEvent ==
  ASSUME EventsInv, NEW type \in EventTypes \ {"fuel"}, NEW s \in MrvShips, enqueueOutbox(type, s),
         UNCHANGED fuel,
         \A t \in MrvShips \ {s} : annual'[t] = annual[t] /\ decisions'[t] = decisions[t] /\ soc'[t] = soc[t],
         Submissions(annual'[s]) = Submissions(annual[s]) + (IF type = "annual" THEN 1 ELSE 0),
         Len(decisions'[s]) = Len(decisions[s]) + (IF type = "verification" THEN 1 ELSE 0),
         Statements(soc'[s]) = Statements(soc[s]) + (IF type = "soc" THEN 1 ELSE 0)
  PROVE  EventsInv'
<1>1. /\ mrvOutbox' \in Seq([type : EventTypes, ship : MrvShips])
      /\ \A other \in EventTypes, t \in MrvShips :
           /\ Occurrences(mrvOutbox, Event(other, t)) \in Nat
           /\ Occurrences(mrvOutbox', Event(other, t)) =
                Occurrences(mrvOutbox, Event(other, t)) + (IF other = type /\ t = s THEN 1 ELSE 0)
  BY EventAppended, Zenon
<1>2. ASSUME NEW t \in MrvShips PROVE Announced(t)'
  <2>1. FuelKeys(t)' = FuelKeys(t)
    BY Zenon DEF FuelKeys
  <2>2. /\ Occurrences(mrvOutbox', Event("fuel", t)) = Occurrences(mrvOutbox, Event("fuel", t))
        /\ IsFiniteSet(FuelKeys(t)) /\ Occurrences(mrvOutbox, Event("fuel", t)) = Cardinality(FuelKeys(t))
    <3>1. "fuel" \in EventTypes /\ type # "fuel"
      BY Zenon DEF EventTypes
    <3>2. Occurrences(mrvOutbox', Event("fuel", t)) = Occurrences(mrvOutbox, Event("fuel", t)) + 0
      BY <1>1, <3>1, Zenon
    <3>3. Occurrences(mrvOutbox, Event("fuel", t)) \in Nat
      BY <1>1, <3>1, Zenon
    <3>4. IsFiniteSet(FuelKeys(t)) /\ Occurrences(mrvOutbox, Event("fuel", t)) = Cardinality(FuelKeys(t))
      BY Zenon DEF EventsInv, Announced
    <3> QED BY <3>2, <3>3, <3>4
  <2>3. /\ Occurrences(mrvOutbox, Event("annual", t)) = Submissions(annual[t])
        /\ Occurrences(mrvOutbox, Event("verification", t)) = Len(decisions[t])
        /\ Occurrences(mrvOutbox, Event("soc", t)) = Statements(soc[t])
    BY Zenon DEF EventsInv, Announced, Submissions, Statements
  <2>4. /\ Occurrences(mrvOutbox', Event("annual", t)) = Submissions(annual'[t])
        /\ Occurrences(mrvOutbox', Event("verification", t)) = Len(decisions'[t])
        /\ Occurrences(mrvOutbox', Event("soc", t)) = Statements(soc'[t])
    <3>1. CASE t = s
      BY <1>1, <2>3, <3>1, Zenon DEF EventTypes
    <3>2. CASE t # s
      <4>1. {"annual", "verification", "soc"} \subseteq EventTypes
        BY Zenon DEF EventTypes
      <4>2. \A other \in EventTypes :
              Occurrences(mrvOutbox', Event(other, t)) = Occurrences(mrvOutbox, Event(other, t))
        BY <1>1, <3>2
      <4> QED BY <2>3, <3>2, <4>1, <4>2, Zenon
    <3> QED BY <3>1, <3>2, Zenon
  <2> QED BY <2>1, <2>2, <2>4, Zenon DEF Announced, Submissions, Statements
<1> QED BY <1>1, <1>2, Zenon DEF EventsInv

LEMMA CompileEvent ==
  ASSUME TxOK, ReportsInv, EventsInv, NEW c \in MrvCallers, CompileAnnualReport(c)
  PROVE  EventsInv'
<1>1. PICK s \in MrvShips : s = mrvTx[c].op.ship
  BY RequestShape, Zenon DEF CompileAnnualReport, At, TxOK, Serving
<1>2. CASE annual[s] # NoRow
  BY <1>1, <1>2, EventsKept, Zenon DEF CompileAnnualReport
<1>3. CASE annual[s] = NoRow
  <2> DEFINE row == [state |-> "DRAFT", by |-> mrvTx[c].op.actor, submitter |-> "none", totals |-> mrvTx[c].read]
  <2>1. annual' = [annual EXCEPT ![s] = row] /\ enqueueOutbox("annual", s) /\ UNCHANGED <<fuel, decisions, soc>>
    BY <1>1, <1>3, Zenon DEF CompileAnnualReport
  <2>2. Submissions(row) = 1 /\ Submissions(annual[s]) = 0
    BY <1>3 DEF Submissions, NoRow
  <2> HIDE DEF row
  <2>3. \A t \in MrvShips : annual'[t] = IF t = s THEN row ELSE annual[t]
    BY <2>1, Zenon DEF ReportsInv, ReportsTypeOK
  <2>4. Len(decisions[s]) \in Nat /\ Statements(soc[s]) \in Nat
    BY DEF ReportsInv, ReportsTypeOK, Ledger, Statements
  <2>5. "annual" \in EventTypes \ {"fuel"}
    BY Zenon DEF EventTypes
  <2>6. /\ \A t \in MrvShips \ {s} : annual'[t] = annual[t] /\ decisions'[t] = decisions[t] /\ soc'[t] = soc[t]
        /\ Submissions(annual'[s]) = Submissions(annual[s]) + 1
        /\ Len(decisions'[s]) = Len(decisions[s]) + 0
        /\ Statements(soc'[s]) = Statements(soc[s]) + 0
    BY <2>1, <2>2, <2>3, <2>4
  <2> QED BY <2>1, <2>5, <2>6, ReportEvent, Zenon
<1> QED BY <1>2, <1>3, Zenon

(* The requests that hold the row of the report. *)
LEMMA LockedEvent ==
  ASSUME TxOK, ReportsInv, EventsInv, NEW c \in MrvCallers,
         SubmitAnnualReport(c) \/ RecordDecision(c) \/ IssueSoC(c)
  PROVE  EventsInv'
<1>1. mrvTx[c].pc = "locked"
  BY Zenon DEF SubmitAnnualReport, RecordDecision, IssueSoC, At
<1>2. PICK s \in MrvShips :
        /\ s = mrvTx[c].op.ship /\ ReportHeld(mrvTx[c].op) /\ annual[s] \in Report
        /\ decisions[s] \in Ledger /\ soc[s] \in {NoRow} \cup Statement
        /\ LedgerFits(annual[s], decisions[s], soc[s])
        /\ \A d \in MrvCallers \ {c} : ~(mrvTx[d].pc = "locked" /\ mrvTx[d].op.ship = s)
  BY <1>1, Holder, Zenon
<1>3. /\ Len(decisions[s]) \in Nat /\ Statements(soc[s]) \in Nat /\ Submissions(annual[s]) \in Nat
      /\ {"annual", "verification", "soc"} \subseteq EventTypes \ {"fuel"}
  <2>1. Len(decisions[s]) \in Nat
    BY <1>2 DEF Ledger
  <2>2. Statements(soc[s]) \in Nat
    BY ZenonT(40) DEF Statements
  <2>3. Submissions(annual[s]) \in Nat
    BY Zenon DEF Submissions
  <2>4. {"annual", "verification", "soc"} \subseteq EventTypes \ {"fuel"}
    BY Zenon DEF EventTypes
  <2> QED BY <2>1, <2>2, <2>3, <2>4, Zenon
<1>4. CASE SubmitAnnualReport(c)
  <2> DEFINE row == [annual[s] EXCEPT !.state = "SUBMITTED", !.submitter = mrvTx[c].op.actor]
  <2>1. annual' = [annual EXCEPT ![s] = row] /\ enqueueOutbox("annual", s) /\ UNCHANGED <<fuel, decisions, soc>>
    BY <1>2, <1>4, Zenon DEF SubmitAnnualReport, ReportsInv, ReportsTypeOK
  <2>2. Submissions(row) = 2 /\ Submissions(annual[s]) = 1
    BY <1>2, <1>4, Zenon DEF Submissions, Report, ReportHeld, SubmitAnnualReport, At
  <2> HIDE DEF row
  <2>3. \A t \in MrvShips : annual'[t] = IF t = s THEN row ELSE annual[t]
    BY <2>1, Zenon DEF ReportsInv, ReportsTypeOK
  <2>4. /\ \A t \in MrvShips \ {s} : annual'[t] = annual[t] /\ decisions'[t] = decisions[t] /\ soc'[t] = soc[t]
        /\ Submissions(annual'[s]) = Submissions(annual[s]) + 1
        /\ Len(decisions'[s]) = Len(decisions[s]) + 0
        /\ Statements(soc'[s]) = Statements(soc[s]) + 0
    BY <1>3, <2>1, <2>2, <2>3
  <2> QED BY <1>3, <2>1, <2>4, ReportEvent, Zenon
<1>5. CASE RecordDecision(c)
  <2> DEFINE row == [annual[s] EXCEPT !.state = Outcome(mrvTx[c].op.decision)]
             ledger == Append(decisions[s], [decision |-> mrvTx[c].op.decision, by |-> mrvTx[c].op.actor])
  <2>1. /\ annual' = [annual EXCEPT ![s] = row] /\ decisions' = [decisions EXCEPT ![s] = ledger]
        /\ enqueueOutbox("verification", s) /\ UNCHANGED <<fuel, soc>>
    BY <1>2, <1>5, Zenon DEF RecordDecision, ReportsInv, ReportsTypeOK
  <2>2. Outcome(mrvTx[c].op.decision) \notin {"none", "DRAFT"}
    BY Zenon DEF Outcome
  <2>3. Submissions(row) = 2 /\ Submissions(annual[s]) = 2
    BY <1>2, <1>5, <2>2, Zenon DEF Submissions, Report, ReportHeld, RecordDecision, At
  <2>4. Len(ledger) = Len(decisions[s]) + 1
    <3> DEFINE seq == decisions[s]
               entry == [decision |-> mrvTx[c].op.decision, by |-> mrvTx[c].op.actor]
    <3>1. \E S : seq \in Seq(S)
      BY <1>2, Zenon DEF Ledger
    <3> HIDE DEF seq, entry
    <3>2. Len(Append(seq, entry)) = Len(seq) + 1
      BY <3>1
    <3> QED BY <3>2, Zenon DEF seq, entry
  <2> HIDE DEF row, ledger
  <2>5. \A t \in MrvShips : /\ annual'[t] = IF t = s THEN row ELSE annual[t]
                            /\ decisions'[t] = IF t = s THEN ledger ELSE decisions[t]
    BY <2>1, Zenon DEF ReportsInv, ReportsTypeOK
  <2>6. /\ \A t \in MrvShips \ {s} : annual'[t] = annual[t] /\ decisions'[t] = decisions[t] /\ soc'[t] = soc[t]
        /\ Submissions(annual'[s]) = Submissions(annual[s]) + 0
        /\ Len(decisions'[s]) = Len(decisions[s]) + 1
        /\ Statements(soc'[s]) = Statements(soc[s]) + 0
    BY <1>3, <2>1, <2>3, <2>4, <2>5
  <2> QED BY <1>3, <2>1, <2>6, ReportEvent, Zenon
<1>6. CASE IssueSoC(c)
  <2> DEFINE statement == buildArtifact(s)
  <2>1. soc' = [soc EXCEPT ![s] = statement] /\ enqueueOutbox("soc", s) /\ UNCHANGED <<fuel, annual, decisions>>
    BY <1>2, <1>6, Zenon DEF IssueSoC
  <2>2. Statements(statement) = 1 /\ Statements(soc[s]) = 0
    BY <1>2, <1>6, Zenon DEF Statements, buildArtifact, NoRow, ReportHeld, IssueSoC, At
  <2> HIDE DEF statement
  <2>3. \A t \in MrvShips : soc'[t] = IF t = s THEN statement ELSE soc[t]
    BY <2>1, Zenon DEF ReportsInv, ReportsTypeOK
  <2>4. /\ \A t \in MrvShips \ {s} : annual'[t] = annual[t] /\ decisions'[t] = decisions[t] /\ soc'[t] = soc[t]
        /\ Submissions(annual'[s]) = Submissions(annual[s]) + 0
        /\ Len(decisions'[s]) = Len(decisions[s]) + 0
        /\ Statements(soc'[s]) = Statements(soc[s]) + 1
    BY <1>3, <2>1, <2>2, <2>3
  <2> QED BY <1>3, <2>1, <2>4, ReportEvent, Zenon
<1> QED BY <1>4, <1>5, <1>6, Zenon

LEMMA EventsStep == TxOK /\ ReportsInv /\ EventsInv /\ [MrvNext]_mrvVars => EventsInv'
<1> SUFFICES ASSUME TxOK, ReportsInv, EventsInv, [MrvNext]_mrvVars PROVE EventsInv'
  BY Zenon
<1>1. CASE UNCHANGED mrvVars
  BY <1>1, EventsKept, Zenon DEF mrvVars
<1>2. ASSUME NEW c \in MrvCallers, NEW op \in MrvRequests, BeginRequest(c, op)
      PROVE  EventsInv'
  BY <1>2, EventsKept, BeginMoves, Zenon DEF mrvTables
<1>3. ASSUME NEW c \in MrvCallers, MrvStep(c)
      PROVE  EventsInv'
  <2>1. CASE RegisterShip(c) \/ PutMonitoringPlan(c) \/ ConfirmMonitoringPlan(c) \/ RollbackRequest(c)
    BY <2>1, EventsKept, Zenon DEF RegisterShip, PutMonitoringPlan, ConfirmMonitoringPlan, RollbackRequest, mrvTables
  <2>2. CASE ReadVersion(c) \/ LockPlan(c) \/ ScanConfirmed(c)
    BY <2>2, EventsKept, Zenon DEF ReadVersion, LockPlan, ScanConfirmed, Proceed, mrvTables
  <2>3. CASE CheckFuelReport(c) \/ ReadFuelReports(c) \/ FindReport(c) \/ lockReport(c)
    BY <2>3, EventsKept, Zenon DEF CheckFuelReport, ReadFuelReports, FindReport, lockReport, Proceed, mrvTables
  <2> QED BY <1>3, <2>1, <2>2, <2>3, FuelEvent, CompileEvent, LockedEvent, Zenon DEF MrvStep
<1> QED BY <1>1, <1>2, <1>3, Zenon DEF MrvNext

(***************************************************************************)
(* A reporting record and its envelope are one transaction: whatever       *)
(* commits, rolls back or loses a race, mrv_outbox has exactly the events  *)
(* of the fuel reports, annual reports, decisions and statements that were *)
(* stored, and none of ships and plans.                                    *)
(***************************************************************************)
THEOREM ChangesAreAnnounced == MrvSpec => []ReportingIsAnnounced
<1>1. MrvInit => TxOK /\ ReportsInv /\ EventsInv
  BY PlansInitInv, ReportsInitInv, EventsInitInv, Zenon
<1>2. (TxOK /\ ReportsInv /\ EventsInv) /\ [MrvNext]_mrvVars => (TxOK /\ ReportsInv /\ EventsInv)'
  BY TxStep, ReportsStep, EventsStep, Zenon
<1>3. ReportsInv /\ EventsInv => ReportingIsAnnounced
  <2> SUFFICES ASSUME ReportsInv, EventsInv PROVE ReportingIsAnnounced
    OBVIOUS
  <2>1. ASSUME NEW s \in MrvShips
        PROVE  LET events(type) == Cardinality({i \in DOMAIN mrvOutbox : mrvOutbox[i] = [type |-> type, ship |-> s]})
               IN  /\ events("fuel") = Cardinality({k \in MrvKeys : fuel[k] # NoRow /\ fuel[k].ship = s})
                   /\ events("annual") = CASE annual[s] = NoRow -> 0 [] annual[s].state = "DRAFT" -> 1 [] OTHER -> 2
                   /\ events("verification") = Len(decisions[s])
                   /\ events("soc") = IF soc[s] = NoRow THEN 0 ELSE 1
    <3>1. Announced(s) /\ annual[s] \in {NoRow} \cup Report
      BY Zenon DEF ReportsInv, ReportsTypeOK, EventsInv
    <3>2. annual[s].state = "none" <=> annual[s] = NoRow
      BY <3>1 DEF Report, NoRow
    <3> QED BY <3>1, <3>2, Zenon DEF Announced, Occurrences, Event, FuelKeys
  <2>2. ASSUME NEW i \in DOMAIN mrvOutbox PROVE mrvOutbox[i].type \in EventTypes
    <3> DEFINE Events == [type : EventTypes, ship : MrvShips]
    <3>1. mrvOutbox \in Seq(Events)
      BY Zenon DEF EventsInv
    <3> HIDE DEF Events
    <3>2. mrvOutbox[i] \in Events
      BY <3>1
    <3> QED BY <3>2, Zenon DEF Events
  <2> QED BY <2>1, <2>2, Zenon DEF ReportingIsAnnounced, EventTypes
<1> QED BY <1>1, <1>2, <1>3, PTL DEF MrvSpec
=============================================================================
