----------------------------- MODULE MrvWorkflow -----------------------------
(***************************************************************************)
(* The MRV emissions boundary of internal/mrv: ships, monitoring plans,    *)
(* fuel reports, annual reports, verifier decisions and Statements of      *)
(* Compliance.                                                             *)
(*                                                                         *)
(* A request is a READ COMMITTED transaction (withActor) and takes one     *)
(* step per statement whose result a concurrent request can change.  What  *)
(* a row lock (FOR UPDATE) makes indivisible is one step after the lock.   *)
(* A request ends with the HTTP status of its handler.  There is one       *)
(* calendar year; a row of mrv_outbox is its event type and its ship.      *)
(***************************************************************************)
EXTENDS Naturals, FiniteSets, Sequences, Requests

CONSTANTS
  MrvCallers,    \* requests that run at the same time
  MrvActors,     \* principals; each may hold every role
  MrvShips,      \* IMO numbers
  MrvKeys,       \* Idempotency-Key values
  PlanForms,     \* submitted plans: [method, grades]
  FuelForms,     \* submitted fuel reports: [grade, method, bdn, inYear]
  FactorGrades,  \* grades with a source-cited CO2 factor at every period end
  MaxPlans,      \* bound: plan versions a request names
  MaxRequests    \* bound: requests in all

ASSUME MrvAssumption ==
  /\ MaxRequests \in Nat /\ MaxPlans \in Nat
  /\ \A form \in PlanForms : form.grades # {}
  /\ \A form \in FuelForms : form.bdn \in BOOLEAN /\ form.inYear \in BOOLEAN

VARIABLES
  ships,      \* mrv_ships
  plans,      \* mrv_monitoring_plans: plans[s][version]
  fuel,       \* mrv_fuel_reports by external_ref
  annual,     \* mrv_annual_reports of the year
  decisions,  \* mrv_verifications: the ledger of the report of s
  soc,        \* mrv_statements_of_compliance with their artifact
  mrvOutbox,  \* mrv_outbox in commit order
  mrvTx,      \* mrvTx[c]: the request of caller c
  mrvReply,   \* the status last answered, 0 once another request begins
  requests    \* requests so far

mrvVars == <<ships, plans, fuel, annual, decisions, soc, mrvOutbox, mrvTx, mrvReply, requests>>
mrvTables == <<ships, plans, fuel, annual, decisions, soc, mrvOutbox>>

NoRow == [state |-> "none"]
Decisions == {"VERIFY", "REJECT", "REQUEST_CLARIFICATION"}

(* The requests, with the actor where the service looks at who asks. *)
MrvRequests ==
  [kind : {"register", "soc"}, ship : MrvShips]
  \cup [kind : {"compile", "submit"}, ship : MrvShips, actor : MrvActors]
  \cup [kind : {"put"}, ship : MrvShips, form : PlanForms, actor : MrvActors]
  \cup [kind : {"confirm"}, ship : MrvShips, version : 1 .. MaxPlans, actor : MrvActors]
  \cup [kind : {"fuel"}, ship : MrvShips, key : MrvKeys, form : FuelForms]
  \cup [kind : {"decide"}, ship : MrvShips, decision : Decisions, actor : MrvActors]

(* A first plan, as its confirmation leaves it. *)
ConfirmedBefore ==
  {p \in [form : PlanForms, state : {"CONFIRMED"}, by : MrvActors, checker : MrvActors, during : {{}}] :
     p.by # p.checker}

(* A ship may have been registered before, and may have a confirmed plan. *)
MrvInit ==
  /\ ships \in SUBSET MrvShips
  /\ plans \in [MrvShips -> {<<>>} \cup {<<p>> : p \in ConfirmedBefore}]
  /\ \A s \in MrvShips : plans[s] # <<>> => s \in ships
  /\ fuel = [k \in MrvKeys |-> NoRow]
  /\ annual = [s \in MrvShips |-> NoRow]
  /\ decisions = [s \in MrvShips |-> <<>>]
  /\ soc = [s \in MrvShips |-> NoRow]
  /\ mrvOutbox = <<>>
  /\ mrvTx = [c \in MrvCallers |-> [pc |-> "done"]]
  /\ mrvReply = 0
  /\ requests = 0

-----------------------------------------------------------------------------
(* The handlers: the status for the error a service call returns, "nil" for none. *)

registerShip(err) == IF err = "nil" THEN 201 ELSE 400

putMonitoringPlan(err) ==
  CASE err = "nil" -> 201 [] err = "ErrShipNotFound" -> 404 [] OTHER -> 400

confirmMonitoringPlan(err) ==
  CASE err = "nil" -> 200 [] err = "ErrPlanNotFound" -> 404
    [] err \in {"ErrMakerCheckerConflict", "ErrPlanState"} -> 409 [] OTHER -> 500

submitFuelReport(err) ==
  CASE err = "nil" -> 201 [] err = "replayed" -> 200
    [] err = "ErrIdempotencyConflict" -> 409 [] err = "ErrShipNotFound" -> 404
    [] err \in {"ErrNoConfirmedPlan", "ErrFactorUnavailable"} -> 422 [] OTHER -> 400

compileAnnual(err) ==
  CASE err = "nil" -> 201 [] err = "ErrShipNotFound" -> 404 [] err = "ErrReportState" -> 409
    [] OTHER -> 400

submitAnnual(err) ==
  CASE err = "nil" -> 200 [] err = "ErrReportNotFound" -> 404 [] err = "ErrReportState" -> 409
    [] OTHER -> 400

recordDecision(err) ==
  CASE err = "nil" -> 201 [] err = "ErrReportNotFound" -> 404
    [] err \in {"ErrReportState", "ErrMakerCheckerConflict"} -> 409 [] OTHER -> 400

issueSoC(err) ==
  CASE err = "nil" -> 201 [] err = "ErrReportNotFound" -> 404
    [] err \in {"ErrReportState", "ErrSoCExists"} -> 409 [] OTHER -> 500

(* The handler of a kind of request. *)
Status(kind, err) ==
  CASE kind = "register" -> registerShip(err) [] kind = "put" -> putMonitoringPlan(err)
    [] kind = "confirm" -> confirmMonitoringPlan(err) [] kind = "fuel" -> submitFuelReport(err)
    [] kind = "compile" -> compileAnnual(err) [] kind = "submit" -> submitAnnual(err)
    [] kind = "decide" -> recordDecision(err) [] kind = "soc" -> issueSoC(err)

-----------------------------------------------------------------------------
(* withActor: BEGIN, then COMMIT or, on any error, ROLLBACK. *)

BeginRequest(c, op) ==
  /\ mrvTx[c].pc = "done"
  /\ requests < MaxRequests
  /\ requests' = requests + 1
  /\ mrvTx' = [mrvTx EXCEPT ![c] = [pc |-> "begun", op |-> op]]
  /\ mrvReply' = 0
  /\ UNCHANGED mrvTables

At(c, pc, kind) == mrvTx[c].pc = pc /\ mrvTx[c].op.kind = kind

Answer(c, err) ==
  /\ mrvTx' = [mrvTx EXCEPT ![c] = [pc |-> "done"]]
  /\ mrvReply' = Status(mrvTx[c].op.kind, err)

(* The request goes on at pc with what it has read, or ends with err. *)
Proceed(c, err, pc, read) ==
  /\ \/ err # "nil" /\ Answer(c, err)
     \/ /\ err = "nil"
        /\ mrvTx' = [mrvTx EXCEPT ![c] = [pc |-> pc, op |-> @.op, read |-> read]]
        /\ UNCHANGED mrvReply
  /\ UNCHANGED <<mrvTables, requests>>

(* A statement, the commit or the connection fails: nothing of the request stays. *)
RollbackRequest(c) ==
  /\ mrvTx[c].pc # "done"
  /\ Answer(c, "failed")
  /\ UNCHANGED <<mrvTables, requests>>

(* The signed envelope goes into mrv_outbox in the transaction of the change. *)
enqueueOutbox(type, s) == mrvOutbox' = Append(mrvOutbox, [type |-> type, ship |-> s])

(* RegisterShip; imo_number is the primary key. *)
RegisterShip(c) ==
  /\ At(c, "begun", "register")
  /\ \/ mrvTx[c].op.ship \in ships /\ Answer(c, "duplicate") /\ UNCHANGED ships
     \/ /\ mrvTx[c].op.ship \notin ships
        /\ ships' = ships \cup {mrvTx[c].op.ship}
        /\ Answer(c, "nil")
  /\ UNCHANGED <<plans, fuel, annual, decisions, soc, mrvOutbox, requests>>

-----------------------------------------------------------------------------
(* Monitoring plans. *)

(* PutMonitoringPlan: SELECT COALESCE(MAX(version), 0) + 1. *)
ReadVersion(c) ==
  LET s == mrvTx[c].op.ship
  IN  /\ At(c, "begun", "put")
      /\ Proceed(c, IF s \in ships THEN "nil" ELSE "ErrShipNotFound", "insert", Len(plans[s]) + 1)

(* PutMonitoringPlan: INSERT, under UNIQUE (imo_number, version). *)
PutMonitoringPlan(c) ==
  LET s == mrvTx[c].op.ship
  IN  /\ At(c, "insert", "put")
      /\ \/ mrvTx[c].read <= Len(plans[s]) /\ Answer(c, "duplicate") /\ UNCHANGED plans
         \/ /\ mrvTx[c].read > Len(plans[s])
            /\ plans' = [plans EXCEPT ![s] = Append(@,
                 [form |-> mrvTx[c].op.form, state |-> "DRAFT", by |-> mrvTx[c].op.actor,
                  checker |-> "none", during |-> {}])]
            /\ Answer(c, "nil")
      /\ UNCHANGED <<ships, fuel, annual, decisions, soc, mrvOutbox, requests>>

(* The plans of ship s whose confirmation is at one of the steps pcs. *)
Confirming(s, pcs) ==
  {mrvTx[c].op.version : c \in {d \in MrvCallers :
     mrvTx[d].pc \in pcs /\ mrvTx[d].op.kind = "confirm" /\ mrvTx[d].op.ship = s}}

(* ConfirmMonitoringPlan: SELECT ... FOR UPDATE of the plan, four eyes, state. *)
LockPlan(c) ==
  LET s == mrvTx[c].op.ship
      v == mrvTx[c].op.version
      found == v \in DOMAIN plans[s]
  IN  /\ At(c, "begun", "confirm")
      /\ v \notin Confirming(s, {"scan", "confirm"})
      /\ Proceed(c, FirstError(<< <<~found, "ErrPlanNotFound">>,
                                  <<found /\ plans[s][v].by = mrvTx[c].op.actor, "ErrMakerCheckerConflict">>,
                                  <<found /\ plans[s][v].state # "DRAFT", "ErrPlanState">> >>), "scan", {})

Confirmed(s) == {v \in DOMAIN plans[s] : plans[s][v].state = "CONFIRMED"}

(* ConfirmMonitoringPlan: the snapshot of UPDATE ... WHERE state = 'CONFIRMED'. *)
ScanConfirmed(c) ==
  /\ At(c, "scan", "confirm")
  /\ Proceed(c, "nil", "confirm", Confirmed(mrvTx[c].op.ship))

(* Mutant: the plan that was confirmed before is left as it is. *)
SupersedeNothing(plan, seen) == plan

(* SET state = 'SUPERSEDED'; a row of the snapshot is tested again under its lock. *)
Supersede(plan, seen) ==
  IF seen /\ plan.state = "CONFIRMED" THEN [plan EXCEPT !.state = "SUPERSEDED"] ELSE plan

(* ConfirmMonitoringPlan: both updates and the commit; "during" is history. *)
ConfirmMonitoringPlan(c) ==
  LET s == mrvTx[c].op.ship
      version == mrvTx[c].op.version
  IN  /\ At(c, "confirm", "confirm")
      /\ plans' = [plans EXCEPT ![s] = [v \in DOMAIN @ |->
           IF v = version
           THEN [@[v] EXCEPT !.state = "CONFIRMED", !.checker = mrvTx[c].op.actor,
                             !.during = Confirming(s, {"confirm"}) \ {version}]
           ELSE Supersede(@[v], v \in mrvTx[c].read)]]
      /\ Answer(c, "nil")
      /\ UNCHANGED <<ships, fuel, annual, decisions, soc, mrvOutbox, requests>>

-----------------------------------------------------------------------------
(* Fuel reports. *)

(* A bunker delivery note for method A; the other checks are on the wire form. *)
validateFuelReport(form) == form.method = "A" => form.bdn

(* A CONFIRMED plan covers the method and the grade of the report. *)
PlanCovers(s, form) ==
  \E v \in Confirmed(s) : plans[s][v].form.method = form.method /\ form.grade \in plans[s][v].form.grades

ResolveFactor(grade) == grade \in FactorGrades

(* SubmitFuelReport: the checks in their order, and the lookup of the key. *)
CheckFuelReport(c) ==
  LET op == mrvTx[c].op
      row == fuel[op.key]
  IN  /\ At(c, "begun", "fuel")
      /\ Proceed(c, FirstError(<< <<~validateFuelReport(op.form), "invalid">>,
                                  <<op.ship \notin ships, "ErrShipNotFound">>,
                                  <<~PlanCovers(op.ship, op.form), "ErrNoConfirmedPlan">>,
                                  <<~ResolveFactor(op.form.grade), "ErrFactorUnavailable">>,
                                  <<row # NoRow /\ row.form = op.form, "replayed">>,
                                  <<row # NoRow, "ErrIdempotencyConflict">> >>), "insert", {})

FuelRow(op) == [state |-> "stored", form |-> op.form, ship |-> op.ship]

(* Mutant: ON CONFLICT (external_ref) DO UPDATE. *)
SubmitFuelReportUpserts(c) ==
  /\ At(c, "insert", "fuel")
  /\ fuel' = [fuel EXCEPT ![mrvTx[c].op.key] = FuelRow(mrvTx[c].op)]
  /\ enqueueOutbox("fuel", mrvTx[c].op.ship)
  /\ Answer(c, "nil")
  /\ UNCHANGED <<ships, plans, annual, decisions, soc, requests>>

(* SubmitFuelReport: INSERT, under UNIQUE (external_ref), and the event. *)
SubmitFuelReport(c) ==
  LET op == mrvTx[c].op
  IN  /\ At(c, "insert", "fuel")
      /\ \/ fuel[op.key] # NoRow /\ Answer(c, "duplicate") /\ UNCHANGED <<fuel, mrvOutbox>>
         \/ /\ fuel[op.key] = NoRow
            /\ fuel' = [fuel EXCEPT ![op.key] = FuelRow(op)]
            /\ enqueueOutbox("fuel", op.ship)
            /\ Answer(c, "nil")
      /\ UNCHANGED <<ships, plans, annual, decisions, soc, requests>>

-----------------------------------------------------------------------------
(* Annual reports. *)

(* The rows of the aggregation query: periods that lie inside the year. *)
YearRows(s) == {k \in MrvKeys : fuel[k] # NoRow /\ fuel[k].ship = s /\ fuel[k].form.inYear}

(* CompileAnnualReport: the aggregation, before the report row is locked. *)
ReadFuelReports(c) ==
  LET s == mrvTx[c].op.ship
  IN  /\ At(c, "begun", "compile")
      /\ Proceed(c, IF s \in ships THEN "nil" ELSE "ErrShipNotFound", "find", YearRows(s))

(* A request past lockReport holds the report row of s. *)
ReportLocked(s) == \E c \in MrvCallers : mrvTx[c].pc = "locked" /\ mrvTx[c].op.ship = s

(***************************************************************************)
(* CompileAnnualReport: SELECT ... FOR UPDATE of the report row.  Of a     *)
(* DRAFT nothing is replaced: the UPDATE is sent eight arguments and its   *)
(* text does not mention $2, so that PostgreSQL cannot type the parameter  *)
(* and refuses the statement.                                              *)
(***************************************************************************)
FindReport(c) ==
  LET s == mrvTx[c].op.ship
  IN  /\ At(c, "find", "compile")
      /\ ~ReportLocked(s)
      /\ Proceed(c, FirstError(<< <<annual[s].state = "DRAFT", "indeterminate_datatype">>,
                                  <<annual[s] # NoRow, "ErrReportState">> >>), "insert", mrvTx[c].read)

(* CompileAnnualReport: INSERT, under UNIQUE (imo_number, calendar_year), and the event. *)
CompileAnnualReport(c) ==
  LET s == mrvTx[c].op.ship
  IN  /\ At(c, "insert", "compile")
      /\ \/ annual[s] # NoRow /\ Answer(c, "duplicate") /\ UNCHANGED <<annual, mrvOutbox>>
         \/ /\ annual[s] = NoRow
            /\ annual' = [annual EXCEPT ![s] =
                 [state |-> "DRAFT", by |-> mrvTx[c].op.actor, submitter |-> "none", totals |-> mrvTx[c].read]]
            /\ enqueueOutbox("annual", s)
            /\ Answer(c, "nil")
      /\ UNCHANGED <<ships, plans, fuel, decisions, soc, requests>>

(* What stops a request on the report of s once the row is locked. *)
SubmitError(s, actor) ==
  FirstError(<< <<annual[s].state # "DRAFT", "ErrReportState">>,
                <<annual[s].state = "DRAFT" /\ annual[s].by # actor, "notMaker">> >>)

DecisionError(s, actor) ==
  LET open == annual[s].state \in {"SUBMITTED", "VERIFIER_REVIEW"}
  IN  FirstError(<< <<~open, "ErrReportState">>,
                    <<open /\ annual[s].submitter = actor, "ErrMakerCheckerConflict">> >>)

SoCError(s) ==
  FirstError(<< <<annual[s].state # "VERIFIED", "ErrReportState">>, <<soc[s] # NoRow, "ErrSoCExists">> >>)

ReportError(op) ==
  IF annual[op.ship] = NoRow THEN "ErrReportNotFound"
  ELSE CASE op.kind = "submit" -> SubmitError(op.ship, op.actor)
         [] op.kind = "decide" -> DecisionError(op.ship, op.actor)
         [] OTHER -> SoCError(op.ship)

(* Mutant: SELECT of the report without FOR UPDATE. *)
ReadReport(c) ==
  /\ mrvTx[c].pc = "begun" /\ mrvTx[c].op.kind \in {"submit", "decide", "soc"}
  /\ Proceed(c, ReportError(mrvTx[c].op), "locked", {})

(* lockReport: SELECT ... FOR UPDATE, then the checks of its three callers. *)
lockReport(c) ==
  /\ mrvTx[c].pc = "begun" /\ mrvTx[c].op.kind \in {"submit", "decide", "soc"}
  /\ ~ReportLocked(mrvTx[c].op.ship)
  /\ Proceed(c, ReportError(mrvTx[c].op), "locked", {})

SubmitAnnualReport(c) ==
  LET s == mrvTx[c].op.ship
  IN  /\ At(c, "locked", "submit")
      /\ annual' = [annual EXCEPT ![s].state = "SUBMITTED", ![s].submitter = mrvTx[c].op.actor]
      /\ enqueueOutbox("annual", s)
      /\ Answer(c, "nil")
      /\ UNCHANGED <<ships, plans, fuel, decisions, soc, requests>>

(* The state a decision leads to, by way of VERIFIER_REVIEW. *)
Outcome(decision) ==
  CASE decision = "VERIFY" -> "VERIFIED" [] decision = "REJECT" -> "REJECTED" [] OTHER -> "SUBMITTED"

RecordDecision(c) ==
  LET s == mrvTx[c].op.ship
  IN  /\ At(c, "locked", "decide")
      /\ annual' = [annual EXCEPT ![s].state = Outcome(mrvTx[c].op.decision)]
      /\ decisions' = [decisions EXCEPT ![s] =
           Append(@, [decision |-> mrvTx[c].op.decision, by |-> mrvTx[c].op.actor])]
      /\ enqueueOutbox("verification", s)
      /\ Answer(c, "nil")
      /\ UNCHANGED <<ships, plans, fuel, soc, requests>>

(* buildArtifact: the totals of the report as they are when the statement is issued. *)
buildArtifact(s) == [state |-> "issued", totals |-> annual[s].totals]

IssueSoC(c) ==
  LET s == mrvTx[c].op.ship
  IN  /\ At(c, "locked", "soc")
      /\ soc' = [soc EXCEPT ![s] = buildArtifact(s)]
      /\ enqueueOutbox("soc", s)
      /\ Answer(c, "nil")
      /\ UNCHANGED <<ships, plans, fuel, annual, decisions, requests>>

MrvStep(c) ==
  \/ RegisterShip(c) \/ ReadVersion(c) \/ PutMonitoringPlan(c)
  \/ LockPlan(c) \/ ScanConfirmed(c) \/ ConfirmMonitoringPlan(c)
  \/ CheckFuelReport(c) \/ SubmitFuelReport(c)
  \/ ReadFuelReports(c) \/ FindReport(c) \/ CompileAnnualReport(c)
  \/ lockReport(c) \/ SubmitAnnualReport(c) \/ RecordDecision(c) \/ IssueSoC(c)
  \/ RollbackRequest(c)

MrvNext ==
  \E c \in MrvCallers :
    \/ \E op \in MrvRequests : BeginRequest(c, op)
    \/ MrvStep(c)

MrvSpec == MrvInit /\ [][MrvNext]_mrvVars

-----------------------------------------------------------------------------
(* Properties. *)

(***************************************************************************)
(* The reporting records and their events come in one commit: whatever     *)
(* commits, rolls back or loses a race, the outbox has one event per       *)
(* stored fuel report, one for the compilation of a report and one for its *)
(* submission, one per decision and one per statement.  There is no other  *)
(* event: ships and monitoring plans are never announced.                  *)
(***************************************************************************)
ReportingIsAnnounced ==
  LET events(type, s) == Cardinality({i \in DOMAIN mrvOutbox : mrvOutbox[i] = [type |-> type, ship |-> s]})
  IN  /\ \A s \in MrvShips :
           /\ events("fuel", s) = Cardinality({k \in MrvKeys : fuel[k] # NoRow /\ fuel[k].ship = s})
           /\ events("annual", s) = CASE annual[s] = NoRow -> 0 [] annual[s].state = "DRAFT" -> 1 [] OTHER -> 2
           /\ events("verification", s) = Len(decisions[s])
           /\ events("soc", s) = IF soc[s] = NoRow THEN 0 ELSE 1
      /\ \A i \in DOMAIN mrvOutbox : mrvOutbox[i].type \in {"fuel", "annual", "verification", "soc"}

(***************************************************************************)
(* A statement the code does not keep: "Every mutation persists the domain *)
(* row and the signed outbox envelope in one transaction" (ops.go 1-2).    *)
(* RegisterShip, PutMonitoringPlan and ConfirmMonitoringPlan enqueue       *)
(* nothing.                                                                *)
(***************************************************************************)
EveryMutationEnqueues ==
  [][<<ships, plans, fuel, annual, decisions, soc>>' # <<ships, plans, fuel, annual, decisions, soc>>
       => mrvOutbox' # mrvOutbox]_mrvVars

(***************************************************************************)
(* The state of a report is what its ledger of decisions says, also when   *)
(* verifiers decide at the same time: VERIFIED or REJECTED exactly when    *)
(* the last decision says so, nothing follows a final decision, and no one *)
(* decided on a report they submitted.  A Statement of Compliance is about *)
(* what was verified: its report is VERIFIED and has the same totals.      *)
(***************************************************************************)
LedgerExplainsState ==
  \A s \in MrvShips :
    LET ledger == decisions[s]
    IN  /\ ledger # <<>> => annual[s].state = Outcome(ledger[Len(ledger)].decision)
        /\ ledger = <<>> /\ annual[s] # NoRow => annual[s].state \in {"DRAFT", "SUBMITTED"}
        /\ \A i \in DOMAIN ledger : /\ ledger[i].by # annual[s].submitter
                                    /\ i < Len(ledger) => ledger[i].decision = "REQUEST_CLARIFICATION"
        /\ soc[s] # NoRow => annual[s].state = "VERIFIED" /\ soc[s].totals = annual[s].totals

(***************************************************************************)
(* Two plans of a ship are CONFIRMED together only when one confirmation   *)
(* had taken its snapshot before the other committed; and a plan is never  *)
(* confirmed by its maker.                                                 *)
(***************************************************************************)
ConfirmedTogetherOverlapped ==
  \A s \in MrvShips : \A v, w \in Confirmed(s) :
    /\ plans[s][v].checker # plans[s][v].by
    /\ v # w => v \in plans[s][w].during \/ w \in plans[s][v].during

(***************************************************************************)
(* "Confirmation supersedes any previously CONFIRMED plan of the ship": a  *)
(* ship has at most one CONFIRMED plan.  Only the row of the plan itself   *)
(* is locked, so that two confirmations that overlap leave two.            *)
(***************************************************************************)
OneConfirmedPlan == \A s \in MrvShips : Cardinality(Confirmed(s)) <= 1
=============================================================================
