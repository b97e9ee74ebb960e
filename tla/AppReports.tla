------------------------------ MODULE AppReports ------------------------------
(***************************************************************************)
(* The mobile flush endpoint POST /v1/geo/app-reports and the lifecycle of *)
(* the distress alerts it raises: internal/connectors/appreports.go,       *)
(* internal/store/app.go and transitionSOS of internal/api/server.go.      *)
(*                                                                         *)
(* A phone keeps each report or alert in an outbox and may send it again,  *)
(* concurrently or after a failure.  Every step of a request may fail, a   *)
(* failed write or publication may have landed, and the service may crash  *)
(* between two steps.                                                      *)
(***************************************************************************)
EXTENDS Integers, FiniteSets

CONSTANTS
  Workers,    \* goroutines that serve requests
  Entries,    \* outbox entries: records kind ("report" or "sos"), outbox, payload
  MaxSends,   \* bound: requests of the phones in all
  MaxSteps,   \* bound: lifecycle steps in all
  MaxFaults   \* bound: failures and crashes

ASSUME AppAssumption ==
  /\ \A e \in Entries : e.kind \in {"report", "sos"}
  /\ MaxSends \in Nat /\ MaxSteps \in Nat /\ MaxFaults \in Nat

VARIABLES
  rows,       \* app_position_reports and sos_alerts
  sosState,   \* sos_alerts.state of each alert id
  request,    \* request[w]: the request a worker serves
  published,  \* signed envelopes: id -> number on the topic
  notices,    \* lifecycle envelopes: <<id, action>> -> number on the topic
  answers,    \* what the phones were answered
  minted,     \* ids minted so far: each request mints its own
  steps, faults

appVars == <<rows, sosState, request, published, notices, answers, minted, steps, faults>>

Actions == {"acknowledge", "resolve"}
Ids == 1 .. MaxSends
NoRequest == [pc |-> "idle"]
Target(action) == IF action = "acknowledge" THEN "ACKNOWLEDGED" ELSE "RESOLVED"

AppInit ==
  /\ rows = {}
  /\ sosState = [id \in Ids |-> "NONE"]
  /\ request = [w \in Workers |-> NoRequest]
  /\ published = [id \in Ids |-> 0]
  /\ notices = [n \in Ids \X Actions |-> 0]
  /\ answers = {}
  /\ minted = 0
  /\ steps = 0 /\ faults = 0

(* The row with the entry's kind and outbox id, if there is one. *)
Stored(e) == {row \in rows : row.entry.kind = e.kind /\ row.entry.outbox = e.outbox}

Goto(w, pc) == request' = [request EXCEPT ![w].pc = pc]
Return(w) == request' = [request EXCEPT ![w] = NoRequest]
AnswerPhone(w, status) ==
  /\ answers' = answers \cup {[entry |-> request[w].entry, id |-> request[w].id, status |-> status]}
  /\ Return(w)

(* The current step fails and the phone is answered 500. *)
Fail(w) == faults < MaxFaults /\ faults' = faults + 1 /\ AnswerPhone(w, 500)

-----------------------------------------------------------------------------
(* serve and serveSOS: one request. *)

(* A valid request arrives; its report or alert id is new. *)
Serve(w, e) ==
  /\ request[w].pc = "idle"
  /\ minted < MaxSends
  /\ minted' = minted + 1
  /\ request' = [request EXCEPT ![w] = [pc |-> "insert", entry |-> e, id |-> minted + 1]]
  /\ UNCHANGED <<rows, sosState, published, notices, answers, steps, faults>>

StoreRow(w) ==
  /\ rows' = rows \cup {[entry |-> request[w].entry, id |-> request[w].id]}
  /\ sosState' = IF request[w].entry.kind = "sos"
                 THEN [sosState EXCEPT ![request[w].id] = "RAISED"] ELSE sosState

(* Mutant: a request that finds the outbox id taken goes on all the same. *)
InsertAlways(w) ==
  /\ request[w].pc = "insert"
  /\ IF Stored(request[w].entry) = {} THEN StoreRow(w) ELSE UNCHANGED <<rows, sosState>>
  /\ Goto(w, IF request[w].entry.kind = "report" THEN "handle" ELSE "publish")
  /\ UNCHANGED <<published, notices, answers, minted, steps, faults>>

(* INSERT ... ON CONFLICT (reporter_id, outbox_id) DO NOTHING. *)
Insert(w) ==
  /\ request[w].pc = "insert"
  /\ \/ /\ Stored(request[w].entry) = {}
        /\ StoreRow(w)
        /\ Goto(w, IF request[w].entry.kind = "report" THEN "handle" ELSE "publish")
        /\ UNCHANGED <<answers, faults>>
     \/ /\ Stored(request[w].entry) # {}
        /\ Goto(w, "compare")
        /\ UNCHANGED <<rows, sosState, answers, faults>>
     \/ /\ UNCHANGED <<rows, sosState>> \/ (Stored(request[w].entry) = {} /\ StoreRow(w))
        /\ Fail(w)
  /\ UNCHANGED <<published, notices, minted, steps>>

(* The SELECT that tells an exact replay from a conflicting reuse; it compares the ids too. *)
Compare(w) ==
  /\ request[w].pc = "compare"
  /\ \/ /\ \E row \in Stored(request[w].entry) :
             AnswerPhone(w, IF row = [entry |-> request[w].entry, id |-> request[w].id] THEN 200 ELSE 409)
        /\ UNCHANGED faults
     \/ Fail(w)
  /\ UNCHANGED <<rows, sosState, published, notices, minted, steps>>

(* Pipeline.HandlePosition, a module of its own: admitted, quarantined or failed. *)
Handle(w) ==
  /\ request[w].pc = "handle"
  /\ \/ Goto(w, "publish") /\ UNCHANGED <<answers, faults>>
     \/ Fail(w)
  /\ UNCHANGED <<rows, sosState, published, notices, minted, steps>>

(* Mutant: a failed publication is only logged. *)
PublishBestEffort(w) ==
  /\ request[w].pc = "publish"
  /\ \/ published' = [published EXCEPT ![request[w].id] = @ + 1] /\ UNCHANGED faults
     \/ faults < MaxFaults /\ faults' = faults + 1 /\ UNCHANGED published
  /\ AnswerPhone(w, 200)
  /\ UNCHANGED <<rows, sosState, notices, minted, steps>>

(* PublishSignedEnvelope of geo.app-position-report.v1 or geo.sos.v1. *)
PublishReport(w) ==
  LET landed == [published EXCEPT ![request[w].id] = @ + 1]
  IN  /\ request[w].pc = "publish"
      /\ \/ published' = landed /\ AnswerPhone(w, 200) /\ UNCHANGED faults
         \/ published' \in {published, landed} /\ Fail(w)
      /\ UNCHANGED <<rows, sosState, notices, minted, steps>>

-----------------------------------------------------------------------------
(* transitionSOS: one lifecycle request of a watch officer. *)

(* Mutant: the state of the alert is not looked at. *)
AnyState(id, action) == sosState[id] # "NONE"

(* The lifecycle step is legal from the current state. *)
Legal(id, action) ==
  sosState[id] \in IF action = "acknowledge" THEN {"RAISED"} ELSE {"RAISED", "ACKNOWLEDGED"}

(* TransitionSOSAlert: SELECT ... FOR UPDATE, the guard and the update commit together. *)
TransitionSOSAlert(w, id, action) ==
  /\ request[w].pc = "idle"
  /\ steps < MaxSteps
  /\ steps' = steps + 1
  /\ Legal(id, action)
  /\ sosState' = [sosState EXCEPT ![id] = Target(action)]
  /\ request' = [request EXCEPT ![w] = [pc |-> "notice", id |-> id, action |-> action]]
  /\ UNCHANGED <<rows, published, notices, answers, minted, faults>>

(* The signed lifecycle envelope, after the commit. *)
PublishTransition(w) ==
  LET n == <<request[w].id, request[w].action>>
      landed == [notices EXCEPT ![n] = @ + 1]
  IN  /\ request[w].pc = "notice"
      /\ \/ notices' = landed /\ UNCHANGED faults
         \/ notices' \in {notices, landed} /\ faults < MaxFaults /\ faults' = faults + 1
      /\ Return(w)
      /\ UNCHANGED <<rows, sosState, published, answers, minted, steps>>

-----------------------------------------------------------------------------
(* The process dies: the requests in flight are never answered. *)
Crash ==
  /\ faults < MaxFaults
  /\ faults' = faults + 1
  /\ request' = [w \in Workers |-> NoRequest]
  /\ UNCHANGED <<rows, sosState, published, notices, answers, minted, steps>>

AppNext ==
  \/ \E w \in Workers :
       \/ \E e \in Entries : Serve(w, e)
       \/ Insert(w) \/ Compare(w) \/ Handle(w) \/ PublishReport(w)
       \/ \E id \in Ids, action \in Actions : TransitionSOSAlert(w, id, action)
       \/ PublishTransition(w)
  \/ Crash

AppSpec == AppInit /\ [][AppNext]_appVars

-----------------------------------------------------------------------------
(* Properties. *)

(***************************************************************************)
(* A phone deletes an outbox entry when it is answered 200: then a row     *)
(* with exactly that payload is stored and its signed envelope is on the   *)
(* topic, whatever was retried, failed or raced before.                    *)
(***************************************************************************)
AcceptedIsPublished ==
  \A a \in answers :
    a.status = 200 => \E row \in rows : row.entry = a.entry /\ published[row.id] > 0

(***************************************************************************)
(* Retries and concurrent requests of one outbox id never emit a second    *)
(* event: at most one envelope is on the topic for each (kind, outbox id), *)
(* and only for the row that is stored.                                    *)
(***************************************************************************)
OneEnvelopePerOutbox ==
  /\ \A id \in Ids : published[id] > 0 => published[id] = 1 /\ \E row \in rows : row.id = id
  /\ \A row, other \in rows :
       row.entry.kind = other.entry.kind /\ row.entry.outbox = other.entry.outbox => row = other

(***************************************************************************)
(* Two watch officers who act on one alert at the same time: each step is  *)
(* announced at most once, an acknowledgement only for an alert that got   *)
(* past RAISED, a resolution only for a resolved one.                      *)
(***************************************************************************)
LifecycleAnnouncedOnce ==
  \A id \in Ids :
    /\ \A action \in Actions : notices[<<id, action>>] <= 1
    /\ notices[<<id, "acknowledge">>] = 1 => sosState[id] \in {"ACKNOWLEDGED", "RESOLVED"}
    /\ notices[<<id, "resolve">>] = 1 => sosState[id] = "RESOLVED"

(***************************************************************************)
(* "Exact replay: idempotent success": 409 is answered only when the       *)
(* outbox id was used with a different payload.  It does not hold: the     *)
(* comparison includes the id, which every request mints anew.             *)
(***************************************************************************)
ConflictIsReal ==
  \A a \in answers : a.status = 409 => \A row \in Stored(a.entry) : row.entry # a.entry

Quiet == \A w \in Workers : request[w].pc = "idle"

(***************************************************************************)
(* serveSOS "persists the alert and publishes the signed geo.sos.v1        *)
(* envelope": once no request runs and the phone has an answer other than  *)
(* "try again" for the alert, its envelope is out.  It does not hold: the  *)
(* retry after a failed publication is answered 409.                       *)
(***************************************************************************)
SettledSosIsPublished ==
  Quiet => \A row \in rows :
    row.entry.kind = "sos" /\ (\E a \in answers : a.entry = row.entry /\ a.status # 500)
      => published[row.id] > 0

(***************************************************************************)
(* transitionSOS "persists the ledger entry and publishes the signed       *)
(* lifecycle envelope": a resolved alert has been announced as resolved    *)
(* once no request runs.  It does not hold: the commit comes first, and    *)
(* the retry after a failed publication is an illegal transition.          *)
(***************************************************************************)
ResolvedIsAnnounced ==
  Quiet => \A id \in Ids : sosState[id] = "RESOLVED" => notices[<<id, "resolve">>] > 0
=============================================================================
