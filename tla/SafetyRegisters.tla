--------------------------- MODULE SafetyRegisters ---------------------------
(***************************************************************************)
(* The safety registers of internal/api/safety.go and its store: one       *)
(* inspection with its deficiencies, or one search and rescue incident     *)
(* with its taskings, or the announcements of one investigation case.      *)
(*                                                                         *)
(* A mutating request locks the row, checks the ladder, writes and commits *)
(* in one transaction; the signed event is published after the commit, and *)
(* for an attachment (a tasking, an evidence item) the row is read again   *)
(* first.  The evidence chain itself is in module Investigation.           *)
(***************************************************************************)
EXTENDS Naturals, FiniteSets, Requests

CONSTANTS
  Handlers,        \* requests that run at the same time
  Persons,         \* principals
  DeficiencyIds, TaskingIds,
  MaxChanges       \* bound: changes that are announced

ASSUME SafetyAssumption == MaxChanges \in Nat \ {0}

VARIABLES
  register,      \* which register this behaviour is about
  template,      \* regime of the checklist template, "none" before it exists
  row,           \* state of the row, "NONE" before it exists
  detainer,      \* detained_by
  deficiencies,  \* safety_inspection_deficiencies: state, severity, rectified_by
  taskings,      \* sar_resource_taskings: state
  comms,         \* whether sar_comms_log has an entry
  handling,      \* handling[h]: the request of h
  safetyReply,   \* whether the last answer was a success
  changes,       \* how many changes that are to be announced are committed
  safetyTopic,   \* events on the topic: [action, state]
  broken         \* history: a committed change was not answered with success

registerVars == <<template, row, detainer, deficiencies, taskings, comms>>
safetyVars == <<register, registerVars, handling, safetyReply, changes, safetyTopic, broken>>

(* The state machines: an action, the state it needs, the state it leads to. *)
InspectionLadder ==
  { <<"start", "SCHEDULED", "IN_PROGRESS">>, <<"complete", "IN_PROGRESS", "COMPLETED">>,
    <<"detain", "IN_PROGRESS", "DETAINED">>, <<"detain", "COMPLETED", "DETAINED">>,
    <<"rectify", "DETAINED", "RECTIFICATION">>, <<"release", "RECTIFICATION", "RELEASED">>,
    <<"close", "COMPLETED", "CLOSED">>, <<"close", "RELEASED", "CLOSED">> }

SarLadder ==
  { <<"alert", "UNCERTAINTY", "ALERT">>, <<"distress", "ALERT", "DISTRESS">>, <<"rescue", "DISTRESS", "RESCUE">> }
  \cup { <<"close", phase, "CLOSED">> : phase \in {"UNCERTAINTY", "ALERT", "DISTRESS", "RESCUE"} }

CaseLadder ==
  { <<"evidence", "OPEN", "EVIDENCE">>, <<"analysis", "EVIDENCE", "ANALYSIS">>,
    <<"report", "ANALYSIS", "REPORTED">>, <<"close", "REPORTED", "CLOSED">> }

Ladder == CASE register = "inspection" -> InspectionLadder [] register = "sar" -> SarLadder [] OTHER -> CaseLadder
FirstState == CASE register = "inspection" -> "SCHEDULED" [] register = "sar" -> "UNCERTAINTY" [] OTHER -> "OPEN"

(* What is attached to the row under its lock; its event names the resource or the item. *)
Attachment == CASE register = "inspection" -> "deficiency" [] register = "sar" -> "task" [] OTHER -> "item"

Ready == [pc |-> "idle"]
NoDeficiency == [state |-> "NONE", severity |-> "NONE", by |-> "nobody"]

SafetyInit ==
  /\ register \in {"inspection", "sar", "case"}
  /\ template = "none" /\ row = "NONE" /\ detainer = "nobody" /\ comms = FALSE
  /\ deficiencies = [d \in DeficiencyIds |-> NoDeficiency]
  /\ taskings = [t \in TaskingIds |-> "NONE"]
  /\ handling = [h \in Handlers |-> Ready]
  /\ safetyReply = TRUE
  /\ changes = 0 /\ safetyTopic = {} /\ broken = FALSE

-----------------------------------------------------------------------------
(* Answers. *)

Reply(h, success) ==
  /\ handling' = [handling EXCEPT ![h] = Ready]
  /\ safetyReply' = success

(* safetyPrincipal, publisherReady, safetyPathID, decodeBody, the fields or the checker role say no. *)
Refuse(h) ==
  /\ handling[h].pc = "idle"
  /\ Reply(h, FALSE)
  /\ UNCHANGED <<register, registerVars, changes, safetyTopic, broken>>

(* The change is committed and the handler goes on to its event. *)
Committed(h, next) ==
  /\ changes < MaxChanges
  /\ changes' = changes + 1
  /\ handling' = [handling EXCEPT ![h] = next]
  /\ UNCHANGED <<safetyReply, safetyTopic, broken>>

(* Mutant: the row is read again, after the commit, for every event. *)
EventReadLater(action, state) == [pc |-> "reread", op |-> action]

(***************************************************************************)
(* The event of a new row (action "create", in the code also "open") or of *)
(* a transition carries the row as its own transaction returned it.        *)
(***************************************************************************)
EventOf(action, state) == [pc |-> "publish", event |-> [action |-> action, state |-> state]]

(* That of an attachment carries the row as it is read after the commit. *)
EventToRead(action) == [pc |-> "reread", op |-> action]

-----------------------------------------------------------------------------
(* Rows come into being. *)

(* CreateChecklistTemplate, under the primary key. *)
CreateChecklistTemplate(regime) == IF template = "none" THEN regime ELSE template

createChecklistTemplate(h, regime) ==
  /\ register = "inspection" /\ handling[h].pc = "idle"
  /\ template' = CreateChecklistTemplate(regime)
  /\ Reply(h, template = "none")
  /\ UNCHANGED <<register, row, detainer, deficiencies, taskings, comms, changes, safetyTopic, broken>>

(* CreateInspection: the template must exist and be of the declared regime. *)
CreateInspection(regime) ==
  FirstError(<< <<template = "none", "ErrSafetyNotFound">>,
                <<template # regime, "ErrSafetyInvalidTransition">>,
                <<row # "NONE", "duplicate key">> >>)

(* CreateSarIncident. *)
CreateSarIncident == IF row # "NONE" THEN "duplicate key" ELSE "nil"

CreateRow(h, err) ==
  /\ handling[h].pc = "idle"
  /\ IF err = "nil" THEN row' = FirstState /\ Committed(h, EventOf("create", FirstState))
     ELSE Reply(h, FALSE) /\ UNCHANGED <<row, changes, safetyTopic, broken>>
  /\ UNCHANGED <<register, template, detainer, deficiencies, taskings, comms>>

createInspection(h, regime) == register = "inspection" /\ CreateRow(h, CreateInspection(regime))
createSarIncident(h) == register = "sar" /\ CreateRow(h, CreateSarIncident)
createInvestigationCase(h) == register = "case" /\ CreateRow(h, IF row # "NONE" THEN "duplicate key" ELSE "nil")

-----------------------------------------------------------------------------
(* Changes of a row, under SELECT ... FOR UPDATE. *)

(* Mutant: SELECT without FOR UPDATE. *)
NeverRowLocked == FALSE

RowLocked == \E h \in Handlers : handling[h].pc \in {"count", "write"}

(* The checks of a transition, and of an attachment, against the locked row. *)
RowError(op, actor) ==
  FirstError(<<
    <<row = "NONE", "ErrSafetyNotFound">>,
    <<op = "task" /\ row = "CLOSED", "ErrSafetyInvalidTransition">>,
    <<op = "item" /\ row # "EVIDENCE", "ErrSafetyInvalidTransition">>,
    <<op # Attachment /\ \A step \in Ladder : step[1] = op => step[2] # row, "ErrSafetyInvalidTransition">>,
    <<op = "release" /\ detainer = actor, "ErrSafetyMakerChecker">> >>)

LockRow(h, op, actor) ==
  LET err == RowError(op, actor)
  IN  /\ handling[h].pc = "idle" /\ ~RowLocked
      /\ IF err = "nil"
         THEN /\ handling' = [handling EXCEPT ![h] =
                   [pc |-> IF op = "release" THEN "count" ELSE "write", op |-> op, actor |-> actor]]
              /\ UNCHANGED safetyReply
         ELSE Reply(h, FALSE)
      /\ UNCHANGED <<register, registerVars, changes, safetyTopic, broken>>

transitionInspection(h, step, actor) == register = "inspection" /\ LockRow(h, step[1], actor)
transitionSarIncident(h, step, actor) == register = "sar" /\ LockRow(h, step[1], actor)
transitionInvestigationCase(h, step, actor) == register = "case" /\ LockRow(h, step[1], actor)
recordDeficiency(h, actor) == register = "inspection" /\ LockRow(h, Attachment, actor)
taskSarResource(h, actor) == register = "sar" /\ LockRow(h, Attachment, actor)
appendEvidence(h, actor) == register = "case" /\ LockRow(h, Attachment, actor)

OpenCritical == {d \in DeficiencyIds : deficiencies[d].severity = "CRITICAL" /\ deficiencies[d].state # "VERIFIED"}

(* TransitionInspection, release: the count of critical deficiencies. *)
CountCritical(h) ==
  /\ handling[h].pc = "count"
  /\ IF OpenCritical = {} THEN handling' = [handling EXCEPT ![h].pc = "write"] /\ UNCHANGED safetyReply
     ELSE Reply(h, FALSE)
  /\ UNCHANGED <<register, registerVars, changes, safetyTopic, broken>>

(* TransitionInspection, TransitionSarIncident, TransitionInvestigationCase: UPDATE and COMMIT. *)
WriteRow(h) ==
  /\ handling[h].pc = "write" /\ handling[h].op # Attachment
  /\ \E step \in Ladder :
       /\ step[1] = handling[h].op /\ step[2] = row
       /\ row' = step[3]
       /\ Committed(h, EventOf(step[1], step[3]))
  /\ detainer' = IF handling[h].op = "detain" THEN handling[h].actor ELSE detainer
  /\ UNCHANGED <<register, template, deficiencies, taskings, comms>>

(* RecordDeficiency; known says that the code is an item of the template. *)
RecordDeficiency(h, d, severity, known) ==
  /\ handling[h].pc = "write" /\ handling[h].op = "deficiency"
  /\ IF known /\ deficiencies[d].state = "NONE"
     THEN /\ deficiencies' = [deficiencies EXCEPT ![d] = [state |-> "OPEN", severity |-> severity, by |-> "nobody"]]
          /\ Reply(h, TRUE)
     ELSE UNCHANGED deficiencies /\ Reply(h, FALSE)
  /\ UNCHANGED <<register, template, row, detainer, taskings, comms, changes, safetyTopic, broken>>

(* TaskSarResource. *)
TaskSarResource(h, t) ==
  /\ handling[h].pc = "write" /\ handling[h].op = "task"
  /\ IF taskings[t] = "NONE" THEN taskings' = [taskings EXCEPT ![t] = "TASKED"] /\ Committed(h, EventToRead("task"))
     ELSE Reply(h, FALSE) /\ UNCHANGED <<taskings, changes, safetyTopic, broken>>
  /\ UNCHANGED <<register, template, row, detainer, deficiencies, comms>>

(* AppendEvidence, as far as its event goes. *)
AppendItem(h) ==
  /\ handling[h].pc = "write" /\ handling[h].op = "item"
  /\ Committed(h, EventToRead("item"))
  /\ UNCHANGED <<register, registerVars>>

(* GetSarIncident, GetInvestigationCase: the row the event will carry, as it is by now. *)
RereadRow(h) ==
  /\ handling[h].pc = "reread"
  /\ handling' = [handling EXCEPT ![h] = [pc |-> "publish", event |-> [action |-> handling[h].op, state |-> row]]]
  /\ UNCHANGED <<register, registerVars, safetyReply, changes, safetyTopic, broken>>

(* A statement, the commit or the connection fails; what is committed stays. *)
FailRequest(h) ==
  /\ handling[h].pc \in {"count", "write", "reread"}
  /\ Reply(h, FALSE)
  /\ broken' = (broken \/ handling[h].pc = "reread")
  /\ UNCHANGED <<register, registerVars, changes, safetyTopic>>

(* publishInspection, publishSar, publishInvestigation; X-Safety-Publish-Failed stops the success body. *)
PublishEvent(h, sent) ==
  /\ handling[h].pc = "publish"
  /\ Reply(h, sent)
  /\ safetyTopic' = safetyTopic \cup IF sent THEN {handling[h].event} ELSE {}
  /\ broken' = (broken \/ ~sent)
  /\ UNCHANGED <<register, registerVars, changes>>

-----------------------------------------------------------------------------
(* Changes that lock only their own row and announce nothing. *)

(* TransitionDeficiency. *)
TransitionDeficiency(d, actor, action) ==
  /\ \/ /\ action = "rectify" /\ deficiencies[d].state = "OPEN"
        /\ deficiencies' = [deficiencies EXCEPT ![d].state = "RECTIFIED", ![d].by = actor]
     \/ /\ action = "verify" /\ deficiencies[d].state = "RECTIFIED" /\ deficiencies[d].by # actor
        /\ deficiencies' = [deficiencies EXCEPT ![d].state = "VERIFIED"]
  /\ UNCHANGED <<register, template, row, detainer, taskings, comms, handling, safetyReply, changes, safetyTopic, broken>>

(* TransitionSarTasking, whatever the phase of the incident. *)
TransitionSarTasking(t, action) ==
  /\ \/ /\ action = "enroute" /\ taskings[t] = "TASKED"
        /\ taskings' = [taskings EXCEPT ![t] = "EN_ROUTE"]
     \/ /\ action = "onscene" /\ taskings[t] \in {"TASKED", "EN_ROUTE"}
        /\ taskings' = [taskings EXCEPT ![t] = "ON_SCENE"]
     \/ /\ action = "release" /\ taskings[t] \notin {"NONE", "RELEASED"}
        /\ taskings' = [taskings EXCEPT ![t] = "RELEASED"]
  /\ UNCHANGED <<register, template, row, detainer, deficiencies, comms, handling, safetyReply, changes, safetyTopic, broken>>

(* AppendSarComms: the incident must exist, in any phase. *)
AppendSarComms ==
  /\ register = "sar" /\ row # "NONE" /\ ~comms
  /\ comms' = TRUE
  /\ UNCHANGED <<register, template, row, detainer, deficiencies, taskings, handling, safetyReply, changes, safetyTopic, broken>>

SafetyNext ==
  \/ \E h \in Handlers :
       \/ Refuse(h)
       \/ \E regime \in {"FSC", "PSC"} : createChecklistTemplate(h, regime) \/ createInspection(h, regime)
       \/ createSarIncident(h) \/ createInvestigationCase(h)
       \/ \E step \in Ladder, actor \in Persons :
            transitionInspection(h, step, actor) \/ transitionSarIncident(h, step, actor)
            \/ transitionInvestigationCase(h, step, actor)
       \/ \E actor \in Persons : recordDeficiency(h, actor) \/ taskSarResource(h, actor) \/ appendEvidence(h, actor)
       \/ CountCritical(h) \/ WriteRow(h)
       \/ \E d \in DeficiencyIds, severity \in {"MINOR", "CRITICAL"}, known \in BOOLEAN :
            RecordDeficiency(h, d, severity, known)
       \/ \E t \in TaskingIds : TaskSarResource(h, t)
       \/ AppendItem(h) \/ RereadRow(h) \/ FailRequest(h)
       \/ \E sent \in BOOLEAN : PublishEvent(h, sent)
  \/ \E d \in DeficiencyIds, actor \in Persons, action \in {"rectify", "verify"} : TransitionDeficiency(d, actor, action)
  \/ \E t \in TaskingIds, action \in {"enroute", "onscene", "release"} : TransitionSarTasking(t, action)
  \/ AppendSarComms

SafetySpec == SafetyInit /\ [][SafetyNext]_safetyVars

-----------------------------------------------------------------------------
(* Properties. *)

(***************************************************************************)
(* What was checked still holds at the write, although the check and the   *)
(* write are separate statements and other requests write in between.  A   *)
(* detained vessel is released only when every critical deficiency on      *)
(* record at that moment is VERIFIED, and no resource is tasked to an      *)
(* incident that is CLOSED.                                                *)
(***************************************************************************)
CheckedStillHolds ==
  [][/\ row' = "RELEASED" /\ row # "RELEASED" => OpenCritical = {}
     /\ \A t \in TaskingIds : taskings[t] = "NONE" /\ taskings'[t] # "NONE" => row # "CLOSED"]_safetyVars

(* Of a set of events: those of new rows and transitions, and the states these announce. *)
StepEvents(events) == {e \in events : e.action # Attachment}
StatesAnnounced(events) == {e.state : e \in StepEvents(events)}

(* A set of events tells the path of the row up to its state. *)
TellsPath(events) ==
  /\ row # "NONE" => row \in StatesAnnounced(events)
  /\ \A e \in StepEvents(events) : \/ e = [action |-> "create", state |-> FirstState]
                                   \/ \E s \in StatesAnnounced(events) : <<e.action, s, e.state>> \in Ladder
  /\ \A s \in StatesAnnounced(events) \ {row} :
       \E e \in StepEvents(events) : <<e.action, s, e.state>> \in Ladder
  /\ \A e \in events : e.state \in StatesAnnounced(events)

(***************************************************************************)
(* Events are published after the commit, by requests that overtake each   *)
(* other.  Still, as long as every committed change was answered with      *)
(* success and none is on its way to the topic, the topic tells the whole  *)
(* path of the row: its creation, each further state by a step of the      *)
(* ladder from an announced state, up to the state the row is in.  The     *)
(* event of a tasking or of an evidence item carries a state of that path. *)
(***************************************************************************)
TopicTellsPath ==
  ~broken /\ (\A h \in Handlers : handling[h].pc \notin {"reread", "publish"}) => TellsPath(safetyTopic)

(***************************************************************************)
(* A statement the code does not keep: "Every mutation persists ... and    *)
(* publishes the canonical signed envelope" (api/safety.go 7-9).           *)
(* Deficiencies, tasking transitions and communications are answered with  *)
(* success and publish nothing.                                            *)
(***************************************************************************)
EveryMutationIsPublished ==
  [][<<deficiencies, taskings, comms>>' # <<deficiencies, taskings, comms>>
       => \E h \in Handlers : handling'[h].pc \in {"reread", "publish"} /\ handling'[h] # handling[h]]_safetyVars
=============================================================================
