---------------------------- MODULE DeliveryProofs ----------------------------
(***************************************************************************)
(* What reaches its readers: the history of a vessel's static data, the    *)
(* streams of the fan-out hub, and the reports and distress alerts of the  *)
(* mobile app, proved for every number of reports, subscribers, events and *)
(* workers and every bound.                                                *)
(***************************************************************************)
EXTENDS VesselStatic, Hub, AppReports, TLAPS

-----------------------------------------------------------------------------
(* AppReports: the inductive invariant. *)

Serving == [pc : {"insert", "compare", "handle", "publish"}, entry : Entries, id : Ids]
Announcing == [pc : {"notice"}, id : Ids, action : Actions]
AppRow == [entry : Entries, id : Ids]
PhoneAnswer == [entry : Entries, id : Ids, status : {200, 409, 500}]

AppTypeOK ==
  /\ rows \in SUBSET AppRow
  /\ sosState \in [Ids -> {"NONE", "RAISED", "ACKNOWLEDGED", "RESOLVED"}]
  /\ request \in [Workers -> {NoRequest} \cup Serving \cup Announcing]
  /\ published \in [Ids -> Nat]
  /\ notices \in [Ids \X Actions -> Nat]
  /\ answers \in SUBSET PhoneAnswer
  /\ minted \in Nat

(* No row, alert or envelope carries an id that no request has written yet. *)
Untouched(id) == (\A r \in rows : r.id # id) /\ sosState[id] = "NONE" /\ published[id] = 0

(* A request works on an id of its own: unwritten before the insert, stored and silent after it. *)
OwnsItsId(w) ==
  /\ request[w] \in Serving => request[w].id <= minted /\ published[request[w].id] = 0
  /\ request[w].pc \in {"insert", "compare"} => Untouched(request[w].id)
  /\ request[w].pc \in {"handle", "publish"} => [entry |-> request[w].entry, id |-> request[w].id] \in rows

OwnIds ==
  \A v, w \in Workers :
    v # w /\ request[v] \in Serving /\ request[w] \in Serving => request[v].id # request[w].id

UnmintedIds == \A id \in Ids : id > minted => Untouched(id)

(* A worker is about to announce this lifecycle step. *)
AboutTo(w, id, action) == request[w] = [pc |-> "notice", id |-> id, action |-> action]

(* The states of an alert for which the step was taken. *)
After(action) == IF action = "acknowledge" THEN {"ACKNOWLEDGED", "RESOLVED"} ELSE {"RESOLVED"}

(* A lifecycle step is announced by one worker, once, and only after it was taken. *)
StepAnnounced(id, action) ==
  /\ notices[<<id, action>>] <= 1
  /\ \A w \in Workers : AboutTo(w, id, action) => notices[<<id, action>>] = 0
  /\ \A v, w \in Workers : AboutTo(v, id, action) /\ AboutTo(w, id, action) => v = w
  /\ (notices[<<id, action>>] = 1 \/ \E w \in Workers : AboutTo(w, id, action)) => sosState[id] \in After(action)

StepsAnnounced == \A id \in Ids, action \in Actions : StepAnnounced(id, action)

AppInv ==
  /\ AppTypeOK
  /\ \A w \in Workers : OwnsItsId(w)
  /\ OwnIds
  /\ UnmintedIds
  /\ OneEnvelopePerOutbox
  /\ AcceptedIsPublished
  /\ StepsAnnounced

LEMMA AppInitInv == AppInit => AppInv
<1> SUFFICES ASSUME AppInit PROVE AppInv
  BY Zenon
<1>1. AppTypeOK
  BY DEF AppInit, AppTypeOK, AppRow, PhoneAnswer
<1>2. \A w \in Workers : request[w] = NoRequest /\ request[w].pc = "idle" /\ request[w] \notin Serving
  BY Zenon DEF AppInit, NoRequest, Serving
<1>3. \A w \in Workers : OwnsItsId(w)
  BY <1>2, Zenon DEF OwnsItsId
<1>4. OwnIds
  BY <1>2, Zenon DEF OwnIds
<1>5. UnmintedIds
  BY Zenon DEF AppInit, UnmintedIds, Untouched
<1>6. OneEnvelopePerOutbox
  BY DEF AppInit, OneEnvelopePerOutbox
<1>7. AcceptedIsPublished
  BY Zenon DEF AppInit, AcceptedIsPublished
<1>8. StepsAnnounced
  <2> SUFFICES ASSUME NEW id \in Ids, NEW action \in Actions PROVE StepAnnounced(id, action)
    BY Zenon DEF StepsAnnounced
  <2>1. \A w \in Workers : ~AboutTo(w, id, action)
    BY <1>2 DEF AboutTo
  <2>2. notices[<<id, action>>] = 0
    BY Zenon DEF AppInit
  <2> QED BY <2>1, <2>2 DEF StepAnnounced
<1> QED BY <1>1, <1>3, <1>4, <1>5, <1>6, <1>7, <1>8, Zenon DEF AppInv

(* What kind of request a worker serves shows in its pc. *)
LEMMA RequestKinds ==
  ASSUME AppTypeOK, NEW w \in Workers
  PROVE  /\ request[w].pc \in {"insert", "compare", "handle", "publish"} => request[w] \in Serving
         /\ request[w].pc = "notice" => request[w] \in Announcing
         /\ request[w].pc = "idle" => request[w] = NoRequest
         /\ request[w] \in Serving => /\ request[w].pc \in {"insert", "compare", "handle", "publish"}
                                       /\ request[w].entry \in Entries /\ request[w].id \in Ids
BY DEF AppTypeOK, Serving, Announcing, NoRequest

(* Request w becomes next, and no other changes. *)
Becomes(w, next) == \A v \in Workers : request'[v] = IF v = w THEN next ELSE request[v]

(* A request goes on, or ends, with its entry and its id. *)
GoesOn(w, next) ==
  \/ next = NoRequest
  \/ /\ next \in Serving /\ request[w] \in Serving
     /\ next.entry = request[w].entry /\ next.id = request[w].id

LEMMA AnnouncementsKept ==
  ASSUME AppInv, UNCHANGED notices,
         \A w \in Workers, id \in Ids, action \in Actions : AboutTo(w, id, action)' => AboutTo(w, id, action),
         \A id \in Ids : sosState[id] # "NONE" => sosState'[id] = sosState[id]
  PROVE  StepsAnnounced'
<1> SUFFICES ASSUME NEW id \in Ids, NEW action \in Actions PROVE StepAnnounced(id, action)'
  BY Zenon DEF StepsAnnounced
<1>1. StepAnnounced(id, action)
  BY Zenon DEF AppInv, StepsAnnounced
<1>2. "NONE" \notin After(action)
  BY Zenon DEF After
<1>3. \A w \in Workers : AboutTo(w, id, action)' => AboutTo(w, id, action)
  BY Zenon
<1> QED BY <1>1, <1>2, <1>3, Zenon DEF StepAnnounced

LEMMA GoesOnKeepsNotices ==
  ASSUME AppTypeOK, NEW w \in Workers, NEW next, Becomes(w, next), GoesOn(w, next)
  PROVE  \A v \in Workers, id \in Ids, action \in Actions : AboutTo(v, id, action)' => AboutTo(v, id, action)
<1> SUFFICES ASSUME NEW v \in Workers, NEW id \in Ids, NEW action \in Actions,
                    request'[v] = [pc |-> "notice", id |-> id, action |-> action]
             PROVE  request[v] = [pc |-> "notice", id |-> id, action |-> action]
  BY Zenon DEF AboutTo
<1>1. CASE v = w
  BY <1>1 DEF Becomes, GoesOn, NoRequest, Serving
<1>2. CASE v # w
  BY <1>2, Zenon DEF Becomes
<1> QED BY <1>1, <1>2, Zenon

LEMMA GoesOnKeepsOwnIds ==
  ASSUME AppInv, NEW w \in Workers, NEW next, Becomes(w, next), GoesOn(w, next)
  PROVE  OwnIds'
<1>1. \A v \in Workers : request'[v] \in Serving => request[v] \in Serving /\ request'[v].id = request[v].id
  BY DEF Becomes, GoesOn, NoRequest, Serving
<1> QED BY <1>1, Zenon DEF OwnIds, AppInv

(* A step of a request that changes neither the tables nor the topics. *)
LEMMA AppQuietStep ==
  ASSUME AppInv, NEW w \in Workers, NEW next, Becomes(w, next), GoesOn(w, next),
         request' \in [Workers -> {NoRequest} \cup Serving \cup Announcing],
         next.pc \in {"insert", "compare"} => request[w].pc \in {"insert", "compare"},
         next.pc \in {"handle", "publish"} => request[w].pc \in {"handle", "publish"},
         UNCHANGED <<rows, sosState, published, notices, minted>>,
         answers' \in SUBSET PhoneAnswer, \A a \in answers' : a \in answers \/ a.status # 200
  PROVE  AppInv'
<1>1. AppTypeOK'
  BY Zenon DEF AppInv, AppTypeOK
<1>2. ASSUME NEW v \in Workers PROVE OwnsItsId(v)'
  <2>1. OwnsItsId(v)
    BY Zenon DEF AppInv
  <2>2. CASE v # w
    BY <2>1, <2>2 DEF OwnsItsId, Becomes, Untouched
  <2>3. CASE v = w
    <3>1. request'[w] = next
      BY Zenon DEF Becomes
    <3>2. CASE next = NoRequest
      BY <2>3, <3>1, <3>2 DEF OwnsItsId, NoRequest, Serving
    <3>3. CASE /\ next \in Serving /\ request[w] \in Serving
               /\ next.entry = request[w].entry /\ next.id = request[w].id
      BY <2>1, <2>3, <3>1, <3>3 DEF OwnsItsId, Untouched
    <3> QED BY <3>2, <3>3, Zenon DEF GoesOn
  <2> QED BY <2>2, <2>3, Zenon
<1>3. OwnIds'
  BY GoesOnKeepsOwnIds, Zenon
<1>4. UnmintedIds' /\ OneEnvelopePerOutbox'
  BY DEF AppInv, UnmintedIds, Untouched, OneEnvelopePerOutbox
<1>5. AcceptedIsPublished'
  BY DEF AppInv, AcceptedIsPublished
<1>6. StepsAnnounced'
  <2>1. \A v \in Workers, id \in Ids, action \in Actions : AboutTo(v, id, action)' => AboutTo(v, id, action)
    BY GoesOnKeepsNotices, Zenon DEF AppInv
  <2> QED BY <2>1, AnnouncementsKept, Zenon
<1> QED BY <1>1, <1>2, <1>3, <1>4, <1>5, <1>6, Zenon DEF AppInv

LEMMA MovesTo ==
  ASSUME AppTypeOK, NEW w \in Workers, NEW pc \in {"insert", "compare", "handle", "publish"},
         request[w] \in Serving, Goto(w, pc)
  PROVE  LET next == [pc |-> pc, entry |-> request[w].entry, id |-> request[w].id]
         IN  /\ Becomes(w, next) /\ GoesOn(w, next) /\ next.pc = pc
             /\ request' \in [Workers -> {NoRequest} \cup Serving \cup Announcing]
<1> DEFINE next == [pc |-> pc, entry |-> request[w].entry, id |-> request[w].id]
<1>1. next \in Serving /\ next.entry = request[w].entry /\ next.id = request[w].id /\ next.pc = pc
  BY Zenon DEF Serving
<1>2. [request[w] EXCEPT !.pc = pc] = next
  BY DEF Serving
<1>3. request' = [request EXCEPT ![w] = next]
  BY <1>2, Zenon DEF Goto, AppTypeOK
<1> HIDE DEF next
<1>4. Becomes(w, next) /\ GoesOn(w, next)
  BY <1>1, <1>3, Zenon DEF Becomes, GoesOn, AppTypeOK
<1>5. request' \in [Workers -> {NoRequest} \cup Serving \cup Announcing]
  BY <1>1, <1>3, Zenon DEF AppTypeOK
<1> QED BY <1>1, <1>4, <1>5, Zenon DEF next

LEMMA Returns ==
  ASSUME AppTypeOK, NEW w \in Workers, Return(w)
  PROVE  /\ Becomes(w, NoRequest) /\ GoesOn(w, NoRequest)
         /\ request' \in [Workers -> {NoRequest} \cup Serving \cup Announcing]
BY Zenon DEF Return, Becomes, GoesOn, AppTypeOK

LEMMA Answers ==
  ASSUME AppTypeOK, NEW w \in Workers, request[w] \in Serving, NEW status \in {200, 409, 500},
         AnswerPhone(w, status)
  PROVE  /\ answers' \in SUBSET PhoneAnswer
         /\ \A a \in answers' : a \in answers \/ (a.entry = request[w].entry /\ a.id = request[w].id /\ a.status = status)
         /\ answers \subseteq answers' /\ Return(w)
<1> DEFINE a == [entry |-> request[w].entry, id |-> request[w].id, status |-> status]
<1>1. a \in PhoneAnswer /\ a.entry = request[w].entry /\ a.id = request[w].id /\ a.status = status
  BY DEF PhoneAnswer, Serving
<1>2. answers' = answers \cup {a} /\ Return(w)
  BY DEF AnswerPhone
<1> HIDE DEF a
<1> QED BY <1>1, <1>2 DEF AppTypeOK

LEMMA QuietFailStep ==
  ASSUME AppInv, NEW w \in Workers, request[w] \in Serving, Fail(w),
         UNCHANGED <<rows, sosState, published, notices, minted>>
  PROVE  AppInv'
<1>1. AppTypeOK /\ AnswerPhone(w, 500)
  BY Zenon DEF AppInv, Fail
<1>2. /\ answers' \in SUBSET PhoneAnswer /\ Return(w)
      /\ \A a \in answers' : a \in answers \/ a.status # 200
  BY <1>1, Answers
<1>3. NoRequest.pc = "idle"
  BY Zenon DEF NoRequest
<1> QED BY <1>1, <1>2, <1>3, Returns, AppQuietStep

LEMMA CompareStep ==
  ASSUME AppInv, NEW w \in Workers, Compare(w)
  PROVE  AppInv'
<1>1. request[w] \in Serving /\ AppTypeOK /\ OwnsItsId(w)
  BY RequestKinds, Zenon DEF Compare, AppInv
<1>2. CASE Fail(w)
  BY <1>1, <1>2, QuietFailStep, Zenon DEF Compare
<1>3. ASSUME NEW r \in Stored(request[w].entry),
             AnswerPhone(w, IF r = [entry |-> request[w].entry, id |-> request[w].id] THEN 200 ELSE 409)
      PROVE  AppInv'
  <2>1. r # [entry |-> request[w].entry, id |-> request[w].id]
    BY <1>1 DEF OwnsItsId, Untouched, Stored, Compare
  <2>2. AnswerPhone(w, 409)
    BY <1>3, <2>1, Zenon
  <2>3. /\ answers' \in SUBSET PhoneAnswer /\ Return(w)
        /\ \A a \in answers' : a \in answers \/ a.status # 200
    BY <1>1, <2>2, Answers
  <2>4. NoRequest.pc = "idle"
    BY Zenon DEF NoRequest
  <2>5. UNCHANGED <<rows, sosState, published, notices, minted>>
    BY Zenon DEF Compare
  <2> QED BY <1>1, <2>3, <2>4, <2>5, Returns, AppQuietStep, Zenon
<1> QED BY <1>2, <1>3, Zenon DEF Compare

LEMMA HandleStep ==
  ASSUME AppInv, NEW w \in Workers, Handle(w)
  PROVE  AppInv'
<1>1. request[w] \in Serving /\ AppTypeOK
  BY RequestKinds, Zenon DEF Handle, AppInv
<1>2. CASE Fail(w)
  BY <1>1, <1>2, QuietFailStep, Zenon DEF Handle
<1>3. CASE Goto(w, "publish") /\ UNCHANGED <<answers, faults>>
  <2>1. PICK next : /\ Becomes(w, next) /\ GoesOn(w, next) /\ next.pc = "publish"
                    /\ request' \in [Workers -> {NoRequest} \cup Serving \cup Announcing]
    BY <1>1, <1>3, MovesTo, Zenon
  <2>2. answers' \in SUBSET PhoneAnswer /\ \A a \in answers' : a \in answers
    BY <1>1, <1>3, Zenon DEF AppTypeOK
  <2>3. request[w].pc = "handle" /\ UNCHANGED <<rows, sosState, published, notices, minted>>
    BY Zenon DEF Handle
  <2> QED BY <2>1, <2>2, <2>3, AppQuietStep, Zenon
<1> QED BY <1>2, <1>3, Zenon DEF Handle

LEMMA StoreStep ==
  ASSUME AppInv, NEW w \in Workers, request[w].pc = "insert", Stored(request[w].entry) = {}, StoreRow(w),
         NEW next, Becomes(w, next), GoesOn(w, next), next.pc \in {"handle", "publish", "idle"},
         request' \in [Workers -> {NoRequest} \cup Serving \cup Announcing],
         UNCHANGED <<published, notices, minted>>,
         answers' \in SUBSET PhoneAnswer, \A a \in answers' : a \in answers \/ a.status # 200
  PROVE  AppInv'
<1> DEFINE id == request[w].id
           r == [entry |-> request[w].entry, id |-> id]
<1>1. request[w] \in Serving /\ AppTypeOK /\ OwnsItsId(w) /\ id \in Ids
  BY RequestKinds, Zenon DEF AppInv
<1>2. r \in AppRow /\ r.id = id
  BY <1>1, RequestKinds, Zenon DEF AppRow
<1>3. rows' = rows \cup {r}
  BY Zenon DEF StoreRow
<1>4. Untouched(id) /\ id <= minted
  BY <1>1, Zenon DEF OwnsItsId
<1>5. \A i \in Ids : i # id => sosState'[i] = sosState[i]
  BY <1>1, Zenon DEF StoreRow, AppTypeOK
<1>6. sosState' \in [Ids -> {"NONE", "RAISED", "ACKNOWLEDGED", "RESOLVED"}]
  BY <1>1, Zenon DEF StoreRow, AppTypeOK
<1>7. \A i \in Ids : i # id /\ Untouched(i) => Untouched(i)'
  BY <1>2, <1>3, <1>5 DEF Untouched
<1>8. AppTypeOK'
  BY <1>1, <1>2, <1>3, <1>6 DEF AppTypeOK
<1>9. ASSUME NEW v \in Workers PROVE OwnsItsId(v)'
  <2>1. OwnsItsId(v)
    BY Zenon DEF AppInv
  <2>2. CASE v # w
    <3>1. request'[v] = request[v]
      BY <2>2, Zenon DEF Becomes
    <3>2. request[v] \in Serving => request[v].id # id /\ request[v].id \in Ids
      BY <1>1, <2>2, RequestKinds DEF AppInv, OwnIds
    <3>3. request[v].pc \in {"insert", "compare"} => Untouched(request[v].id)'
      <4>1. request[v].pc \in {"insert", "compare"} => request[v] \in Serving
        BY <1>1, RequestKinds, Zenon
      <4>2. request[v].pc \in {"insert", "compare"} => Untouched(request[v].id)
        BY <2>1, Zenon DEF OwnsItsId
      <4> HIDE DEF id
      <4>3. ASSUME request[v].pc \in {"insert", "compare"} PROVE Untouched(request[v].id)'
        <5>1. PICK i \in Ids : i = request[v].id /\ i # id /\ Untouched(i)
          BY <3>2, <4>1, <4>2, <4>3, Zenon
        <5>2. Untouched(i)' /\ request'[v].id = i
          BY <1>7, <3>1, <5>1, Zenon
        <5> QED BY <5>2, Zenon DEF Untouched
      <4> QED BY <4>3, Zenon
    <3> QED BY <1>3, <2>1, <3>1, <3>3, Zenon DEF OwnsItsId
  <2>3. CASE v = w
    <3>1. request'[w] = next
      BY Zenon DEF Becomes
    <3>2. CASE next = NoRequest
      BY <2>3, <3>1, <3>2 DEF OwnsItsId, NoRequest, Serving
    <3>3. CASE /\ next \in Serving /\ request[w] \in Serving
               /\ next.entry = request[w].entry /\ next.id = request[w].id
      BY <1>3, <1>4, <2>3, <3>1, <3>3, Zenon DEF OwnsItsId, Untouched
    <3> QED BY <3>2, <3>3, Zenon DEF GoesOn
  <2> QED BY <2>2, <2>3, Zenon
<1>10. OwnIds'
  BY GoesOnKeepsOwnIds, Zenon
<1>11. UnmintedIds'
  <2> SUFFICES ASSUME NEW i \in Ids, i > minted PROVE Untouched(i)'
    BY Zenon DEF UnmintedIds
  <2>1. Untouched(i) /\ i # id
    BY <1>1, <1>4 DEF AppInv, UnmintedIds, AppTypeOK, Ids
  <2> QED BY <1>7, <2>1, Zenon
<1>12. OneEnvelopePerOutbox'
  <2>1. \A x \in rows : ~(x.entry.kind = r.entry.kind /\ x.entry.outbox = r.entry.outbox)
    BY Zenon DEF Stored
  <2> HIDE DEF r
  <2> QED BY <1>3, <2>1 DEF AppInv, OneEnvelopePerOutbox
<1>13. AcceptedIsPublished'
  BY <1>3 DEF AppInv, AcceptedIsPublished
<1>14. StepsAnnounced'
  <2>1. \A v \in Workers, i \in Ids, action \in Actions : AboutTo(v, i, action)' => AboutTo(v, i, action)
    BY GoesOnKeepsNotices, Zenon DEF AppInv
  <2>2. \A i \in Ids : sosState[i] # "NONE" => sosState'[i] = sosState[i]
    BY <1>4, <1>5, Zenon DEF Untouched
  <2> QED BY <2>1, <2>2, AnnouncementsKept, Zenon
<1> QED BY <1>8, <1>9, <1>10, <1>11, <1>12, <1>13, <1>14, Zenon DEF AppInv

LEMMA InsertStep ==
  ASSUME AppInv, NEW w \in Workers, Insert(w)
  PROVE  AppInv'
<1>1. /\ request[w] \in Serving /\ AppTypeOK /\ request[w].pc = "insert"
      /\ UNCHANGED <<published, notices, minted>>
  BY RequestKinds, Zenon DEF Insert, AppInv
<1>2. NoRequest.pc = "idle"
  BY Zenon DEF NoRequest
<1>3. ASSUME NEW pc \in {"compare", "handle", "publish"}, Goto(w, pc), UNCHANGED answers,
             IF pc = "compare" THEN UNCHANGED <<rows, sosState>>
             ELSE Stored(request[w].entry) = {} /\ StoreRow(w)
      PROVE  AppInv'
  <2>1. PICK next : /\ Becomes(w, next) /\ GoesOn(w, next) /\ next.pc = pc
                    /\ request' \in [Workers -> {NoRequest} \cup Serving \cup Announcing]
    BY <1>1, <1>3, MovesTo, Zenon
  <2>2. answers' \in SUBSET PhoneAnswer /\ \A a \in answers' : a \in answers
    BY <1>1, <1>3, Zenon DEF AppTypeOK
  <2>3. CASE pc = "compare"
    BY <1>1, <1>3, <2>1, <2>2, <2>3, AppQuietStep, Zenon
  <2>4. CASE pc # "compare"
    BY <1>1, <1>3, <2>1, <2>2, <2>4, StoreStep, Zenon
  <2> QED BY <2>3, <2>4, Zenon
<1>4. CASE Fail(w) /\ UNCHANGED <<rows, sosState>>
  BY <1>1, <1>4, QuietFailStep, Zenon
<1>5. CASE Fail(w) /\ Stored(request[w].entry) = {} /\ StoreRow(w)
  <2>1. /\ answers' \in SUBSET PhoneAnswer /\ Return(w)
        /\ \A a \in answers' : a \in answers \/ a.status # 200
    BY <1>1, <1>5, Answers DEF Fail
  <2>2. /\ Becomes(w, NoRequest) /\ GoesOn(w, NoRequest)
        /\ request' \in [Workers -> {NoRequest} \cup Serving \cup Announcing]
    BY <1>1, <2>1, Returns, Zenon
  <2> QED BY <1>1, <1>2, <1>5, <2>1, <2>2, StoreStep, Zenon
<1> QED BY <1>3, <1>4, <1>5, Zenon DEF Insert

LEMMA PublishReportStep ==
  ASSUME AppInv, NEW w \in Workers, PublishReport(w)
  PROVE  AppInv'
<1> DEFINE id == request[w].id
           r == [entry |-> request[w].entry, id |-> id]
<1>1. /\ request[w] \in Serving /\ AppTypeOK /\ request[w].pc = "publish" /\ OwnsItsId(w) /\ id \in Ids
      /\ UNCHANGED <<rows, sosState, notices, minted>>
  BY RequestKinds, Zenon DEF PublishReport, AppInv
<1>2. CASE published' = published
  <2>1. Fail(w)
    BY <1>1, <1>2 DEF PublishReport, OwnsItsId, AppTypeOK
  <2> QED BY <1>1, <1>2, <2>1, QuietFailStep, Zenon
<1>3. CASE published' = [published EXCEPT ![id] = @ + 1]
  <2>1. PICK status \in {200, 500} : AnswerPhone(w, status)
    BY DEF PublishReport, Fail
  <2>2. /\ answers' \in SUBSET PhoneAnswer /\ Return(w)
        /\ \A a \in answers' : a \in answers \/ (a.entry = request[w].entry /\ a.id = request[w].id /\ a.status = status)
    BY <1>1, <2>1, Answers
  <2>3. /\ Becomes(w, NoRequest) /\ GoesOn(w, NoRequest)
        /\ request' \in [Workers -> {NoRequest} \cup Serving \cup Announcing]
    BY <1>1, <2>2, Returns, Zenon
  <2>4. /\ published[id] = 0 /\ id <= minted /\ r \in rows /\ r.id = id /\ r.entry = request[w].entry
    BY <1>1, Zenon DEF OwnsItsId
  <2> HIDE DEF id, r
  <2>5. published' \in [Ids -> Nat] /\ \A i \in Ids : published'[i] = IF i = id THEN 1 ELSE published[i]
    BY <1>1, <1>3, <2>4 DEF AppTypeOK
  <2>6. AppTypeOK'
    BY <1>1, <2>2, <2>3, <2>5, Zenon DEF AppTypeOK
  <2>7. ASSUME NEW v \in Workers PROVE OwnsItsId(v)'
    <3>1. OwnsItsId(v)
      BY DEF AppInv
    <3>2. CASE v # w
      <4>1. request'[v] = request[v]
        BY <3>2, <2>3 DEF Becomes
      <4>2. request[v] \in Serving => request[v].id # id /\ request[v].id \in Ids
        BY <1>1, <3>2, RequestKinds DEF AppInv, OwnIds, id
      <4>3. request[v].pc \in {"insert", "compare"} => request[v] \in Serving
        BY <1>1, RequestKinds
      <4> QED BY <1>1, <2>5, <3>1, <4>1, <4>2, <4>3 DEF OwnsItsId, Untouched
    <3>3. CASE v = w
      BY <2>3, <3>3 DEF OwnsItsId, Becomes, NoRequest, Serving
    <3> QED BY <3>2, <3>3
  <2>8. OwnIds'
    BY <2>3, GoesOnKeepsOwnIds, Zenon
  <2>9. UnmintedIds'
    BY <1>1, <2>4, <2>5 DEF AppInv, UnmintedIds, Untouched, AppTypeOK, Ids
  <2>10. OneEnvelopePerOutbox'
    BY <1>1, <2>4, <2>5 DEF AppInv, OneEnvelopePerOutbox
  <2>11. AcceptedIsPublished'
    <3> SUFFICES ASSUME NEW a \in answers', a.status = 200
                 PROVE  \E x \in rows' : x.entry = a.entry /\ published'[x.id] > 0
      BY Zenon DEF AcceptedIsPublished
    <3>1. CASE a \in answers
      <4>1. PICK x \in rows : x.entry = a.entry /\ published[x.id] > 0
        BY <3>1 DEF AppInv, AcceptedIsPublished
      <4>2. x.id \in Ids
        BY <1>1 DEF AppTypeOK, AppRow
      <4> QED BY <1>1, <2>5, <4>1, <4>2
    <3>2. CASE a.entry = request[w].entry
      BY <1>1, <2>4, <2>5, <3>2
    <3> QED BY <2>2, <3>1, <3>2
  <2>12. StepsAnnounced'
    <3>1. \A v \in Workers, i \in Ids, action \in Actions : AboutTo(v, i, action)' => AboutTo(v, i, action)
      BY <1>1, <2>3, GoesOnKeepsNotices, Zenon
    <3> QED BY <1>1, <3>1, AnnouncementsKept, Zenon
  <2> QED BY <2>6, <2>7, <2>8, <2>9, <2>10, <2>11, <2>12, Zenon DEF AppInv
<1> QED BY <1>2, <1>3, Zenon DEF PublishReport

LEMMA ServeStep ==
  ASSUME AppInv, NEW w \in Workers, NEW e \in Entries, Serve(w, e)
  PROVE  AppInv'
<1> DEFINE id == minted + 1
           next == [pc |-> "insert", entry |-> e, id |-> id]
<1>1. /\ AppTypeOK /\ request[w] = NoRequest /\ minted' = id
      /\ UNCHANGED <<rows, sosState, published, notices, answers>>
  BY RequestKinds, Zenon DEF Serve, AppInv
<1>2. id \in Ids /\ id > minted /\ minted \in Nat
  BY <1>1, AppAssumption DEF Serve, Ids, AppTypeOK
<1>3. next \in Serving /\ next.id = id /\ next.pc = "insert"
  BY <1>2, Zenon DEF Serving
<1>4. request' = [request EXCEPT ![w] = next]
  BY Zenon DEF Serve
<1> HIDE DEF next
<1>5. Becomes(w, next)
  BY <1>1, <1>4, Zenon DEF Becomes, AppTypeOK
<1>6. Untouched(id)
  BY <1>2, Zenon DEF AppInv, UnmintedIds
<1>7. AppTypeOK'
  <2>1. request' \in [Workers -> {NoRequest} \cup Serving \cup Announcing]
    BY <1>1, <1>3, <1>4, Zenon DEF AppTypeOK
  <2>2. minted' \in Nat
    BY <1>1, <1>2
  <2> QED BY <1>1, <2>1, <2>2, Zenon DEF AppTypeOK
<1>8. ASSUME NEW v \in Workers PROVE OwnsItsId(v)'
  <2>1. OwnsItsId(v) /\ (request[v] \in Serving => request[v].id \in Ids)
    BY <1>1, RequestKinds, Zenon DEF AppInv
  <2>2. CASE v # w
    <3>1. request'[v] = request[v]
      BY <1>5, <2>2, Zenon DEF Becomes
    <3> QED BY <1>1, <1>2, <2>1, <3>1 DEF OwnsItsId, Untouched, Ids
  <2>3. CASE v = w
    <3>1. request'[v] = next
      BY <1>5, <2>3, Zenon DEF Becomes
    <3>2. /\ next.id <= minted' /\ next.pc \notin {"handle", "publish"}
          /\ (\A r \in rows' : r.id # next.id) /\ sosState'[next.id] = "NONE" /\ published'[next.id] = 0
      BY <1>1, <1>2, <1>3, <1>6 DEF Untouched
    <3> QED BY <3>1, <3>2, Zenon DEF OwnsItsId, Untouched
  <2> QED BY <2>2, <2>3, Zenon
<1>9. OwnIds'
  <2>1. \A v \in Workers : request[v] \in Serving => request[v].id # id
    <3> TAKE v \in Workers
    <3>1. request[v] \in Serving => request[v].id <= minted /\ request[v].id \in Ids
      BY <1>1, RequestKinds, Zenon DEF AppInv, OwnsItsId
    <3> QED BY <1>2, <3>1 DEF Ids
  <2> QED BY <1>3, <1>5, <2>1, Zenon DEF OwnIds, Becomes, AppInv
<1>10. UnmintedIds'
  BY <1>1, <1>2 DEF AppInv, UnmintedIds, Untouched, Ids
<1>11. OneEnvelopePerOutbox' /\ AcceptedIsPublished'
  BY <1>1 DEF AppInv, OneEnvelopePerOutbox, AcceptedIsPublished
<1>12. StepsAnnounced'
  <2>1. \A v \in Workers, i \in Ids, action \in Actions : AboutTo(v, i, action)' => AboutTo(v, i, action)
    BY <1>3, <1>5 DEF AboutTo, Becomes
  <2> QED BY <1>1, <2>1, AnnouncementsKept, Zenon
<1> QED BY <1>7, <1>8, <1>9, <1>10, <1>11, <1>12, Zenon DEF AppInv

(* Steps of the lifecycle leave the requests of the phones alone. *)
LEMMA PhonesUntouched ==
  ASSUME AppInv, UNCHANGED <<rows, published, answers, minted>>, AppTypeOK',
         \A v \in Workers : request'[v] \in Serving => request'[v] = request[v],
         \A id \in Ids : sosState[id] = "NONE" => sosState'[id] = "NONE"
  PROVE  /\ \A v \in Workers : OwnsItsId(v)'
         /\ OwnIds' /\ UnmintedIds' /\ OneEnvelopePerOutbox' /\ AcceptedIsPublished'
<1>1. ASSUME NEW v \in Workers PROVE OwnsItsId(v)'
  <2>1. CASE request'[v] \in Serving
    <3>1. request'[v] = request[v] /\ OwnsItsId(v) /\ request[v].id \in Ids
      BY <2>1, RequestKinds, Zenon DEF AppInv
    <3> QED BY <3>1, Zenon DEF OwnsItsId, Untouched
  <2>2. CASE request'[v] \notin Serving
    <3>1. request'[v] \in {NoRequest} \cup Announcing
      BY <2>2, Zenon DEF AppTypeOK
    <3>2. request'[v].pc \in {"idle", "notice"}
      BY <3>1 DEF NoRequest, Announcing
    <3> QED BY <2>2, <3>2, Zenon DEF OwnsItsId
  <2> QED BY <2>1, <2>2, Zenon
<1>2. OwnIds'
  BY Zenon DEF AppInv, OwnIds
<1>3. UnmintedIds'
  BY Zenon DEF AppInv, UnmintedIds, Untouched
<1>4. OneEnvelopePerOutbox' /\ AcceptedIsPublished'
  BY DEF AppInv, OneEnvelopePerOutbox, AcceptedIsPublished
<1> QED BY <1>1, <1>2, <1>3, <1>4, Zenon

LEMMA TransitionStep ==
  ASSUME AppInv, NEW w \in Workers, NEW id \in Ids, NEW action \in Actions, TransitionSOSAlert(w, id, action)
  PROVE  AppInv'
<1> DEFINE next == [pc |-> "notice", id |-> id, action |-> action]
<1>1. /\ AppTypeOK /\ request[w] = NoRequest /\ Legal(id, action)
      /\ UNCHANGED <<rows, published, notices, answers, minted>>
  BY RequestKinds, Zenon DEF TransitionSOSAlert, AppInv
<1>2. next \in Announcing /\ next \notin Serving
  BY Zenon DEF Announcing, Serving
<1>3. request' = [request EXCEPT ![w] = next]
  BY Zenon DEF TransitionSOSAlert
<1>4. \A i \in Ids, x \in Actions : next = [pc |-> "notice", id |-> i, action |-> x] <=> i = id /\ x = action
  BY Zenon
<1> HIDE DEF next
<1>5. Becomes(w, next)
  BY <1>1, <1>3, Zenon DEF Becomes, AppTypeOK
<1>6. \A i \in Ids : sosState'[i] = IF i = id THEN Target(action) ELSE sosState[i]
  BY <1>1, Zenon DEF TransitionSOSAlert, AppTypeOK
<1>7. AppTypeOK'
  <2>1. request' \in [Workers -> {NoRequest} \cup Serving \cup Announcing]
    BY <1>1, <1>2, <1>3, Zenon DEF AppTypeOK
  <2>2. sosState' \in [Ids -> {"NONE", "RAISED", "ACKNOWLEDGED", "RESOLVED"}]
    BY <1>1, Zenon DEF TransitionSOSAlert, AppTypeOK, Target
  <2> QED BY <1>1, <2>1, <2>2, Zenon DEF AppTypeOK
<1>8. \A v \in Workers : request'[v] \in Serving => request'[v] = request[v]
  BY <1>2, <1>5, Zenon DEF Becomes
<1>9. \A i \in Ids : sosState[i] = "NONE" => sosState'[i] = "NONE"
  BY <1>1, <1>6, Zenon DEF Legal
<1>10. /\ \A v \in Workers : OwnsItsId(v)'
       /\ OwnIds' /\ UnmintedIds' /\ OneEnvelopePerOutbox' /\ AcceptedIsPublished'
  BY <1>1, <1>7, <1>8, <1>9, PhonesUntouched, Zenon
<1>11. ASSUME NEW i \in Ids, NEW x \in Actions PROVE StepAnnounced(i, x)'
  <2>1. StepAnnounced(i, x) /\ StepAnnounced(id, action)
    BY Zenon DEF AppInv, StepsAnnounced
  <2>2. sosState[id] \notin After(action) /\ Target(action) \in After(action)
    BY <1>1, Zenon DEF Legal, After, Target
  <2>3. \A v \in Workers : ~AboutTo(v, id, action)
    BY <2>1, <2>2, Zenon DEF StepAnnounced
  <2>4. notices[<<id, action>>] = 0
    <3>1. notices[<<id, action>>] \in Nat
      BY <1>1, Zenon DEF AppTypeOK
    <3>2. notices[<<id, action>>] <= 1 /\ notices[<<id, action>>] # 1
      BY <2>1, <2>2, Zenon DEF StepAnnounced
    <3> QED BY <3>1, <3>2
  <2>5. \A v \in Workers : AboutTo(v, i, x)' <=> IF v = w THEN i = id /\ x = action ELSE AboutTo(v, i, x)
    BY <1>4, <1>5, Zenon DEF AboutTo, Becomes
  <2>6. CASE i = id /\ x = action
    BY <1>1, <1>6, <2>2, <2>3, <2>4, <2>5, <2>6 DEF StepAnnounced
  <2>7. CASE ~(i = id /\ x = action)
    <3>1. \A v \in Workers : AboutTo(v, i, x)' => AboutTo(v, i, x)
      BY <2>5, <2>7, Zenon
    <3>2. sosState[i] \in After(x) => sosState'[i] \in After(x)
      BY <1>1, <1>6, Zenon DEF Legal, After, Target, Actions
    <3> QED BY <1>1, <2>1, <3>1, <3>2, Zenon DEF StepAnnounced
  <2> QED BY <2>6, <2>7, Zenon
<1> QED BY <1>7, <1>10, <1>11, Zenon DEF AppInv, StepsAnnounced

LEMMA NoticeStep ==
  ASSUME AppInv, NEW w \in Workers, PublishTransition(w)
  PROVE  AppInv'
<1> DEFINE id == request[w].id
           action == request[w].action
<1>1. /\ AppTypeOK /\ request[w] \in Announcing /\ Return(w)
      /\ UNCHANGED <<rows, sosState, published, answers, minted>>
  BY RequestKinds, Zenon DEF PublishTransition, AppInv
<1>2. id \in Ids /\ action \in Actions /\ AboutTo(w, id, action)
  BY <1>1, Zenon DEF Announcing, AboutTo
<1>3. /\ Becomes(w, NoRequest) /\ request' \in [Workers -> {NoRequest} \cup Serving \cup Announcing]
  BY <1>1, Returns, Zenon
<1>4. notices' \in {notices, [notices EXCEPT ![<<id, action>>] = @ + 1]}
  BY Zenon DEF PublishTransition
<1> HIDE DEF id, action
<1>5. StepAnnounced(id, action) /\ notices[<<id, action>>] = 0
  BY <1>2, Zenon DEF AppInv, StepsAnnounced, StepAnnounced
<1>6. notices' \in [Ids \X Actions -> Nat]
  BY <1>1, <1>2, <1>4 DEF AppTypeOK
<1>7. \A i \in Ids, x \in Actions :
        \/ notices'[<<i, x>>] = notices[<<i, x>>]
        \/ i = id /\ x = action /\ notices'[<<i, x>>] = 1
  BY <1>1, <1>2, <1>4, <1>5 DEF AppTypeOK
<1>8. AppTypeOK'
  BY <1>1, <1>3, <1>6, Zenon DEF AppTypeOK
<1>9. \A v \in Workers : request'[v] \in Serving => request'[v] = request[v]
  BY <1>3 DEF Becomes, NoRequest, Serving
<1>10. /\ \A v \in Workers : OwnsItsId(v)'
       /\ OwnIds' /\ UnmintedIds' /\ OneEnvelopePerOutbox' /\ AcceptedIsPublished'
  BY <1>1, <1>8, <1>9, PhonesUntouched, Zenon
<1>11. ASSUME NEW i \in Ids, NEW x \in Actions PROVE StepAnnounced(i, x)'
  <2>1. StepAnnounced(i, x)
    BY Zenon DEF AppInv, StepsAnnounced
  <2>2. \A v \in Workers : AboutTo(v, i, x)' => v # w /\ AboutTo(v, i, x)
    BY <1>3 DEF AboutTo, Becomes, NoRequest
  <2>3. CASE notices'[<<i, x>>] = notices[<<i, x>>]
    BY <1>1, <2>1, <2>2, <2>3, Zenon DEF StepAnnounced
  <2>4. CASE i = id /\ x = action /\ notices'[<<i, x>>] = 1
    <3>1. notices'[<<i, x>>] =< 1
      BY <2>4
    <3>2. \A v \in Workers : ~AboutTo(v, i, x)'
      BY <1>2, <1>5, <2>2, <2>4, Zenon DEF StepAnnounced
    <3>3. sosState'[i] \in After(x)
      BY <1>1, <1>2, <1>5, <2>4, Zenon DEF StepAnnounced
    <3> QED BY <3>1, <3>2, <3>3, Zenon DEF StepAnnounced
  <2> QED BY <1>7, <2>3, <2>4, Zenon
<1> QED BY <1>8, <1>10, <1>11, Zenon DEF AppInv, StepsAnnounced

LEMMA AppCrashStep ==
  ASSUME AppInv, Crash
  PROVE  AppInv'
<1>1. AppTypeOK /\ UNCHANGED <<rows, sosState, published, notices, answers, minted>>
  BY Zenon DEF AppInv, Crash
<1>2. \A v \in Workers : request'[v] = NoRequest
  BY Zenon DEF Crash
<1>3. AppTypeOK'
  BY <1>1, Zenon DEF AppTypeOK, Crash
<1>4. NoRequest \notin Serving
  BY Zenon DEF NoRequest, Serving
<1>5. /\ \A v \in Workers : OwnsItsId(v)'
      /\ OwnIds' /\ UnmintedIds' /\ OneEnvelopePerOutbox' /\ AcceptedIsPublished'
  BY <1>1, <1>2, <1>3, <1>4, PhonesUntouched, Zenon
<1>6. StepsAnnounced'
  <2>1. \A v \in Workers, i \in Ids, action \in Actions : AboutTo(v, i, action)' => AboutTo(v, i, action)
    BY <1>2 DEF AboutTo, NoRequest
  <2> QED BY <1>1, <2>1, AnnouncementsKept, Zenon
<1> QED BY <1>3, <1>5, <1>6, Zenon DEF AppInv

LEMMA AppStep == AppInv /\ [AppNext]_appVars => AppInv'
<1> SUFFICES ASSUME AppInv, [AppNext]_appVars PROVE AppInv'
  BY Zenon
<1>1. CASE UNCHANGED appVars
  <2>1. /\ rows' = rows /\ sosState' = sosState /\ request' = request /\ published' = published
        /\ notices' = notices /\ answers' = answers /\ minted' = minted /\ steps' = steps
    BY <1>1, Zenon DEF appVars
  <2>2. AppTypeOK' /\ OneEnvelopePerOutbox' /\ AcceptedIsPublished'
    BY <2>1 DEF AppInv, AppTypeOK, OneEnvelopePerOutbox, AcceptedIsPublished
  <2>3. OwnIds' /\ UnmintedIds' /\ \A w \in Workers : OwnsItsId(w)'
    BY <2>1, Zenon DEF AppInv, OwnsItsId, OwnIds, UnmintedIds, Untouched
  <2>4. StepsAnnounced'
    <3>1. \A v \in Workers, i \in Ids, action \in Actions : AboutTo(v, i, action)' => AboutTo(v, i, action)
      BY <2>1, Zenon DEF AboutTo
    <3> QED BY <2>1, <3>1, AnnouncementsKept, Zenon DEF AppInv
  <2> QED BY <2>2, <2>3, <2>4, Zenon DEF AppInv
<1> QED
  BY <1>1, ServeStep, InsertStep, CompareStep, HandleStep, PublishReportStep, TransitionStep, NoticeStep,
     AppCrashStep, Zenon
  DEF AppNext

LEMMA AppInvariant == AppSpec => []AppInv
BY AppInitInv, AppStep, PTL DEF AppSpec

(***************************************************************************)
(* A phone that is answered 200 may delete its outbox entry: the row with  *)
(* that payload is stored and its signed envelope is on the topic, for any *)
(* number of phones, retries, failed steps and crashes.                    *)
(***************************************************************************)
THEOREM AcceptedReportsArePublished == AppSpec => []AcceptedIsPublished
BY AppInvariant, PTL DEF AppInv

(***************************************************************************)
(* However often an outbox entry is sent again, by however many requests   *)
(* at once, one row is stored for its outbox id and at most one envelope   *)
(* is on the topic, the one of that row.                                   *)
(***************************************************************************)
THEOREM RetriesPublishOnce == AppSpec => []OneEnvelopePerOutbox
BY AppInvariant, PTL DEF AppInv

(***************************************************************************)
(* Any number of watch officers act on the alerts at once: each lifecycle  *)
(* step is announced at most once, and only after it was committed.        *)
(***************************************************************************)
THEOREM LifecycleIsAnnouncedOnce == AppSpec => []LifecycleAnnouncedOnce
<1>1. AppInv => LifecycleAnnouncedOnce
  <2> SUFFICES ASSUME AppInv, NEW id \in Ids
               PROVE  /\ \A action \in Actions : notices[<<id, action>>] <= 1
                      /\ notices[<<id, "acknowledge">>] = 1 => sosState[id] \in {"ACKNOWLEDGED", "RESOLVED"}
                      /\ notices[<<id, "resolve">>] = 1 => sosState[id] = "RESOLVED"
    BY Zenon DEF LifecycleAnnouncedOnce
  <2>1. \A action \in Actions : StepAnnounced(id, action)
    BY Zenon DEF AppInv, StepsAnnounced
  <2>2. StepAnnounced(id, "acknowledge") /\ StepAnnounced(id, "resolve")
    BY <2>1, Zenon DEF Actions
  <2> QED BY <2>1, <2>2, Zenon DEF StepAnnounced, After
<1> QED BY <1>1, AppInvariant, PTL

-----------------------------------------------------------------------------
(* VesselStatic: the inductive invariant. *)

StaticReport == [data : StaticData, at : StaticTimes]
StaticRow == [data : StaticData, from : StaticTimes, to : StaticTimes \cup {Forever}]
Upserting == [stage : {"select", "read"}, report : StaticReport, seen : SUBSET StaticRow]
Publishing == [stage : {"publish"}, report : StaticReport]

StaticTypeOK ==
  /\ history \in SUBSET StaticRow
  /\ upsert \in [Connectors -> {NoUpsert} \cup Upserting \cup Publishing]

(* A history that is not empty has one open version, and its versions tile time. *)
HistoryTiles ==
  history # {} =>
    /\ \E r \in history : Open(history) = {r}
    /\ \A r \in history : r.from < r.to
    /\ \A r \in history \ Open(history) : \E q \in history : q.from = r.to
    /\ \A r, q \in history : r # q => r.to <= q.from \/ q.to <= r.from

AppliedKept ==
  \A a \in applied : \E r \in history : r.data = a.report.data /\ (a.changed => r.from = a.report.at)

(* The row a transaction has locked is still the open one; one transaction holds it. *)
LockedIsOpen ==
  /\ \A c \in Connectors : upsert[c].stage = "read" => upsert[c].seen \subseteq Open(history)
  /\ \A c, d \in Holders : c = d

ReportApplied(c) == upsert[c].stage = "publish" => \E a \in applied : a.report = upsert[c].report

StaticInv ==
  /\ StaticTypeOK
  /\ HistoryTiles
  /\ AppliedKept
  /\ LockedIsOpen
  /\ \A c \in Connectors : ReportApplied(c)
  /\ staticTopic \subseteq {a.report : a \in applied}

LEMMA StaticInitInv == StaticInit => StaticInv
<1> SUFFICES ASSUME StaticInit PROVE StaticInv
  BY Zenon
<1>1. StaticTypeOK /\ HistoryTiles /\ AppliedKept /\ staticTopic \subseteq {a.report : a \in applied}
  BY Zenon DEF StaticInit, StaticTypeOK, HistoryTiles, AppliedKept
<1>2. \A c \in Connectors : upsert[c].stage = "idle"
  BY Zenon DEF StaticInit, NoUpsert
<1>3. LockedIsOpen
  BY <1>2, Zenon DEF LockedIsOpen, Holders
<1>4. \A c \in Connectors : ReportApplied(c)
  BY <1>2, Zenon DEF ReportApplied
<1> QED BY <1>1, <1>3, <1>4, Zenon DEF StaticInv

LEMMA UpsertKinds ==
  ASSUME StaticTypeOK, NEW c \in Connectors
  PROVE  /\ upsert[c].stage \in {"select", "read"} => upsert[c] \in Upserting
         /\ upsert[c].stage = "publish" => upsert[c] \in Publishing
BY DEF StaticTypeOK, Upserting, Publishing, NoUpsert

(* A goroutine's call becomes next, and no other changes. *)
UpsertBecomes(c, next) ==
  /\ upsert' \in [Connectors -> {NoUpsert} \cup Upserting \cup Publishing]
  /\ \A d \in Connectors : upsert'[d] = IF d = c THEN next ELSE upsert[d]

LEMMA UpsertMoves ==
  ASSUME StaticTypeOK, NEW c \in Connectors, NEW next \in {NoUpsert} \cup Upserting \cup Publishing,
         upsert' = [upsert EXCEPT ![c] = next]
  PROVE  UpsertBecomes(c, next)
BY Zenon DEF StaticTypeOK, UpsertBecomes

(* A call that changes no row: it may take the lock nobody holds, or let it go. *)
LEMMA StaticQuietStep ==
  ASSUME StaticInv, NEW c \in Connectors, NEW next, UpsertBecomes(c, next), UNCHANGED <<history, applied>>,
         next.stage = "read" => next.seen \subseteq Open(history),
         next.stage = "read" /\ next.seen # {} => Holders = {},
         next.stage # "publish",
         staticTopic' \subseteq {a.report : a \in applied}
  PROVE  StaticInv'
<1>1. StaticTypeOK' /\ HistoryTiles' /\ AppliedKept' /\ staticTopic' \subseteq {a.report : a \in applied'}
  BY Zenon DEF StaticInv, StaticTypeOK, HistoryTiles, AppliedKept, UpsertBecomes
<1>2. \A d \in Connectors : d # c => (d \in Holders' <=> d \in Holders)
  BY Zenon DEF Holders, UpsertBecomes
<1>3. c \in Holders' => Holders = {}
  BY Zenon DEF Holders, UpsertBecomes
<1>4. \A d, e \in Holders' : d = e
  <2> TAKE d, e \in Holders'
  <2>1. d \in Connectors /\ e \in Connectors
    BY Zenon DEF Holders
  <2> QED BY <1>2, <1>3, <2>1, Zenon DEF StaticInv, LockedIsOpen
<1>5. \A d \in Connectors : upsert'[d].stage = "read" => upsert'[d].seen \subseteq Open(history)
  BY Zenon DEF UpsertBecomes, StaticInv, LockedIsOpen
<1>6. LockedIsOpen'
  BY <1>4, <1>5, Zenon DEF LockedIsOpen
<1>7. \A d \in Connectors : ReportApplied(d)'
  BY Zenon DEF ReportApplied, StaticInv, UpsertBecomes
<1> QED BY <1>1, <1>6, <1>7, Zenon DEF StaticInv

LEMMA HandleStaticStep ==
  ASSUME StaticInv, NEW c \in Connectors, NEW data \in StaticData, NEW at \in StaticTimes, HandleStatic(c, data, at)
  PROVE  StaticInv'
<1> DEFINE next == [stage |-> "select", report |-> [data |-> data, at |-> at], seen |-> Open(history)]
<1>1. next \in Upserting /\ next.stage = "select"
  BY Zenon DEF Upserting, StaticReport, StaticInv, StaticTypeOK, Open
<1>2. upsert' = [upsert EXCEPT ![c] = next] /\ UNCHANGED <<history, applied, staticTopic>>
  BY Zenon DEF HandleStatic
<1> HIDE DEF next
<1>3. UpsertBecomes(c, next)
  BY <1>1, <1>2, UpsertMoves, Zenon DEF StaticInv
<1> QED BY <1>1, <1>2, <1>3, StaticQuietStep, Zenon DEF StaticInv

LEMMA LockCurrentStep ==
  ASSUME StaticInv, NEW c \in Connectors, LockCurrent(c)
  PROVE  StaticInv'
<1> DEFINE next == [upsert[c] EXCEPT !.stage = "read", !.seen = upsert[c].seen \cap Open(history)]
<1>1. upsert[c] \in Upserting
  BY UpsertKinds, Zenon DEF LockCurrent, StaticInv
<1>2. next \in Upserting /\ next.stage = "read" /\ next.seen = upsert[c].seen \cap Open(history)
  BY <1>1, Zenon DEF Upserting
<1>3. upsert' = [upsert EXCEPT ![c] = next] /\ UNCHANGED <<history, applied, staticTopic>>
  BY Zenon DEF LockCurrent, StaticInv, StaticTypeOK
<1> HIDE DEF next
<1>4. UpsertBecomes(c, next)
  BY <1>2, <1>3, UpsertMoves, Zenon DEF StaticInv
<1>5. next.seen # {} => Holders = {}
  BY <1>2, Zenon DEF LockCurrent
<1> QED BY <1>2, <1>3, <1>4, <1>5, StaticQuietStep, Zenon DEF StaticInv

LEMMA PublishStaticStep ==
  ASSUME StaticInv, NEW c \in Connectors, PublishStatic(c)
  PROVE  StaticInv'
<1>1. UpsertBecomes(c, NoUpsert) /\ UNCHANGED <<history, applied>>
  BY UpsertMoves, Zenon DEF PublishStatic, StaticInv
<1>2. PICK a \in applied : a.report = upsert[c].report
  BY Zenon DEF PublishStatic, StaticInv, ReportApplied
<1>3. staticTopic' \subseteq {x.report : x \in applied}
  BY <1>2, Zenon DEF PublishStatic, StaticInv
<1>4. NoUpsert.stage = "idle"
  BY Zenon DEF NoUpsert
<1> QED BY <1>1, <1>3, <1>4, StaticQuietStep, Zenon

(* A transaction that has read finds the row it locked still open, or no row open at all. *)
LEMMA ReadIsOpen ==
  ASSUME StaticInv, NEW c \in Connectors, upsert[c].stage = "read", upsert[c].seen # {}
  PROVE  \E r \in history : /\ upsert[c].seen = {r} /\ Open(history) = {r} /\ r.to = Forever
                            /\ \A d \in Holders : d = c
<1>1. upsert[c].seen \subseteq Open(history)
  BY Zenon DEF StaticInv, LockedIsOpen
<1>2. history # {}
  BY <1>1, Zenon DEF Open
<1>3. PICK r \in history : Open(history) = {r}
  BY <1>2, Zenon DEF StaticInv, HistoryTiles
<1>4. r.to = Forever
  BY <1>3, Zenon DEF Open
<1>5. c \in Holders
  BY Zenon DEF Holders
<1>6. \A d \in Holders : d = c
  BY <1>5, Zenon DEF StaticInv, LockedIsOpen
<1> QED BY <1>1, <1>3, <1>4, <1>6, Zenon

(* The call is answered: its report is among the applied ones, and in the history. *)
LEMMA AnsweredStep ==
  ASSUME StaticInv, NEW c \in Connectors, upsert[c] \in Upserting, NEW changed \in BOOLEAN,
         upsert' = [upsert EXCEPT ![c] = [stage |-> "publish", report |-> upsert[c].report]],
         applied' = applied \cup {[report |-> upsert[c].report, changed |-> changed]},
         UNCHANGED staticTopic,
         history' \in SUBSET StaticRow, HistoryTiles',
         \A r \in history : \E q \in history' : q.data = r.data /\ q.from = r.from,
         \E r \in history' : r.data = upsert[c].report.data /\ (changed => r.from = upsert[c].report.at),
         \A d \in Holders : d = c \/ history' = history
  PROVE  StaticInv'
<1> DEFINE next == [stage |-> "publish", report |-> upsert[c].report]
           x == [report |-> upsert[c].report, changed |-> changed]
<1>1. next \in Publishing /\ next.stage = "publish" /\ next.report = upsert[c].report
  BY Zenon DEF Publishing, Upserting
<1>2. x.report = upsert[c].report /\ x.changed = changed
  BY Zenon
<1>3. UpsertBecomes(c, next)
  BY <1>1, UpsertMoves, Zenon DEF StaticInv
<1>4. applied' = applied \cup {x}
  BY Zenon
<1> HIDE DEF next, x
<1>5. StaticTypeOK'
  BY <1>3, Zenon DEF StaticTypeOK, UpsertBecomes
<1>6. AppliedKept'
  <2> SUFFICES ASSUME NEW a \in applied'
               PROVE  \E r \in history' : r.data = a.report.data /\ (a.changed => r.from = a.report.at)
    BY Zenon DEF AppliedKept
  <2>1. CASE a \in applied
    BY <2>1 DEF StaticInv, AppliedKept
  <2>2. CASE a = x
    BY <1>2, <2>2, Zenon
  <2> QED BY <1>4, <2>1, <2>2, Zenon
<1>7. LockedIsOpen'
  <2>1. \A d \in Connectors : d \in Holders' => d # c /\ d \in Holders
    BY <1>1, <1>3, Zenon DEF Holders, UpsertBecomes
  <2>2. \A d, e \in Holders' : d = e
    BY <2>1, Zenon DEF StaticInv, LockedIsOpen, Holders
  <2>3. ASSUME NEW d \in Connectors, upsert'[d].stage = "read" PROVE upsert'[d].seen \subseteq Open(history')
    <3>1. d # c /\ upsert'[d] = upsert[d] /\ upsert[d].seen \subseteq Open(history)
      BY <1>1, <1>3, <2>3, Zenon DEF UpsertBecomes, StaticInv, LockedIsOpen
    <3>2. CASE upsert[d].seen = {}
      BY <3>1, <3>2, Zenon
    <3>3. CASE upsert[d].seen # {}
      <4>1. d \in Holders
        BY <2>3, <3>1, <3>3, Zenon DEF Holders
      <4> QED BY <3>1, <4>1, Zenon
    <3> QED BY <3>2, <3>3, Zenon
  <2> QED BY <2>2, <2>3, Zenon DEF LockedIsOpen
<1>8. \A d \in Connectors : ReportApplied(d)'
  <2> SUFFICES ASSUME NEW d \in Connectors, upsert'[d].stage = "publish"
               PROVE  \E a \in applied' : a.report = upsert'[d].report
    BY Zenon DEF ReportApplied
  <2>1. CASE d = c
    BY <1>1, <1>2, <1>3, <1>4, <2>1, Zenon DEF UpsertBecomes
  <2>2. CASE d # c
    BY <1>3, <1>4, <2>2, Zenon DEF UpsertBecomes, StaticInv, ReportApplied
  <2> QED BY <2>1, <2>2, Zenon
<1>9. staticTopic' \subseteq {a.report : a \in applied'}
  BY <1>4 DEF StaticInv
<1> QED BY <1>5, <1>6, <1>7, <1>8, <1>9, Zenon DEF StaticInv

(* The first version of a vessel. *)
LEMMA FirstVersion ==
  ASSUME NEW new \in StaticRow, new.to = Forever, history' = {new}
  PROVE  HistoryTiles'
<1>1. Open(history') = {new}
  BY Zenon DEF Open
<1>2. new.from < new.to
  BY ForeverAssumption, Zenon DEF StaticRow
<1> QED BY <1>1, <1>2, Zenon DEF HistoryTiles

(* The open version is closed where the next one begins. *)
LEMMA NextInTime ==
  ASSUME history \in SUBSET StaticRow, HistoryTiles, NEW r \in history, Open(history) = {r},
         NEW at \in StaticTimes, at > r.from, NEW new \in StaticRow, new.from = at, new.to = Forever,
         history' = ((history \ {r}) \cup {Close(r, at)}) \cup {new}
  PROVE  HistoryTiles' /\ history' \in SUBSET StaticRow
<1> DEFINE old == Close(r, at)
<1>1. old \in StaticRow /\ old.from = r.from /\ old.to = at /\ old.data = r.data
  BY Zenon DEF Close, StaticRow
<1>2. history' = ((history \ {r}) \cup {old}) \cup {new}
  BY Zenon
<1> HIDE DEF old
<1>3. /\ \A q \in StaticRow : q.from \in Nat /\ q.from < Forever /\ q.to \in Nat
      /\ at < Forever /\ Forever \in Nat /\ r.to = Forever /\ at \in Nat
  <2>1. Forever \in Nat /\ at < Forever /\ at \in Nat
    BY StaticAssumption, ForeverAssumption DEF Forever
  <2>2. r.to = Forever
    BY Zenon DEF Open
  <2>3. ASSUME NEW q \in StaticRow PROVE q.from \in Nat /\ q.from < Forever /\ q.to \in Nat
    <3>1. q.from \in StaticTimes /\ q.to \in StaticTimes \cup {Forever}
      BY Zenon DEF StaticRow
    <3> QED BY <2>1, <3>1, StaticAssumption, ForeverAssumption, Zenon
  <2> QED BY <2>1, <2>2, <2>3, Zenon
<1>4. /\ \A q \in history : q.from < q.to
      /\ \A q \in history \ {r} : \E p \in history : p.from = q.to
      /\ \A q, p \in history : q # p => q.to <= p.from \/ p.to <= q.from
  BY Zenon DEF HistoryTiles
<1>5. \A q \in history \ {r} : q.to # Forever /\ q.to <= r.from
  <2> TAKE q \in history \ {r}
  <2>1. q.to # Forever
    BY Zenon DEF Open
  <2>2. q.to <= r.from \/ r.to <= q.from
    BY <1>4, Zenon
  <2>3. q.from < Forever /\ q.from \in Nat
    BY <1>3, Zenon
  <2> QED BY <1>3, <2>1, <2>2, <2>3
<1>6. Open(history') = {new}
  BY <1>1, <1>2, <1>3, <1>5 DEF Open
<1>7. \A q \in history' : q.from < q.to
  BY <1>1, <1>2, <1>3, <1>4, Zenon
<1>8. \A q \in history' \ {new} : \E p \in history' : p.from = q.to
  <2> TAKE q \in history' \ {new}
  <2>1. CASE q = old
    BY <1>1, <1>2, <2>1, Zenon
  <2>2. CASE q \in history \ {r}
    <3>1. PICK p \in history : p.from = q.to
      BY <1>4, <2>2, Zenon
    <3> QED BY <1>1, <1>2, <3>1, Zenon
  <2> QED BY <1>2, <2>1, <2>2, Zenon
<1>9. \A q, p \in history' : q # p => q.to <= p.from \/ p.to <= q.from
  <2>1. \A q \in history \ {r} : q.to <= old.from /\ q.to <= new.from
    <3> TAKE q \in history \ {r}
    <3>1. q.to \in Nat /\ r.from \in Nat /\ r.from < at /\ q.to <= r.from
      BY <1>3, <1>5, Zenon
    <3> QED BY <1>1, <1>3, <3>1
  <2>2. old.to <= new.from
    BY <1>1, <1>3
  <2>3. \A q, p \in history \ {r} : q # p => q.to <= p.from \/ p.to <= q.from
    BY <1>4, Zenon
  <2> QED BY <1>2, <2>1, <2>2, <2>3, Zenon
<1>10. history' \in SUBSET StaticRow
  BY <1>1, <1>2, Zenon
<1>11. new \in history'
  BY <1>2, Zenon
<1> QED BY <1>6, <1>7, <1>8, <1>9, <1>10, <1>11, Zenon DEF HistoryTiles

LEMMA UpsertStep ==
  ASSUME StaticInv, NEW c \in Connectors, UpsertVesselStatic(c)
  PROVE  StaticInv'
<1> DEFINE report == upsert[c].report
           current == upsert[c].seen
           closed == (history \ current) \cup {Close(r, report.at) : r \in current}
           new == [data |-> report.data, from |-> report.at, to |-> Forever]
           written == InsertRow(closed, new)
           unchanged == \E r \in current : r.data = report.data
           stale == \E r \in current : report.at <= r.from
           answer(changed) ==
             /\ upsert' = [upsert EXCEPT ![c] = [stage |-> "publish", report |-> report]]
             /\ applied' = applied \cup {[report |-> report, changed |-> changed]}
<1>1. upsert[c].stage = "read" /\ staticTopic' = staticTopic
  BY Zenon DEF UpsertVesselStatic
<1>2. /\ upsert[c] \in Upserting /\ report \in StaticReport /\ report.data \in StaticData /\ report.at \in StaticTimes
      /\ current \subseteq StaticRow /\ history \in SUBSET StaticRow
  BY <1>1, UpsertKinds, Zenon DEF StaticInv, StaticTypeOK, Upserting, StaticReport
<1>3. \/ unchanged /\ answer(FALSE) /\ history' = history
      \/ upsert' = [upsert EXCEPT ![c] = NoUpsert] /\ UNCHANGED <<history, applied>>
      \/ ~unchanged /\ ~stale /\ written # {} /\ answer(TRUE) /\ history' = written
  BY Zenon DEF UpsertVesselStatic
<1>4. new \in StaticRow /\ new.data = report.data /\ new.from = report.at /\ new.to = Forever
  BY <1>2, Zenon DEF StaticRow
<1>5. current = {} \/ \E r \in history : current = {r} /\ Open(history) = {r} /\ \A d \in Holders : d = c
  BY <1>1, ReadIsOpen, Zenon
<1> HIDE DEF new
<1>6. CASE unchanged /\ answer(FALSE) /\ history' = history
  <2>1. PICK r \in current : r.data = report.data
    BY <1>6, Zenon
  <2>2. r \in history'
    BY <1>5, <1>6, <2>1, Zenon
  <2>3. HistoryTiles'
    BY <1>6, Zenon DEF StaticInv, HistoryTiles
  <2>4. /\ history' \in SUBSET StaticRow
        /\ \A x \in history : \E q \in history' : q.data = x.data /\ q.from = x.from
        /\ \A d \in Holders : d = c \/ history' = history
    BY <1>2, <1>6, Zenon
  <2>5. \E x \in history' : x.data = upsert[c].report.data /\ (FALSE => x.from = upsert[c].report.at)
    BY <2>1, <2>2, Zenon
  <2>6. /\ upsert' = [upsert EXCEPT ![c] = [stage |-> "publish", report |-> upsert[c].report]]
        /\ applied' = applied \cup {[report |-> upsert[c].report, changed |-> FALSE]}
    BY <1>6, Zenon
  <2> QED BY <1>1, <1>2, <2>3, <2>4, <2>5, <2>6, AnsweredStep, Zenon
<1>7. CASE upsert' = [upsert EXCEPT ![c] = NoUpsert] /\ UNCHANGED <<history, applied>>
  <2>1. UpsertBecomes(c, NoUpsert)
    BY <1>7, UpsertMoves, Zenon DEF StaticInv
  <2>2. NoUpsert.stage = "idle"
    BY Zenon DEF NoUpsert
  <2> QED BY <1>1, <1>7, <2>1, <2>2, StaticQuietStep, Zenon DEF StaticInv
<1>8. CASE ~unchanged /\ ~stale /\ written # {} /\ answer(TRUE) /\ history' = written
  <2>1. Open(closed) = {} /\ history' = closed \cup {new}
    BY <1>8, Zenon DEF InsertRow
  <2>2. /\ upsert' = [upsert EXCEPT ![c] = [stage |-> "publish", report |-> upsert[c].report]]
        /\ applied' = applied \cup {[report |-> upsert[c].report, changed |-> TRUE]}
    BY <1>8, Zenon
  <2>3. \E x \in history' : x.data = upsert[c].report.data /\ (TRUE => x.from = upsert[c].report.at)
    BY <1>4, <2>1, Zenon
  <2>4. CASE current = {}
    <3>1. closed = history
      BY <2>4, Zenon
    <3>2. history = {}
      BY <2>1, <3>1, Zenon DEF StaticInv, HistoryTiles
    <3>3. HistoryTiles' /\ history' \in SUBSET StaticRow
      BY <1>4, <2>1, <3>1, <3>2, FirstVersion, Zenon
    <3>4. \A d \in Holders : d = c \/ history' = history
      <4> SUFFICES ASSUME NEW d \in Holders PROVE FALSE
        BY Zenon
      <4>1. d \in Connectors /\ upsert[d].stage = "read" /\ upsert[d].seen # {}
        BY Zenon DEF Holders
      <4> QED BY <3>2, <4>1, ReadIsOpen, Zenon
    <3>5. \A x \in history : \E q \in history' : q.data = x.data /\ q.from = x.from
      BY <3>2, Zenon
    <3> QED BY <1>1, <1>2, <2>2, <2>3, <3>3, <3>4, <3>5, AnsweredStep, Zenon
  <2>5. ASSUME NEW r \in history, current = {r}, Open(history) = {r}, \A d \in Holders : d = c
        PROVE  StaticInv'
    <3>1. history' = ((history \ {r}) \cup {Close(r, report.at)}) \cup {new}
      BY <2>1, <2>5, Zenon
    <3>2. report.at > r.from
      <4>1. r.from \in Nat /\ report.at \in Nat
        BY <1>2, StaticAssumption, Zenon DEF StaticRow
      <4> QED BY <1>8, <2>5, <4>1
    <3>3. HistoryTiles' /\ history' \in SUBSET StaticRow
      BY <1>2, <1>4, <2>5, <3>1, <3>2, NextInTime, Zenon DEF StaticInv
    <3>4. \A x \in history : \E q \in history' : q.data = x.data /\ q.from = x.from
      <4>1. Close(r, report.at).data = r.data /\ Close(r, report.at).from = r.from
        BY <1>2, Zenon DEF Close, StaticRow
      <4> QED BY <3>1, <4>1, Zenon
    <3> QED BY <1>1, <1>2, <2>2, <2>3, <2>5, <3>3, <3>4, AnsweredStep, Zenon
  <2> QED BY <1>5, <2>4, <2>5, Zenon
<1> QED BY <1>3, <1>6, <1>7, <1>8, Zenon

LEMMA StaticStep == StaticInv /\ [StaticNext]_staticVars => StaticInv'
<1> SUFFICES ASSUME StaticInv, [StaticNext]_staticVars PROVE StaticInv'
  BY Zenon
<1>1. CASE UNCHANGED staticVars
  BY <1>1, Zenon DEF staticVars, StaticInv, StaticTypeOK, HistoryTiles, AppliedKept, LockedIsOpen, Holders, ReportApplied
<1> QED BY <1>1, HandleStaticStep, LockCurrentStep, UpsertStep, PublishStaticStep, Zenon DEF StaticNext

LEMMA StaticInvariant == StaticSpec => []StaticInv
BY StaticInitInv, StaticStep, PTL DEF StaticSpec

(***************************************************************************)
(* The versions of a vessel's static data tile time and hold every report  *)
(* that was answered as applied, in whatever order any number of           *)
(* connectors deliver and commit their reports; only such reports are on   *)
(* the topic.                                                              *)
(***************************************************************************)
THEOREM StaticHistoryHoldsApplied == StaticSpec => []HistoryHoldsApplied
<1>1. StaticInv => HistoryHoldsApplied
  <2> SUFFICES ASSUME StaticInv PROVE HistoryHoldsApplied
    BY Zenon
  <2>1. ASSUME history # {} PROVE Tiles(history)
    BY <2>1, Zenon DEF StaticInv, HistoryTiles, Tiles
  <2> QED BY <2>1, Zenon DEF StaticInv, AppliedKept, HistoryHoldsApplied
<1> QED BY <1>1, StaticInvariant, PTL

-----------------------------------------------------------------------------
(* Sequences. *)

(* An element appended to the second of two sequences. *)
LEMMA ConcatAppend ==
  ASSUME NEW S, NEW p \in Seq(S), NEW q \in Seq(S), NEW e \in S
  PROVE  p \o Append(q, e) = Append(p \o q, e)
OBVIOUS

(* The head of the second sequence moves to the end of the first. *)
LEMMA HeadMoves ==
  ASSUME NEW S, NEW p \in Seq(S), NEW q \in Seq(S), q # <<>>
  PROVE  Append(p, Head(q)) \o Tail(q) = p \o q
OBVIOUS

-----------------------------------------------------------------------------
(* Hub: the inductive invariant. *)

Event == 1 .. MaxEvents
StreamState ==
  [stage : {"new", "open", "told", "ended"}, id : Nat, cleared : SUBSET Labels, listed : BOOLEAN, closes : Nat,
   queue : Seq(Event), written : Seq(Event), offered : Seq(Event)]

HubTypeOK ==
  /\ nextID \in Nat
  /\ stream \in [Streams -> StreamState]
  /\ fanout \in [Publishers -> [event : 0 .. MaxEvents, shard : Nat]]
  /\ events \in 0 .. MaxEvents

Got(sub) == sub.written \o sub.queue

(* A channel is closed once, when its shard lets go of it; until then it got all that was offered. *)
StreamSound(sub) ==
  /\ sub.listed => sub.closes = 0 /\ Got(sub) = sub.offered
  /\ ~sub.listed => IF sub.stage = "new" THEN sub.closes = 0 ELSE sub.closes = 1
  /\ sub.stage = "new" => ~sub.listed /\ sub.queue = <<>> /\ sub.written = <<>> /\ sub.offered = <<>>
  /\ Len(Got(sub)) <= Len(sub.offered)
  /\ Got(sub) = SubSeq(sub.offered, 1, Len(Got(sub)))
  /\ \A i \in 1 .. Len(sub.offered) : LabelOf[sub.offered[i]] \in sub.cleared

HubInv ==
  /\ HubTypeOK
  /\ \A s \in Streams : StreamSound(stream[s])

LEMMA HubInitInv == HubInit => HubInv
<1> SUFFICES ASSUME HubInit PROVE HubInv
  BY Zenon
<1>1. NoStream \in StreamState
  BY DEF NoStream, StreamState
<1>2. HubTypeOK
  BY <1>1, HubAssumption DEF HubInit, HubTypeOK
<1>3. StreamSound(NoStream)
  BY DEF StreamSound, NoStream, Got
<1>4. \A s \in Streams : stream[s] = NoStream
  BY Zenon DEF HubInit
<1> QED BY <1>2, <1>3, <1>4, Zenon DEF HubInv

(* What the operations on a channel do to a sound stream. *)
LEMMA SubscribeSound ==
  ASSUME NEW sub \in StreamState, StreamSound(sub), sub.stage = "new", NEW id \in Nat, NEW cleared \in SUBSET Labels
  PROVE  LET new == [sub EXCEPT !.stage = "open", !.id = id, !.cleared = cleared, !.listed = TRUE]
         IN  new \in StreamState /\ StreamSound(new)
<1> DEFINE new == [sub EXCEPT !.stage = "open", !.id = id, !.cleared = cleared, !.listed = TRUE]
<1>1. new \in StreamState
  BY Zenon DEF StreamState
<1>2. /\ new.stage = "open" /\ new.listed = TRUE /\ new.closes = sub.closes
      /\ new.queue = sub.queue /\ new.written = sub.written /\ new.offered = sub.offered
  BY Zenon DEF StreamState
<1>3. sub.closes = 0 /\ sub.queue = <<>> /\ sub.written = <<>> /\ sub.offered = <<>>
  BY Zenon DEF StreamSound
<1> HIDE DEF new
<1>4. Got(new) = <<>>
  BY <1>2, <1>3 DEF Got
<1>5. StreamSound(new)
  BY <1>2, <1>3, <1>4 DEF StreamSound
<1> QED BY <1>1, <1>5, Zenon DEF new

LEMMA OfferSound ==
  ASSUME NEW sub \in StreamState, StreamSound(sub), sub.listed, NEW e \in Event, LabelOf[e] \in sub.cleared
  PROVE  Offer(sub, e) \in StreamState /\ StreamSound(Offer(sub, e))
<1> DEFINE new == Offer(sub, e)
<1>1. /\ sub.queue \in Seq(Event) /\ sub.written \in Seq(Event) /\ sub.offered \in Seq(Event)
      /\ sub.closes = 0 /\ sub.written \o sub.queue = sub.offered /\ sub.stage # "new"
  BY Zenon DEF StreamState, StreamSound, Got
<1>2. /\ new.offered = Append(sub.offered, e) /\ new.written = sub.written /\ new.cleared = sub.cleared
      /\ new.stage = sub.stage
  BY Zenon DEF StreamState, Offer
<1>3. Append(sub.offered, e) \in Seq(Event) /\ Append(sub.queue, e) \in Seq(Event)
  BY <1>1
<1>4. \A i \in 1 .. Len(new.offered) : LabelOf[new.offered[i]] \in new.cleared
  BY <1>1, <1>2 DEF StreamSound
<1>5. CASE Len(sub.queue) < HubQueue
  <2>1. new \in StreamState /\ new.queue = Append(sub.queue, e) /\ new.listed /\ new.closes = 0
    BY <1>1, <1>3, <1>5, Zenon DEF Offer, StreamState
  <2> HIDE DEF new
  <2>2. Got(new) = new.offered
    <3>1. sub.written \o Append(sub.queue, e) = Append(sub.written \o sub.queue, e)
      <4>1. sub.written \in Seq(Event) /\ sub.queue \in Seq(Event) /\ e \in Event
        BY <1>1, Zenon
      <4>2. \A p, q \in Seq(Event) : \A x \in Event : p \o Append(q, x) = Append(p \o q, x)
        BY ConcatAppend
      <4> QED BY <4>1, <4>2, Zenon
    <3> QED BY <1>1, <1>2, <2>1, <3>1, Zenon DEF Got
  <2>3. new.offered = SubSeq(new.offered, 1, Len(new.offered))
    BY <1>2, <1>3
  <2>4. StreamSound(new)
    BY <1>1, <1>2, <1>3, <1>4, <2>1, <2>2, <2>3 DEF StreamSound
  <2> QED BY <2>1, <2>4, Zenon DEF new
<1>6. CASE ~(Len(sub.queue) < HubQueue)
  <2>1. new \in StreamState /\ new.queue = sub.queue /\ ~new.listed /\ new.closes = 1
    <3>1. new = [sub EXCEPT !.offered = Append(sub.offered, e), !.closes = 1, !.listed = FALSE]
      BY <1>1, <1>6 DEF Offer
    <3> HIDE DEF new
    <3> QED BY <1>3, <3>1, Zenon DEF StreamState
  <2> HIDE DEF new
  <2>2. Got(new) = sub.offered
    BY <1>1, <1>2, <2>1, Zenon DEF Got
  <2>3. sub.offered = SubSeq(Append(sub.offered, e), 1, Len(sub.offered))
    BY <1>1
  <2>4. Len(sub.offered) <= Len(new.offered)
    BY <1>1, <1>2
  <2>5. StreamSound(new)
    BY <1>1, <1>2, <1>4, <2>1, <2>2, <2>3, <2>4, Zenon DEF StreamSound
  <2> QED BY <2>1, <2>5, Zenon DEF new
<1> QED BY <1>5, <1>6, Zenon

LEMMA WriteSound ==
  ASSUME NEW sub \in StreamState, StreamSound(sub), sub.stage = "open", sub.queue # <<>>
  PROVE  LET new == [sub EXCEPT !.queue = Tail(sub.queue), !.written = Append(sub.written, Head(sub.queue))]
         IN  new \in StreamState /\ StreamSound(new)
<1> DEFINE new == [sub EXCEPT !.queue = Tail(sub.queue), !.written = Append(sub.written, Head(sub.queue))]
<1>1. sub.queue \in Seq(Event) /\ sub.written \in Seq(Event) /\ sub.offered \in Seq(Event)
  BY Zenon DEF StreamState
<1>2. Tail(sub.queue) \in Seq(Event) /\ Append(sub.written, Head(sub.queue)) \in Seq(Event)
  BY <1>1
<1>3. new \in StreamState
  BY <1>2, Zenon DEF StreamState
<1>4. /\ new.queue = Tail(sub.queue) /\ new.written = Append(sub.written, Head(sub.queue))
      /\ new.offered = sub.offered /\ new.stage = sub.stage /\ new.listed = sub.listed
      /\ new.closes = sub.closes /\ new.cleared = sub.cleared
  BY Zenon DEF StreamState
<1> HIDE DEF new
<1>5. Append(sub.written, Head(sub.queue)) \o Tail(sub.queue) = sub.written \o sub.queue
  BY <1>1, HeadMoves, Zenon
<1>6. Got(new) = Got(sub)
  BY <1>4, <1>5, Zenon DEF Got
<1>7. StreamSound(new)
  BY <1>4, <1>6, Zenon DEF StreamSound
<1> QED BY <1>3, <1>7, Zenon DEF new

LEMMA CloseSound ==
  ASSUME NEW sub \in StreamState, StreamSound(sub), sub.listed
  PROVE  LET new == [sub EXCEPT !.closes = sub.closes + 1, !.listed = FALSE]
         IN  new \in StreamState /\ StreamSound(new) /\ new.stage = sub.stage
<1> DEFINE new == [sub EXCEPT !.closes = 1, !.listed = FALSE]
<1>1. new \in StreamState
  BY Zenon DEF StreamState
<1>2. /\ new.stage = sub.stage /\ ~new.listed /\ new.closes = 1 /\ new.cleared = sub.cleared
      /\ new.queue = sub.queue /\ new.written = sub.written /\ new.offered = sub.offered
  BY Zenon DEF StreamState
<1>3. sub.closes = 0 /\ sub.stage # "new"
  BY Zenon DEF StreamSound
<1>4. [sub EXCEPT !.closes = sub.closes + 1, !.listed = FALSE] = new
  BY <1>3
<1> HIDE DEF new
<1>5. StreamSound(new)
  BY <1>2, <1>3, Zenon DEF StreamSound, Got
<1> QED BY <1>1, <1>2, <1>4, <1>5, Zenon

LEMMA StageSound ==
  ASSUME NEW sub \in StreamState, StreamSound(sub), sub.stage # "new", NEW stage \in {"open", "told", "ended"}
  PROVE  LET new == [sub EXCEPT !.stage = stage]
         IN  new \in StreamState /\ StreamSound(new)
<1> DEFINE new == [sub EXCEPT !.stage = stage]
<1>1. new \in StreamState
  BY Zenon DEF StreamState
<1>2. /\ new.stage = stage /\ new.listed = sub.listed /\ new.closes = sub.closes /\ new.cleared = sub.cleared
      /\ new.queue = sub.queue /\ new.written = sub.written /\ new.offered = sub.offered
  BY Zenon DEF StreamState
<1> HIDE DEF new
<1>3. StreamSound(new)
  BY <1>2, Zenon DEF StreamSound, Got
<1> QED BY <1>1, <1>3, Zenon DEF new

LEMMA CancelSound ==
  ASSUME NEW sub \in StreamState, StreamSound(sub), sub.stage # "new"
  PROVE  Cancel(sub) \in StreamState /\ StreamSound(Cancel(sub))
<1>1. CASE ~sub.listed
  BY <1>1, StageSound, Zenon DEF Cancel
<1>2. CASE sub.listed
  <2> DEFINE shut == [sub EXCEPT !.closes = sub.closes + 1, !.listed = FALSE]
  <2>1. shut \in StreamState /\ StreamSound(shut) /\ shut.stage = sub.stage
    BY <1>2, CloseSound, Zenon
  <2>2. Cancel(sub) = [shut EXCEPT !.stage = "ended"]
    BY <1>2, Zenon DEF Cancel
  <2> HIDE DEF shut
  <2>3. shut.stage # "new"
    BY <2>1, Zenon
  <2>4. [shut EXCEPT !.stage = "ended"] \in StreamState /\ StreamSound([shut EXCEPT !.stage = "ended"])
    BY <2>1, <2>3, StageSound, Zenon
  <2> QED BY <2>2, <2>4, Zenon
<1> QED BY <1>1, <1>2, Zenon

(* Every stream stays sound if each one that changes does. *)
LEMMA StreamsStep ==
  ASSUME HubInv, DOMAIN stream' = Streams, stream' = [s \in Streams |-> stream'[s]],
         \A s \in Streams : stream'[s] = stream[s] \/ (stream'[s] \in StreamState /\ StreamSound(stream'[s])),
         nextID' \in Nat, fanout' \in [Publishers -> [event : 0 .. MaxEvents, shard : Nat]],
         events' \in 0 .. MaxEvents
  PROVE  HubInv'
<1>1. \A s \in Streams : stream'[s] \in StreamState /\ StreamSound(stream'[s])
  BY Zenon DEF HubInv, HubTypeOK
<1>2. stream' \in [Streams -> StreamState]
  BY <1>1, Zenon
<1> QED BY <1>1, <1>2, Zenon DEF HubInv, HubTypeOK

(* One stream changes, as one of the lemmas above says. *)
LEMMA OneStreamStep ==
  ASSUME HubInv, NEW s \in Streams, NEW new \in StreamState, StreamSound(new),
         stream' = [stream EXCEPT ![s] = new], nextID' \in Nat, UNCHANGED <<fanout, events>>
  PROVE  HubInv'
<1>1. stream' = [x \in Streams |-> stream'[x]] /\ DOMAIN stream' = Streams
  BY Zenon DEF HubInv, HubTypeOK
<1>2. \A x \in Streams : stream'[x] = stream[x] \/ (stream'[x] \in StreamState /\ StreamSound(stream'[x]))
  BY Zenon DEF HubInv, HubTypeOK
<1> QED BY <1>1, <1>2, StreamsStep, Zenon DEF HubInv, HubTypeOK

LEMMA SubscribeStep ==
  ASSUME HubInv, NEW s \in Streams, NEW cleared \in Clearances, Subscribe(s, cleared)
  PROVE  HubInv'
<1> DEFINE new == [stream[s] EXCEPT !.stage = "open", !.id = nextID', !.cleared = cleared, !.listed = TRUE]
<1>1. nextID' \in Nat /\ cleared \in SUBSET Labels
  BY HubAssumption DEF Subscribe, HubInv, HubTypeOK
<1>2. stream[s] \in StreamState /\ StreamSound(stream[s]) /\ stream[s].stage = "new"
  BY Zenon DEF Subscribe, HubInv, HubTypeOK
<1>3. new \in StreamState /\ StreamSound(new)
  BY <1>1, <1>2, SubscribeSound, Zenon
<1>4. stream' = [stream EXCEPT ![s] = new] /\ UNCHANGED <<fanout, events>>
  BY Zenon DEF Subscribe
<1> HIDE DEF new
<1> QED BY <1>1, <1>3, <1>4, OneStreamStep, Zenon

LEMMA ServeSteps ==
  ASSUME HubInv, NEW s \in Streams, WriteEvent(s) \/ WriteStreamError(s) \/ ServeSSE(s)
  PROVE  HubInv'
<1>1. stream[s] \in StreamState /\ StreamSound(stream[s]) /\ stream \in [Streams -> StreamState]
  BY Zenon DEF HubInv, HubTypeOK
<1>2. UNCHANGED <<nextID, fanout, events>> /\ nextID' \in Nat /\ stream[s].stage \in {"open", "told"}
  BY Zenon DEF WriteEvent, WriteStreamError, ServeSSE, HubInv, HubTypeOK
<1>3. PICK new \in StreamState : StreamSound(new) /\ stream' = [stream EXCEPT ![s] = new]
  <2>1. CASE WriteEvent(s)
    <3> DEFINE x == [stream[s] EXCEPT !.queue = Tail(stream[s].queue),
                                      !.written = Append(stream[s].written, Head(stream[s].queue))]
    <3>1. x \in StreamState /\ StreamSound(x)
      BY <1>1, <2>1, WriteSound, Zenon DEF WriteEvent
    <3>2. stream' = [stream EXCEPT ![s] = x]
      BY <1>1, <2>1, Zenon DEF WriteEvent
    <3> HIDE DEF x
    <3> QED BY <3>1, <3>2, Zenon
  <2>2. CASE WriteStreamError(s)
    <3> DEFINE x == [stream[s] EXCEPT !.stage = "told"]
    <3>1. x \in StreamState /\ StreamSound(x)
      BY <1>1, <1>2, StageSound, Zenon
    <3>2. stream' = [stream EXCEPT ![s] = x]
      BY <1>1, <2>2, Zenon DEF WriteStreamError
    <3> HIDE DEF x
    <3> QED BY <3>1, <3>2, Zenon
  <2>3. CASE ServeSSE(s)
    <3>1. Cancel(stream[s]) \in StreamState /\ StreamSound(Cancel(stream[s]))
      BY <1>1, <1>2, CancelSound, Zenon
    <3>2. stream' = [stream EXCEPT ![s] = Cancel(stream[s])]
      BY <2>3, Zenon DEF ServeSSE
    <3> QED BY <3>1, <3>2, Zenon
  <2> QED BY <2>1, <2>2, <2>3, Zenon
<1> QED BY <1>2, <1>3, OneStreamStep, Zenon

LEMMA BroadcastStep ==
  ASSUME HubInv, NEW p \in Publishers, BroadcastPipeline(p)
  PROVE  HubInv'
<1>1. events' \in 0 .. MaxEvents /\ fanout' \in [Publishers -> [event : 0 .. MaxEvents, shard : Nat]]
  BY HubAssumption DEF BroadcastPipeline, HubInv, HubTypeOK
<1>2. UNCHANGED <<nextID, stream>>
  BY Zenon DEF BroadcastPipeline
<1> QED BY <1>1, <1>2, Zenon DEF HubInv, HubTypeOK

LEMMA PublishStep ==
  ASSUME HubInv, NEW p \in Publishers, Publish(p)
  PROVE  HubInv'
<1> DEFINE e == fanout[p].event
<1>1. /\ fanout[p] \in [event : 0 .. MaxEvents, shard : Nat] /\ e # 0
      /\ UNCHANGED <<nextID, events>>
  BY Zenon DEF Publish, HubInv, HubTypeOK
<1>2. e \in Event
  BY <1>1, HubAssumption DEF Event
<1>3. fanout' \in [Publishers -> [event : 0 .. MaxEvents, shard : Nat]]
  <2> DEFINE new == IF fanout[p].shard + 1 < HubShards THEN [event |-> e, shard |-> fanout[p].shard + 1]
                    ELSE [event |-> 0, shard |-> 0]
  <2>1. new \in [event : 0 .. MaxEvents, shard : Nat]
    BY <1>1, HubAssumption
  <2>2. fanout' = [fanout EXCEPT ![p] = new]
    BY Zenon DEF Publish
  <2> HIDE DEF new
  <2> QED BY <2>1, <2>2, Zenon DEF HubInv, HubTypeOK
<1>4. DOMAIN stream' = Streams /\ stream' = [x \in Streams |-> stream'[x]]
  BY Zenon DEF Publish
<1>5. ASSUME NEW s \in Streams
      PROVE  stream'[s] = stream[s] \/ (stream'[s] \in StreamState /\ StreamSound(stream'[s]))
  <2>1. stream[s] \in StreamState /\ StreamSound(stream[s])
    BY Zenon DEF HubInv, HubTypeOK
  <2>2. \/ stream'[s] = stream[s]
        \/ stream[s].listed /\ LabelOf[e] \in stream[s].cleared /\ stream'[s] = Offer(stream[s], e)
    BY Zenon DEF Publish
  <2> HIDE DEF e
  <2>3. stream[s].listed /\ LabelOf[e] \in stream[s].cleared =>
          Offer(stream[s], e) \in StreamState /\ StreamSound(Offer(stream[s], e))
    BY <1>2, <2>1, OfferSound, Zenon
  <2> QED BY <2>2, <2>3, Zenon
<1> QED BY <1>1, <1>3, <1>4, <1>5, StreamsStep, Zenon DEF HubInv, HubTypeOK

LEMMA ShutdownStep ==
  ASSUME HubInv, BeginShutdown \/ Shutdown
  PROVE  HubInv'
<1>1. CASE BeginShutdown
  BY <1>1, Zenon DEF BeginShutdown, HubInv, HubTypeOK
<1>2. CASE Shutdown
  <2>1. DOMAIN stream' = Streams /\ stream' = [x \in Streams |-> stream'[x]] /\ UNCHANGED <<nextID, fanout, events>>
    BY <1>2, Zenon DEF Shutdown
  <2>2. ASSUME NEW s \in Streams
        PROVE  stream'[s] = stream[s] \/ (stream'[s] \in StreamState /\ StreamSound(stream'[s]))
    <3> DEFINE new == [stream[s] EXCEPT !.closes = stream[s].closes + 1, !.listed = FALSE]
    <3>1. stream'[s] = stream[s] \/ (stream[s].listed /\ stream'[s] = new)
      BY <1>2, Zenon DEF Shutdown
    <3>2. stream[s].listed => new \in StreamState /\ StreamSound(new)
      BY CloseSound, Zenon DEF HubInv, HubTypeOK
    <3> HIDE DEF new
    <3> QED BY <3>1, <3>2, Zenon
  <2> QED BY <2>1, <2>2, StreamsStep, Zenon DEF HubInv, HubTypeOK
<1> QED BY <1>1, <1>2, Zenon

LEMMA HubStep == HubInv /\ [HubNext]_hubVars => HubInv'
<1> SUFFICES ASSUME HubInv, [HubNext]_hubVars PROVE HubInv'
  BY Zenon
<1>1. CASE UNCHANGED hubVars
  BY <1>1, Zenon DEF hubVars, HubInv, HubTypeOK
<1> QED BY <1>1, SubscribeStep, ServeSteps, BroadcastStep, PublishStep, ShutdownStep, Zenon DEF HubNext

LEMMA HubInvariant == HubSpec => []HubInv
BY HubInitInv, HubStep, PTL DEF HubSpec

(***************************************************************************)
(* A stream of the hub has no silent hole and no channel is closed twice   *)
(* or sent to once closed, for any number of subscribers, publishers,      *)
(* events, shards and any capacity of a subscriber's channel, and however  *)
(* drops, departures and a shutdown interleave.                            *)
(***************************************************************************)
THEOREM StreamsHaveNoHole == HubSpec => []StreamHasNoHole
<1>1. HubInv => StreamHasNoHole
  <2> SUFFICES ASSUME HubInv, NEW s \in Streams
               PROVE  LET got == stream[s].written \o stream[s].queue IN
                        /\ IF stream[s].closes > 0 THEN Len(got) <= Len(stream[s].offered)
                           ELSE got = stream[s].offered
                        /\ got = SubSeq(stream[s].offered, 1, Len(got))
                        /\ \A i \in DOMAIN got : LabelOf[got[i]] \in stream[s].cleared
                        /\ stream[s].closes <= 1 /\ (stream[s].listed => stream[s].closes = 0)
    BY Zenon DEF StreamHasNoHole
  <2> DEFINE sub == stream[s]
             got == sub.written \o sub.queue
  <2>1. sub \in StreamState /\ StreamSound(sub)
    BY Zenon DEF HubInv, HubTypeOK
  <2>2. sub.written \in Seq(Event) /\ sub.queue \in Seq(Event) /\ sub.offered \in Seq(Event) /\ sub.closes \in Nat
    BY <2>1, Zenon DEF StreamState
  <2> HIDE DEF sub
  <2>3. got \in Seq(Event)
    BY <2>2
  <2>4. got = Got(sub)
    BY Zenon DEF Got
  <2> HIDE DEF got
  <2>5. /\ sub.listed => sub.closes = 0 /\ got = sub.offered
        /\ ~sub.listed => IF sub.stage = "new" THEN sub.closes = 0 ELSE sub.closes = 1
        /\ Len(got) <= Len(sub.offered) /\ got = SubSeq(sub.offered, 1, Len(got))
    BY <2>1, <2>4, Zenon DEF StreamSound
  <2>6. sub.stage = "new" => got = sub.offered
    <3>1. sub.stage = "new" => sub.written = <<>> /\ sub.queue = <<>> /\ sub.offered = <<>>
      BY <2>1, Zenon DEF StreamSound
    <3>2. sub.stage = "new" => got = <<>> \o <<>>
      BY <3>1, <2>4, Zenon DEF Got
    <3>3. <<>> \o <<>> = <<>>
      OBVIOUS
    <3> QED BY <3>1, <3>2, <3>3, Zenon
  <2>7. \A i \in DOMAIN got : LabelOf[got[i]] \in sub.cleared
    <3> TAKE i \in DOMAIN got
    <3>1. i \in 1 .. Len(got) /\ i \in 1 .. Len(sub.offered)
      BY <2>2, <2>3, <2>5
    <3>2. got[i] = sub.offered[i]
      BY <2>2, <2>3, <2>5, <3>1
    <3> QED BY <2>1, <3>1, <3>2, Zenon DEF StreamSound
  <2>8. /\ IF sub.closes > 0 THEN Len(got) <= Len(sub.offered) ELSE got = sub.offered
        /\ sub.closes <= 1 /\ (sub.listed => sub.closes = 0)
    BY <2>2, <2>5, <2>6
  <2>9. got = SubSeq(sub.offered, 1, Len(got))
    BY <2>5, Zenon
  <2> QED BY <2>7, <2>8, <2>9, Zenon DEF sub, got
<1> QED BY <1>1, HubInvariant, PTL
=============================================================================
