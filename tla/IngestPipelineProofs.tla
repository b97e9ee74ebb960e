------------------------ MODULE IngestPipelineProofs ------------------------
(***************************************************************************)
(* Proofs about IngestPipeline, for any number of workers, reports, zones, *)
(* failures and restarts: the validator and the table agree, the state     *)
(* keeps its types, the order in which stores, topics and the SSE hub      *)
(* learn of a report, and the deduplication in front of the store.         *)
(***************************************************************************)
EXTENDS IngestPipeline, TLAPS

-----------------------------------------------------------------------------
(* Sequences. *)

(* The empty sequence. *)
LEMMA EmptySeq ==
  ASSUME NEW S
  PROVE  <<>> \in Seq(S) /\ \A s \in Seq(S) : s = <<>> <=> Len(s) = 0
OBVIOUS

(* The first element and the others. *)
LEMMA HeadTail ==
  ASSUME NEW S, NEW s \in Seq(S), s # <<>>
  PROVE  Head(s) \in S /\ Tail(s) \in Seq(S) /\ Len(Tail(s)) = Len(s) - 1
OBVIOUS

(* The elements of a concatenation. *)
LEMMA Concat ==
  ASSUME NEW S, NEW s \in Seq(S), NEW t \in Seq(S)
  PROVE  /\ s \o t \in Seq(S) /\ Len(s \o t) = Len(s) + Len(t)
         /\ \A i \in 1 .. Len(s) + Len(t) : (s \o t)[i] = IF i <= Len(s) THEN s[i] ELSE t[i - Len(s)]
OBVIOUS

(* A list of one reason is a list of reasons. *)
LEMMA SingletonSeq ==
  ASSUME NEW S, NEW x \in S
  PROVE  <<x>> \in Seq(S)
OBVIOUS

(* A list that is not of length zero has a head. *)
LEMMA PositiveLen ==
  ASSUME NEW s, Len(s) # 0
  PROVE  s # <<>>
OBVIOUS

-----------------------------------------------------------------------------
(* The validator. *)

(* The fields of a report the proofs look at. *)
LEMMA ReportFields ==
  ASSUME NEW r \in Reports
  PROVE  /\ r.at \in Int /\ r.lat \in Int /\ r.lon \in Int /\ r.speed \in Nat /\ r.course \in Nat
         /\ r.mmsi \in {"ok", "bad", "none"}
         /\ r.vessel \in Vessels
         /\ vesselKey(r) \in TrackerKeys
         /\ PayloadKey(r) \in PayloadKeys
         /\ r # None
BY ReportsAssumption, Zenon DEF Vessels, TrackerKeys, PayloadKeys

(* Each check adds one reason or none. *)
LEMMA FindingFacts ==
  ASSUME NEW reason \in Reasons, NEW hit
  PROVE  Finding(reason, hit) \in Seq(Reasons) /\ (Finding(reason, hit) = <<>> => ~hit)
<1>1. <<reason>> \in Seq(Reasons) /\ <<>> \in Seq(Reasons)
  BY SingletonSeq, EmptySeq, Zenon
<1>2. <<reason>> # <<>>
  BY Zenon
<1> QED
  BY <1>1, <1>2, Zenon DEF Finding

(* Findings are only ever appended: the list is empty when no check hit. *)
LEMMA ConcatFacts ==
  ASSUME NEW s \in Seq(Reasons), NEW t \in Seq(Reasons)
  PROVE  s \o t \in Seq(Reasons) /\ (s \o t = <<>> => s = <<>> /\ t = <<>>)
<1>1. s \o t \in Seq(Reasons) /\ Len(s \o t) = Len(s) + Len(t) /\ Len(s) \in Nat /\ Len(t) \in Nat
  BY Concat
<1> QED BY <1>1, EmptySeq

(* The findings of a report, and what an empty list of them says check by check. *)
LEMMA StaticChecksFacts ==
  ASSUME NEW r \in Reports
  PROVE  /\ StaticChecks(r) \in Seq(Reasons)
         /\ StaticChecks(r) = <<>> =>
              /\ ~(r.mmsi = "bad" \/ (r.mmsi = "none" /\ r.source # "APP_REPORT"))
              /\ Abs(r.lat) # sentinelLatitudeMicros
              /\ ~(Abs(r.lat) # sentinelLatitudeMicros /\ Abs(r.lat) > maxLatitudeMicros)
              /\ Abs(r.lon) # sentinelLongitudeMicros
              /\ ~(Abs(r.lon) # sentinelLongitudeMicros /\ Abs(r.lon) > maxLongitudeMicros)
              /\ ~(r.lat = 0 /\ r.lon = 0)
              /\ r.speed # speedNotAvailableMilliknots
              /\ ~(r.speed # speedNotAvailableMilliknots /\ r.speed > maxPlausibleSpeedMilliknots)
              /\ ~(r.course > maxCourseMillidegrees)
<1> DEFINE h1 == r.mmsi = "bad" \/ (r.mmsi = "none" /\ r.source # "APP_REPORT")
           h2 == Abs(r.lat) = sentinelLatitudeMicros
           h3 == Abs(r.lat) # sentinelLatitudeMicros /\ Abs(r.lat) > maxLatitudeMicros
           h4 == Abs(r.lon) = sentinelLongitudeMicros
           h5 == Abs(r.lon) # sentinelLongitudeMicros /\ Abs(r.lon) > maxLongitudeMicros
           h6 == r.lat = 0 /\ r.lon = 0
           h7 == r.speed = speedNotAvailableMilliknots
           h8 == r.speed # speedNotAvailableMilliknots /\ r.speed > maxPlausibleSpeedMilliknots
           h9 == r.course > maxCourseMillidegrees
           f1 == Finding("mmsi-format", h1)
           f2 == Finding("sentinel-latitude-91", h2)
           f3 == Finding("latitude-out-of-bounds", h3)
           f4 == Finding("sentinel-longitude-181", h4)
           f5 == Finding("longitude-out-of-bounds", h5)
           f6 == Finding("null-island", h6)
           f7 == Finding("speed-not-available-sentinel", h7)
           f8 == Finding("impossible-speed", h8)
           f9 == Finding("course-out-of-bounds", h9)
           t2 == f1 \o f2
           t3 == t2 \o f3
           t4 == t3 \o f4
           t5 == t4 \o f5
           t6 == t5 \o f6
           t7 == t6 \o f7
           t8 == t7 \o f8
           t9 == t8 \o f9
<1>1. StaticChecks(r) = t9
  BY Zenon DEF StaticChecks
<1>f1. f1 \in Seq(Reasons) /\ (f1 = <<>> => ~h1)
  BY FindingFacts, Zenon DEF Reasons
<1>f2. f2 \in Seq(Reasons) /\ (f2 = <<>> => ~h2)
  BY FindingFacts, Zenon DEF Reasons
<1>f3. f3 \in Seq(Reasons) /\ (f3 = <<>> => ~h3)
  BY FindingFacts, Zenon DEF Reasons
<1>f4. f4 \in Seq(Reasons) /\ (f4 = <<>> => ~h4)
  BY FindingFacts, Zenon DEF Reasons
<1>f5. f5 \in Seq(Reasons) /\ (f5 = <<>> => ~h5)
  BY FindingFacts, Zenon DEF Reasons
<1>f6. f6 \in Seq(Reasons) /\ (f6 = <<>> => ~h6)
  BY FindingFacts, Zenon DEF Reasons
<1>f7. f7 \in Seq(Reasons) /\ (f7 = <<>> => ~h7)
  BY FindingFacts, Zenon DEF Reasons
<1>f8. f8 \in Seq(Reasons) /\ (f8 = <<>> => ~h8)
  BY FindingFacts, Zenon DEF Reasons
<1>f9. f9 \in Seq(Reasons) /\ (f9 = <<>> => ~h9)
  BY FindingFacts, Zenon DEF Reasons
<1> HIDE DEF h1, h2, h3, h4, h5, h6, h7, h8, h9
<1> HIDE DEF f1, f2, f3, f4, f5, f6, f7, f8, f9, t2, t3, t4, t5, t6, t7, t8, t9
<1>t2. t2 \in Seq(Reasons) /\ (t2 = <<>> => f1 = <<>> /\ f2 = <<>>)
  BY <1>f1, <1>f2, ConcatFacts, Zenon DEF t2
<1>t3. t3 \in Seq(Reasons) /\ (t3 = <<>> => t2 = <<>> /\ f3 = <<>>)
  BY <1>t2, <1>f3, ConcatFacts, Zenon DEF t3
<1>t4. t4 \in Seq(Reasons) /\ (t4 = <<>> => t3 = <<>> /\ f4 = <<>>)
  BY <1>t3, <1>f4, ConcatFacts, Zenon DEF t4
<1>t5. t5 \in Seq(Reasons) /\ (t5 = <<>> => t4 = <<>> /\ f5 = <<>>)
  BY <1>t4, <1>f5, ConcatFacts, Zenon DEF t5
<1>t6. t6 \in Seq(Reasons) /\ (t6 = <<>> => t5 = <<>> /\ f6 = <<>>)
  BY <1>t5, <1>f6, ConcatFacts, Zenon DEF t6
<1>t7. t7 \in Seq(Reasons) /\ (t7 = <<>> => t6 = <<>> /\ f7 = <<>>)
  BY <1>t6, <1>f7, ConcatFacts, Zenon DEF t7
<1>t8. t8 \in Seq(Reasons) /\ (t8 = <<>> => t7 = <<>> /\ f8 = <<>>)
  BY <1>t7, <1>f8, ConcatFacts, Zenon DEF t8
<1>t9. t9 \in Seq(Reasons) /\ (t9 = <<>> => t8 = <<>> /\ f9 = <<>>)
  BY <1>t8, <1>f9, ConcatFacts, Zenon DEF t9
<1>3. t9 = <<>> => ~h1 /\ ~h2 /\ ~h3 /\ ~h4 /\ ~h5 /\ ~h6 /\ ~h7 /\ ~h8 /\ ~h9
  BY <1>f1, <1>f2, <1>f3, <1>f4, <1>f5, <1>f6, <1>f7, <1>f8, <1>f9,
     <1>t2, <1>t3, <1>t4, <1>t5, <1>t6, <1>t7, <1>t8, <1>t9, Zenon
<1> QED
  BY <1>1, <1>t9, <1>3, Zenon DEF h1, h2, h3, h4, h5, h6, h7, h8, h9

(***************************************************************************)
(* On the columns that StaticChecks reads it is at least as strict as the  *)
(* CHECK constraints of ais_positions: for all coordinates, speeds and     *)
(* courses the table takes a report without findings, unless a column that *)
(* the filter does not read is unfit.                                      *)
(***************************************************************************)
THEOREM CleanUnlessUnread ==
  ASSUME NEW r \in Reports, StaticChecks(r) = <<>>
  PROVE  StorageAccepts(r) <=> r.unfit = {}
<1>1. Abs(r.lat) <= maxLatitudeMicros /\ Abs(r.lon) <= maxLongitudeMicros
  <2>1. Abs(r.lat) \in Int /\ Abs(r.lon) \in Int
    BY ReportFields DEF Abs
  <2> QED
    BY <2>1, StaticChecksFacts, SMT
      DEF maxLatitudeMicros, maxLongitudeMicros, sentinelLatitudeMicros, sentinelLongitudeMicros
<1>2. r.speed <= maxPlausibleSpeedMilliknots /\ r.course <= maxCourseMillidegrees
  BY StaticChecksFacts, ReportFields, SMT
    DEF speedNotAvailableMilliknots, maxPlausibleSpeedMilliknots, maxCourseMillidegrees
<1>3. r.mmsi # "bad" /\ (r.source = "APP_REPORT" \/ r.mmsi # "none") /\ ~(r.lat = 0 /\ r.lon = 0)
  BY StaticChecksFacts, Zenon
<1> QED
  <2>1. /\ -90000000 <= r.lat /\ r.lat <= 90000000
        /\ -180000000 <= r.lon /\ r.lon <= 180000000
    BY <1>1, ReportFields, SMT DEF Abs, maxLatitudeMicros, maxLongitudeMicros
  <2>2. /\ r.speed >= 0 /\ r.speed <= 102300
        /\ r.course >= 0 /\ r.course <= 360000
    BY <1>2, ReportFields, SMT DEF maxPlausibleSpeedMilliknots, maxCourseMillidegrees
  <2> QED BY <1>3, <2>1, <2>2, SMT DEF StorageAccepts

-----------------------------------------------------------------------------
(* Type correctness. *)

(* The events EvaluateGeofences returns are well formed, so each can be announced. *)
LEMMA GeofenceEventsType ==
  ASSUME TypeOK, NEW w \in Workers, At(w, "commit")
  PROVE  GeofenceEvents(w) \in Seq(Events)
<1> DEFINE set == ComputeTransitions(call[w].current, call[w].previous)
           seq == Sorted[set]
<1>1. /\ call[w].current \in SUBSET Zones /\ call[w].previous \in SUBSET Zones
      /\ call[w].report \in Reports
  BY Zenon DEF TypeOK, Calls, At
<1>2. seq \in Seq(Transitions)
  <2>1. set \in SUBSET Transitions
    BY <1>1, Zenon DEF ComputeTransitions, Transitions
  <2> HIDE DEF set
  <2> QED
    BY <2>1, SortedAssumption, Zenon
<1>3. /\ call[w].report.at \in Int /\ call[w].report.vessel \in Vessels
      /\ Len(crossings) \in Nat
  BY <1>1, ReportFields DEF TypeOK
<1> HIDE DEF seq
<1>4. \A i \in DOMAIN seq :
        [id |-> Len(crossings) + i, vessel |-> call[w].report.vessel, zone |-> seq[i][1],
         event |-> seq[i][2], at |-> call[w].report.at] \in Events
  BY <1>2, <1>3 DEF Events, Transitions
<1>5. GeofenceEvents(w) = [i \in DOMAIN seq |->
        [id |-> Len(crossings) + i, vessel |-> call[w].report.vessel, zone |-> seq[i][1],
         event |-> seq[i][2], at |-> call[w].report.at]]
  BY Zenon DEF GeofenceEvents, seq
<1>6. DOMAIN seq = 1..Len(seq) /\ Len(seq) \in Nat
  BY <1>2
<1> QED
  BY <1>4, <1>5, <1>6

(* Idle is an activation record, and a running call may move to a plain step. *)
LEMMA CallRecords ==
  /\ Idle \in Calls /\ Idle.pc = "idle"
  /\ \A c \in Calls, pc \in Pcs \ {"quarantine", "announce"} :
       c.pc # "idle" => /\ [c EXCEPT !.pc = pc] \in Calls
                        /\ [c EXCEPT !.pc = pc].pc = pc
                        /\ [c EXCEPT !.pc = pc].report = c.report
<1>1. Idle \in Calls /\ Idle.pc = "idle"
  BY EmptySeq, Zenon DEF Idle, Calls, Pcs
<1>2. ASSUME NEW c \in Calls, NEW pc \in Pcs \ {"quarantine", "announce"}, c.pc # "idle"
      PROVE  /\ [c EXCEPT !.pc = pc] \in Calls
             /\ [c EXCEPT !.pc = pc].pc = pc
             /\ [c EXCEPT !.pc = pc].report = c.report
  BY <1>2, Zenon DEF Calls
<1> QED
  BY <1>1, <1>2, Zenon

(* The control steps of a running call, as changes of its activation record. *)
LEMMA ControlSteps ==
  ASSUME TypeOK, NEW w \in Workers, call[w].pc # "idle"
  PROVE  /\ \A pc \in Pcs \ {"quarantine", "announce"} : Goto(w, pc) =>
              /\ call' \in [Workers -> Calls]
              /\ call'[w].pc = pc /\ call'[w].report = call[w].report
              /\ \A u \in Workers \ {w} : call'[u] = call[u]
         /\ \A outcome \in {"done", "absorbed", "quarantined", "refused", "error"} : Return(w, outcome) =>
              /\ call' \in [Workers -> Calls]
              /\ call'[w] = Idle
              /\ \A u \in Workers \ {w} : call'[u] = call[u]
              /\ returned' \in [Reports -> SUBSET {"done", "absorbed", "quarantined", "refused", "error"}]
<1>1. call[w] \in Calls /\ call \in [Workers -> Calls]
  BY Zenon DEF TypeOK
<1>2. ASSUME NEW pc \in Pcs \ {"quarantine", "announce"}, Goto(w, pc)
      PROVE  /\ call' \in [Workers -> Calls]
             /\ call'[w].pc = pc /\ call'[w].report = call[w].report
             /\ \A u \in Workers \ {w} : call'[u] = call[u]
  <2>1. call' = [call EXCEPT ![w] = [call[w] EXCEPT !.pc = pc]]
    BY <1>2, Zenon DEF Goto
  <2> QED
    BY <1>1, <2>1, CallRecords, Zenon
<1>3. ASSUME NEW outcome \in {"done", "absorbed", "quarantined", "refused", "error"}, Return(w, outcome)
      PROVE  /\ call' \in [Workers -> Calls]
             /\ call'[w] = Idle
             /\ \A u \in Workers \ {w} : call'[u] = call[u]
             /\ returned' \in [Reports -> SUBSET {"done", "absorbed", "quarantined", "refused", "error"}]
  <2>1. call' \in [Workers -> Calls] /\ call'[w] = Idle /\ \A u \in Workers \ {w} : call'[u] = call[u]
    BY <1>1, <1>3, CallRecords, Zenon DEF Return
  <2>2. call[w].report \in Reports
    BY <1>1, Zenon DEF Calls
  <2>3. returned' \in [Reports -> SUBSET {"done", "absorbed", "quarantined", "refused", "error"}]
    BY <1>3, <2>2, Zenon DEF Return, TypeOK
  <2> QED
    BY <2>1, <2>3, Zenon
<1> QED
  BY <1>2, <1>3, Zenon

(* A call that goes on to a plain step or gives up has nothing to quarantine. *)
LEMMA LeavesQuarantine ==
  ASSUME TypeOK, NEW w \in Workers, call[w].pc # "idle",
         NEW pc \in Pcs \ {"quarantine", "announce"},
         Goto(w, pc) \/ Fail(w) \/ Return(w, "absorbed") \/ Return(w, "done") \/ Return(w, "refused")
  PROVE  call'[w].pc # "quarantine"
<1>1. CASE Goto(w, pc)
  BY <1>1, ControlSteps, Zenon
<1>2. ASSUME NEW outcome \in {"done", "absorbed", "quarantined", "refused", "error"}, Return(w, outcome)
      PROVE  call'[w].pc # "quarantine"
  BY <1>2, ControlSteps, CallRecords, Zenon
<1>3. CASE Fail(w)
  BY <1>2, <1>3, Zenon DEF Fail
<1> QED BY <1>1, <1>2, <1>3, Zenon

(* The record of a call that receives a report. *)
LEMMA ReceivedCall ==
  ASSUME NEW r \in Reports, NEW findings \in Seq(Reasons), NEW baseline \in Reports \cup {None}
  PROVE  /\ findings # <<>> =>
              [Idle EXCEPT !.pc = "quarantine", !.report = r, !.findings = findings,
                           !.baseline = baseline] \in Calls
         /\ findings # <<>> =>
              [Idle EXCEPT !.pc = "quarantine", !.report = r, !.findings = findings] \in Calls
         /\ \A pc \in {"dedup", "insert"} : [Idle EXCEPT !.pc = pc, !.report = r] \in Calls
BY EmptySeq, Zenon DEF Idle, Calls, Pcs

(* A step of worker w leaves the other calls alone. *)
Others(w) == \A u \in Workers \ {w} : call'[u] = call[u]

(* Every step of HandlePosition keeps the types, and touches one call only. *)
LEMMA TypeOfStep ==
  ASSUME TypeOK, NEW w \in Workers, Step(w)
  PROVE  TypeOK' /\ Others(w)
<1>1. ASSUME NEW r \in Reports, Receive(w, r)
      PROVE  TypeOK' /\ Others(w)
  <2>1. StaticChecks(r) \in Seq(Reasons) /\ vesselKey(r) \in TrackerKeys /\ r # None
    BY StaticChecksFacts, ReportFields, Zenon
  <2>2. fixes[vesselKey(r)] \in Reports \cup {None}
    BY <2>1, Zenon DEF TypeOK
  <2>3. <<"same-mmsi-bifurcation">> \in Seq(Reasons) /\ <<"same-mmsi-bifurcation">> # <<>>
    <3>1. "same-mmsi-bifurcation" \in Reasons
      BY Zenon DEF Reasons
    <3> QED
      BY <3>1, SingletonSeq, Zenon
  <2>4. \E c \in Calls : call' = [call EXCEPT ![w] = c]
    <3>1. CASE StaticChecks(r) = <<>>
      <4>1. CASE fixes[vesselKey(r)] # None /\ Bifurcates(fixes[vesselKey(r)], r)
        BY <1>1, <2>2, <2>3, <3>1, <4>1, ReceivedCall, Zenon DEF Receive, CheckConsecutive
      <4>2. CASE ~(fixes[vesselKey(r)] # None /\ Bifurcates(fixes[vesselKey(r)], r))
        <5> DEFINE pc == IF Deduplicated(r) THEN "dedup" ELSE "insert"
        <5>1. call' = [call EXCEPT ![w] = [Idle EXCEPT !.pc = pc, !.report = r]]
          BY <1>1, <3>1, <4>2, Zenon DEF Receive, CheckConsecutive
        <5>2. pc \in {"dedup", "insert"}
          BY Zenon
        <5> HIDE DEF pc
        <5> QED
          BY <2>1, <2>2, <5>1, <5>2, ReceivedCall, Zenon
      <4> QED
        BY <4>1, <4>2, Zenon
    <3>2. CASE StaticChecks(r) # <<>>
      BY <1>1, <2>1, <2>2, <3>2, ReceivedCall, Zenon DEF Receive
    <3> QED
      BY <3>1, <3>2, Zenon
  <2>5. call' \in [Workers -> Calls] /\ Others(w)
    BY <2>4, Zenon DEF TypeOK, Others
  <2>6. fixes' \in [TrackerKeys -> Reports \cup {None}]
    BY <1>1, <2>1, Zenon DEF Receive, CheckConsecutive, TypeOK
  <2> QED
    BY <1>1, <2>5, <2>6, Zenon DEF Receive, TypeOK
<1>2. CASE Quarantine(w)
  <2>1. call[w].pc # "idle" /\ call[w] \in Calls /\ call[w].findings \in Seq(Reasons)
        /\ call[w].findings # <<>> /\ call[w].report \in Reports /\ call[w].pc = "quarantine"
    BY <1>2, Zenon DEF Quarantine, At, TypeOK, Calls
  <2>2. CASE Return(w, "quarantined") \/ Fail(w)
    BY <1>2, <2>1, <2>2, ControlSteps, Zenon DEF Quarantine, Fail, TypeOK, Others
  <2>3. CASE /\ Len(call[w].findings) # 1
             /\ call' = [call EXCEPT ![w].findings = Tail(@)] /\ UNCHANGED returned
    <3>1. Tail(call[w].findings) \in Seq(Reasons) /\ Tail(call[w].findings) # <<>>
      <4>1. Len(call[w].findings) \in Nat /\ Len(call[w].findings) # 0
        BY <2>1, EmptySeq
      <4>2. /\ Tail(call[w].findings) \in Seq(Reasons)
            /\ Len(Tail(call[w].findings)) = Len(call[w].findings) - 1
        BY <2>1, HeadTail, Zenon
      <4>3. Len(Tail(call[w].findings)) # 0
        BY <2>3, <4>1, <4>2
      <4>4. Tail(call[w].findings) # <<>>
        BY <4>3, PositiveLen, Zenon
      <4> QED
        BY <4>2, <4>4, Zenon
    <3>2. [call[w] EXCEPT !.findings = Tail(call[w].findings)] \in Calls
      BY <2>1, <3>1, Zenon DEF Calls
    <3>3. call' = [call EXCEPT ![w] = [call[w] EXCEPT !.findings = Tail(call[w].findings)]]
      BY <2>3, Zenon
    <3>4. call' \in [Workers -> Calls] /\ Others(w)
      BY <3>2, <3>3, Zenon DEF TypeOK, Others
    <3> QED
      BY <1>2, <2>3, <3>4, Zenon DEF Quarantine, TypeOK
  <2> QED
    BY <1>2, <2>2, <2>3, Zenon DEF Quarantine
<1>3. CASE Dedup(w)
  <2>1. call[w].pc # "idle" /\ call[w].report \in Reports
    BY <1>3, Zenon DEF Dedup, At, TypeOK, Calls
  <2>2. PayloadKey(call[w].report) \in PayloadKeys
    BY <2>1, ReportFields, Zenon
  <2>3. call' \in [Workers -> Calls] /\ Others(w)
    BY <1>3, <2>1, ControlSteps, Zenon DEF Dedup, Succeed, Others, Pcs
  <2>4. returned' \in [Reports -> SUBSET {"done", "absorbed", "quarantined", "refused", "error"}]
    BY <1>3, <2>1, ControlSteps, Zenon DEF Dedup, Succeed, TypeOK
  <2>5. window' \subseteq PayloadKeys
    BY <1>3, <2>2, Zenon DEF Dedup, TypeOK
  <2>6. reopened' \in [PayloadKeys -> Nat]
    <3>1. \/ UNCHANGED reopened
          \/ reopened' = [reopened EXCEPT ![PayloadKey(call[w].report)] = @ + 1]
      BY <1>3, Zenon DEF Dedup
    <3>2. reopened \in [PayloadKeys -> Nat]
      BY Zenon DEF TypeOK
    <3> QED BY <2>2, <3>1, <3>2
  <2> QED
    BY <1>3, <2>3, <2>4, <2>5, <2>6, Zenon DEF Dedup, TypeOK
<1>4. CASE InsertPositions(w)
  <2>1. call[w].pc # "idle" /\ call[w].report \in Reports
    BY <1>4, Zenon DEF InsertPositions, At, TypeOK, Calls
  <2>2. call' \in [Workers -> Calls] /\ Others(w)
    BY <1>4, <2>1, ControlSteps, Zenon DEF InsertPositions, Succeed, Fail, Others, Pcs
  <2>3. returned' \in [Reports -> SUBSET {"done", "absorbed", "quarantined", "refused", "error"}]
    BY <1>4, <2>1, ControlSteps, Zenon DEF InsertPositions, Succeed, Fail, TypeOK
  <2> QED
    <3>1. UNCHANGED <<fixes, window, latest, zonestate, approvals, crossings, announced, published,
                      quarantined, notified>>
      BY <1>4, Zenon DEF InsertPositions
    <3>2. UNCHANGED reopened /\ (UNCHANGED rows \/ rows' = [rows EXCEPT ![call[w].report] = @ + 1])
      BY <1>4, Zenon DEF InsertPositions
    <3>3. rows' \in [Reports -> Nat]
      <4>1. rows \in [Reports -> Nat]
        BY Zenon DEF TypeOK
      <4> QED BY <2>1, <3>2, <4>1
    <3> QED BY <2>2, <2>3, <3>1, <3>2, <3>3, Zenon DEF TypeOK
<1>5. CASE UpsertLatestPosition(w)
  <2>1. call[w].pc # "idle" /\ call[w].report \in Reports
    BY <1>5, Zenon DEF UpsertLatestPosition, At, TypeOK, Calls
  <2>2. call' \in [Workers -> Calls] /\ Others(w)
    BY <1>5, <2>1, ControlSteps, Zenon DEF UpsertLatestPosition, Succeed, Fail, Others, Pcs
  <2>3. returned' \in [Reports -> SUBSET {"done", "absorbed", "quarantined", "refused", "error"}]
    BY <1>5, <2>1, ControlSteps, Zenon DEF UpsertLatestPosition, Succeed, Fail, TypeOK
  <2>4. latest' \in [Vessels -> Reports \cup {None}]
    BY <1>5, <2>1, ReportFields, Zenon DEF UpsertLatestPosition, Newest, TypeOK
  <2> QED
    BY <1>5, <2>1, <2>2, <2>3, <2>4, Zenon DEF UpsertLatestPosition, TypeOK
<1>6. CASE ReadMembership(w)
  <2>1. /\ call[w].pc # "idle" /\ call[w] \in Calls /\ call[w].report \in Reports
        /\ call[w].report.vessel \in Vessels
    BY <1>6, ReportFields, Zenon DEF ReadMembership, At, TypeOK, Calls
  <2>2. CASE Fail(w)
    BY <1>6, <2>1, <2>2, ControlSteps, Zenon DEF ReadMembership, Fail, TypeOK, Others
  <2>3. CASE ~Fail(w)
    <3> DEFINE c == [call[w] EXCEPT !.pc = "replace",
                                    !.current = Inside[call[w].report] \cap Approved,
                                    !.previous = zonestate[call[w].report.vessel]]
    <3>1. Inside[call[w].report] \cap Approved \in SUBSET Zones
      BY Zenon DEF Approved
    <3>2. zonestate[call[w].report.vessel] \in SUBSET Zones
      BY <2>1, Zenon DEF TypeOK
    <3>3. c \in Calls
      BY <2>1, <3>1, <3>2, Zenon DEF Calls, Pcs
    <3>4. call' = [call EXCEPT ![w] = c]
      BY <1>6, <2>3, Zenon DEF ReadMembership
    <3> HIDE DEF c
    <3>5. call' \in [Workers -> Calls] /\ Others(w)
      BY <3>3, <3>4, Zenon DEF TypeOK, Others
    <3> QED
      BY <1>6, <2>3, <3>5, Zenon DEF ReadMembership, TypeOK
  <2> QED
    BY <2>2, <2>3, Zenon
<1>7. CASE ReplaceMembership(w)
  <2>1. call[w].pc # "idle" /\ call[w].report \in Reports
    BY <1>7, Zenon DEF ReplaceMembership, At, TypeOK, Calls
  <2>2. call' \in [Workers -> Calls] /\ Others(w)
    BY <1>7, <2>1, ControlSteps, Zenon DEF ReplaceMembership, Succeed, Fail, Others, Pcs
  <2>3. returned' \in [Reports -> SUBSET {"done", "absorbed", "quarantined", "refused", "error"}]
    BY <1>7, <2>1, ControlSteps, Zenon DEF ReplaceMembership, Succeed, Fail, TypeOK
  <2>4. zonestate' \in [Vessels -> SUBSET Zones]
    <3>1. call[w].current \in SUBSET Zones
      BY Zenon DEF TypeOK, Calls
    <3> QED
      BY <1>7, <2>1, <3>1, ReportFields, Zenon DEF ReplaceMembership, TypeOK
  <2> QED
    BY <1>7, <2>1, <2>2, <2>3, <2>4, Zenon DEF ReplaceMembership, TypeOK
<1>8. CASE CommitCrossings(w)
  <2>1. call[w].pc # "idle" /\ call[w] \in Calls /\ call[w].report \in Reports
    BY <1>8, Zenon DEF CommitCrossings, At, TypeOK, Calls
  <2>2. GeofenceEvents(w) \in Seq(Events)
    BY <1>8, GeofenceEventsType, Zenon DEF CommitCrossings
  <2>3. crossings' \in Seq(Events)
    <3>1. crossings \in Seq(Events)
      BY Zenon DEF TypeOK
    <3>2. crossings \o GeofenceEvents(w) \in Seq(Events)
      BY <2>2, <3>1, Concat, Zenon
    <3> QED
      BY <1>8, <3>1, <3>2, Zenon DEF CommitCrossings
  <2>4. CASE Fail(w)
    BY <1>8, <2>1, <2>3, <2>4, ControlSteps, Zenon DEF CommitCrossings, Fail, TypeOK, Others
  <2>5. CASE ~Fail(w)
    <3> DEFINE next == IF GeofenceEvents(w) = <<>> THEN AfterGeofences(call[w].report) ELSE "announce"
               c == [call[w] EXCEPT !.pc = next, !.events = GeofenceEvents(w)]
    <3>1. /\ next \in {"raw", "publish", "announce"}
          /\ next = "announce" => GeofenceEvents(w) # <<>>
      BY Zenon DEF AfterGeofences
    <3>2. call' = [call EXCEPT ![w] = c] /\ UNCHANGED <<faults, returned>>
      BY <1>8, <2>5, Zenon DEF CommitCrossings
    <3> HIDE DEF next
    <3>3. c \in Calls
      BY <2>1, <2>2, <3>1, Zenon DEF Calls, Pcs
    <3> HIDE DEF c
    <3>4. call' \in [Workers -> Calls] /\ Others(w)
      BY <3>2, <3>3, Zenon DEF TypeOK, Others
    <3> QED
      BY <1>8, <2>3, <3>2, <3>4, Zenon DEF CommitCrossings, TypeOK
  <2> QED
    BY <2>4, <2>5, Zenon
<1>9. CASE AnnounceCrossing(w)
  <2>1. /\ call[w].pc # "idle" /\ call[w] \in Calls /\ call[w].report \in Reports
        /\ call[w].events \in Seq(Events) /\ call[w].events # <<>>
    BY <1>9, Zenon DEF AnnounceCrossing, At, TypeOK, Calls
  <2>2. Head(call[w].events) \in Events /\ Tail(call[w].events) \in Seq(Events)
    BY <2>1, HeadTail, Zenon
  <2>3. announced' \subseteq Events
    BY <1>9, <2>2, Zenon DEF AnnounceCrossing, TypeOK
  <2>4. CASE Fail(w)
    BY <1>9, <2>1, <2>3, <2>4, ControlSteps, Zenon DEF AnnounceCrossing, Fail, TypeOK, Others
  <2>5. CASE ~Fail(w)
    <3> DEFINE next == IF Len(call[w].events) = 1 THEN AfterGeofences(call[w].report) ELSE "announce"
               c == [call[w] EXCEPT !.events = Tail(call[w].events), !.pc = next]
    <3>1. /\ next \in {"raw", "publish", "announce"}
          /\ next = "announce" => Len(call[w].events) # 1
      BY Zenon DEF AfterGeofences
    <3>2. call' = [call EXCEPT ![w] = c] /\ UNCHANGED <<faults, returned>>
      BY <1>9, <2>5, Zenon DEF AnnounceCrossing
    <3> HIDE DEF next
    <3>3. next = "announce" => Tail(call[w].events) # <<>>
      <4>1. Len(call[w].events) \in Nat /\ Len(call[w].events) # 0
        BY <2>1, EmptySeq
      <4>2. Len(Tail(call[w].events)) = Len(call[w].events) - 1
        BY <2>1, HeadTail, Zenon
      <4>3. next = "announce" => Len(Tail(call[w].events)) # 0
        BY <3>1, <4>1, <4>2
      <4> QED
        BY <4>3, PositiveLen, Zenon
    <3>4. c \in Calls
      BY <2>1, <2>2, <3>1, <3>3, Zenon DEF Calls, Pcs
    <3> HIDE DEF c
    <3>5. call' \in [Workers -> Calls] /\ Others(w)
      BY <3>2, <3>4, Zenon DEF TypeOK, Others
    <3> QED
      BY <1>9, <2>3, <3>2, <3>5, Zenon DEF AnnounceCrossing, TypeOK
  <2> QED
    BY <2>4, <2>5, Zenon
<1>10. CASE MirrorRaw(w)
  <2>1. call[w].pc # "idle" /\ call[w].report \in Reports
    BY <1>10, Zenon DEF MirrorRaw, At, TypeOK, Calls
  <2>2. call' \in [Workers -> Calls] /\ Others(w)
    BY <1>10, <2>1, ControlSteps, Zenon DEF MirrorRaw, Succeed, Fail, Others, Pcs
  <2>3. returned' \in [Reports -> SUBSET {"done", "absorbed", "quarantined", "refused", "error"}]
    BY <1>10, <2>1, ControlSteps, Zenon DEF MirrorRaw, Succeed, Fail, TypeOK
  <2> QED
    BY <1>10, <2>1, <2>2, <2>3, Zenon DEF MirrorRaw, TypeOK
<1>11. CASE PublishPosition(w)
  <2>1. call[w].pc # "idle" /\ call[w].report \in Reports
    BY <1>11, Zenon DEF PublishPosition, At, TypeOK, Calls
  <2>2. call' \in [Workers -> Calls] /\ Others(w)
    BY <1>11, <2>1, ControlSteps, Zenon DEF PublishPosition, Succeed, Fail, Others, Pcs
  <2>3. returned' \in [Reports -> SUBSET {"done", "absorbed", "quarantined", "refused", "error"}]
    BY <1>11, <2>1, ControlSteps, Zenon DEF PublishPosition, Succeed, Fail, TypeOK
  <2> QED
    BY <1>11, <2>1, <2>2, <2>3, Zenon DEF PublishPosition, TypeOK
<1>12. CASE ObserveAndBroadcast(w)
  <2>1. call[w].pc # "idle" /\ call[w].report \in Reports
    BY <1>12, Zenon DEF ObserveAndBroadcast, At, TypeOK, Calls
  <2>2. call' \in [Workers -> Calls] /\ Others(w)
    BY <1>12, <2>1, ControlSteps, Zenon DEF ObserveAndBroadcast, Succeed, Fail, Others, Pcs
  <2>3. returned' \in [Reports -> SUBSET {"done", "absorbed", "quarantined", "refused", "error"}]
    BY <1>12, <2>1, ControlSteps, Zenon DEF ObserveAndBroadcast, Succeed, Fail, TypeOK
  <2> QED
    BY <1>12, <2>1, <2>2, <2>3, Zenon DEF ObserveAndBroadcast, TypeOK
<1> QED
  BY <1>1, <1>2, <1>3, <1>4, <1>5, <1>6, <1>7, <1>8, <1>9, <1>10, <1>11, <1>12, Zenon DEF Step

(* A pipeline that has just started is well typed. *)
LEMMA TypeOfInit == Init => TypeOK
<1> SUFFICES ASSUME Init PROVE TypeOK
  BY Zenon
<1>1. call \in [Workers -> Calls]
  BY CallRecords, Zenon DEF Init
<1>2. crossings \in Seq(Events)
  BY EmptySeq, Zenon DEF Init
<1> QED
  BY <1>1, <1>2, Zenon DEF Init, TypeOK

(* What happens around the calls keeps the types. *)
LEMMA TypeOfNext ==
  ASSUME TypeOK, [Next]_vars
  PROVE  TypeOK'
<1>1. ASSUME NEW w \in Workers, Step(w)
      PROVE  TypeOK'
  BY <1>1, TypeOfStep, Zenon
<1>2. ASSUME NEW k \in PayloadKeys, ExpireDedupKey(k)
      PROVE  TypeOK'
  BY <1>2 DEF ExpireDedupKey, TypeOK
<1>3. ASSUME NEW v \in Vessels, ExpireZoneState(v)
      PROVE  TypeOK'
  BY <1>3, Zenon DEF ExpireZoneState, TypeOK
<1>4. ASSUME NEW z \in Zones, NEW p \in Principals, ApproveZone(z, p)
      PROVE  TypeOK'
  BY <1>4 DEF ApproveZone, TypeOK
<1>5. CASE Restart
  BY <1>5, CallRecords, Zenon DEF Restart, TypeOK
<1>6. CASE UNCHANGED vars
  BY <1>6, Zenon DEF vars, TypeOK
<1> QED
  BY <1>1, <1>2, <1>3, <1>4, <1>5, <1>6, Zenon DEF Next

(***************************************************************************)
(* The pipeline's state keeps its types: a call between two external       *)
(* systems always has its report, and the loops over findings and over     *)
(* geofence events never run past the end of their lists.                  *)
(***************************************************************************)
THEOREM TypeCorrect == Spec => []TypeOK
BY TypeOfInit, TypeOfNext, PTL DEF Spec
-----------------------------------------------------------------------------
(* The order of the effects. *)

(* The hot row of r's vessel is at least as recent as r. *)
Covered(r) == latest[r.vessel] # None /\ latest[r.vessel].at >= r.at

Stored(e) == \E i \in DOMAIN crossings : crossings[i] = e

AfterInsert == {"latest", "zones", "replace", "commit", "announce", "raw", "publish", "fence"}
AfterUpsert == AfterInsert \ {"latest"}

(***************************************************************************)
(* What a call has already achieved, step by step.  This is the            *)
(* strengthening that makes the safety invariants inductive: without it    *)
(* nothing says that a call about to publish has stored its report.        *)
(***************************************************************************)
Progress(c) ==
  /\ c.pc \in AfterInsert => rows[c.report] > 0
  /\ c.pc \in AfterUpsert => Covered(c.report)
  /\ c.pc = "fence" => c.report \in published
  /\ c.pc \notin {"idle", "quarantine"} => StaticChecks(c.report) = <<>>
  /\ c.pc = "announce" => \A j \in DOMAIN c.events : Stored(c.events[j])

IInv ==
  /\ TypeOK
  /\ \A w \in Workers : Progress(call[w])
  /\ DeliveryOrder
  /\ LatestCoversPublished
  /\ AnnouncedCrossingIsStored

(* Stores and topics only grow, and the hot row only moves forward. *)
Grows ==
  /\ \A r \in Reports : rows[r] > 0 => rows'[r] > 0
  /\ \A r \in Reports : Covered(r) => Covered(r)'
  /\ published \subseteq published'
  /\ \A e \in Events : Stored(e) => Stored(e)'

(* What a call has achieved stays achieved while the stores grow. *)
LEMMA ProgressStable ==
  ASSUME NEW c \in Calls, Progress(c), Grows
  PROVE  Progress(c)'
<1>1. c.events \in Seq(Events)
  BY Zenon DEF Calls
<1>2. c.pc # "idle" => c.report \in Reports
  BY Zenon DEF Calls
<1>3. c.pc = "announce" => \A j \in DOMAIN c.events : Stored(c.events[j])'
  <2>1. \A j \in DOMAIN c.events : c.events[j] \in Events
    BY <1>1
  <2> QED
    BY <2>1, Zenon DEF Progress, Grows
<1>4. c.pc \in AfterUpsert => Covered(c.report)'
  BY <1>2, Zenon DEF Progress, Grows, AfterUpsert, AfterInsert
<1>5. c.pc \in AfterInsert => rows'[c.report] > 0
  BY <1>2, Zenon DEF Progress, Grows, AfterInsert
<1>6. c.pc = "fence" => c.report \in published'
  BY Zenon DEF Progress, Grows
<1> QED
  BY <1>3, <1>4, <1>5, <1>6, Zenon DEF Progress

(* The invariant holds again when the stores grew and the stepping call kept its promises. *)
LEMMA Combine ==
  ASSUME IInv, NEW w \in Workers, TypeOK', Others(w), Grows, Progress(call[w])',
         DeliveryOrder', LatestCoversPublished', AnnouncedCrossingIsStored'
  PROVE  IInv'
<1>1. ASSUME NEW u \in Workers
      PROVE  Progress(call[u])'
  <2>1. CASE u = w
    BY <2>1, Zenon
  <2>2. CASE u # w
    <3>1. call'[u] = call[u] /\ call[u] \in Calls /\ Progress(call[u])
      BY <2>2, Zenon DEF Others, IInv, TypeOK
    <3>2. \A d \in Calls : Progress(d) => Progress(d)'
      BY ProgressStable, Zenon
    <3> QED
      BY <3>1, <3>2, Zenon DEF Progress
  <2> QED
    BY <2>1, <2>2, Zenon
<1> QED
  BY <1>1, Zenon DEF IInv

(* Steps that touch neither store nor topic keep the safety invariants as they are. *)
LEMMA StoresSame ==
  ASSUME IInv, UNCHANGED <<rows, latest, published, crossings, announced, notified>>
  PROVE  Grows /\ DeliveryOrder' /\ LatestCoversPublished' /\ AnnouncedCrossingIsStored'
BY Zenon DEF IInv, Grows, Covered, Stored, DeliveryOrder, LatestCoversPublished, AnnouncedCrossingIsStored

(* A call that has returned promises nothing. *)
LEMMA IdleProgress ==
  ASSUME NEW w \in Workers, call'[w] = Idle
  PROVE  Progress(call[w])'
BY CallRecords, Zenon DEF Progress, AfterInsert, AfterUpsert

(* A concatenation keeps the elements of both sequences. *)
LEMMA ConcatKeeps ==
  ASSUME NEW S, NEW s \in Seq(S), NEW t \in Seq(S)
  PROVE  /\ \A i \in DOMAIN s : i \in DOMAIN (s \o t) /\ (s \o t)[i] = s[i]
         /\ \A j \in DOMAIN t : \E i \in DOMAIN (s \o t) : (s \o t)[i] = t[j]
<1>1. /\ s \o t \in Seq(S) /\ Len(s \o t) = Len(s) + Len(t)
      /\ \A i \in 1 .. Len(s) + Len(t) : (s \o t)[i] = IF i <= Len(s) THEN s[i] ELSE t[i - Len(s)]
  BY Concat, Zenon
<1>2. /\ DOMAIN s = 1..Len(s) /\ DOMAIN t = 1..Len(t) /\ DOMAIN (s \o t) = 1..(Len(s) + Len(t))
      /\ Len(s) \in Nat /\ Len(t) \in Nat
  BY <1>1
<1>3. ASSUME NEW j \in DOMAIN t
      PROVE  \E i \in DOMAIN (s \o t) : (s \o t)[i] = t[j]
  <2>1. Len(s) + j \in 1..(Len(s) + Len(t)) /\ ~(Len(s) + j <= Len(s)) /\ (Len(s) + j) - Len(s) = j
    BY <1>2
  <2>2. (s \o t)[Len(s) + j] = t[j]
    BY <1>1, <2>1, Zenon
  <2> QED
    BY <1>2, <2>1, <2>2, Zenon
<1>4. \A i \in DOMAIN s : i \in DOMAIN (s \o t) /\ (s \o t)[i] = s[i]
  BY <1>1, <1>2
<1> QED
  BY <1>3, <1>4, Zenon

(* Every step of HandlePosition preserves the invariant. *)
LEMMA InvOfStep ==
  ASSUME IInv, NEW w \in Workers, Step(w)
  PROVE  IInv'
<1>t. TypeOK /\ TypeOK' /\ Others(w)
  BY TypeOfStep, Zenon DEF IInv
<1>1. ASSUME NEW r \in Reports, Receive(w, r)
      PROVE  IInv'
  <2>1. Progress(call[w])'
    <3>1. CASE StaticChecks(r) = <<>>
      <4>1. call'[w].pc \in {"quarantine", "dedup", "insert"} /\ call'[w].report = r
        <5>1. CASE fixes[vesselKey(r)] # None /\ Bifurcates(fixes[vesselKey(r)], r)
          <6>1. call'[w] = [Idle EXCEPT !.pc = "quarantine", !.report = r,
                              !.findings = <<"same-mmsi-bifurcation">>,
                              !.baseline = fixes[vesselKey(r)]]
            BY <1>1, <1>t, <3>1, <5>1, Zenon DEF Receive, CheckConsecutive, TypeOK
          <6> QED
            BY <6>1, Zenon DEF Idle
        <5>2. CASE ~(fixes[vesselKey(r)] # None /\ Bifurcates(fixes[vesselKey(r)], r))
          <6>1. call'[w] = [Idle EXCEPT !.pc = IF Deduplicated(r) THEN "dedup" ELSE "insert",
                                        !.report = r]
            BY <1>1, <1>t, <3>1, <5>2, Zenon DEF Receive, CheckConsecutive, TypeOK
          <6> QED
            BY <6>1, Zenon DEF Idle
        <5> QED
          BY <5>1, <5>2, Zenon
      <4> QED
        BY <3>1, <4>1, Zenon DEF Progress, AfterInsert, AfterUpsert
    <3>2. CASE StaticChecks(r) # <<>>
      <4>1. call'[w].pc = "quarantine"
        <5>1. call' = [call EXCEPT ![w] = [Idle EXCEPT !.pc = "quarantine", !.report = r,
                                                       !.findings = StaticChecks(r)]]
          BY <1>1, <3>2, Zenon DEF Receive
        <5>2. call'[w] = [Idle EXCEPT !.pc = "quarantine", !.report = r, !.findings = StaticChecks(r)]
          BY <1>t, <5>1, Zenon DEF TypeOK
        <5> QED BY <5>2, Zenon DEF Idle
      <4> QED
        BY <4>1, Zenon DEF Progress, AfterInsert, AfterUpsert
    <3> QED
      BY <3>1, <3>2, Zenon
  <2> QED
    BY <1>1, <1>t, <2>1, StoresSame, Combine, Zenon DEF Receive
<1>2. CASE Quarantine(w)
  <2>1. call[w] \in Calls /\ call[w].pc = "quarantine"
    BY <1>2, <1>t, Zenon DEF Quarantine, At, TypeOK
  <2>2. call'[w] = Idle \/ call'[w] = [call[w] EXCEPT !.findings = Tail(call[w].findings)]
    BY <1>2, <1>t, <2>1, ControlSteps, Zenon DEF Quarantine, Fail, TypeOK
  <2>3. Progress(call[w])'
    <3>1. CASE call'[w] = Idle
      BY <3>1, IdleProgress, Zenon
    <3>2. CASE call'[w] = [call[w] EXCEPT !.findings = Tail(call[w].findings)]
      <4>1. call'[w].pc = "quarantine"
        BY <2>1, <3>2, Zenon DEF Calls
      <4> QED
        BY <4>1, Zenon DEF Progress, AfterInsert, AfterUpsert
    <3> QED
      BY <2>2, <3>1, <3>2, Zenon
  <2> QED
    BY <1>2, <1>t, <2>3, StoresSame, Combine, Zenon DEF Quarantine
<1>3. CASE Dedup(w)
  <2>1. call[w].pc = "dedup" /\ StaticChecks(call[w].report) = <<>>
    BY <1>3, Zenon DEF Dedup, At, IInv, Progress
  <2>2. call'[w] = Idle \/ (call'[w].pc = "insert" /\ call'[w].report = call[w].report)
    BY <1>3, <1>t, <2>1, ControlSteps, Zenon DEF Dedup, Succeed, Pcs
  <2>3. Progress(call[w])'
    <3>1. CASE call'[w] = Idle
      BY <3>1, IdleProgress, Zenon
    <3>2. CASE call'[w].pc = "insert" /\ call'[w].report = call[w].report
      BY <2>1, <3>2, Zenon DEF Progress, AfterInsert, AfterUpsert
    <3> QED
      BY <2>2, <3>1, <3>2, Zenon
  <2> QED
    BY <1>3, <1>t, <2>3, StoresSame, Combine, Zenon DEF Dedup
<1>4. CASE InsertPositions(w)
  <2>1. call[w].pc = "insert" /\ call[w].report \in Reports /\ StaticChecks(call[w].report) = <<>>
    BY <1>4, <1>t, Zenon DEF InsertPositions, At, IInv, Progress, TypeOK, Calls
  <2>2. rows' = rows \/ rows' = [rows EXCEPT ![call[w].report] = @ + 1]
    BY <1>4, Zenon DEF InsertPositions
  <2>3. \A r \in Reports : rows[r] > 0 => rows'[r] > 0
    <3>1. rows \in [Reports -> Nat]
      BY <1>t, Zenon DEF TypeOK
    <3> QED
      BY <2>1, <2>2, <3>1
  <2>4. Grows
    BY <1>4, <2>3, Zenon DEF InsertPositions, Grows, Covered, Stored
  <2>5. DeliveryOrder' /\ LatestCoversPublished' /\ AnnouncedCrossingIsStored'
    <3>1. \A v \in Vessels : latest[v] # None => latest[v] \in Reports
      BY <1>t, Zenon DEF TypeOK
    <3> QED
      BY <1>4, <2>3, <3>1, Zenon
        DEF InsertPositions, IInv, DeliveryOrder, LatestCoversPublished, AnnouncedCrossingIsStored
  <2>6. Progress(call[w])'
    <3>1. CASE Fail(w) \/ Return(w, "refused")
      BY <1>t, <2>1, <3>1, ControlSteps, IdleProgress, Zenon DEF Fail
    <3>2. CASE Succeed(w, "latest") /\ rows' = [rows EXCEPT ![call[w].report] = @ + 1]
      <4>1. call'[w].pc = "latest" /\ call'[w].report = call[w].report
        BY <1>t, <2>1, <3>2, ControlSteps, Zenon DEF Succeed, Pcs
      <4>2. rows'[call[w].report] > 0
        BY <1>t, <2>1, <3>2 DEF TypeOK
      <4> QED
        BY <2>1, <4>1, <4>2, Zenon DEF Progress, AfterInsert, AfterUpsert
    <3> QED
      BY <1>4, <3>1, <3>2, Zenon DEF InsertPositions
  <2> QED
    BY <1>t, <2>4, <2>5, <2>6, Combine, Zenon
<1>5. CASE UpsertLatestPosition(w)
  <2> DEFINE r == call[w].report
  <2>1. call[w].pc = "latest" /\ r \in Reports /\ StaticChecks(r) = <<>> /\ rows[r] > 0
    BY <1>5, <1>t, Zenon DEF UpsertLatestPosition, At, IInv, Progress, AfterInsert, TypeOK, Calls
  <2>2. r.vessel \in Vessels /\ r.at \in Int /\ r # None
    BY <2>1, ReportFields, Zenon
  <2> HIDE DEF r
  <2>3. latest' = latest \/ latest' = [latest EXCEPT ![r.vessel] = Newest(@, r)]
    BY <1>5, Zenon DEF UpsertLatestPosition, r
  <2>4. \A v \in Vessels : /\ latest'[v] = latest[v] \/ (latest'[v] = r /\ v = r.vessel)
                           /\ latest[v] # None => latest'[v] # None /\ latest'[v].at >= latest[v].at
    <3>1. \A v \in Vessels : latest[v] # None => latest[v].at \in Int
      BY <1>t, ReportFields, Zenon DEF TypeOK
    <3> QED
      BY <1>t, <2>2, <2>3, <3>1 DEF Newest, TypeOK
  <2>5. \A q \in Reports : Covered(q) => Covered(q)'
    <3>1. \A q \in Reports : q.vessel \in Vessels /\ q.at \in Int
      BY ReportFields, Zenon
    <3>2. \A v \in Vessels : latest'[v] # None => latest'[v].at \in Int
      BY <1>t, ReportFields, Zenon DEF TypeOK
    <3>3. \A v \in Vessels : latest[v] # None => latest[v].at \in Int
      BY <1>t, ReportFields, Zenon DEF TypeOK
    <3> QED
      BY <2>4, <3>1, <3>2, <3>3 DEF Covered
  <2>6. Grows
    BY <1>5, <2>5, Zenon DEF UpsertLatestPosition, Grows, Stored
  <2>7. DeliveryOrder' /\ AnnouncedCrossingIsStored'
    BY <1>5, Zenon DEF UpsertLatestPosition, IInv, DeliveryOrder, AnnouncedCrossingIsStored
  <2>8. LatestCoversPublished'
    <3>1. \A v \in Vessels : latest'[v] # None => rows'[latest'[v]] > 0
      BY <1>5, <2>1, <2>4, Zenon DEF UpsertLatestPosition, IInv, LatestCoversPublished
    <3>2. \A q \in published : q \in Reports /\ q.vessel \in Vessels /\ Covered(q)
      BY <1>t, ReportFields, Zenon DEF IInv, LatestCoversPublished, Covered, TypeOK
    <3>3. \A q \in published' : Covered(q)'
      BY <1>5, <2>5, <3>2, Zenon DEF UpsertLatestPosition
    <3> QED
      BY <3>1, <3>3, Zenon DEF LatestCoversPublished, Covered
  <2>9. Progress(call[w])'
    <3>1. CASE Fail(w)
      BY <1>t, <2>1, <3>1, ControlSteps, IdleProgress, Zenon DEF Fail
    <3>2. CASE ~Fail(w)
      <4>1. call'[w].pc = "zones" /\ call'[w].report = r
        BY <1>5, <1>t, <2>1, <3>2, ControlSteps, Zenon DEF UpsertLatestPosition, Succeed, Pcs, r
      <4>2. rows'[r] > 0
        BY <1>5, <2>1, Zenon DEF UpsertLatestPosition
      <4>3. Covered(r)'
        <5>1. latest'[r.vessel] = Newest(latest[r.vessel], r)
          BY <1>5, <1>t, <2>2, <3>2, Zenon DEF UpsertLatestPosition, TypeOK, r
        <5>2. latest[r.vessel] # None => latest[r.vessel].at \in Int
          BY <1>t, <2>2, ReportFields, Zenon DEF TypeOK
        <5>3. Newest(latest[r.vessel], r) # None /\ Newest(latest[r.vessel], r).at >= r.at
          BY <2>2, <5>2 DEF Newest
        <5>4. latest'[r.vessel] # None /\ latest'[r.vessel].at >= r.at
          BY <5>1, <5>3, Zenon
        <5> QED
          BY <4>1, <5>4, Zenon DEF Covered, r
      <4> QED
        BY <2>1, <4>1, <4>2, <4>3, Zenon DEF Progress, AfterInsert, AfterUpsert, r
    <3> QED
      BY <3>1, <3>2, Zenon
  <2> QED
    BY <1>t, <2>6, <2>7, <2>8, <2>9, Combine, Zenon
<1>6. CASE ReadMembership(w)
  <2>1. /\ call[w].pc = "zones" /\ call[w] \in Calls /\ StaticChecks(call[w].report) = <<>>
        /\ rows[call[w].report] > 0 /\ Covered(call[w].report)
    BY <1>6, <1>t, Zenon DEF ReadMembership, At, IInv, Progress, AfterInsert, AfterUpsert, TypeOK
  <2>2. UNCHANGED <<rows, latest, published, crossings, announced, notified>>
    BY <1>6, Zenon DEF ReadMembership
  <2>3. Progress(call[w])'
    <3>1. CASE Fail(w)
      BY <1>t, <2>1, <3>1, ControlSteps, IdleProgress, Zenon DEF Fail
    <3>2. CASE ~Fail(w)
      <4>1. call'[w].pc = "replace" /\ call'[w].report = call[w].report
        BY <1>6, <1>t, <2>1, <3>2 DEF ReadMembership, TypeOK, Calls
      <4> QED
        BY <2>1, <2>2, <4>1, Zenon DEF Progress, AfterInsert, AfterUpsert, Covered
    <3> QED
      BY <3>1, <3>2, Zenon
  <2> QED
    BY <1>t, <2>2, <2>3, StoresSame, Combine, Zenon
<1>7. CASE ReplaceMembership(w)
  <2>1. /\ call[w].pc = "replace" /\ StaticChecks(call[w].report) = <<>>
        /\ rows[call[w].report] > 0 /\ Covered(call[w].report)
    BY <1>7, <1>t, Zenon DEF ReplaceMembership, At, IInv, Progress, AfterInsert, AfterUpsert
  <2>2. UNCHANGED <<rows, latest, published, crossings, announced, notified>>
    BY <1>7, Zenon DEF ReplaceMembership
  <2>3. Progress(call[w])'
    <3>1. CASE Fail(w)
      BY <1>t, <2>1, <3>1, ControlSteps, IdleProgress, Zenon DEF Fail
    <3>2. CASE ~Fail(w)
      <4>1. call'[w].pc = "commit" /\ call'[w].report = call[w].report
        BY <1>7, <1>t, <2>1, <3>2, ControlSteps, Zenon DEF ReplaceMembership, Succeed, Pcs
      <4> QED
        BY <2>1, <2>2, <4>1, Zenon DEF Progress, AfterInsert, AfterUpsert, Covered
    <3> QED
      BY <3>1, <3>2, Zenon
  <2> QED
    BY <1>t, <2>2, <2>3, StoresSame, Combine, Zenon
<1>8. CASE CommitCrossings(w)
  <2> DEFINE events == GeofenceEvents(w)
  <2>1. /\ call[w].pc = "commit" /\ call[w] \in Calls /\ StaticChecks(call[w].report) = <<>>
        /\ rows[call[w].report] > 0 /\ Covered(call[w].report)
    BY <1>8, <1>t, Zenon DEF CommitCrossings, At, IInv, Progress, AfterInsert, AfterUpsert, TypeOK
  <2>2. events \in Seq(Events) /\ crossings \in Seq(Events)
    BY <1>8, <1>t, GeofenceEventsType, Zenon DEF CommitCrossings, TypeOK
  <2>3. crossings' = crossings \/ crossings' = crossings \o events
    BY <1>8, Zenon DEF CommitCrossings
  <2>4. UNCHANGED <<rows, latest, published, announced, notified>>
    BY <1>8, Zenon DEF CommitCrossings
  <2>5. ASSUME NEW e, Stored(e)
        PROVE  Stored(e)'
    <3> HIDE DEF events
    <3>1. PICK i \in DOMAIN crossings : crossings[i] = e
      BY <2>5, Zenon DEF Stored
    <3>2. i \in DOMAIN (crossings \o events) /\ (crossings \o events)[i] = e
      BY <2>2, <3>1, ConcatKeeps
    <3>3. i \in DOMAIN crossings' /\ crossings'[i] = e
      BY <2>3, <3>1, <3>2, Zenon
    <3> QED
      BY <3>3, Zenon DEF Stored
  <2>6. Grows /\ DeliveryOrder' /\ LatestCoversPublished' /\ AnnouncedCrossingIsStored'
    <3>1. Grows
      BY <2>4, <2>5, Zenon DEF Grows, Covered
    <3>2. DeliveryOrder' /\ LatestCoversPublished'
      BY <2>4, Zenon DEF IInv, DeliveryOrder, LatestCoversPublished
    <3>3. \A e \in announced : Stored(e)
      BY Zenon DEF IInv, AnnouncedCrossingIsStored, Stored
    <3>4. \A e \in announced' : Stored(e)'
      BY <2>4, <2>5, <3>3, Zenon
    <3> QED
      BY <3>1, <3>2, <3>4, Zenon DEF AnnouncedCrossingIsStored, Stored
  <2>7. CASE Fail(w)
    <3>1. Progress(call[w])'
      BY <1>t, <2>1, <2>7, ControlSteps, IdleProgress, Zenon DEF Fail
    <3> QED
      BY <1>t, <2>6, <3>1, Combine, Zenon
  <2>8. CASE ~Fail(w)
    <3>1. /\ crossings' = crossings \o events
          /\ call' = [call EXCEPT ![w] = [call[w] EXCEPT !.events = events,
               !.pc = IF events = <<>> THEN AfterGeofences(call[w].report) ELSE "announce"]]
      BY <1>8, <2>8, Zenon DEF CommitCrossings
    <3> HIDE DEF events
    <3>2. /\ call'[w].pc \in {"raw", "publish", "announce"}
          /\ call'[w].report = call[w].report /\ call'[w].events = events
      BY <1>t, <2>1, <3>1, Zenon DEF TypeOK, Calls, AfterGeofences
    <3>3. \A j \in DOMAIN events : \E i \in DOMAIN crossings' : crossings'[i] = events[j]
      BY <2>2, <3>1, ConcatKeeps
    <3>4. Progress(call[w])'
      BY <2>1, <2>4, <3>2, <3>3, Zenon DEF Progress, AfterInsert, AfterUpsert, Covered, Stored
    <3> QED
      BY <1>t, <2>6, <3>4, Combine, Zenon
  <2> QED
    BY <2>7, <2>8, Zenon
<1>9. CASE AnnounceCrossing(w)
  <2>1. /\ call[w].pc = "announce" /\ call[w] \in Calls /\ StaticChecks(call[w].report) = <<>>
        /\ rows[call[w].report] > 0 /\ Covered(call[w].report)
        /\ \A j \in DOMAIN call[w].events : Stored(call[w].events[j])
    BY <1>9, <1>t, Zenon DEF AnnounceCrossing, At, IInv, Progress, AfterInsert, AfterUpsert, TypeOK
  <2>2. call[w].events \in Seq(Events) /\ call[w].events # <<>>
    BY <2>1, Zenon DEF Calls
  <2>3. UNCHANGED <<rows, latest, published, crossings, notified>>
    BY <1>9, Zenon DEF AnnounceCrossing
  <2>4. Grows /\ DeliveryOrder' /\ LatestCoversPublished'
    BY <2>3, Zenon DEF IInv, Grows, Covered, Stored, DeliveryOrder, LatestCoversPublished
  <2>5. AnnouncedCrossingIsStored'
    <3>1. Head(call[w].events) = call[w].events[1] /\ 1 \in DOMAIN call[w].events
      BY <2>2
    <3>2. announced' \subseteq announced \cup {call[w].events[1]}
      BY <1>9, <3>1, Zenon DEF AnnounceCrossing
    <3> QED
      BY <2>1, <2>3, <3>1, <3>2, Zenon DEF IInv, AnnouncedCrossingIsStored, Stored
  <2>6. CASE Fail(w)
    <3>1. Progress(call[w])'
      BY <1>t, <2>1, <2>6, ControlSteps, IdleProgress, Zenon DEF Fail
    <3> QED
      BY <1>t, <2>4, <2>5, <3>1, Combine, Zenon
  <2>7. CASE ~Fail(w)
    <3>1. call' = [call EXCEPT ![w] = [call[w] EXCEPT !.events = Tail(call[w].events),
            !.pc = IF Len(call[w].events) = 1 THEN AfterGeofences(call[w].report) ELSE "announce"]]
      BY <1>9, <2>7, Zenon DEF AnnounceCrossing
    <3>2. /\ call'[w].pc \in {"raw", "publish", "announce"}
          /\ call'[w].report = call[w].report /\ call'[w].events = Tail(call[w].events)
      BY <1>t, <2>1, <3>1, Zenon DEF TypeOK, Calls, AfterGeofences
    <3>3. \A j \in DOMAIN Tail(call[w].events) :
            j + 1 \in DOMAIN call[w].events /\ Tail(call[w].events)[j] = call[w].events[j + 1]
      BY <2>2
    <3>4. \A j \in DOMAIN call'[w].events : Stored(call'[w].events[j])
      BY <2>1, <3>2, <3>3, Zenon
    <3>5. \A j \in DOMAIN call'[w].events :
            \E i \in DOMAIN crossings' : crossings'[i] = call'[w].events[j]
      BY <2>3, <3>4, Zenon DEF Stored
    <3>6. Progress(call[w])'
      BY <2>1, <2>3, <3>2, <3>5, Zenon DEF Progress, AfterInsert, AfterUpsert, Covered, Stored
    <3> QED
      BY <1>t, <2>4, <2>5, <3>6, Combine, Zenon
  <2> QED
    BY <2>6, <2>7, Zenon
<1>10. CASE MirrorRaw(w)
  <2>1. /\ call[w].pc = "raw" /\ StaticChecks(call[w].report) = <<>>
        /\ rows[call[w].report] > 0 /\ Covered(call[w].report)
    BY <1>10, <1>t, Zenon DEF MirrorRaw, At, IInv, Progress, AfterInsert, AfterUpsert
  <2>2. UNCHANGED <<rows, latest, published, crossings, announced, notified>>
    BY <1>10, Zenon DEF MirrorRaw
  <2>3. Progress(call[w])'
    <3>1. CASE Fail(w)
      BY <1>t, <2>1, <3>1, ControlSteps, IdleProgress, Zenon DEF Fail
    <3>2. CASE ~Fail(w)
      <4>1. call'[w].pc = "publish" /\ call'[w].report = call[w].report
        BY <1>10, <1>t, <2>1, <3>2, ControlSteps, Zenon DEF MirrorRaw, Succeed, Pcs
      <4> QED
        BY <2>1, <2>2, <4>1, Zenon DEF Progress, AfterInsert, AfterUpsert, Covered
    <3> QED
      BY <3>1, <3>2, Zenon
  <2> QED
    BY <1>t, <2>2, <2>3, StoresSame, Combine, Zenon
<1>11. CASE PublishPosition(w)
  <2>1. /\ call[w].pc = "publish" /\ StaticChecks(call[w].report) = <<>>
        /\ rows[call[w].report] > 0 /\ Covered(call[w].report)
    BY <1>11, <1>t, Zenon DEF PublishPosition, At, IInv, Progress, AfterInsert, AfterUpsert
  <2>2. UNCHANGED <<rows, latest, crossings, announced, notified>>
    BY <1>11, Zenon DEF PublishPosition
  <2>3. published' = published \/ published' = published \cup {call[w].report}
    BY <1>11, Zenon DEF PublishPosition
  <2>4. Grows
    BY <2>2, <2>3, Zenon DEF Grows, Covered, Stored
  <2>5. DeliveryOrder' /\ LatestCoversPublished' /\ AnnouncedCrossingIsStored'
    BY <2>1, <2>2, <2>3, Zenon DEF IInv, DeliveryOrder, LatestCoversPublished, Covered,
                            AnnouncedCrossingIsStored
  <2>6. Progress(call[w])'
    <3>1. CASE Fail(w)
      BY <1>t, <2>1, <3>1, ControlSteps, IdleProgress, Zenon DEF Fail
    <3>2. CASE ~Fail(w)
      <4>1. /\ call'[w].pc = "fence" /\ call'[w].report = call[w].report
            /\ call[w].report \in published'
        BY <1>11, <1>t, <2>1, <3>2, ControlSteps, Zenon DEF PublishPosition, Succeed, Pcs
      <4> QED
        BY <2>1, <2>2, <4>1, Zenon DEF Progress, AfterInsert, AfterUpsert, Covered
    <3> QED
      BY <3>1, <3>2, Zenon
  <2> QED
    BY <1>t, <2>4, <2>5, <2>6, Combine, Zenon
<1>12. CASE ObserveAndBroadcast(w)
  <2>1. call[w].pc = "fence" /\ call[w].report \in published
    BY <1>12, Zenon DEF ObserveAndBroadcast, At, IInv, Progress
  <2>2. UNCHANGED <<rows, latest, published, crossings, announced>>
    BY <1>12, Zenon DEF ObserveAndBroadcast
  <2>3. notified' \subseteq notified \cup {call[w].report}
    BY <1>12, Zenon DEF ObserveAndBroadcast
  <2>4. Grows
    BY <2>2, Zenon DEF Grows, Covered, Stored
  <2>5. DeliveryOrder' /\ LatestCoversPublished' /\ AnnouncedCrossingIsStored'
    BY <2>1, <2>2, <2>3, Zenon DEF IInv, DeliveryOrder, LatestCoversPublished, AnnouncedCrossingIsStored
  <2>6. call'[w] = Idle
    BY <1>12, <1>t, <2>1, ControlSteps, Zenon DEF ObserveAndBroadcast, Fail
  <2> QED
    BY <1>t, <2>4, <2>5, <2>6, IdleProgress, Combine, Zenon
<1> QED
  BY <1>1, <1>2, <1>3, <1>4, <1>5, <1>6, <1>7, <1>8, <1>9, <1>10, <1>11, <1>12, Zenon DEF Step

(* A pipeline that has just started has nothing to answer for. *)
LEMMA InvOfInit == Init => IInv
<1> SUFFICES ASSUME Init PROVE IInv
  BY Zenon
<1>1. \A w \in Workers : Progress(call[w])
  BY CallRecords, Zenon DEF Init, Progress, AfterInsert, AfterUpsert
<1>2. DeliveryOrder /\ LatestCoversPublished /\ AnnouncedCrossingIsStored
  BY Zenon DEF Init, DeliveryOrder, LatestCoversPublished, AnnouncedCrossingIsStored
<1> QED
  BY <1>1, <1>2, TypeOfInit, Zenon DEF IInv

(* The invariant is inductive. *)
LEMMA InvOfNext ==
  ASSUME IInv, [Next]_vars
  PROVE  IInv'
<1>t. TypeOK'
  BY TypeOfNext, Zenon DEF IInv
<1>1. ASSUME NEW w \in Workers, Step(w)
      PROVE  IInv'
  BY <1>1, InvOfStep, Zenon
<1>2. ASSUME UNCHANGED <<call, rows, latest, published, crossings, announced, notified>>
      PROVE  IInv'
  <2>1. \A w \in Workers : Progress(call[w])'
    BY <1>2, Zenon DEF IInv, Progress, Covered, Stored
  <2> QED
    BY <1>2, <1>t, <2>1, StoresSame, Zenon DEF IInv
<1>3. CASE Restart
  <2>1. \A w \in Workers : Progress(call[w])'
    BY <1>3, IdleProgress, Zenon DEF Restart
  <2> QED
    BY <1>3, <1>t, <2>1, StoresSame, Zenon DEF Restart, IInv
<1> QED
  BY <1>1, <1>2, <1>3, Zenon DEF Next, ExpireDedupKey, ExpireZoneState, ApproveZone, vars

(* So it holds in every state the pipeline reaches. *)
LEMMA Inductive == Spec => []IInv
BY InvOfInit, InvOfNext, PTL DEF Spec

(***************************************************************************)
(* Store, then topic, then hub: however many workers run, whatever call    *)
(* fails and whenever the process restarts, a report published by          *)
(* HandlePosition has a row in ais_positions, and a report handed to the   *)
(* SSE hub is on the topic.                                                *)
(***************************************************************************)
THEOREM PublishedIsStored == Spec => []DeliveryOrder
BY Inductive, PTL DEF IInv

(***************************************************************************)
(* The hot row never lags behind the topic: whatever the order in which    *)
(* workers upsert, a published report finds latest_positions at least as   *)
(* recent, and the row shown there is stored.                              *)
(***************************************************************************)
THEOREM LatestIsFresh == Spec => []LatestCoversPublished
BY Inductive, PTL DEF IInv

(* EvaluateGeofences commits before HandlePosition announces. *)
THEOREM AnnouncedIsStored == Spec => []AnnouncedCrossingIsStored
BY Inductive, PTL DEF IInv

-----------------------------------------------------------------------------
(***************************************************************************)
(* What a call owes the quarantine topic: a report with findings of its    *)
(* own has each of them on the topic or still on the list, without a       *)
(* baseline; a clean one has the bifurcation to publish.                   *)
(***************************************************************************)
Owed(c) ==
  c.pc = "quarantine" =>
    IF StaticChecks(c.report) = <<>>
    THEN c.findings = <<"same-mmsi-bifurcation">>
    ELSE /\ c.baseline = None
         /\ \A i \in DOMAIN StaticChecks(c.report) :
              \/ <<c.report, StaticChecks(c.report)[i], None>> \in quarantined
              \/ \E j \in DOMAIN c.findings : c.findings[j] = StaticChecks(c.report)[i]

DropInv == NoSilentDrop /\ \A w \in Workers : Owed(call[w])

(* Stores and topics only grow, the quarantine and the hub's included. *)
TopicsGrow ==
  /\ \A r \in Reports : rows[r] > 0 => rows'[r] > 0
  /\ published \subseteq published' /\ notified \subseteq notified' /\ quarantined \subseteq quarantined'

(* What a call owes, it owes until it publishes it. *)
LEMMA OwedStable ==
  ASSUME NEW c \in Calls, Owed(c), quarantined \subseteq quarantined'
  PROVE  Owed(c)'
BY Zenon DEF Owed

(* A step whose call returns nothing that promises anything. *)
LEMMA DropKept ==
  ASSUME NoSilentDrop, TopicsGrow,
         \A r \in Reports : returned'[r] \subseteq returned[r] \cup {"absorbed", "refused", "error"}
  PROVE  NoSilentDrop'
<1> SUFFICES ASSUME NEW r \in Reports
             PROVE  /\ "done" \in returned'[r] => rows'[r] > 0 /\ r \in published' /\ r \in notified'
                    /\ "quarantined" \in returned'[r] =>
                         IF StaticChecks(r) = <<>>
                         THEN \E q \in quarantined' : q[1] = r /\ q[2] = "same-mmsi-bifurcation"
                         ELSE \A i \in DOMAIN StaticChecks(r) : <<r, StaticChecks(r)[i], None>> \in quarantined'
  BY Zenon DEF NoSilentDrop
<1>1. /\ "done" \in returned'[r] => "done" \in returned[r]
      /\ "quarantined" \in returned'[r] => "quarantined" \in returned[r]
  BY Zenon
<1> QED BY <1>1, Zenon DEF NoSilentDrop, TopicsGrow

(* The other calls owe what they owed, and the stepping one what is shown of it. *)
LEMMA DropCombine ==
  ASSUME TypeOK, DropInv, NEW w \in Workers, Others(w), quarantined \subseteq quarantined',
         Owed(call[w])', NoSilentDrop'
  PROVE  DropInv'
<1>1. ASSUME NEW u \in Workers \ {w}
      PROVE  Owed(call[u])'
  <2>1. call'[u] = call[u] /\ call[u] \in Calls /\ Owed(call[u])
    BY Zenon DEF Others, TypeOK, DropInv
  <2>2. \A c \in Calls : Owed(c) => Owed(c)'
    BY OwedStable, Zenon
  <2> QED BY <2>1, <2>2 DEF Owed
<1> QED BY <1>1, Zenon DEF DropInv

(* What a return, a failure or a move to the next step adds to the history. *)
LEMMA ReturnedSteps ==
  ASSUME TypeOK, NEW w \in Workers, call[w].pc # "idle"
  PROVE  /\ \A outcome \in {"done", "absorbed", "quarantined", "refused", "error"} : Return(w, outcome) =>
              /\ returned'[call[w].report] = returned[call[w].report] \cup {outcome}
              /\ \A r \in Reports \ {call[w].report} : returned'[r] = returned[r]
         /\ Fail(w) => \A r \in Reports : returned'[r] \subseteq returned[r] \cup {"absorbed", "refused", "error"}
<1>1. call[w].report \in Reports /\ returned \in [Reports -> SUBSET {"done", "absorbed", "quarantined", "refused", "error"}]
  BY Zenon DEF TypeOK, Calls
<1> QED BY <1>1, Zenon DEF Return, Fail

(* Only the insert can refuse a report. *)
LEMMA RefusesNothing ==
  ASSUME TypeOK, NEW w \in Workers, call[w].pc # "idle",
         \/ UNCHANGED returned \/ Fail(w)
         \/ \E outcome \in {"done", "absorbed", "quarantined", "error"} : Return(w, outcome)
  PROVE  \A r \in Reports : "refused" \in returned'[r] => "refused" \in returned[r]
<1>1. ASSUME NEW outcome \in {"done", "absorbed", "quarantined", "error"}, Return(w, outcome),
             NEW r \in Reports, "refused" \in returned'[r]
      PROVE  "refused" \in returned[r]
  <2>1. call[w].report \in Reports /\ outcome # "refused"
    BY Zenon DEF TypeOK, Calls
  <2>2. returned' = [returned EXCEPT ![call[w].report] = @ \cup {outcome}]
    BY <1>1, Zenon DEF Return
  <2> QED BY <1>1, <2>1, <2>2, Zenon DEF TypeOK
<1> QED BY <1>1, Zenon DEF Fail

(* A step that stores and refuses nothing. *)
LEMMA RefusedKept ==
  ASSUME RefusedOnlyUnread, UNCHANGED rows,
         \A r \in Reports : "refused" \in returned'[r] => "refused" \in returned[r]
  PROVE  RefusedOnlyUnread'
BY Zenon DEF RefusedOnlyUnread

(* A report at the insert has no findings; the table takes it or has a reason of its own. *)
LEMMA RefusedOfStep ==
  ASSUME IInv, RefusedOnlyUnread, NEW w \in Workers, Step(w)
  PROVE  RefusedOnlyUnread'
<1>t. TypeOK
  BY Zenon DEF IInv
<1>1. ASSUME NEW r \in Reports, Receive(w, r)
      PROVE  RefusedOnlyUnread'
  BY <1>1, RefusedKept, Zenon DEF Receive
<1>2. CASE InsertPositions(w)
  <2> DEFINE r == call[w].report
  <2>1. call[w].pc # "idle" /\ r \in Reports /\ StaticChecks(r) = <<>>
    BY <1>2, Zenon DEF InsertPositions, At, IInv, Progress, TypeOK, Calls
  <2>2. CASE UNCHANGED rows /\ Fail(w)
    BY <1>t, <2>1, <2>2, RefusesNothing, RefusedKept, Zenon
  <2>3. CASE /\ StorageAccepts(r) /\ rows' = [rows EXCEPT ![r] = @ + 1]
             /\ UNCHANGED returned \/ Fail(w)
    <3>1. \A q \in Reports : "refused" \in returned'[q] => "refused" \in returned[q]
      BY <1>t, <2>1, <2>3, RefusesNothing, Zenon
    <3>2. \A q \in Reports : q # r => rows'[q] = rows[q]
      BY <1>t, <2>3, Zenon DEF TypeOK
    <3> QED BY <2>1, <2>3, <3>1, <3>2, Zenon DEF RefusedOnlyUnread
  <2>4. CASE ~StorageAccepts(r) /\ UNCHANGED rows /\ Return(w, "refused")
    <3>1. r.unfit # {}
      BY <2>1, <2>4, CleanUnlessUnread, Zenon
    <3>2. \A q \in Reports : q # r => returned'[q] = returned[q]
      BY <1>t, <2>4, Zenon DEF Return, TypeOK
    <3> QED BY <2>1, <2>4, <3>1, <3>2, Zenon DEF RefusedOnlyUnread
  <2> QED BY <1>2, <2>2, <2>3, <2>4, Zenon DEF InsertPositions, Succeed
<1>3. CASE Quarantine(w)
  BY <1>t, <1>3, RefusesNothing, RefusedKept, Zenon DEF Quarantine, At
<1>4. CASE Dedup(w)
  BY <1>t, <1>4, RefusesNothing, RefusedKept, Zenon DEF Dedup, At, Succeed
<1>5. CASE UpsertLatestPosition(w)
  BY <1>t, <1>5, RefusesNothing, RefusedKept, Zenon DEF UpsertLatestPosition, At, Succeed
<1>6. CASE ReadMembership(w) \/ ReplaceMembership(w)
  BY <1>t, <1>6, RefusesNothing, RefusedKept, Zenon
    DEF ReadMembership, ReplaceMembership, At, Succeed
<1>7. CASE CommitCrossings(w) \/ AnnounceCrossing(w)
  BY <1>t, <1>7, RefusesNothing, RefusedKept, Zenon
    DEF CommitCrossings, AnnounceCrossing, At, Succeed
<1>8. CASE MirrorRaw(w) \/ PublishPosition(w) \/ ObserveAndBroadcast(w)
  BY <1>t, <1>8, RefusesNothing, RefusedKept, Zenon
    DEF MirrorRaw, PublishPosition, ObserveAndBroadcast, At, Succeed
<1> QED
  BY <1>1, <1>2, <1>3, <1>4, <1>5, <1>6, <1>7, <1>8, Zenon DEF Step

(***************************************************************************)
(* Filter and table, for all coordinates, speeds and courses, any number   *)
(* of workers and any failures: every stored report passed both, and the   *)
(* table refuses a report that passed the filter only for a column that    *)
(* the filter does not read.                                               *)
(***************************************************************************)
THEOREM RefusalsAreUnread == Spec => []RefusedOnlyUnread
<1>1. Init => RefusedOnlyUnread
  <2>1. Init => \A r \in Reports : ~(rows[r] > 0) /\ "refused" \notin returned[r]
    BY SMT DEF Init
  <2> QED BY <2>1, Zenon DEF RefusedOnlyUnread
<1>2. ASSUME IInv, RefusedOnlyUnread, [Next]_vars
      PROVE  RefusedOnlyUnread'
  <2>1. CASE UNCHANGED <<rows, returned>>
    BY <1>2, <2>1, RefusedKept, Zenon
  <2> QED
    BY <1>2, <2>1, RefusedOfStep, Zenon
      DEF Next, ExpireDedupKey, ExpireZoneState, ApproveZone, Restart, vars
<1> QED
  BY <1>1, <1>2, Inductive, PTL DEF Spec

(* Receive puts every finding on the list of the call it starts. *)
LEMMA ReceiveOwes ==
  ASSUME TypeOK, NEW w \in Workers, NEW r \in Reports, Receive(w, r)
  PROVE  Owed(call[w])'
<1>1. CASE StaticChecks(r) = <<>>
  <2>1. CASE fixes[vesselKey(r)] # None /\ Bifurcates(fixes[vesselKey(r)], r)
    <3>1. call'[w] = [Idle EXCEPT !.pc = "quarantine", !.report = r,
                        !.findings = <<"same-mmsi-bifurcation">>, !.baseline = fixes[vesselKey(r)]]
      BY <1>1, <2>1, Zenon DEF Receive, CheckConsecutive, TypeOK
    <3>2. call'[w].report = r /\ call'[w].findings = <<"same-mmsi-bifurcation">>
      BY <3>1, Zenon DEF Idle
    <3> QED BY <1>1, <3>2, Zenon DEF Owed
  <2>2. CASE ~(fixes[vesselKey(r)] # None /\ Bifurcates(fixes[vesselKey(r)], r))
    <3>1. call'[w] = [Idle EXCEPT !.pc = IF Deduplicated(r) THEN "dedup" ELSE "insert", !.report = r]
      BY <1>1, <2>2, Zenon DEF Receive, CheckConsecutive, TypeOK
    <3>2. call'[w].pc # "quarantine"
      BY <3>1, Zenon DEF Idle
    <3> QED BY <3>2, Zenon DEF Owed
  <2> QED BY <2>1, <2>2, Zenon
<1>2. CASE StaticChecks(r) # <<>>
  <2>1. call'[w] = [Idle EXCEPT !.pc = "quarantine", !.report = r, !.findings = StaticChecks(r)]
    BY <1>2, Zenon DEF Receive, TypeOK
  <2>2. call'[w].report = r /\ call'[w].findings = StaticChecks(r) /\ call'[w].baseline = None
    BY <2>1, Zenon DEF Idle
  <2> QED BY <1>2, <2>2, Zenon DEF Owed
<1> QED BY <1>1, <1>2, Zenon

(* Quarantine publishes the head of the list, and returns when it was the last. *)
LEMMA QuarantineDrops ==
  ASSUME TypeOK, DropInv, NEW w \in Workers, Quarantine(w), Others(w)
  PROVE  DropInv'
<1> DEFINE c == call[w]
           r == c.report
           record == <<r, Head(c.findings), c.baseline>>
<1>1. /\ c \in Calls /\ c.pc = "quarantine" /\ r \in Reports
      /\ c.findings \in Seq(Reasons) /\ c.findings # <<>> /\ Owed(c)
  BY Zenon DEF TypeOK, Calls, Quarantine, At, DropInv
<1>2. TopicsGrow
  BY Zenon DEF Quarantine, TopicsGrow
<1>3. CASE Fail(w)
  <2>1. call'[w] = Idle
    BY <1>1, <1>3, ControlSteps, Zenon DEF Fail
  <2>2. Owed(call[w])'
    BY <2>1, CallRecords, Zenon DEF Owed
  <2>3. NoSilentDrop'
    BY <1>1, <1>2, <1>3, ReturnedSteps, DropKept, Zenon DEF DropInv
  <2> QED BY <1>2, <2>2, <2>3, DropCombine, Zenon DEF TopicsGrow
<1>4. CASE ~Fail(w)
  <2>1. /\ quarantined' = quarantined \cup {record}
        /\ IF Len(c.findings) = 1
           THEN Return(w, "quarantined")
           ELSE call' = [call EXCEPT ![w].findings = Tail(@)] /\ UNCHANGED returned
    BY <1>4, Zenon DEF Quarantine
  <2>2. /\ Head(c.findings) = c.findings[1] /\ Len(c.findings) \in Nat /\ Len(c.findings) >= 1
        /\ DOMAIN c.findings = 1 .. Len(c.findings)
    BY <1>1
  <2>3. CASE Len(c.findings) = 1
    <3>1. call'[w] = Idle /\ Return(w, "quarantined")
      BY <1>1, <2>1, <2>3, ControlSteps, Zenon
    <3>2. Owed(call[w])'
      BY <3>1, CallRecords, Zenon DEF Owed
    <3>3. StaticChecks(r) = <<>> => \E q \in quarantined' : q[1] = r /\ q[2] = "same-mmsi-bifurcation"
      <4> SUFFICES ASSUME StaticChecks(r) = <<>>
                   PROVE  \E q \in quarantined' : q[1] = r /\ q[2] = "same-mmsi-bifurcation"
        BY Zenon
      <4>1. c.findings = <<"same-mmsi-bifurcation">>
        BY <1>1, Zenon DEF Owed
      <4>2. record[1] = r /\ record[2] = "same-mmsi-bifurcation"
        BY <2>2, <4>1
      <4> HIDE DEF record
      <4> QED BY <2>1, <4>2, Zenon
    <3>4. StaticChecks(r) # <<>> =>
            \A i \in DOMAIN StaticChecks(r) : <<r, StaticChecks(r)[i], None>> \in quarantined'
      <4> SUFFICES ASSUME StaticChecks(r) # <<>>, NEW i \in DOMAIN StaticChecks(r)
                   PROVE  <<r, StaticChecks(r)[i], None>> \in quarantined'
        BY Zenon
      <4>1. c.baseline = None
        BY <1>1, Zenon DEF Owed
      <4>2. CASE <<r, StaticChecks(r)[i], None>> \in quarantined
        BY <2>1, <4>2, Zenon
      <4>3. CASE \E j \in DOMAIN c.findings : c.findings[j] = StaticChecks(r)[i]
        <5>1. c.findings[1] = StaticChecks(r)[i]
          BY <2>2, <2>3, <4>3
        <5> QED BY <2>1, <2>2, <4>1, <5>1, Zenon
      <4> QED BY <1>1, <4>2, <4>3, Zenon DEF Owed
    <3>5. /\ returned'[r] = returned[r] \cup {"quarantined"}
          /\ \A q \in Reports \ {r} : returned'[q] = returned[q]
      BY <1>1, <3>1, ReturnedSteps, Zenon
    <3> HIDE DEF c, r, record
    <3>6. NoSilentDrop'
      <4> SUFFICES ASSUME NEW p \in Reports
                   PROVE  /\ "done" \in returned'[p] => rows'[p] > 0 /\ p \in published' /\ p \in notified'
                          /\ "quarantined" \in returned'[p] =>
                               IF StaticChecks(p) = <<>>
                               THEN \E q \in quarantined' : q[1] = p /\ q[2] = "same-mmsi-bifurcation"
                               ELSE \A i \in DOMAIN StaticChecks(p) :
                                      <<p, StaticChecks(p)[i], None>> \in quarantined'
        BY Zenon DEF NoSilentDrop
      <4>1. CASE p = r
        BY <1>2, <3>3, <3>4, <3>5, <4>1, Zenon DEF DropInv, NoSilentDrop, TopicsGrow
      <4>2. CASE p # r
        BY <1>2, <3>5, <4>2, Zenon DEF DropInv, NoSilentDrop, TopicsGrow
      <4> QED BY <4>1, <4>2, Zenon
    <3> QED BY <1>2, <3>2, <3>6, DropCombine, Zenon DEF TopicsGrow
  <2>4. CASE Len(c.findings) # 1
    <3>1. call' = [call EXCEPT ![w] = [c EXCEPT !.findings = Tail(c.findings)]] /\ returned' = returned
      BY <2>1, <2>4, Zenon
    <3>2. call'[w] = [c EXCEPT !.findings = Tail(c.findings)]
      BY <3>1, Zenon DEF TypeOK
    <3>3. /\ call'[w].report = r /\ call'[w].baseline = c.baseline
          /\ call'[w].findings = Tail(c.findings)
      BY <1>1, <3>2, Zenon DEF Calls
    <3>4. \A j \in DOMAIN c.findings : j = 1 \/
            (j - 1 \in DOMAIN Tail(c.findings) /\ Tail(c.findings)[j - 1] = c.findings[j])
      BY <1>1, <2>2, <2>4
    <3>5. StaticChecks(r) # <<>>
      <4>1. StaticChecks(r) = <<>> => c.findings = <<"same-mmsi-bifurcation">>
        BY <1>1, Zenon DEF Owed
      <4>2. Len(<<"same-mmsi-bifurcation">>) = 1
        BY Zenon
      <4> QED BY <2>4, <4>1, <4>2, Zenon
    <3>6. \A i \in DOMAIN StaticChecks(r) :
            \/ <<r, StaticChecks(r)[i], None>> \in quarantined'
            \/ \E j \in DOMAIN Tail(c.findings) : Tail(c.findings)[j] = StaticChecks(r)[i]
      <4> SUFFICES ASSUME NEW i \in DOMAIN StaticChecks(r)
                   PROVE  \/ <<r, StaticChecks(r)[i], None>> \in quarantined'
                          \/ \E j \in DOMAIN Tail(c.findings) : Tail(c.findings)[j] = StaticChecks(r)[i]
        BY Zenon
      <4>1. /\ c.baseline = None
            /\ \/ <<r, StaticChecks(r)[i], None>> \in quarantined
               \/ \E j \in DOMAIN c.findings : c.findings[j] = StaticChecks(r)[i]
        BY <1>1, <3>5, Zenon DEF Owed
      <4>2. CASE <<r, StaticChecks(r)[i], None>> \in quarantined
        BY <2>1, <4>2, Zenon
      <4>3. CASE \E j \in DOMAIN c.findings : c.findings[j] = StaticChecks(r)[i]
        <5>1. PICK j \in DOMAIN c.findings : c.findings[j] = StaticChecks(r)[i]
          BY <4>3, Zenon
        <5>2. CASE j = 1
          BY <2>1, <2>2, <4>1, <5>1, <5>2, Zenon
        <5>3. CASE j # 1
          BY <3>4, <5>1, <5>3, Zenon
        <5> QED BY <5>2, <5>3, Zenon
      <4> QED BY <4>1, <4>2, <4>3, Zenon
    <3>7. Owed(call[w])'
      BY <1>1, <3>3, <3>5, <3>6, Zenon DEF Owed
    <3>8. NoSilentDrop'
      BY <1>2, <3>1, DropKept, Zenon DEF DropInv
    <3> QED BY <1>2, <3>7, <3>8, DropCombine, Zenon DEF TopicsGrow
  <2> QED BY <2>3, <2>4, Zenon
<1> QED BY <1>3, <1>4, Zenon

(* The steps that neither quarantine nor return to the source with a promise. *)
LEMMA QuietDrops ==
  ASSUME TypeOK, DropInv, NEW w \in Workers, Others(w), TopicsGrow, call[w].pc # "idle",
         call'[w].pc # "quarantine",
         UNCHANGED returned \/ Fail(w) \/ Return(w, "absorbed") \/ Return(w, "refused")
  PROVE  DropInv'
<1>1. \A r \in Reports : returned'[r] \subseteq returned[r] \cup {"absorbed", "refused", "error"}
  <2>1. ASSUME Return(w, "absorbed") \/ Return(w, "refused"), NEW r \in Reports
        PROVE  returned'[r] \subseteq returned[r] \cup {"absorbed", "refused", "error"}
    BY <2>1, ReturnedSteps, Zenon
  <2> QED BY <2>1, ReturnedSteps, Zenon
<1>2. NoSilentDrop'
  BY <1>1, DropKept, Zenon DEF DropInv
<1>3. Owed(call[w])'
  BY Zenon DEF Owed
<1> QED BY <1>2, <1>3, DropCombine, Zenon DEF TopicsGrow

(* Every step of HandlePosition accounts for its report. *)
LEMMA DropOfStep ==
  ASSUME IInv, DropInv, NEW w \in Workers, Step(w)
  PROVE  DropInv'
<1>t. TypeOK /\ TypeOK' /\ Others(w)
  BY TypeOfStep, Zenon DEF IInv
<1>i. Idle.pc # "quarantine"
  BY CallRecords, Zenon
<1>1. ASSUME NEW r \in Reports, Receive(w, r)
      PROVE  DropInv'
  <2>1. TopicsGrow /\ returned' = returned
    BY <1>1, Zenon DEF Receive, TopicsGrow
  <2>2. NoSilentDrop'
    BY <2>1, DropKept, Zenon DEF DropInv
  <2>3. Owed(call[w])'
    BY <1>1, <1>t, ReceiveOwes, Zenon
  <2> QED BY <1>t, <2>1, <2>2, <2>3, DropCombine, Zenon DEF TopicsGrow
<1>2. CASE Quarantine(w)
  BY <1>2, <1>t, QuarantineDrops, Zenon
<1>3. CASE Dedup(w)
  <2>1. TopicsGrow /\ call[w].pc # "idle" /\ (UNCHANGED returned \/ Return(w, "absorbed"))
    BY <1>3, Zenon DEF Dedup, TopicsGrow, At, Succeed
  <2>2. call'[w].pc # "quarantine"
    <3>1. Goto(w, "insert") \/ Return(w, "absorbed")
      BY <1>3, Zenon DEF Dedup, Succeed
    <3>2. "insert" \in Pcs \ {"quarantine", "announce"}
      BY Zenon DEF Pcs
    <3> QED BY <1>t, <2>1, <3>1, <3>2, LeavesQuarantine, Zenon
  <2> QED BY <1>t, <2>1, <2>2, QuietDrops, Zenon
<1>4. CASE InsertPositions(w)
  <2>1. call[w].pc # "idle" /\ (UNCHANGED returned \/ Fail(w) \/ Return(w, "refused"))
    BY <1>4, Zenon DEF InsertPositions, At, Succeed
  <2>2. TopicsGrow
    <3>1. rows \in [Reports -> Nat] /\ call[w].report \in Reports
      BY <1>t, <2>1, Zenon DEF TypeOK, Calls
    <3>2. rows' = rows \/ rows' = [rows EXCEPT ![call[w].report] = @ + 1]
      BY <1>4, Zenon DEF InsertPositions
    <3>3. \A r \in Reports : rows[r] > 0 => rows'[r] > 0
      BY <3>1, <3>2
    <3> QED BY <1>4, <3>3, Zenon DEF InsertPositions, TopicsGrow
  <2>3. call'[w].pc # "quarantine"
    <3>1. Goto(w, "latest") \/ Fail(w) \/ Return(w, "refused")
      BY <1>4, Zenon DEF InsertPositions, Succeed
    <3>2. "latest" \in Pcs \ {"quarantine", "announce"}
      BY Zenon DEF Pcs
    <3> QED BY <1>t, <2>1, <3>1, <3>2, LeavesQuarantine, Zenon
  <2> QED BY <1>t, <2>1, <2>2, <2>3, QuietDrops, Zenon
<1>5. CASE UpsertLatestPosition(w)
  <2>1. TopicsGrow /\ call[w].pc # "idle" /\ (UNCHANGED returned \/ Fail(w))
    BY <1>5, Zenon DEF UpsertLatestPosition, TopicsGrow, At, Succeed
  <2>2. call'[w].pc # "quarantine"
    <3>1. Goto(w, "zones") \/ Fail(w)
      BY <1>5, Zenon DEF UpsertLatestPosition, Succeed
    <3>2. "zones" \in Pcs \ {"quarantine", "announce"}
      BY Zenon DEF Pcs
    <3> QED BY <1>t, <2>1, <3>1, <3>2, LeavesQuarantine, Zenon
  <2> QED BY <1>t, <2>1, <2>2, QuietDrops, Zenon
<1>6. CASE ReadMembership(w)
  <2>1. TopicsGrow /\ call[w].pc # "idle" /\ (UNCHANGED returned \/ Fail(w))
    BY <1>6, Zenon DEF ReadMembership, TopicsGrow, At
  <2>2. call'[w].pc # "quarantine"
    <3>1. CASE Fail(w)
      BY <1>t, <1>i, <2>1, <3>1, ControlSteps, Zenon DEF Fail
    <3>2. CASE ~Fail(w)
      BY <1>6, <1>t, <3>2 DEF ReadMembership, TypeOK, Calls
    <3> QED BY <3>1, <3>2, Zenon
  <2> QED BY <1>t, <2>1, <2>2, QuietDrops, Zenon
<1>7. CASE ReplaceMembership(w)
  <2>1. TopicsGrow /\ call[w].pc # "idle" /\ (UNCHANGED returned \/ Fail(w))
    BY <1>7, Zenon DEF ReplaceMembership, TopicsGrow, At, Succeed
  <2>2. call'[w].pc # "quarantine"
    <3>1. Goto(w, "commit") \/ Fail(w)
      BY <1>7, Zenon DEF ReplaceMembership, Succeed
    <3>2. "commit" \in Pcs \ {"quarantine", "announce"}
      BY Zenon DEF Pcs
    <3> QED BY <1>t, <2>1, <3>1, <3>2, LeavesQuarantine, Zenon
  <2> QED BY <1>t, <2>1, <2>2, QuietDrops, Zenon
<1>8. CASE CommitCrossings(w)
  <2>1. TopicsGrow /\ call[w].pc # "idle" /\ (UNCHANGED returned \/ Fail(w))
    BY <1>8, Zenon DEF CommitCrossings, TopicsGrow, At
  <2>2. call'[w].pc # "quarantine"
    <3>1. CASE Fail(w)
      BY <1>t, <1>i, <2>1, <3>1, ControlSteps, Zenon DEF Fail
    <3>2. CASE ~Fail(w)
      <4> DEFINE events == GeofenceEvents(w)
      <4>1. call' = [call EXCEPT ![w] = [call[w] EXCEPT !.events = events,
              !.pc = IF events = <<>> THEN AfterGeofences(call[w].report) ELSE "announce"]]
        BY <1>8, <3>2, Zenon DEF CommitCrossings
      <4> HIDE DEF events
      <4> QED BY <1>t, <4>1 DEF TypeOK, Calls, AfterGeofences
    <3> QED BY <3>1, <3>2, Zenon
  <2> QED BY <1>t, <2>1, <2>2, QuietDrops, Zenon
<1>9. CASE AnnounceCrossing(w)
  <2>1. TopicsGrow /\ call[w].pc # "idle" /\ (UNCHANGED returned \/ Fail(w))
    BY <1>9, Zenon DEF AnnounceCrossing, TopicsGrow, At
  <2>2. call'[w].pc # "quarantine"
    <3>1. CASE Fail(w)
      BY <1>t, <1>i, <2>1, <3>1, ControlSteps, Zenon DEF Fail
    <3>2. CASE ~Fail(w)
      <4>1. call' = [call EXCEPT ![w] = [call[w] EXCEPT !.events = Tail(call[w].events),
              !.pc = IF Len(call[w].events) = 1 THEN AfterGeofences(call[w].report) ELSE "announce"]]
        BY <1>9, <3>2, Zenon DEF AnnounceCrossing
      <4> QED BY <1>t, <4>1 DEF TypeOK, Calls, AfterGeofences
    <3> QED BY <3>1, <3>2, Zenon
  <2> QED BY <1>t, <2>1, <2>2, QuietDrops, Zenon
<1>10. CASE MirrorRaw(w)
  <2>1. TopicsGrow /\ call[w].pc # "idle" /\ (UNCHANGED returned \/ Fail(w))
    BY <1>10, Zenon DEF MirrorRaw, TopicsGrow, At, Succeed
  <2>2. call'[w].pc # "quarantine"
    <3>1. Goto(w, "publish") \/ Fail(w)
      BY <1>10, Zenon DEF MirrorRaw, Succeed
    <3>2. "publish" \in Pcs \ {"quarantine", "announce"}
      BY Zenon DEF Pcs
    <3> QED BY <1>t, <2>1, <3>1, <3>2, LeavesQuarantine, Zenon
  <2> QED BY <1>t, <2>1, <2>2, QuietDrops, Zenon
<1>11. CASE PublishPosition(w)
  <2>1. TopicsGrow /\ call[w].pc # "idle" /\ (UNCHANGED returned \/ Fail(w))
    BY <1>11, Zenon DEF PublishPosition, TopicsGrow, At, Succeed
  <2>2. call'[w].pc # "quarantine"
    <3>1. Goto(w, "fence") \/ Fail(w)
      BY <1>11, Zenon DEF PublishPosition, Succeed
    <3>2. "fence" \in Pcs \ {"quarantine", "announce"}
      BY Zenon DEF Pcs
    <3> QED BY <1>t, <2>1, <3>1, <3>2, LeavesQuarantine, Zenon
  <2> QED BY <1>t, <2>1, <2>2, QuietDrops, Zenon
<1>12. CASE ObserveAndBroadcast(w)
  <2> DEFINE r == call[w].report
  <2>1. /\ call[w].pc = "fence" /\ r \in Reports /\ r \in published /\ rows[r] > 0
    BY <1>12, <1>t, Zenon DEF ObserveAndBroadcast, At, IInv, Progress, AfterInsert, TypeOK, Calls
  <2>2. TopicsGrow /\ UNCHANGED <<rows, published, quarantined>>
    BY <1>12, Zenon DEF ObserveAndBroadcast, TopicsGrow
  <2>3. call'[w].pc # "quarantine"
    <3>1. Return(w, "done") \/ Fail(w)
      BY <1>12, Zenon DEF ObserveAndBroadcast
    <3>2. "publish" \in Pcs \ {"quarantine", "announce"}
      BY Zenon DEF Pcs
    <3> QED BY <1>t, <2>1, <3>1, <3>2, LeavesQuarantine, Zenon
  <2>4. CASE Fail(w)
    BY <1>t, <2>1, <2>2, <2>3, <2>4, QuietDrops, Zenon
  <2>5. CASE ~Fail(w)
    <3>1. Return(w, "done") /\ r \in notified'
      BY <1>12, <2>5, Zenon DEF ObserveAndBroadcast
    <3>2. /\ returned'[r] = returned[r] \cup {"done"}
          /\ \A q \in Reports \ {r} : returned'[q] = returned[q]
      BY <1>t, <2>1, <3>1, ReturnedSteps, Zenon
    <3> HIDE DEF r
    <3>3. NoSilentDrop'
      <4>1. \A q \in Reports : "quarantined" \in returned'[q] => "quarantined" \in returned[q]
        BY <3>2
      <4>2. \A q \in Reports \ {r} : "done" \in returned'[q] => "done" \in returned[q]
        BY <3>2, Zenon
      <4>3. \A q \in Reports : "done" \in returned[q] => rows[q] > 0 /\ q \in published /\ q \in notified
        BY Zenon DEF DropInv, NoSilentDrop
      <4>4. \A q \in Reports : "done" \in returned'[q] => rows'[q] > 0 /\ q \in published' /\ q \in notified'
        BY <2>1, <2>2, <3>1, <4>2, <4>3, Zenon DEF TopicsGrow
      <4> QED BY <2>2, <4>1, <4>4, Zenon DEF DropInv, NoSilentDrop
    <3>4. Owed(call[w])'
      BY <2>3, Zenon DEF Owed
    <3> QED BY <1>t, <2>2, <3>3, <3>4, DropCombine, Zenon
  <2> QED BY <2>4, <2>5, Zenon
<1> QED
  BY <1>1, <1>2, <1>3, <1>4, <1>5, <1>6, <1>7, <1>8, <1>9, <1>10, <1>11, <1>12, Zenon DEF Step

LEMMA DropOfNext ==
  ASSUME IInv, DropInv, [Next]_vars
  PROVE  DropInv'
<1>1. ASSUME NEW w \in Workers, Step(w)
      PROVE  DropInv'
  BY <1>1, DropOfStep, Zenon
<1>2. ASSUME UNCHANGED <<call, rows, published, notified, quarantined, returned>>
      PROVE  DropInv'
  <2>1. NoSilentDrop'
    BY <1>2, Zenon DEF DropInv, NoSilentDrop
  <2>2. \A w \in Workers : Owed(call[w])'
    BY <1>2, Zenon DEF DropInv, Owed
  <2> QED BY <2>1, <2>2, Zenon DEF DropInv
<1>3. CASE Restart
  <2>1. NoSilentDrop'
    BY <1>3, Zenon DEF Restart, DropInv, NoSilentDrop
  <2>2. \A w \in Workers : Owed(call[w])'
    BY <1>3, CallRecords, Zenon DEF Restart, Owed
  <2> QED BY <2>1, <2>2, Zenon DEF DropInv
<1> QED
  BY <1>1, <1>2, <1>3, Zenon DEF Next, ExpireDedupKey, ExpireZoneState, ApproveZone, vars

(***************************************************************************)
(* No call ends well without its report accounted for: HandlePosition      *)
(* returns success for a stored, published and notified report, or for one *)
(* whose every finding is on the quarantine topic, however many calls run  *)
(* and fail and whenever the process restarts.                             *)
(***************************************************************************)
THEOREM NothingIsDropped == Spec => []NoSilentDrop
<1>1. Init => DropInv
  BY CallRecords DEF Init, DropInv, NoSilentDrop, Owed
<1>2. IInv /\ DropInv /\ [Next]_vars => DropInv'
  BY DropOfNext, Zenon
<1>3. DropInv => NoSilentDrop
  BY Zenon DEF DropInv
<1> QED
  BY <1>1, <1>2, <1>3, Inductive, PTL DEF Spec

-----------------------------------------------------------------------------
(* Deduplication in front of the store. *)

INSTANCE FiniteSetTheorems

(* A key that some report sets: app reports are not deduplicated. *)
Keyed(k) == \E r \in Reports : PayloadKey(r) = k /\ Deduplicated(r)

(* The calls that were admitted under k and are about to insert. *)
Admitted(k) == {w \in Workers : call[w].pc = "insert" /\ PayloadKey(call[w].report) = k}

(* How many rows the window has let through: its openings, and one while the key is set. *)
Openings(k) == reopened[k] + (IF k \in window THEN 1 ELSE 0)

(* Rows stored and rows about to be stored are covered by the openings of the window. *)
WithinWindow(k) ==
  /\ IsFiniteSet(RowsOf(k)) /\ IsFiniteSet(Admitted(k))
  /\ Cardinality(RowsOf(k)) + Cardinality(Admitted(k)) <= Openings(k)

RowsInv == \A k \in PayloadKeys : Keyed(k) => WithinWindow(k)

-----------------------------------------------------------------------------
(* Keys and counts. *)

(* Reports of one key have one source, so all of them are deduplicated or none. *)
LEMMA KeyTellsSource ==
  ASSUME NEW r \in Reports, NEW s \in Reports, PayloadKey(r) = PayloadKey(s)
  PROVE  Deduplicated(r) <=> Deduplicated(s)
<1> DEFINE Row == [source : STRING, mmsi : {"ok", "bad", "none"}, vessel : STRING,
                   receiver : STRING, lat : Int, lon : Int, speed : Nat, course : Nat, at : Int,
                   unfit : SUBSET UnreadColumns]
<1>1. \A q \in Row : \A x, y : [q EXCEPT !.receiver = x, !.unfit = y].source = q.source
  BY Zenon
<1>2. r \in Row /\ s \in Row
  BY ReportsAssumption, Zenon
<1> HIDE DEF Row
<1>3. r.source = s.source
  <2>1. PayloadKey(r).source = r.source
    BY <1>1, <1>2, Zenon DEF PayloadKey
  <2>2. PayloadKey(s).source = s.source
    BY <1>1, <1>2, Zenon DEF PayloadKey
  <2> QED BY <2>1, <2>2, Zenon
<1> QED BY <1>3, Zenon DEF Deduplicated

(* What it means to be one of the rows of a key. *)
IsRow(p, f, k) == \E r \in Reports : PayloadKey(r) = k /\ \E i \in 1 .. f[r] : p = <<r, i>>

LEMMA InRows ==
  \A f, k, p : IsRow(p, f, k) <=> p \in UNION {{r} \X (1 .. f[r]) : r \in {q \in Reports : PayloadKey(q) = k}}
<1> TAKE f, k, p
<1>1. \A r : p \in {r} \X (1 .. f[r]) <=> \E i \in 1 .. f[r] : p = <<r, i>>
  OBVIOUS
<1> DEFINE Blocks == {{r} \X (1 .. f[r]) : r \in {q \in Reports : PayloadKey(q) = k}}
<1>2. \A r \in Reports : PayloadKey(r) = k => {r} \X (1 .. f[r]) \in Blocks
  BY Zenon
<1>3. \A b \in Blocks : \E r \in Reports : PayloadKey(r) = k /\ b = {r} \X (1 .. f[r])
  BY Zenon
<1> HIDE DEF Blocks
<1>4. p \in UNION Blocks <=> \E b \in Blocks : p \in b
  BY Zenon
<1>5. IsRow(p, f, k) => p \in UNION Blocks
  <2> HAVE IsRow(p, f, k)
  <2>1. PICK r \in Reports : PayloadKey(r) = k /\ \E i \in 1 .. f[r] : p = <<r, i>>
    BY Zenon DEF IsRow
  <2>2. p \in {r} \X (1 .. f[r])
    BY <1>1, <2>1, Zenon
  <2> QED BY <1>2, <1>4, <2>1, <2>2, Zenon
<1>6. p \in UNION Blocks => IsRow(p, f, k)
  <2> HAVE p \in UNION Blocks
  <2>1. PICK b \in Blocks : p \in b
    BY <1>4, Zenon
  <2>2. PICK r \in Reports : PayloadKey(r) = k /\ b = {r} \X (1 .. f[r])
    BY <1>3, Zenon
  <2>3. p \in {r} \X (1 .. f[r])
    BY <2>1, <2>2, Zenon
  <2>4. \E i \in 1 .. f[r] : p = <<r, i>>
    BY <1>1, <2>3, Zenon
  <2> QED BY <2>2, <2>4, Zenon DEF IsRow
<1> QED BY <1>5, <1>6, Zenon DEF Blocks

(* The insert of one row adds one to the rows of its key. *)
LEMMA RowAdded ==
  ASSUME TypeOK, NEW r \in Reports, rows' = [rows EXCEPT ![r] = @ + 1], NEW k
  PROVE  RowsOf(k)' = IF PayloadKey(r) = k THEN RowsOf(k) \cup {<<r, rows[r] + 1>>} ELSE RowsOf(k)
<1>1. /\ rows \in [Reports -> Nat]
      /\ \A q \in Reports : rows'[q] = IF q = r THEN rows[r] + 1 ELSE rows[q]
  BY Zenon DEF TypeOK
<1>2. \A i : i \in 1 .. rows[r] + 1 <=> i \in 1 .. rows[r] \/ i = rows[r] + 1
  BY <1>1
<1>3. \A p : (p \in RowsOf(k) <=> IsRow(p, rows, k)) /\ (p \in RowsOf(k)' <=> IsRow(p, rows', k))
  BY InRows, Zenon DEF RowsOf
<1>4. \A p : p \in RowsOf(k)' <=> p \in RowsOf(k) \/ (PayloadKey(r) = k /\ p = <<r, rows[r] + 1>>)
  <2> TAKE p
  <2>1. ASSUME p \in RowsOf(k)'
        PROVE  p \in RowsOf(k) \/ (PayloadKey(r) = k /\ p = <<r, rows[r] + 1>>)
    <3>1. PICK q \in Reports : PayloadKey(q) = k /\ \E i \in 1 .. rows'[q] : p = <<q, i>>
      BY <1>3, <2>1, Zenon DEF IsRow
    <3>2. PICK i \in 1 .. rows'[q] : p = <<q, i>>
      BY <3>1, Zenon
    <3>3. CASE q # r
      BY <1>1, <1>3, <3>1, <3>2, <3>3, Zenon DEF IsRow
    <3>4. CASE q = r
      <4>1. i \in 1 .. rows[r] \/ i = rows[r] + 1
        BY <1>1, <1>2, <3>2, <3>4, Zenon
      <4> QED BY <1>3, <3>1, <3>2, <3>4, <4>1, Zenon DEF IsRow
    <3> QED BY <3>3, <3>4, Zenon
  <2>2. ASSUME p \in RowsOf(k)
        PROVE  p \in RowsOf(k)'
    <3>1. PICK q \in Reports : PayloadKey(q) = k /\ \E i \in 1 .. rows[q] : p = <<q, i>>
      BY <1>3, <2>2, Zenon DEF IsRow
    <3>2. PICK i \in 1 .. rows[q] : p = <<q, i>>
      BY <3>1, Zenon
    <3>3. i \in 1 .. rows'[q]
      BY <1>1, <1>2, <3>2, Zenon
    <3> QED BY <1>3, <3>1, <3>2, <3>3, Zenon DEF IsRow
  <2>3. ASSUME PayloadKey(r) = k, p = <<r, rows[r] + 1>>
        PROVE  p \in RowsOf(k)'
    <3>1. rows[r] + 1 \in 1 .. rows'[r]
      BY <1>1
    <3> QED BY <1>3, <2>3, <3>1, Zenon DEF IsRow
  <2> QED BY <2>1, <2>2, <2>3, Zenon
<1> QED BY <1>4, Zenon

LEMMA AtMostOneMore ==
  ASSUME NEW S, NEW x, IsFiniteSet(S)
  PROVE  IsFiniteSet(S \cup {x}) /\ Cardinality(S \cup {x}) <= Cardinality(S) + 1
<1>1. Cardinality(S) \in Nat
  BY FS_CardinalityType, Zenon
<1>2. IsFiniteSet(S \cup {x})
  BY FS_AddElement, Zenon
<1>3. Cardinality(S \cup {x}) = Cardinality(S) \/ Cardinality(S \cup {x}) = Cardinality(S) + 1
  BY FS_AddElement, Zenon
<1> QED BY <1>1, <1>2, <1>3

(* How a key stays covered: nobody is admitted, one call is, or one stores its row. *)
LEMMA StaysCovered ==
  ASSUME NEW k, WithinWindow(k), RowsOf(k)' = RowsOf(k), Admitted(k)' \subseteq Admitted(k),
         Openings(k) \in Nat, Openings(k)' \in Nat, Openings(k)' >= Openings(k)
  PROVE  WithinWindow(k)'
<1> DEFINE R == RowsOf(k)
           A == Admitted(k)
           B == Admitted(k)'
<1>1. IsFiniteSet(R) /\ IsFiniteSet(A) /\ Cardinality(R) + Cardinality(A) <= Openings(k) /\ B \in SUBSET A
  BY Zenon DEF WithinWindow
<1> HIDE DEF R, A, B
<1>2. IsFiniteSet(B) /\ Cardinality(B) <= Cardinality(A)
  BY <1>1, FS_Subset, Zenon
<1>3. Cardinality(R) \in Nat /\ Cardinality(A) \in Nat /\ Cardinality(B) \in Nat
  BY <1>1, <1>2, FS_CardinalityType, Zenon
<1>4. Cardinality(R) + Cardinality(B) <= Openings(k)'
  BY <1>1, <1>2, <1>3
<1> QED BY <1>1, <1>2, <1>4, Zenon DEF WithinWindow, R, B

LEMMA AdmitsOne ==
  ASSUME NEW k, NEW w, WithinWindow(k), RowsOf(k)' = RowsOf(k), Admitted(k)' \subseteq Admitted(k) \cup {w},
         Openings(k) \in Nat, Openings(k)' \in Nat, Openings(k)' >= Openings(k) + 1
  PROVE  WithinWindow(k)'
<1> DEFINE R == RowsOf(k)
           A == Admitted(k)
           B == Admitted(k)'
<1>1. /\ IsFiniteSet(R) /\ IsFiniteSet(A) /\ Cardinality(R) + Cardinality(A) <= Openings(k)
      /\ B \in SUBSET (A \cup {w})
  BY Zenon DEF WithinWindow
<1> HIDE DEF R, A, B
<1>2. Cardinality(R) \in Nat /\ Cardinality(A) \in Nat
  BY <1>1, FS_CardinalityType, Zenon
<1>3. IsFiniteSet(A \cup {w}) /\ Cardinality(A \cup {w}) <= Cardinality(A) + 1
  BY <1>1, AtMostOneMore, Zenon
<1>4. IsFiniteSet(B) /\ Cardinality(B) <= Cardinality(A \cup {w})
  BY <1>1, <1>3, FS_Subset, Zenon
<1>5. Cardinality(A \cup {w}) \in Nat /\ Cardinality(B) \in Nat
  BY <1>3, <1>4, FS_CardinalityType, Zenon
<1>6. Cardinality(R) + Cardinality(B) <= Openings(k)'
  BY <1>1, <1>2, <1>3, <1>4, <1>5
<1> QED BY <1>1, <1>4, <1>6, Zenon DEF WithinWindow, R, B

LEMMA StoresOne ==
  ASSUME NEW k, NEW w \in Admitted(k), NEW x, WithinWindow(k), RowsOf(k)' = RowsOf(k) \cup {x},
         Admitted(k)' \subseteq Admitted(k) \ {w}, Openings(k)' = Openings(k), Openings(k) \in Nat
  PROVE  WithinWindow(k)'
<1> DEFINE R == RowsOf(k)
           A == Admitted(k)
           B == Admitted(k)'
<1>1. /\ IsFiniteSet(R) /\ IsFiniteSet(A) /\ Cardinality(R) + Cardinality(A) <= Openings(k)
      /\ w \in A /\ B \in SUBSET (A \ {w})
  BY Zenon DEF WithinWindow
<1> HIDE DEF R, A, B
<1>2. Cardinality(R) \in Nat /\ Cardinality(A) \in Nat
  BY <1>1, FS_CardinalityType, Zenon
<1>3. IsFiniteSet(A \ {w}) /\ Cardinality(A \ {w}) = Cardinality(A) - 1
  BY <1>1, FS_RemoveElement, Zenon
<1>4. IsFiniteSet(B) /\ Cardinality(B) <= Cardinality(A \ {w})
  BY <1>1, <1>3, FS_Subset, Zenon
<1>5. Cardinality(B) \in Nat
  BY <1>4, FS_CardinalityType, Zenon
<1>6. IsFiniteSet(R \cup {x}) /\ Cardinality(R \cup {x}) <= Cardinality(R) + 1
  BY <1>1, AtMostOneMore, Zenon
<1>7. Cardinality(R \cup {x}) \in Nat
  BY <1>6, FS_CardinalityType, Zenon
<1>8. Cardinality(R \cup {x}) + Cardinality(B) <= Openings(k)'
  BY <1>1, <1>2, <1>3, <1>4, <1>5, <1>6, <1>7
<1> QED BY <1>4, <1>6, <1>8, Zenon DEF WithinWindow, R, B

-----------------------------------------------------------------------------
(* Steps. *)

LEMMA OpeningsNat ==
  ASSUME TypeOK, NEW k \in PayloadKeys
  PROVE  Openings(k) \in Nat /\ reopened[k] \in Nat
<1>1. reopened[k] \in Nat
  BY Zenon DEF TypeOK
<1> QED BY <1>1 DEF Openings

LEMMA KeysKept ==
  ASSUME TypeOK, TypeOK', RowsInv, UNCHANGED rows,
         \A k \in PayloadKeys : Keyed(k) => Admitted(k)' \subseteq Admitted(k),
         \A k \in PayloadKeys : Openings(k)' >= Openings(k)
  PROVE  RowsInv'
<1> SUFFICES ASSUME NEW k \in PayloadKeys, Keyed(k) PROVE WithinWindow(k)'
  BY Zenon DEF RowsInv, Keyed
<1>1. WithinWindow(k)
  BY Zenon DEF RowsInv
<1>2. RowsOf(k)' = RowsOf(k)
  BY Zenon DEF RowsOf
<1>3. Openings(k) \in Nat /\ Openings(k)' \in Nat
  <2>1. reopened[k] \in Nat /\ reopened'[k] \in Nat
    BY Zenon DEF TypeOK
  <2> QED BY <2>1 DEF Openings
<1> QED BY <1>1, <1>2, <1>3, StaysCovered, Zenon

(* A step of w admits nobody unless w comes to the insert with a deduplicated report. *)
LEMMA NobodyAdmitted ==
  ASSUME NEW w \in Workers, Others(w),
         call'[w].pc = "insert" => call'[w].report \in Reports /\ ~Deduplicated(call'[w].report),
         NEW k \in PayloadKeys, Keyed(k)
  PROVE  Admitted(k)' \subseteq Admitted(k)
<1>1. \A u \in Workers : u # w => call'[u] = call[u]
  BY Zenon DEF Others
<1>2. w \notin Admitted(k)'
  <2> SUFFICES ASSUME call'[w].pc = "insert", PayloadKey(call'[w].report) = k PROVE FALSE
    BY Zenon DEF Admitted
  <2>1. PICK r \in Reports : PayloadKey(r) = k /\ Deduplicated(r)
    BY Zenon DEF Keyed
  <2> QED BY <2>1, KeyTellsSource, Zenon
<1> QED BY <1>1, <1>2, Zenon DEF Admitted

(* The steps that leave the rows and the window alone. *)
LEMMA AsideStep ==
  ASSUME TypeOK, TypeOK', RowsInv, NEW w \in Workers, Others(w), UNCHANGED <<rows, window, reopened>>,
         call'[w].pc = "insert" => call'[w].report \in Reports /\ ~Deduplicated(call'[w].report)
  PROVE  RowsInv'
<1>1. \A k \in PayloadKeys : Openings(k)' >= Openings(k)
  <2> TAKE k \in PayloadKeys
  <2>1. Openings(k)' = Openings(k)
    BY Zenon DEF Openings
  <2>2. Openings(k) \in Nat
    BY OpeningsNat, Zenon
  <2> QED BY <2>1, <2>2
<1> QED BY <1>1, NobodyAdmitted, KeysKept, Zenon

LEMMA ReceiveAdmits ==
  ASSUME TypeOK, NEW w \in Workers, NEW r \in Reports, Receive(w, r)
  PROVE  call'[w].pc = "insert" => call'[w].report \in Reports /\ ~Deduplicated(call'[w].report)
<1>1. call \in [Workers -> Calls]
  BY Zenon DEF TypeOK
<1>2. CASE StaticChecks(r) # <<>>
  <2>1. call'[w] = [Idle EXCEPT !.pc = "quarantine", !.report = r, !.findings = StaticChecks(r)]
    BY <1>1, <1>2, Zenon DEF Receive
  <2> QED BY <2>1, Zenon DEF Idle
<1>3. CASE StaticChecks(r) = <<>> /\ fixes[vesselKey(r)] # None /\ Bifurcates(fixes[vesselKey(r)], r)
  <2>1. call'[w] = [Idle EXCEPT !.pc = "quarantine", !.report = r,
                                !.findings = <<"same-mmsi-bifurcation">>, !.baseline = fixes[vesselKey(r)]]
    BY <1>1, <1>3, Zenon DEF Receive, CheckConsecutive
  <2> QED BY <2>1, Zenon DEF Idle
<1>4. CASE StaticChecks(r) = <<>> /\ ~(fixes[vesselKey(r)] # None /\ Bifurcates(fixes[vesselKey(r)], r))
  <2> DEFINE pc == IF Deduplicated(r) THEN "dedup" ELSE "insert"
  <2>1. call'[w] = [Idle EXCEPT !.pc = pc, !.report = r]
    BY <1>1, <1>4, Zenon DEF Receive, CheckConsecutive
  <2> HIDE DEF pc
  <2>2. call'[w].pc = pc /\ call'[w].report = r
    BY <2>1, Zenon DEF Idle
  <2>3. pc = "insert" => ~Deduplicated(r)
    BY Zenon DEF pc
  <2> QED BY <2>2, <2>3, Zenon
<1> QED BY <1>2, <1>3, <1>4, Zenon

(* A running call that moves on to another step, or returns, is not at the insert. *)
LEMMA LeavesInsert ==
  ASSUME TypeOK, NEW w \in Workers, call[w].pc # "idle",
         NEW pc \in Pcs \ {"quarantine", "announce", "insert"},
         \/ Goto(w, pc) \/ Fail(w)
         \/ \E outcome \in {"done", "absorbed", "quarantined", "refused"} : Return(w, outcome)
  PROVE  call'[w].pc # "insert"
<1>1. CASE Goto(w, pc)
  <2>1. pc \in Pcs \ {"quarantine", "announce"} /\ pc # "insert"
    BY Zenon
  <2> QED BY <1>1, <2>1, ControlSteps, Zenon
<1>2. ASSUME NEW outcome \in {"done", "absorbed", "quarantined", "refused", "error"}, Return(w, outcome)
      PROVE  call'[w].pc # "insert"
  <2>1. call'[w] = Idle
    BY <1>2, ControlSteps, Zenon
  <2>2. Idle.pc # "insert"
    BY Zenon DEF Idle
  <2> QED BY <2>1, <2>2, Zenon
<1>3. CASE Fail(w)
  BY <1>2, <1>3, Zenon DEF Fail
<1> QED BY <1>1, <1>2, <1>3, Zenon

(* SETNX finds the key new, or fails and opens the window once more: one call is admitted. *)
LEMMA DedupRows ==
  ASSUME TypeOK, TypeOK', RowsInv, NEW w \in Workers, Others(w), Dedup(w)
  PROVE  RowsInv'
<1> DEFINE r == call[w].report
<1>1. call[w].pc = "dedup" /\ r \in Reports /\ PayloadKey(r) \in PayloadKeys /\ UNCHANGED rows
  <2>1. call[w] \in Calls /\ call[w].pc = "dedup" /\ UNCHANGED rows
    BY Zenon DEF Dedup, At, TypeOK
  <2>2. r \in Reports
    BY <2>1, Zenon DEF Calls
  <2> QED BY <2>1, <2>2, Zenon DEF PayloadKeys
<1>2. PICK key \in PayloadKeys : key = PayloadKey(r)
  BY <1>1, Zenon
<1>3. CASE key \in window /\ Return(w, "absorbed") /\ UNCHANGED <<window, reopened>>
  <2>1. call'[w].pc # "insert"
    BY <1>1, <1>3, LeavesInsert, Zenon DEF Pcs
  <2> QED BY <1>1, <1>3, <2>1, AsideStep, Zenon
<1>4. ASSUME Goto(w, "insert"), \A k \in PayloadKeys \ {key} : Openings(k)' = Openings(k),
             Openings(key)' >= Openings(key) + 1
      PROVE  RowsInv'
  <2>1. call'[w].report = r /\ call'[w].pc = "insert"
    BY <1>1, <1>4, ControlSteps, Zenon DEF Pcs
  <2> SUFFICES ASSUME NEW k \in PayloadKeys, Keyed(k) PROVE WithinWindow(k)'
    BY Zenon DEF RowsInv, Keyed
  <2>2. WithinWindow(k) /\ RowsOf(k)' = RowsOf(k)
    BY <1>1, Zenon DEF RowsInv, RowsOf
  <2>3. \A u \in Workers : u # w => call'[u] = call[u]
    BY Zenon DEF Others
  <2>4. reopened[k] \in Nat /\ reopened'[k] \in Nat
    BY Zenon DEF TypeOK
  <2>5. Openings(k) \in Nat /\ Openings(k)' \in Nat
    BY <2>4 DEF Openings
  <2>6. CASE k = key
    <3>1. Admitted(k)' \subseteq Admitted(k) \cup {w}
      BY <2>3, Zenon DEF Admitted
    <3> QED BY <1>4, <2>2, <2>5, <2>6, <3>1, AdmitsOne, Zenon
  <2>7. CASE k # key
    <3>1. Admitted(k)' \subseteq Admitted(k)
      BY <1>2, <2>1, <2>3, <2>7, Zenon DEF Admitted
    <3>2. Openings(k)' >= Openings(k)
      BY <1>4, <2>5, <2>7
    <3> QED BY <2>2, <2>5, <3>1, <3>2, StaysCovered, Zenon
  <2> QED BY <2>6, <2>7, Zenon
<1>5. CASE key \notin window /\ window' = window \cup {key} /\ Goto(w, "insert") /\ UNCHANGED reopened
  <2>1. \A k \in PayloadKeys \ {key} : Openings(k)' = Openings(k)
    <3> TAKE k \in PayloadKeys \ {key}
    <3>1. k \in window' <=> k \in window
      BY <1>5, Zenon
    <3> QED BY <1>5, <3>1, Zenon DEF Openings
  <2>2. Openings(key)' = Openings(key) + 1
    <3>1. key \in window' /\ key \notin window /\ reopened'[key] = reopened[key]
      BY <1>5, Zenon
    <3>2. reopened[key] \in Nat
      BY <1>1, OpeningsNat, Zenon
    <3> QED BY <3>1, <3>2 DEF Openings
  <2>3. Openings(key) \in Nat
    BY <1>1, OpeningsNat, Zenon
  <2> QED BY <1>4, <1>5, <2>1, <2>2, <2>3
<1>6. CASE /\ \E landed \in SUBSET {key} : window' = window \cup landed
           /\ reopened' = [reopened EXCEPT ![key] = @ + 1] /\ Goto(w, "insert")
  <2>1. \A k \in PayloadKeys \ {key} : Openings(k)' = Openings(k)
    <3> TAKE k \in PayloadKeys \ {key}
    <3>1. k \in window' <=> k \in window
      BY <1>6, Zenon
    <3>2. reopened'[k] = reopened[k]
      BY <1>6, Zenon DEF TypeOK
    <3> QED BY <3>1, <3>2, Zenon DEF Openings
  <2>2. Openings(key)' >= Openings(key) + 1
    <3>1. key \in window => key \in window'
      BY <1>6, Zenon
    <3>2. reopened'[key] = reopened[key] + 1
      BY <1>1, <1>6 DEF TypeOK
    <3>3. reopened[key] \in Nat
      BY <1>1, OpeningsNat, Zenon
    <3> QED BY <3>1, <3>2, <3>3 DEF Openings
  <2> QED BY <1>4, <1>6, <2>1, <2>2, Zenon
<1> QED BY <1>3, <1>5, <1>6, <1>2, Zenon DEF Dedup, Succeed

(* The insert turns an admitted call into a row, or loses it. *)
LEMMA InsertRows ==
  ASSUME TypeOK, TypeOK', RowsInv, NEW w \in Workers, Others(w), InsertPositions(w)
  PROVE  RowsInv'
<1> DEFINE r == call[w].report
<1>1. call[w].pc = "insert" /\ r \in Reports /\ UNCHANGED <<window, reopened>>
  <2>1. call[w] \in Calls /\ call[w].pc = "insert" /\ UNCHANGED <<window, reopened>>
    BY Zenon DEF InsertPositions, At, TypeOK
  <2> QED BY <2>1, Zenon DEF Calls
<1>2. call'[w].pc # "insert"
  <2>1. Goto(w, "latest") \/ Fail(w) \/ Return(w, "refused")
    BY Zenon DEF InsertPositions, Succeed
  <2>2. "latest" \in Pcs \ {"quarantine", "announce", "insert"} /\ call[w].pc # "idle"
    BY <1>1, Zenon DEF Pcs
  <2> QED BY <2>1, <2>2, LeavesInsert, Zenon
<1>3. CASE UNCHANGED rows
  BY <1>1, <1>2, <1>3, AsideStep, Zenon
<1>4. CASE rows' = [rows EXCEPT ![r] = @ + 1]
  <2> SUFFICES ASSUME NEW k \in PayloadKeys, Keyed(k) PROVE WithinWindow(k)'
    BY Zenon DEF RowsInv, Keyed
  <2>1. WithinWindow(k) /\ Openings(k) \in Nat
    BY OpeningsNat, Zenon DEF RowsInv
  <2>2. Openings(k)' = Openings(k)
    BY <1>1, Zenon DEF Openings
  <2>3. \A u \in Workers : u # w => call'[u] = call[u]
    BY Zenon DEF Others
  <2>4. Admitted(k)' \subseteq Admitted(k) \ {w}
    BY <1>2, <2>3, Zenon DEF Admitted
  <2>5. CASE PayloadKey(r) = k
    <3>1. w \in Admitted(k)
      BY <1>1, <2>5, Zenon DEF Admitted
    <3>2. RowsOf(k)' = RowsOf(k) \cup {<<r, rows[r] + 1>>}
      BY <1>1, <1>4, <2>5, RowAdded, Zenon
    <3> HIDE DEF r
    <3> QED BY <2>1, <2>2, <2>4, <3>1, <3>2, StoresOne, Zenon
  <2>6. CASE PayloadKey(r) # k
    <3>1. RowsOf(k)' = RowsOf(k)
      BY <1>1, <1>4, <2>6, RowAdded, Zenon
    <3>2. Openings(k)' >= Openings(k) /\ Openings(k)' \in Nat
      BY <2>1, <2>2
    <3>3. Admitted(k)' \subseteq Admitted(k)
      BY <2>4, Zenon
    <3> QED BY <2>1, <3>1, <3>2, <3>3, StaysCovered, Zenon
  <2> QED BY <2>5, <2>6, Zenon
<1> QED BY <1>3, <1>4, Zenon DEF InsertPositions

LEMMA RowsOfStep ==
  ASSUME TypeOK, TypeOK', RowsInv, NEW w \in Workers, Step(w)
  PROVE  RowsInv'
<1>1. Others(w) /\ call \in [Workers -> Calls]
  BY TypeOfStep, Zenon DEF TypeOK
<1>2. ASSUME NEW r \in Reports, Receive(w, r) PROVE RowsInv'
  <2>1. UNCHANGED <<rows, window, reopened>>
    BY <1>2, Zenon DEF Receive
  <2> QED BY <1>1, <1>2, <2>1, ReceiveAdmits, AsideStep, Zenon
<1>3. ASSUME UNCHANGED <<rows, window, reopened>>, call'[w].pc # "insert" PROVE RowsInv'
  BY <1>1, <1>3, AsideStep, Zenon
<1>4. CASE Quarantine(w)
  <2>1. call[w].pc = "quarantine" /\ UNCHANGED <<rows, window, reopened>>
    BY <1>4, Zenon DEF Quarantine, At
  <2>2. CASE call' = [call EXCEPT ![w].findings = Tail(@)]
    <3>1. call'[w].pc # "insert"
      BY <1>1, <2>1, <2>2 DEF Calls
    <3> QED BY <1>3, <2>1, <3>1, Zenon
  <2>3. CASE Return(w, "quarantined") \/ Fail(w)
    <3>1. call'[w].pc # "insert"
      BY <2>1, <2>3, LeavesInsert DEF Pcs
    <3> QED BY <1>3, <2>1, <3>1, Zenon
  <2> QED BY <1>4, <2>2, <2>3, Zenon DEF Quarantine
<1>5. CASE UpsertLatestPosition(w)
  <2>1. UNCHANGED <<rows, window, reopened>> /\ call[w].pc = "latest" /\ (Goto(w, "zones") \/ Fail(w))
    BY <1>5, Zenon DEF UpsertLatestPosition, At, Succeed
  <2>2. call'[w].pc # "insert"
    BY <2>1, LeavesInsert, Zenon DEF Pcs
  <2> QED BY <1>3, <2>1, <2>2, Zenon
<1>6. CASE ReadMembership(w)
  <2>1. UNCHANGED <<rows, window, reopened>> /\ call[w].pc = "zones"
    BY <1>6, Zenon DEF ReadMembership, At
  <2>2. CASE Fail(w)
    <3>1. call'[w].pc # "insert"
      BY <2>1, <2>2, LeavesInsert DEF Pcs
    <3> QED BY <1>3, <2>1, <3>1, Zenon
  <2>3. CASE ~Fail(w)
    <3>1. call' = [call EXCEPT ![w].pc = "replace",
                               ![w].current = Inside[call[w].report] \cap Approved,
                               ![w].previous = zonestate[call[w].report.vessel]]
      BY <1>6, <2>3, Zenon DEF ReadMembership
    <3>2. call'[w].pc # "insert"
      BY <1>1, <3>1 DEF Calls
    <3> QED BY <1>3, <2>1, <3>2, Zenon
  <2> QED BY <2>2, <2>3, Zenon
<1>7. CASE ReplaceMembership(w)
  <2>1. UNCHANGED <<rows, window, reopened>> /\ call[w].pc = "replace" /\ (Goto(w, "commit") \/ Fail(w))
    BY <1>7, Zenon DEF ReplaceMembership, At, Succeed
  <2>2. call'[w].pc # "insert"
    BY <2>1, LeavesInsert, Zenon DEF Pcs
  <2> QED BY <1>3, <2>1, <2>2, Zenon
<1>8. CASE CommitCrossings(w)
  <2>1. UNCHANGED <<rows, window, reopened>> /\ call[w].pc = "commit"
    BY <1>8, Zenon DEF CommitCrossings, At
  <2>2. CASE Fail(w)
    <3>1. call'[w].pc # "insert"
      BY <2>1, <2>2, LeavesInsert, Zenon DEF Pcs
    <3> QED BY <1>3, <2>1, <3>1, Zenon
  <2>3. CASE ~Fail(w)
    <3> DEFINE events == GeofenceEvents(w)
               next == IF events = <<>> THEN AfterGeofences(call[w].report) ELSE "announce"
    <3>1. call' = [call EXCEPT ![w].pc = next, ![w].events = events]
      BY <1>8, <2>3, Zenon DEF CommitCrossings
    <3>2. next # "insert"
      BY Zenon DEF AfterGeofences
    <3> HIDE DEF events, next
    <3>3. call'[w].pc # "insert"
      BY <1>1, <3>1, <3>2 DEF Calls
    <3> QED BY <1>3, <2>1, <3>3, Zenon
  <2> QED BY <2>2, <2>3, Zenon
<1>9. CASE AnnounceCrossing(w)
  <2>1. UNCHANGED <<rows, window, reopened>> /\ call[w].pc = "announce"
    BY <1>9, Zenon DEF AnnounceCrossing, At
  <2>2. CASE Fail(w)
    <3>1. call'[w].pc # "insert"
      BY <2>1, <2>2, LeavesInsert DEF Pcs
    <3> QED BY <1>3, <2>1, <3>1, Zenon
  <2>3. CASE ~Fail(w)
    <3> DEFINE next == IF Len(call[w].events) = 1 THEN AfterGeofences(call[w].report) ELSE "announce"
    <3>1. call' = [call EXCEPT ![w].events = Tail(@), ![w].pc = next]
      BY <1>9, <2>3, Zenon DEF AnnounceCrossing
    <3>2. next # "insert"
      BY Zenon DEF AfterGeofences
    <3> HIDE DEF next
    <3>3. call'[w].pc # "insert"
      BY <1>1, <3>1, <3>2, Zenon DEF Calls
    <3> QED BY <1>3, <2>1, <3>3, Zenon
  <2> QED BY <2>2, <2>3, Zenon
<1>10. CASE MirrorRaw(w)
  <2>1. UNCHANGED <<rows, window, reopened>> /\ call[w].pc = "raw" /\ (Goto(w, "publish") \/ Fail(w))
    BY <1>10, Zenon DEF MirrorRaw, At, Succeed
  <2>2. call'[w].pc # "insert"
    BY <2>1, LeavesInsert, Zenon DEF Pcs
  <2> QED BY <1>3, <2>1, <2>2, Zenon
<1>11. CASE PublishPosition(w)
  <2>1. UNCHANGED <<rows, window, reopened>> /\ call[w].pc = "publish" /\ (Goto(w, "fence") \/ Fail(w))
    BY <1>11, Zenon DEF PublishPosition, At, Succeed
  <2>2. call'[w].pc # "insert"
    BY <2>1, LeavesInsert, Zenon DEF Pcs
  <2> QED BY <1>3, <2>1, <2>2, Zenon
<1>12. CASE ObserveAndBroadcast(w)
  <2>1. UNCHANGED <<rows, window, reopened>> /\ call[w].pc = "fence" /\ (Return(w, "done") \/ Fail(w))
    BY <1>12, Zenon DEF ObserveAndBroadcast, At
  <2>2. call'[w].pc # "insert"
    BY <2>1, LeavesInsert, Zenon DEF Pcs
  <2> QED BY <1>3, <2>1, <2>2, Zenon
<1>13. CASE Dedup(w)
  BY <1>1, <1>13, DedupRows, Zenon
<1>14. CASE InsertPositions(w)
  BY <1>1, <1>14, InsertRows, Zenon
<1> QED
  BY <1>2, <1>4, <1>5, <1>6, <1>7, <1>8, <1>9, <1>10, <1>11, <1>12, <1>13, <1>14 DEF Step

LEMMA RowsOfNext ==
  ASSUME TypeOK, RowsInv, [Next]_vars
  PROVE  RowsInv'
<1>1. TypeOK'
  BY TypeOfNext, Zenon
<1>2. ASSUME NEW w \in Workers, Step(w) PROVE RowsInv'
  BY <1>1, <1>2, RowsOfStep, Zenon
<1>3. ASSUME UNCHANGED <<rows, window, reopened>>,
             \A k \in PayloadKeys : Admitted(k)' \subseteq Admitted(k)
      PROVE  RowsInv'
  <2>1. \A k \in PayloadKeys : Openings(k)' >= Openings(k)
    <3> TAKE k \in PayloadKeys
    <3>1. Openings(k)' = Openings(k) /\ Openings(k) \in Nat
      BY <1>3, OpeningsNat, Zenon DEF Openings
    <3> QED BY <3>1
  <2> QED BY <1>1, <1>3, <2>1, KeysKept, Zenon
<1>4. ASSUME NEW k \in PayloadKeys, ExpireDedupKey(k) PROVE RowsInv'
  <2>1. /\ k \in window /\ window' = window \ {k} /\ reopened' = [reopened EXCEPT ![k] = @ + 1]
        /\ call' = call /\ rows' = rows
    BY <1>4, Zenon DEF ExpireDedupKey
  <2>2. ASSUME NEW j \in PayloadKeys PROVE Openings(j)' >= Openings(j)
    <3>1. reopened[j] \in Nat /\ reopened'[j] = IF j = k THEN reopened[j] + 1 ELSE reopened[j]
      BY <2>1, Zenon DEF TypeOK
    <3>2. j # k => (j \in window' <=> j \in window)
      BY <2>1, Zenon
    <3> QED BY <2>1, <3>1, <3>2 DEF Openings
  <2>3. \A j \in PayloadKeys : Admitted(j)' \subseteq Admitted(j)
    BY <2>1, Zenon DEF Admitted
  <2> QED BY <1>1, <2>1, <2>2, <2>3, KeysKept, Zenon
<1>5. ASSUME NEW v \in Vessels, ExpireZoneState(v) PROVE RowsInv'
  BY <1>3, <1>5, Zenon DEF ExpireZoneState, Admitted
<1>6. ASSUME NEW z \in Zones, NEW p \in Principals, ApproveZone(z, p) PROVE RowsInv'
  BY <1>3, <1>6, Zenon DEF ApproveZone, Admitted
<1>7. CASE Restart
  <2>1. UNCHANGED <<rows, window, reopened>> /\ \A w \in Workers : call'[w] = Idle
    BY <1>7, Zenon DEF Restart
  <2>2. Idle.pc # "insert"
    BY Zenon DEF Idle
  <2> QED BY <1>3, <2>1, <2>2, Zenon DEF Admitted
<1>8. CASE UNCHANGED vars
  BY <1>3, <1>8, Zenon DEF vars, Admitted
<1> QED BY <1>2, <1>4, <1>5, <1>6, <1>7, <1>8, Zenon DEF Next

(***************************************************************************)
(* However many receivers hear one frame and however the goroutines of     *)
(* HandlePosition interleave, fail and restart, the rows of a payload key  *)
(* number at most one more than the times its dedup key expired or Redis   *)
(* did not answer.                                                         *)
(***************************************************************************)
THEOREM StoredOncePerWindow == Spec => []OneRowPerWindow
<1>1. Init => RowsInv
  <2> SUFFICES ASSUME Init, NEW k \in PayloadKeys PROVE WithinWindow(k)
    BY Zenon DEF RowsInv
  <2>1. RowsOf(k) = {}
    <3>1. \A r \in Reports : 1 .. rows[r] = {}
      BY DEF Init
    <3>2. \A p : ~IsRow(p, rows, k)
      BY <3>1, Zenon DEF IsRow
    <3> QED BY <3>2, InRows, Zenon DEF RowsOf
  <2>2. Admitted(k) = {}
    <3>1. \A w \in Workers : call[w].pc # "insert"
      BY Zenon DEF Init, Idle
    <3> QED BY <3>1, Zenon DEF Admitted
  <2>3. Openings(k) = 0
    BY DEF Init, Openings
  <2> QED BY <2>1, <2>2, <2>3, FS_EmptySet DEF WithinWindow
<1>2. TypeOK /\ RowsInv => OneRowPerWindow
  <2> SUFFICES ASSUME TypeOK, RowsInv, NEW k \in PayloadKeys, Keyed(k)
               PROVE  Cardinality(RowsOf(k)) <= 1 + reopened[k]
    BY Zenon DEF OneRowPerWindow, Keyed
  <2>1. /\ IsFiniteSet(RowsOf(k)) /\ IsFiniteSet(Admitted(k))
        /\ Cardinality(RowsOf(k)) + Cardinality(Admitted(k)) <= Openings(k)
    BY Zenon DEF RowsInv, WithinWindow
  <2>2. Cardinality(RowsOf(k)) \in Nat /\ Cardinality(Admitted(k)) \in Nat
    BY <2>1, FS_CardinalityType, Zenon
  <2>3. reopened[k] \in Nat /\ Openings(k) \in Nat
    BY OpeningsNat, Zenon
  <2>4. Openings(k) <= 1 + reopened[k]
    BY <2>3 DEF Openings
  <2> QED BY <2>1, <2>2, <2>3, <2>4
<1> QED BY <1>1, <1>2, TypeCorrect, RowsOfNext, PTL DEF Spec
=============================================================================
