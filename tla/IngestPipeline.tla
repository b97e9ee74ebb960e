--------------------------- MODULE IngestPipeline ---------------------------
(***************************************************************************)
(* The hot path of internal/connectors/pipeline.go: HandlePosition, run    *)
(* concurrently by the connectors' goroutines (the workers) against four   *)
(* external systems, PostgreSQL, Redis, Kafka and the SSE hub.  One action *)
(* is one external call with the local work in front of it.                *)
(*                                                                         *)
(* Any external call may fail.  A failed call may still have taken effect  *)
(* (the answer was lost), which is what the timeouts of the clients allow. *)
(* The process may crash between any two calls; the tracker is in memory,  *)
(* everything else survives.                                               *)
(***************************************************************************)
EXTENDS Validate, FiniteSets

CONSTANTS
  Workers,         \* goroutines that call HandlePosition
  Reports,         \* the reports the sources deliver (records, see Validate)
  Zones,           \* governed geofence zones
  Sorted,          \* Sorted[S]: the transitions S in the order of their zone and direction
  Inside,          \* Inside[r]: the zones whose polygon contains r's point
  Principals,      \* principals who may approve zones
  Maker,           \* Maker[z]: the principal who drafted zone z
  None,            \* no report, no fix
  MaxCalls,        \* bound: HandlePosition calls per report
  MaxFaults,       \* bound: failing external calls
  MaxCrashes,      \* bound: process restarts
  Expiring         \* which Redis keys may expire: a subset of {"dedup", "zone"}

ASSUME BoundsAssumption ==
  /\ MaxCalls \in Nat /\ MaxFaults \in Nat /\ MaxCrashes \in Nat
  /\ Expiring \subseteq {"dedup", "zone"}
  /\ Inside \in [Reports -> SUBSET Zones]
  /\ Maker \in [Zones -> Principals]

ASSUME ReportsAssumption ==
  /\ Reports \subseteq [source : STRING, mmsi : {"ok", "bad", "none"}, vessel : STRING,
                        receiver : STRING, lat : Int, lon : Int, speed : Nat, course : Nat,
                        at : Int, unfit : SUBSET UnreadColumns]
  /\ None \notin Reports

Transitions == Zones \X {"ENTER", "EXIT"}

(* Sorting transitions loses none and repeats none. *)
ASSUME SortedAssumption ==
  /\ Sorted \in [SUBSET Transitions -> Seq(Transitions)]
  /\ \A S \in SUBSET Transitions :
       /\ {Sorted[S][i] : i \in DOMAIN Sorted[S]} = S
       /\ Len(Sorted[S]) = Cardinality(S)

VARIABLES
  call,        \* call[w]: the activation record of worker w's HandlePosition
  fixes,       \* validate.Tracker: the fix last recorded under each key
  window,      \* Redis: the dedup keys that are set
  rows,        \* ais_positions: rows[r] rows carry report r
  latest,      \* latest_positions: the report in each vessel's hot row
  zonestate,   \* Redis: recorded zone membership of each vessel
  approvals,   \* geofence_zone_approvals: <<zone, checker>>
  crossings,   \* geofence_events, in commit order
  announced,   \* geofence events on the vessels.events topic
  published,   \* reports on the vessels.events topic
  quarantined, \* vessels.quarantine: <<report, reason, baseline fix>>
  notified,    \* reports handed to the SSE hub
  returned,    \* history: what the completed calls for each report returned
  reopened,    \* history: how often each dedup key expired or Redis failed
  calls, faults, crashes

vars == <<call, fixes, window, rows, latest, zonestate, approvals, crossings, announced,
          published, quarantined, notified, returned, reopened, calls, faults, crashes>>

Vessels == {r.vessel : r \in Reports}
TrackerKeys == {vesselKey(r) : r \in Reports}

(* PayloadHash: identity, message type, position, motion and time; nothing else. *)
PayloadKey(r) == [r EXCEPT !.receiver = "", !.unfit = @ \cap {"ais_message_type"}]
PayloadKeys == {PayloadKey(r) : r \in Reports}

(* Only the app-report connector hands over no payload key. *)
Deduplicated(r) == r.source # "APP_REPORT"

Idle == [pc |-> "idle", report |-> None, findings |-> <<>>, baseline |-> None,
         current |-> {}, previous |-> {}, events |-> <<>>]

Init ==
  /\ call = [w \in Workers |-> Idle]
  /\ fixes = [k \in TrackerKeys |-> None]
  /\ window = {}
  /\ rows = [r \in Reports |-> 0]
  /\ latest = [v \in Vessels |-> None]
  /\ zonestate = [v \in Vessels |-> {}]
  /\ approvals = {}
  /\ crossings = <<>>
  /\ announced = {}
  /\ published = {}
  /\ quarantined = {}
  /\ notified = {}
  /\ returned = [r \in Reports |-> {}]
  /\ reopened = [k \in PayloadKeys |-> 0]
  /\ calls = [r \in Reports |-> 0]
  /\ faults = 0 /\ crashes = 0

-----------------------------------------------------------------------------
(* Control flow of one call. *)

At(w, pc) == call[w].pc = pc

Goto(w, pc) == call' = [call EXCEPT ![w].pc = pc]

(* HandlePosition returns; the activation record is gone. *)
Return(w, outcome) ==
  /\ call' = [call EXCEPT ![w] = Idle]
  /\ returned' = [returned EXCEPT ![call[w].report] = @ \cup {outcome}]

(* An external call fails and HandlePosition returns the error. *)
Fail(w) == faults < MaxFaults /\ faults' = faults + 1 /\ Return(w, "error")

Succeed(w, pc) == Goto(w, pc) /\ UNCHANGED <<faults, returned>>

-----------------------------------------------------------------------------
(* HandlePosition, step by step. *)

(***************************************************************************)
(* A connector delivers r.  The stateless checks are local, and the        *)
(* tracker is one critical section, so they are one step.  The fix is      *)
(* recorded before the verdict, and only for statically clean reports.     *)
(***************************************************************************)
CheckConsecutive(w, r) ==
  LET previous == fixes[vesselKey(r)]
      suspect == previous # None /\ Bifurcates(previous, r)
  IN  /\ fixes' = [fixes EXCEPT ![vesselKey(r)] = r]
      /\ call' = [call EXCEPT ![w] =
           IF suspect
           THEN [Idle EXCEPT !.pc = "quarantine", !.report = r,
                             !.findings = <<"same-mmsi-bifurcation">>, !.baseline = previous]
           ELSE [Idle EXCEPT !.pc = IF Deduplicated(r) THEN "dedup" ELSE "insert", !.report = r]]

Receive(w, r) ==
  /\ At(w, "idle")
  /\ calls[r] < MaxCalls
  /\ calls' = [calls EXCEPT ![r] = @ + 1]
  /\ IF StaticChecks(r) = <<>>
     THEN CheckConsecutive(w, r)
     ELSE /\ call' = [call EXCEPT ![w] = [Idle EXCEPT !.pc = "quarantine", !.report = r,
                                                      !.findings = StaticChecks(r)]]
          /\ UNCHANGED fixes
  /\ UNCHANGED <<window, rows, latest, zonestate, approvals, crossings, announced, published,
                 quarantined, notified, returned, reopened, faults, crashes>>

(* Mutant: only the first finding is published. *)
QuarantineFirst(w) ==
  LET c == call[w]
  IN  /\ At(w, "quarantine")
      /\ quarantined' = quarantined \cup {<<c.report, Head(c.findings), c.baseline>>}
      /\ Return(w, "quarantined")
      /\ UNCHANGED <<fixes, window, rows, latest, zonestate, approvals, crossings, announced,
                     published, notified, reopened, calls, faults, crashes>>

(* One quarantine record per finding; the first failure ends the call. *)
Quarantine(w) ==
  LET c == call[w]
      record == <<c.report, Head(c.findings), c.baseline>>
  IN  /\ At(w, "quarantine")
      /\ \/ /\ quarantined' = quarantined \cup {record}
            /\ IF Len(c.findings) = 1
               THEN Return(w, "quarantined")
               ELSE call' = [call EXCEPT ![w].findings = Tail(@)] /\ UNCHANGED returned
            /\ UNCHANGED faults
         \/ /\ \E landed \in SUBSET {record} : quarantined' = quarantined \cup landed
            /\ Fail(w)
      /\ UNCHANGED <<fixes, window, rows, latest, zonestate, approvals, crossings, announced,
                     published, notified, reopened, calls, crashes>>

(* Mutant: SET instead of SETNX, every report finds its key new. *)
DedupOverwrites(w) ==
  /\ At(w, "dedup")
  /\ window' = window \cup {PayloadKey(call[w].report)}
  /\ Succeed(w, "insert")
  /\ UNCHANGED <<fixes, rows, latest, zonestate, approvals, crossings, announced, published,
                 quarantined, notified, reopened, calls, crashes>>

(***************************************************************************)
(* SETNX on the payload key: a key that is already set absorbs the report, *)
(* a Redis error admits it.                                                *)
(***************************************************************************)
Dedup(w) ==
  LET key == PayloadKey(call[w].report)
  IN  /\ At(w, "dedup")
      /\ \/ /\ key \notin window
            /\ window' = window \cup {key}
            /\ Succeed(w, "insert")
            /\ UNCHANGED reopened
         \/ /\ key \in window
            /\ Return(w, "absorbed")
            /\ UNCHANGED <<window, reopened, faults>>
         \/ /\ faults < MaxFaults
            /\ faults' = faults + 1
            /\ \E landed \in SUBSET {key} : window' = window \cup landed
            /\ reopened' = [reopened EXCEPT ![key] = @ + 1]
            /\ Goto(w, "insert")
            /\ UNCHANGED returned
      /\ UNCHANGED <<fixes, rows, latest, zonestate, approvals, crossings, announced, published,
                     quarantined, notified, calls, crashes>>

(***************************************************************************)
(* The CHECK constraints of ais_positions: on the columns that the filter  *)
(* reads as well, and on the ones it does not.                             *)
(***************************************************************************)
StorageAccepts(r) ==
  /\ -90000000 <= r.lat /\ r.lat <= 90000000
  /\ -180000000 <= r.lon /\ r.lon <= 180000000
  /\ r.speed >= 0 /\ r.speed <= 102300
  /\ r.course >= 0 /\ r.course <= 360000
  /\ r.mmsi # "bad" /\ (r.source = "APP_REPORT" \/ r.mmsi # "none")
  /\ ~(r.lat = 0 /\ r.lon = 0)
  /\ r.unfit = {}

(* Mutant: the error of the insert is logged and the call goes on. *)
InsertPositionsUnchecked(w) ==
  /\ At(w, "insert")
  /\ \/ rows' = [rows EXCEPT ![call[w].report] = @ + 1] /\ UNCHANGED faults
     \/ faults < MaxFaults /\ faults' = faults + 1 /\ UNCHANGED rows
  /\ Goto(w, "latest")
  /\ UNCHANGED <<fixes, window, latest, zonestate, approvals, crossings, announced, published,
                 quarantined, notified, returned, reopened, calls, crashes>>

(***************************************************************************)
(* EnsurePositionPartitions and InsertPositions.  Every call mints its own *)
(* position_report_id, so a report handled twice has two rows.  A row that *)
(* breaks a CHECK is refused whenever it is tried; the caller sees an      *)
(* error like any other.                                                   *)
(***************************************************************************)
InsertPositions(w) ==
  LET r == call[w].report
  IN  /\ At(w, "insert")
      /\ \/ /\ StorageAccepts(r)
            /\ rows' = [rows EXCEPT ![r] = @ + 1]
            /\ Succeed(w, "latest") \/ Fail(w)
         \/ ~StorageAccepts(r) /\ UNCHANGED <<rows, faults>> /\ Return(w, "refused")
         \/ UNCHANGED rows /\ Fail(w)
      /\ UNCHANGED <<fixes, window, latest, zonestate, approvals, crossings, announced, published,
                     quarantined, notified, reopened, calls, crashes>>

(* Mutant: last writer wins. *)
LastWriter(old, r) == r

(* The hot row moves only forward in observed time. *)
Newest(old, r) == IF old = None \/ r.at > old.at THEN r ELSE old

UpsertLatestPosition(w) ==
  LET r == call[w].report
      upserted == [latest EXCEPT ![r.vessel] = Newest(@, r)]
  IN  /\ At(w, "latest")
      /\ \/ latest' = upserted /\ Succeed(w, "zones")
         \/ latest' = upserted /\ Fail(w)
         \/ UNCHANGED latest /\ Fail(w)
      /\ UNCHANGED <<fixes, window, rows, zonestate, approvals, crossings, announced, published,
                     quarantined, notified, reopened, calls, crashes>>

(***************************************************************************)
(* EvaluateGeofences, in three steps because Redis is not in the database  *)
(* transaction: read the containing zones and the recorded membership,     *)
(* replace the membership, then insert the events and commit.              *)
(***************************************************************************)
Approved == {z \in Zones : \E p \in Principals : <<z, p>> \in approvals}

ReadMembership(w) ==
  LET r == call[w].report
  IN  /\ At(w, "zones")
      /\ \/ /\ call' = [call EXCEPT ![w].pc = "replace",
                                    ![w].current = Inside[r] \cap Approved,
                                    ![w].previous = zonestate[r.vessel]]
            /\ UNCHANGED <<faults, returned>>
         \/ Fail(w)
      /\ UNCHANGED <<fixes, window, rows, latest, zonestate, approvals, crossings, announced,
                     published, quarantined, notified, reopened, calls, crashes>>

(* Mutant: the new zones are added without deleting the old set. *)
AddMembership(w) ==
  LET r == call[w].report
  IN  /\ At(w, "replace")
      /\ zonestate' = [zonestate EXCEPT ![r.vessel] = @ \cup call[w].current]
      /\ Succeed(w, "commit")
      /\ UNCHANGED <<fixes, window, rows, latest, approvals, crossings, announced, published,
                     quarantined, notified, reopened, calls, crashes>>

ReplaceMembership(w) ==
  LET r == call[w].report
      replaced == [zonestate EXCEPT ![r.vessel] = call[w].current]
  IN  /\ At(w, "replace")
      /\ \/ zonestate' = replaced /\ Succeed(w, "commit")
         \/ zonestate' = replaced /\ Fail(w)
         \/ UNCHANGED zonestate /\ Fail(w)
      /\ UNCHANGED <<fixes, window, rows, latest, approvals, crossings, announced, published,
                     quarantined, notified, reopened, calls, crashes>>

(* The zones entered and the zones left, as <<zone, direction>>. *)
ComputeTransitions(current, previous) ==
  ((current \ previous) \X {"ENTER"}) \cup ((previous \ current) \X {"EXIT"})

(* Every zone still exists (no code deletes one), so each transition is an event. *)
GeofenceEvents(w) ==
  LET transitions == Sorted[ComputeTransitions(call[w].current, call[w].previous)]
      r == call[w].report
  IN  [i \in DOMAIN transitions |->
        [id |-> Len(crossings) + i, vessel |-> r.vessel, zone |-> transitions[i][1],
         event |-> transitions[i][2], at |-> r.at]]

(* Where the call goes once its crossings are announced. *)
AfterGeofences(r) == IF r.source = "AIS" THEN "raw" ELSE "publish"

(* Mutant: the events are returned although the commit failed. *)
CommitCrossingsUnchecked(w) ==
  LET events == GeofenceEvents(w)
  IN  /\ At(w, "commit")
      /\ \/ crossings' = crossings \o events /\ UNCHANGED faults
         \/ faults < MaxFaults /\ faults' = faults + 1 /\ UNCHANGED crossings
      /\ call' = [call EXCEPT ![w].events = events,
           ![w].pc = IF events = <<>> THEN AfterGeofences(call[w].report) ELSE "announce"]
      /\ UNCHANGED <<fixes, window, rows, latest, zonestate, approvals, announced, published,
                     quarantined, notified, returned, reopened, calls, crashes>>

CommitCrossings(w) ==
  LET events == GeofenceEvents(w)
      next == IF events = <<>> THEN AfterGeofences(call[w].report) ELSE "announce"
  IN  /\ At(w, "commit")
      /\ \/ /\ crossings' = crossings \o events
            /\ call' = [call EXCEPT ![w].pc = next, ![w].events = events]
            /\ UNCHANGED <<faults, returned>>
         \/ crossings' = crossings \o events /\ Fail(w)
         \/ UNCHANGED crossings /\ Fail(w)
      /\ UNCHANGED <<fixes, window, rows, latest, zonestate, approvals, announced, published,
                     quarantined, notified, reopened, calls, crashes>>

(* publishGeofenceEvent for the next event; the first failure ends the call. *)
AnnounceCrossing(w) ==
  LET c == call[w]
      event == Head(c.events)
  IN  /\ At(w, "announce")
      /\ \/ /\ announced' = announced \cup {event}
            /\ call' = [call EXCEPT ![w].events = Tail(@),
                 ![w].pc = IF Len(c.events) = 1 THEN AfterGeofences(c.report) ELSE "announce"]
            /\ UNCHANGED <<faults, returned>>
         \/ announced' = announced \cup {event} /\ Fail(w)
         \/ UNCHANGED announced /\ Fail(w)
      /\ UNCHANGED <<fixes, window, rows, latest, zonestate, approvals, crossings, published,
                     quarantined, notified, reopened, calls, crashes>>

(* The ais.raw mirror, switched on.  Nothing here reads that topic, so only its failure is state. *)
MirrorRaw(w) ==
  /\ At(w, "raw")
  /\ Succeed(w, "publish") \/ Fail(w)
  /\ UNCHANGED <<fixes, window, rows, latest, zonestate, approvals, crossings, announced, published,
                 quarantined, notified, reopened, calls, crashes>>

PublishPosition(w) ==
  LET r == call[w].report
  IN  /\ At(w, "publish")
      /\ \/ published' = published \cup {r} /\ Succeed(w, "fence")
         \/ published' = published \cup {r} /\ Fail(w)
         \/ UNCHANGED published /\ Fail(w)
      /\ UNCHANGED <<fixes, window, rows, latest, zonestate, approvals, crossings, announced,
                     quarantined, notified, reopened, calls, crashes>>

(***************************************************************************)
(* The fence engine, switched on, may refuse the report (FenceIngest       *)
(* models what it does); otherwise the report goes to the SSE hub, which   *)
(* is wired, and the call is done.                                         *)
(***************************************************************************)
ObserveAndBroadcast(w) ==
  /\ At(w, "fence")
  /\ \/ notified' = notified \cup {call[w].report} /\ Return(w, "done") /\ UNCHANGED faults
     \/ UNCHANGED notified /\ Fail(w)
  /\ UNCHANGED <<fixes, window, rows, latest, zonestate, approvals, crossings, announced, published,
                 quarantined, reopened, calls, crashes>>

-----------------------------------------------------------------------------
(* What happens around the calls. *)

(* SETNX keys carry the window as their TTL. *)
ExpireDedupKey(k) ==
  /\ "dedup" \in Expiring
  /\ k \in window
  /\ window' = window \ {k}
  /\ reopened' = [reopened EXCEPT ![k] = @ + 1]
  /\ UNCHANGED <<call, fixes, rows, latest, zonestate, approvals, crossings, announced, published,
                 quarantined, notified, returned, calls, faults, crashes>>

(* The membership set of a silent vessel expires after 24 hours. *)
ExpireZoneState(v) ==
  /\ "zone" \in Expiring
  /\ zonestate[v] # {}
  /\ zonestate' = [zonestate EXCEPT ![v] = {}]
  /\ UNCHANGED <<call, fixes, window, rows, latest, approvals, crossings, announced, published,
                 quarantined, notified, returned, reopened, calls, faults, crashes>>

(* A checker other than the maker approves a draft zone. *)
ApproveZone(z, p) ==
  /\ z \notin Approved
  /\ p # Maker[z]
  /\ approvals' = approvals \cup {<<z, p>>}
  /\ UNCHANGED <<call, fixes, window, rows, latest, zonestate, crossings, announced, published,
                 quarantined, notified, returned, reopened, calls, faults, crashes>>

(* The process dies: open transactions roll back, the tracker starts empty. *)
Restart ==
  /\ crashes < MaxCrashes
  /\ crashes' = crashes + 1
  /\ call' = [w \in Workers |-> Idle]
  /\ fixes' = [k \in TrackerKeys |-> None]
  /\ UNCHANGED <<window, rows, latest, zonestate, approvals, crossings, announced, published,
                 quarantined, notified, returned, reopened, calls, faults>>

Step(w) ==
  \/ \E r \in Reports : Receive(w, r)
  \/ Quarantine(w) \/ Dedup(w) \/ InsertPositions(w) \/ UpsertLatestPosition(w)
  \/ ReadMembership(w) \/ ReplaceMembership(w) \/ CommitCrossings(w) \/ AnnounceCrossing(w)
  \/ MirrorRaw(w) \/ PublishPosition(w) \/ ObserveAndBroadcast(w)

Next ==
  \/ \E w \in Workers : Step(w)
  \/ \E k \in PayloadKeys : ExpireDedupKey(k)
  \/ \E v \in Vessels : ExpireZoneState(v)
  \/ \E z \in Zones, p \in Principals : ApproveZone(z, p)
  \/ Restart

Spec == Init /\ [][Next]_vars

-----------------------------------------------------------------------------
(* Properties. *)

Pcs == {"idle", "quarantine", "dedup", "insert", "latest", "zones", "replace", "commit",
        "announce", "raw", "publish", "fence"}

Events == [id : Nat, vessel : Vessels, zone : Zones, event : {"ENTER", "EXIT"}, at : Int]

(* An activation record; the steps that take the head of a list find one there. *)
Calls ==
  {c \in [pc : Pcs, report : Reports \cup {None}, findings : Seq(Reasons),
          baseline : Reports \cup {None}, current : SUBSET Zones, previous : SUBSET Zones,
          events : Seq(Events)] :
     /\ c.pc # "idle" => c.report \in Reports
     /\ c.pc = "quarantine" => c.findings # <<>>
     /\ c.pc = "announce" => c.events # <<>>}

(* Type correctness of the pipeline's state. *)
TypeOK ==
  /\ call \in [Workers -> Calls]
  /\ fixes \in [TrackerKeys -> Reports \cup {None}]
  /\ window \subseteq PayloadKeys
  /\ rows \in [Reports -> Nat]
  /\ latest \in [Vessels -> Reports \cup {None}]
  /\ zonestate \in [Vessels -> SUBSET Zones]
  /\ approvals \subseteq Zones \X Principals
  /\ crossings \in Seq(Events)
  /\ announced \subseteq Events
  /\ published \subseteq Reports /\ notified \subseteq Reports
  /\ returned \in [Reports -> SUBSET {"done", "absorbed", "quarantined", "refused", "error"}]
  /\ reopened \in [PayloadKeys -> Nat]

(***************************************************************************)
(* Store writes happen before publication, and the SSE notification comes  *)
(* after it: whatever fails and whenever the process dies, a report on the *)
(* topic has a row, and a report sent to the hub is on the topic.          *)
(***************************************************************************)
DeliveryOrder ==
  \A r \in Reports : /\ r \in published => rows[r] > 0
                     /\ r \in notified => r \in published

(***************************************************************************)
(* Workers race on the hot row of one vessel with reports of any age, and  *)
(* a reader who has seen a report on the topic never finds an older        *)
(* position in latest_positions; what the row shows is itself stored.      *)
(***************************************************************************)
LatestCoversPublished ==
  \A v \in Vessels :
    /\ latest[v] # None => rows[latest[v]] > 0
    /\ \A r \in published : r.vessel = v => latest[v] # None /\ latest[v].at >= r.at

(***************************************************************************)
(* "Suspect traffic is never silently dropped": a call that returned       *)
(* without an error left its report stored and published, or in the        *)
(* quarantine topic once for every reason, or found a duplicate.           *)
(***************************************************************************)
NoSilentDrop ==
  \A r \in Reports :
    /\ "done" \in returned[r] => rows[r] > 0 /\ r \in published /\ r \in notified
    /\ "quarantined" \in returned[r] =>
         IF StaticChecks(r) = <<>>
         THEN \E q \in quarantined : q[1] = r /\ q[2] = "same-mmsi-bifurcation"
         ELSE \A i \in DOMAIN StaticChecks(r) : <<r, StaticChecks(r)[i], None>> \in quarantined

(***************************************************************************)
(* The bounds of the filter and the CHECK constraints of the table are     *)
(* written twice.  Whatever is stored passed both; and when the table      *)
(* refuses a report that came past the filter, it is for a column that the *)
(* filter does not read, so a storage error is never the fate of a report  *)
(* that belonged in quarantine.                                            *)
(***************************************************************************)
RefusedOnlyUnread ==
  \A r \in Reports :
    /\ rows[r] > 0 => StaticChecks(r) = <<>> /\ StorageAccepts(r)
    /\ "refused" \in returned[r] => StaticChecks(r) = <<>> /\ r.unfit # {}

(* An announced zone crossing is a committed row of geofence_events. *)
AnnouncedCrossingIsStored ==
  \A e \in announced : \E i \in DOMAIN crossings : crossings[i] = e

(* The rows that carry the payload of key k. *)
RowsOf(k) == UNION {{r} \X (1 .. rows[r]) : r \in {q \in Reports : PayloadKey(q) = k}}

(***************************************************************************)
(* However many receivers hear one frame and however their goroutines      *)
(* interleave, it is stored once, and once more at most for every time its *)
(* dedup key expired or Redis failed to answer.                            *)
(***************************************************************************)
OneRowPerWindow ==
  \A k \in PayloadKeys :
    (\E r \in Reports : PayloadKey(r) = k /\ Deduplicated(r)) => Cardinality(RowsOf(k)) <= 1 + reopened[k]

CrossingsOf(v, z) == SelectSeq(crossings, LAMBDA e : e.vessel = v /\ e.zone = z)

(* Vessel v is between reading its membership and committing its crossings. *)
Evaluating(v) ==
  \E w \in Workers : call[w].pc \in {"replace", "commit"} /\ call[w].report.vessel = v

(***************************************************************************)
(* With a single worker, so one report of a vessel in the pipeline at a    *)
(* time, the stored crossings of every zone alternate ENTER, EXIT, ENTER   *)
(* ... and the membership in Redis is the one they add up to, for as long  *)
(* as no call fails and the process does not restart, whatever the order   *)
(* in which the reports come.                                              *)
(***************************************************************************)
CrossingsExplainMembership ==
  faults = 0 /\ crashes = 0 => \A v \in Vessels, z \in Zones :
    LET log == CrossingsOf(v, z)
    IN  /\ \A i \in DOMAIN log : log[i].event = IF i % 2 = 1 THEN "ENTER" ELSE "EXIT"
        /\ Evaluating(v) \/ (z \in zonestate[v] <=> Len(log) % 2 = 1)

-----------------------------------------------------------------------------
(* Statements of the repository that the code does not keep. *)

Quiet(P(_)) == \A w \in Workers : At(w, "idle") \/ ~P(call[w].report)

(***************************************************************************)
(* "Duplicates are absorbed ... never drop": a report is absorbed because  *)
(* an identical one was delivered, so once no copy is in the pipeline one  *)
(* of them has a row.                                                      *)
(***************************************************************************)
AbsorbedIsDelivered ==
  \A r \in Reports :
    ("absorbed" \in returned[r] /\ Quiet(LAMBDA q : PayloadKey(q) = PayloadKey(r)))
      => RowsOf(PayloadKey(r)) # {}

(***************************************************************************)
(* "A transition that cannot be announced aborts the report rather than    *)
(* persisting silently", the doctrine ascribed to this path: when no call  *)
(* for the vessel is running, each stored crossing has been announced.     *)
(***************************************************************************)
PersistedCrossingAnnounced ==
  \A i \in DOMAIN crossings :
    Quiet(LAMBDA q : q.vessel = crossings[i].vessel) => crossings[i] \in announced

(***************************************************************************)
(* GT06 trackers are "normalized onto the same canonical signed envelope": *)
(* a tracker fix with nothing wrong in its coordinates, speed and course   *)
(* is not quarantined.                                                     *)
(***************************************************************************)
TrackerFixAdmitted ==
  \A q \in quarantined :
    q[1].source = "GSM_TRACKER" => StaticChecks([q[1] EXCEPT !.mmsi = "ok"]) # <<>>

(***************************************************************************)
(* The tracker "scopes fixes by MMSI (or vessel reference for app          *)
(* reports)": a bifurcation verdict compares two fixes of one vessel.      *)
(***************************************************************************)
BifurcationWithinVessel ==
  \A q \in quarantined : q[3] # None => q[3].vessel = q[1].vessel

(* The fix compared against is "the previous admitted position of one vessel". *)
BaselineWasAdmitted ==
  \A q \in quarantined :
    q[3] # None => ~\E p \in quarantined : p[1] = q[3]

(***************************************************************************)
(* "Suspect traffic is intelligence and is never dropped": a report that   *)
(* the table refuses is on the quarantine topic.                           *)
(***************************************************************************)
RefusedIsKept ==
  \A r \in Reports : "refused" \in returned[r] => \E q \in quarantined : q[1] = r
=============================================================================
