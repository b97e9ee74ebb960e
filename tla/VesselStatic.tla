----------------------------- MODULE VesselStatic -----------------------------
(***************************************************************************)
(* Vessel static data: HandleStatic of the ingest pipeline over            *)
(* UpsertVesselStatic, for one vessel number.  vessels_static is a history *)
(* of versions: the open row (to = Forever) is the current one, a report   *)
(* that changes it closes it and opens the next.  A report is its time and *)
(* its data; reports reach several connectors' goroutines out of order.    *)
(* Transactions are READ COMMITTED, so the row a reader waited for may be  *)
(* closed when its lock is granted, and then the read finds nothing.       *)
(***************************************************************************)
EXTENDS Naturals, Sequences, FiniteSets

CONSTANTS
  Connectors,            \* goroutines that call HandleStatic
  StaticData,            \* contents of a report
  StaticTimes,           \* observed_at values
  MaxStatic, MaxStaticFaults   \* bounds: reports handled, publishes that fail

ASSUME StaticAssumption ==
  /\ StaticTimes \subseteq Nat
  /\ {MaxStatic, MaxStaticFaults} \subseteq Nat

Forever == 1000   \* valid_to IS NULL

ASSUME ForeverAssumption == \A t \in StaticTimes : t < Forever

VARIABLES
  history,       \* vessels_static: rows [data, from, to]
  upsert,        \* upsert[c]: the call a connector's goroutine is in
  applied,       \* reports answered applied = true; changed: it opened a version
  staticTopic,   \* reports on geo.vessel-static.v1
  handled, staticFaults

staticVars == <<history, upsert, applied, staticTopic, handled, staticFaults>>

NoUpsert == [stage |-> "idle"]

StaticInit ==
  /\ history = {}
  /\ upsert = [c \in Connectors |-> NoUpsert]
  /\ applied = {} /\ staticTopic = {}
  /\ handled = 0 /\ staticFaults = 0

Open(rows) == {r \in rows : r.to = Forever}

(* The connectors whose transaction holds the open row FOR UPDATE. *)
Holders == {c \in Connectors : upsert[c].stage = "read" /\ upsert[c].seen # {}}

(* HandleStatic with a valid vessel number begins the upsert and sends its   *)
(* SELECT ... FOR UPDATE, whose snapshot holds the open row of this moment.  *)
HandleStatic(c, data, at) ==
  /\ upsert[c] = NoUpsert /\ handled < MaxStatic
  /\ handled' = handled + 1
  /\ upsert' = [upsert EXCEPT ![c] =
       [stage |-> "select", report |-> [data |-> data, at |-> at], seen |-> Open(history)]]
  /\ UNCHANGED <<history, applied, staticTopic, staticFaults>>

(* The lock is granted.  A row closed by the holder it waited for no longer  *)
(* qualifies, and a row inserted since is not in the snapshot.               *)
LockCurrent(c) ==
  /\ upsert[c].stage = "select"
  /\ upsert[c].seen = {} \/ Holders = {}
  /\ upsert' = [upsert EXCEPT ![c].stage = "read", ![c].seen = @ \cap Open(history)]
  /\ UNCHANGED <<history, applied, staticTopic, handled, staticFaults>>

(* UPDATE ... SET valid_to = observed. *)
Close(row, at) == [row EXCEPT !.to = at]

(* Mutant: a conflict on the unique index is ignored. *)
InsertOrIgnore(rows, row) == IF Open(rows) = {} THEN rows \cup {row} ELSE rows

(* INSERT; vessels_static_current_idx admits one open row, and a second one  *)
(* fails the statement, which {} stands for.                                 *)
InsertRow(rows, row) == IF Open(rows) = {} THEN rows \cup {row} ELSE {}

(* UpsertVesselStatic after its SELECT: unchanged, stale, or a new version. *)
UpsertVesselStatic(c) ==
  LET report == upsert[c].report
      current == upsert[c].seen
      unchanged == \E r \in current : r.data = report.data
      stale == \E r \in current : report.at <= r.from
      next == InsertRow((history \ current) \cup {Close(r, report.at) : r \in current},
                        [data |-> report.data, from |-> report.at, to |-> Forever])
      answer(changed) ==
        /\ upsert' = [upsert EXCEPT ![c] = [stage |-> "publish", report |-> report]]
        /\ applied' = applied \cup {[report |-> report, changed |-> changed]}
      refuse == upsert' = [upsert EXCEPT ![c] = NoUpsert] /\ UNCHANGED <<history, applied>>
  IN  /\ upsert[c].stage = "read"
      /\ \/ unchanged /\ answer(FALSE) /\ UNCHANGED history
         \/ ~unchanged /\ (stale \/ next = {}) /\ refuse
         \/ ~unchanged /\ ~stale /\ next # {} /\ answer(TRUE) /\ history' = next
      /\ UNCHANGED <<staticTopic, handled, staticFaults>>

(* The applied report is published, or the publish fails and the call too. *)
PublishStatic(c) ==
  /\ upsert[c].stage = "publish"
  /\ \/ staticTopic' = staticTopic \cup {upsert[c].report} /\ UNCHANGED staticFaults
     \/ /\ staticFaults < MaxStaticFaults
        /\ staticFaults' = staticFaults + 1
        /\ UNCHANGED staticTopic
  /\ upsert' = [upsert EXCEPT ![c] = NoUpsert]
  /\ UNCHANGED <<history, applied, handled>>

StaticNext ==
  \E c \in Connectors :
    \/ \E data \in StaticData, at \in StaticTimes : HandleStatic(c, data, at)
    \/ LockCurrent(c) \/ UpsertVesselStatic(c) \/ PublishStatic(c)

StaticSpec == StaticInit /\ [][StaticNext]_staticVars

(* One version is open, each other ends where another begins, none is empty or overlaps another. *)
Tiles(rows) ==
  /\ \E r \in rows : Open(rows) = {r}
  /\ \A r \in rows : r.from < r.to
  /\ \A r \in rows \ Open(rows) : \E q \in rows : q.from = r.to
  /\ \A r, q \in rows : r # q => r.to <= q.from \/ q.to <= r.from

(***************************************************************************)
(* The versions of a vessel tile time from its first report on, whatever   *)
(* order the reports come in, and hold every report answered as applied,   *)
(* as a version of its own or absorbed by one with the same data; only     *)
(* such reports are on the topic.  A report that lost a race is refused    *)
(* with an error, not acknowledged and forgotten.                          *)
(***************************************************************************)
HistoryHoldsApplied ==
  /\ history # {} => Tiles(history)
  /\ \A a \in applied : \E r \in history :
       r.data = a.report.data /\ (a.changed => r.from = a.report.at)
  /\ staticTopic \subseteq {a.report : a \in applied}
=============================================================================
