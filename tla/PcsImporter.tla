----------------------------- MODULE PcsImporter -----------------------------
(***************************************************************************)
(* The port-community AIS importer (internal/connectors/pcs_ais.go): a     *)
(* loop that pages the table pcs_ais_positions of another service behind a *)
(* composite cursor and hands each row to HandlePosition.  HandlePosition  *)
(* appears as what the importer sees of it: the dedup key is taken, then   *)
(* the report is stored or the call fails.  Rows pass the validator and    *)
(* the CHECK constraints of ais_positions; nothing checks the IMO number   *)
(* of a row, and one that is not seven digits fails at every poll.         *)
(***************************************************************************)
EXTENDS Naturals, FiniteSets

CONSTANTS
  Stamps,              \* message_ts values, in ticks
  Mmsis,               \* vessel numbers, ordered as the table orders them
  TicksPerSecond,      \* resolution of message_ts
  BatchSize,           \* rows of one poll
  InOrder,             \* TRUE when rows appear in the source in cursor order
  WindowOutlivesRetry, \* TRUE when a poll may come inside the dedup window
  MaxPollFaults, MaxRestarts

ASSUME PcsAssumption ==
  /\ Stamps \subseteq Nat \ {0} /\ Mmsis \subseteq Nat \ {0}
  /\ TicksPerSecond \in Nat \ {0} /\ BatchSize \in Nat \ {0}
  /\ InOrder \in BOOLEAN /\ WindowOutlivesRetry \in BOOLEAN
  /\ MaxPollFaults \in Nat /\ MaxRestarts \in Nat

VARIABLES
  source,   \* pcs_ais_positions: the rows that have appeared
  cursor,   \* <<message_ts, mmsi>> of the last consumed row
  batch,    \* the rows of the running poll that are still to be handled
  last,     \* the last row of the running poll
  window,   \* Redis: the dedup keys that are set
  stored,   \* stored[row]: rows of ais_positions that carry it
  absorbed, \* history: the rows that HandlePosition absorbed as duplicates
  replays,  \* history: aborted polls, restarts and unanswered SETNX
  pollFaults, restarts

vars == <<source, cursor, batch, last, window, stored, absorbed, replays, pollFaults, restarts>>

(* The primary key of the source is (mmsi, message_ts). *)
Rows == Stamps \X Mmsis
NoCursor == <<0, 0>>

Init ==
  /\ source = {}
  /\ cursor = NoCursor
  /\ batch = {}
  /\ last = NoCursor
  /\ window = {}
  /\ stored = [row \in Rows |-> 0]
  /\ absorbed = {}
  /\ replays = 0
  /\ pollFaults = 0 /\ restarts = 0

(* Mutant: a bare message_ts watermark. *)
LaterStampOnly(c, row) == row[1] > c[1]

(* The predicate of pcsPollQuery: row lies strictly after cursor c. *)
strictlyAfter(c, row) == row[1] > c[1] \/ (row[1] = c[1] /\ row[2] > c[2])

PayloadKey(row) == <<row[2], row[1] \div TicksPerSecond>>

(* ORDER BY message_ts, mmsi. *)
Precedes(a, b) == a[1] < b[1] \/ (a[1] = b[1] /\ a[2] < b[2])

(* The source plane gets a row. *)
Arrive(row) ==
  /\ row \notin source
  /\ InOrder => \A s \in source : Precedes(s, row)
  /\ source' = source \cup {row}
  /\ UNCHANGED <<cursor, batch, last, window, stored, absorbed, replays, pollFaults, restarts>>

Pending == {row \in source : strictlyAfter(cursor, row)}

(* LIMIT BatchSize: the first rows of the pending ones, all of them when they fit. *)
IsPage(page) ==
  /\ \A row \in page : \A r \in Pending : Precedes(r, row) => r \in page
  /\ Cardinality(page) <= BatchSize
  /\ page = Pending \/ Cardinality(page) = BatchSize

(***************************************************************************)
(* A tick of the loop.  An empty page, or a query that fails, leaves the   *)
(* cursor where it was.  WindowOutlivesRetry = FALSE is the default        *)
(* configuration, a poll every 30 s and a window of 15 s, with batches     *)
(* that end before the next tick and restarts that take longer than the    *)
(* window; TRUE covers a slow batch, a quick restart and other settings.   *)
(***************************************************************************)
Poll ==
  /\ batch = {}
  /\ WindowOutlivesRetry \/ window = {}
  /\ \E page \in SUBSET Pending :
        /\ IsPage(page)
        /\ batch' = page
        /\ last' \in {row \in page : \A r \in page : ~Precedes(row, r)}
  /\ UNCHANGED <<source, cursor, window, stored, absorbed, replays, pollFaults, restarts>>

(* The row is done; after the last one the cursor moves to it. *)
Consume(row) ==
  /\ batch' = batch \ {row}
  /\ cursor' = IF batch = {row} THEN last ELSE cursor

(* Mutant: the cursor moves although a row of the batch failed. *)
AbortAndAdvance ==
  /\ pollFaults < MaxPollFaults
  /\ pollFaults' = pollFaults + 1
  /\ replays' = replays + 1
  /\ batch' = {}
  /\ cursor' = last
  /\ UNCHANGED absorbed

(* HandlePosition fails: the rest of the batch is dropped, the cursor kept. *)
Abort ==
  /\ pollFaults < MaxPollFaults
  /\ pollFaults' = pollFaults + 1
  /\ replays' = replays + 1
  /\ batch' = {}
  /\ UNCHANGED <<cursor, absorbed>>

(* The first row of the batch goes through HandlePosition. *)
HandleRow(row) ==
  LET key == PayloadKey(row)
      inserted == [stored EXCEPT ![row] = @ + 1]
  IN  /\ row \in batch
      /\ \A r \in batch : ~Precedes(r, row)
      /\ \/ /\ key \in window
            /\ absorbed' = absorbed \cup {row}
            /\ Consume(row)
            /\ UNCHANGED <<window, stored, replays, pollFaults>>
         \/ /\ key \notin window
            /\ window' = window \cup {key}
            /\ \/ stored' = inserted /\ Consume(row) /\ UNCHANGED <<absorbed, replays, pollFaults>>
               \/ stored' = inserted /\ Abort
               \/ UNCHANGED stored /\ Abort
         \/ /\ pollFaults < MaxPollFaults     \* SETNX fails: the row is admitted
            /\ \E landed \in SUBSET {key} : window' = window \cup landed
            /\ \/ /\ pollFaults' = pollFaults + 1
                  /\ replays' = replays + 1
                  /\ stored' = inserted
                  /\ Consume(row)
                  /\ UNCHANGED absorbed
               \/ stored' \in {stored, inserted} /\ Abort
      /\ UNCHANGED <<source, last, restarts>>

Expire(key) ==
  /\ key \in window
  /\ window' = window \ {key}
  /\ UNCHANGED <<source, cursor, batch, last, stored, absorbed, replays, pollFaults, restarts>>

(***************************************************************************)
(* The process restarts from now minus five minutes.  The outage is taken  *)
(* to be shorter than that and the feed near real time, so every row that  *)
(* is not yet consumed or not yet in the source is younger.                *)
(***************************************************************************)
Restart(ts) ==
  /\ restarts < MaxRestarts
  /\ \A row \in Rows : row \notin source \/ strictlyAfter(cursor, row) => row[1] > ts
  /\ restarts' = restarts + 1
  /\ replays' = replays + 1
  /\ cursor' = <<ts, 0>>
  /\ batch' = {}
  /\ UNCHANGED <<source, last, window, stored, absorbed, pollFaults>>

Next ==
  \/ \E row \in Rows : Arrive(row)
  \/ Poll
  \/ \E row \in Rows : HandleRow(row)
  \/ \E key \in {PayloadKey(row) : row \in Rows} : Expire(key)
  \/ \E ts \in Stamps \cup {0} : Restart(ts)

(***************************************************************************)
(* The loop ticks for ever and HandlePosition returns (every external call *)
(* has a deadline); Redis expires keys.  Rows need not arrive and nothing  *)
(* need fail.                                                              *)
(***************************************************************************)
Fairness ==
  /\ WF_vars(Poll)
  /\ WF_vars(\E row \in Rows : HandleRow(row))
  /\ WF_vars(\E key \in {PayloadKey(row) : row \in Rows} : Expire(key))

Spec == Init /\ [][Next]_vars /\ Fairness

-----------------------------------------------------------------------------
(***************************************************************************)
(* The importer "never silently skips the remaining rows" of a batch that  *)
(* ends inside a tie group, nor any other: a source row at or before the   *)
(* cursor has been stored.  And a row is stored more than once only when a *)
(* poll was aborted, the process restarted or Redis did not answer, once   *)
(* for each.                                                               *)
(***************************************************************************)
StoredOncePerReplay ==
  /\ \A row \in source : ~strictlyAfter(cursor, row) => stored[row] > 0
  /\ \A row \in Rows : stored[row] <= 1 + replays

(* Every row that appears in the source is eventually stored. *)
EventuallyStored == \A row \in Rows : row \in source ~> stored[row] > 0

(* "Ingestion is idempotent": a source row is stored at most once. *)
IngestionIdempotent == \A row \in Rows : stored[row] <= 1

(***************************************************************************)
(* "Dedup payload key ties to the PCS idempotency key (mmsi, message_ts)": *)
(* a row is absorbed only as a replay of itself, so its own handling began *)
(* before, and with no failure it has been stored.                         *)
(***************************************************************************)
AbsorbedAsItself == replays = 0 => \A row \in absorbed : stored[row] > 0
=============================================================================
