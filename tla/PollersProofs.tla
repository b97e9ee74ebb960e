---------------------------- MODULE PollersProofs ----------------------------
(***************************************************************************)
(* Proofs about the two loops that move rows from a table to where they    *)
(* are wanted: the port-community importer, for every table, batch size,   *)
(* failure and restart, and the drain of the MRV outbox, for every number  *)
(* of replicas, events and failures.                                       *)
(***************************************************************************)
EXTENDS PcsImporter, MrvOutbox, TLAPS

-----------------------------------------------------------------------------
(* PcsImporter: the inductive invariant. *)

Marks == Nat \X Nat

PcsTypeOK ==
  /\ source \subseteq Rows /\ batch \subseteq Rows
  /\ cursor \in Marks /\ last \in Marks
  /\ stored \in [Rows -> Nat]
  /\ replays \in Nat

(* The rows of a running poll lie between the cursor and the last of them. *)
BatchIsAhead ==
  batch # {} =>
    /\ strictlyAfter(cursor, last)
    /\ \A row \in batch : strictlyAfter(cursor, row) /\ ~strictlyAfter(last, row)

(* The running poll, or the next one, has yet to come to this row. *)
Ahead(row) ==
  strictlyAfter(cursor, row) /\ (batch = {} \/ row \in batch \/ strictlyAfter(last, row))

(* Each replay accounts for one copy of a row, and so does the pass that has gone by it. *)
CopiesBounded ==
  \A row \in Rows : stored[row] <= 1 + replays /\ (Ahead(row) => stored[row] <= replays)

CopiesInv == PcsTypeOK /\ BatchIsAhead /\ CopiesBounded

(* The running poll has gone by this row. *)
Passed(row) == batch # {} /\ ~strictlyAfter(last, row) /\ row \notin batch

(* The cursor is at or beyond this row, or will be when the running poll ends. *)
Covered(row) == ~strictlyAfter(cursor, row) \/ (batch # {} /\ ~strictlyAfter(last, row))

SkipsNothing ==
  /\ \A row \in source : ~strictlyAfter(cursor, row) => stored[row] > 0
  /\ \A row \in source : Passed(row) => stored[row] > 0

(* A row that is not there yet and that a poll would miss comes too late for an ordered source. *)
NoLatecomers == \A row \in Rows \ source : Covered(row) => \E s \in source : ~Precedes(s, row)

(* No row of the batch has its dedup key set. *)
KeysAreFree == \A row \in batch : PayloadKey(row) \notin window

CursorInv == SkipsNothing /\ NoLatecomers /\ KeysAreFree

(***************************************************************************)
(* The conditions of the importer's promise: rows appear in the source in  *)
(* cursor order, the dedup window has closed when a poll begins, and two   *)
(* rows have two dedup keys.                                               *)
(***************************************************************************)
FeedIsOrderly ==
  /\ InOrder /\ ~WindowOutlivesRetry
  /\ \A a, b \in Rows : PayloadKey(a) = PayloadKey(b) => a = b

-----------------------------------------------------------------------------
(* The order of the rows. *)

LEMMA RowsAreMarks == Rows \subseteq Marks
  BY PcsAssumption, Zenon DEF Rows, Marks

LEMMA MarkOrder ==
  ASSUME NEW a \in Marks, NEW b \in Marks
  PROVE  /\ strictlyAfter(a, b) <=> Precedes(a, b)
         /\ ~strictlyAfter(a, a)
         /\ a = b \/ Precedes(a, b) \/ Precedes(b, a)
         /\ ~(Precedes(a, b) /\ Precedes(b, a))
<1>1. PICK a1 \in Nat, a2 \in Nat : a = <<a1, a2>>
  BY DEF Marks
<1>2. PICK b1 \in Nat, b2 \in Nat : b = <<b1, b2>>
  BY DEF Marks
<1>. QED  BY <1>1, <1>2 DEF strictlyAfter, Precedes

LEMMA MarkTransitive ==
  ASSUME NEW a \in Marks, NEW b \in Marks, NEW c \in Marks, Precedes(a, b), Precedes(b, c)
  PROVE  Precedes(a, c)
  BY DEF Marks, Precedes

(* A step of the order from a mark to one after it. *)
LEMMA AfterTransitive ==
  ASSUME NEW a \in Marks, NEW b \in Marks, NEW c \in Marks, strictlyAfter(a, b), strictlyAfter(b, c)
  PROVE  strictlyAfter(a, c)
  BY MarkOrder, MarkTransitive, Zenon

-----------------------------------------------------------------------------
(* What the steps of a poll do to the copies and to the batch. *)

Grows(row) == stored' \in {stored, [stored EXCEPT ![row] = @ + 1]}

LEMMA HandleRowCases ==
  ASSUME NEW row \in Rows, HandleRow(row)
  PROVE  /\ row \in batch /\ Grows(row)
         /\ window' \subseteq window \cup {PayloadKey(row)}
         /\ UNCHANGED <<source, last>>
         /\ \/ Consume(row) /\ stored' = stored /\ replays' = replays /\ PayloadKey(row) \in window
            \/ Consume(row) /\ stored' = [stored EXCEPT ![row] = @ + 1] /\ replays' \in {replays, replays + 1}
            \/ batch' = {} /\ cursor' = cursor /\ replays' = replays + 1
<1>1. CASE PayloadKey(row) \in window /\ Consume(row) /\ UNCHANGED <<window, stored, replays, pollFaults>>
  BY <1>1, Zenon DEF HandleRow, Grows
<1>2. CASE /\ window' = window \cup {PayloadKey(row)}
           /\ \/ stored' = [stored EXCEPT ![row] = @ + 1] /\ Consume(row) /\ UNCHANGED <<absorbed, replays, pollFaults>>
              \/ stored' = [stored EXCEPT ![row] = @ + 1] /\ Abort
              \/ UNCHANGED stored /\ Abort
  BY <1>2, Zenon DEF HandleRow, Grows, Abort
<1>3. CASE /\ \E landed \in SUBSET {PayloadKey(row)} : window' = window \cup landed
           /\ \/ /\ replays' = replays + 1
                 /\ stored' = [stored EXCEPT ![row] = @ + 1]
                 /\ Consume(row)
              \/ stored' \in {stored, [stored EXCEPT ![row] = @ + 1]} /\ Abort
  BY <1>3, Zenon DEF HandleRow, Grows, Abort
<1>. QED  BY <1>1, <1>2, <1>3, Zenon DEF HandleRow

-----------------------------------------------------------------------------
(* Copies: the bound holds whatever the settings. *)

LEMMA CopiesInit == Init => CopiesInv
<1> SUFFICES ASSUME Init PROVE CopiesInv
  BY Zenon
<1>1. PcsTypeOK
  BY Zenon DEF Init, PcsTypeOK, Marks, NoCursor
<1>2. BatchIsAhead
  BY Zenon DEF Init, BatchIsAhead
<1>3. CopiesBounded
  BY DEF Init, CopiesBounded
<1> QED BY <1>1, <1>2, <1>3, Zenon DEF CopiesInv

LEMMA CopiesPoll ==
  ASSUME CopiesInv, Poll
  PROVE  CopiesInv' /\ batch = {} /\ last' \in batch' /\ batch' \subseteq Pending
<1>1. PICK page \in SUBSET Pending :
        batch' = page /\ last' \in page /\ \A r \in page : ~Precedes(last', r)
  BY Zenon DEF Poll
<1>2. batch = {} /\ UNCHANGED <<source, cursor, stored, replays>>
  BY Zenon DEF Poll
<1>3. \A row \in batch' : row \in Rows /\ row \in Marks /\ row \in source /\ strictlyAfter(cursor, row)
  BY <1>1, RowsAreMarks, Zenon DEF Pending, CopiesInv, PcsTypeOK
<1>4. PcsTypeOK'
  BY <1>1, <1>2, <1>3, Zenon DEF CopiesInv, PcsTypeOK
<1>5. last' \in batch' /\ last' \in Marks
  BY <1>1, <1>3, Zenon
<1>6. BatchIsAhead'
  <2>1. strictlyAfter(cursor', last')
    BY <1>2, <1>3, <1>5, Zenon
  <2>2. \A row \in batch' : strictlyAfter(cursor', row) /\ ~strictlyAfter(last', row)
    BY <1>1, <1>2, <1>3, <1>5, MarkOrder, Zenon
  <2> QED BY <2>1, <2>2, Zenon DEF BatchIsAhead
<1>7. \A row \in Rows : Ahead(row)' => Ahead(row)
  BY <1>2, Zenon DEF Ahead
<1>8. CopiesBounded'
  BY <1>2, <1>7, Zenon DEF CopiesInv, CopiesBounded
<1> QED BY <1>1, <1>2, <1>4, <1>5, <1>6, <1>8, Zenon DEF CopiesInv

(* The row is consumed: it is no longer ahead, and no row comes to be. *)
LEMMA ConsumeKeepsBatch ==
  ASSUME CopiesInv, NEW row \in Rows, row \in batch, Consume(row), last' = last
  PROVE  /\ batch' \in SUBSET batch /\ cursor' \in Marks
         /\ BatchIsAhead'
         /\ \A r \in Rows : Ahead(r)' => Ahead(r) /\ r # row
<1>1. batch' = batch \ {row} /\ cursor' = IF batch = {row} THEN last ELSE cursor
  BY Zenon DEF Consume
<1>2. /\ strictlyAfter(cursor, last) /\ cursor \in Marks /\ last \in Marks
      /\ \A r \in batch : strictlyAfter(cursor, r) /\ ~strictlyAfter(last, r)
  BY Zenon DEF CopiesInv, BatchIsAhead, PcsTypeOK
<1>3. CASE batch = {row}
  <2>1. batch' = {} /\ cursor' = last
    BY <1>1, <1>3, Zenon
  <2>2. ASSUME NEW r \in Rows, Ahead(r)' PROVE Ahead(r) /\ r # row
    <3>1. strictlyAfter(last, r)
      BY <2>1, <2>2, Zenon DEF Ahead
    <3>2. strictlyAfter(cursor, r)
      BY <1>2, <3>1, RowsAreMarks, AfterTransitive, Zenon
    <3> QED BY <1>2, <3>1, <3>2, Zenon DEF Ahead
  <2> QED BY <1>2, <2>1, <2>2, Zenon DEF BatchIsAhead
<1>4. CASE batch # {row}
  <2>1. cursor' = cursor /\ batch # {} /\ batch' # {}
    BY <1>1, <1>4, Zenon
  <2>2. ASSUME NEW r \in Rows, Ahead(r)' PROVE Ahead(r) /\ r # row
    <3>1. strictlyAfter(cursor, r) /\ (r \in batch' \/ strictlyAfter(last, r))
      BY <2>1, <2>2, Zenon DEF Ahead
    <3> QED BY <1>1, <1>2, <3>1, Zenon DEF Ahead
  <2>3. BatchIsAhead'
    BY <1>1, <1>2, <2>1, Zenon DEF BatchIsAhead
  <2> QED BY <1>1, <1>2, <2>1, <2>2, <2>3, Zenon
<1> QED BY <1>3, <1>4, Zenon

LEMMA CopiesHandleRow ==
  ASSUME CopiesInv, NEW row \in Rows, HandleRow(row)
  PROVE  CopiesInv'
<1>1. /\ row \in batch /\ Grows(row) /\ UNCHANGED <<source, last>>
      /\ \/ Consume(row) /\ stored' = stored /\ replays' = replays
         \/ Consume(row) /\ stored' = [stored EXCEPT ![row] = @ + 1] /\ replays' \in {replays, replays + 1}
         \/ batch' = {} /\ cursor' = cursor /\ replays' = replays + 1
  BY HandleRowCases, Zenon
<1>2. /\ replays \in Nat /\ replays' \in {replays, replays + 1}
      /\ \A r \in Rows : stored[r] \in Nat /\ stored[r] <= 1 + replays /\ (Ahead(r) => stored[r] <= replays)
  BY <1>1, Zenon DEF CopiesInv, CopiesBounded, PcsTypeOK
<1>3. stored' \in [Rows -> Nat] /\ \A r \in Rows : stored'[r] = stored[r] \/ (r = row /\ stored'[r] = stored[r] + 1)
  BY <1>1, <1>2 DEF Grows, CopiesInv, PcsTypeOK
<1>4. Ahead(row)
  BY <1>1, Zenon DEF Ahead, CopiesInv, BatchIsAhead
<1>5. \A r \in Rows : stored'[r] <= replays + 1
  BY <1>2, <1>3, <1>4
<1>6. CASE Consume(row)
  <2>1. /\ batch' \in SUBSET batch /\ cursor' \in Marks /\ BatchIsAhead'
        /\ \A r \in Rows : Ahead(r)' => Ahead(r) /\ r # row
    BY <1>1, <1>6, ConsumeKeepsBatch, Zenon
  <2>2. PcsTypeOK'
    BY <1>1, <1>2, <1>3, <2>1 DEF CopiesInv, PcsTypeOK
  <2>3. \A r \in Rows : stored'[r] <= 1 + replays' /\ (Ahead(r)' => stored'[r] <= replays')
    BY <1>2, <1>3, <1>5, <2>1
  <2> QED BY <2>1, <2>2, <2>3, Zenon DEF CopiesInv, CopiesBounded
<1>7. CASE batch' = {} /\ cursor' = cursor /\ replays' = replays + 1
  <2>1. PcsTypeOK' /\ BatchIsAhead'
    BY <1>1, <1>2, <1>3, <1>7 DEF CopiesInv, PcsTypeOK, BatchIsAhead
  <2>2. \A r \in Rows : stored'[r] <= 1 + replays' /\ (Ahead(r)' => stored'[r] <= replays')
    BY <1>2, <1>3, <1>5, <1>7
  <2> QED BY <2>1, <2>2, Zenon DEF CopiesInv, CopiesBounded
<1> QED BY <1>1, <1>6, <1>7, Zenon

LEMMA CopiesRestart ==
  ASSUME CopiesInv, NEW ts \in Stamps \cup {0}, Restart(ts)
  PROVE  CopiesInv'
<1>1. /\ cursor' = <<ts, 0>> /\ batch' = {} /\ replays' = replays + 1 /\ UNCHANGED <<source, last, stored>>
      /\ ts \in Nat
  BY PcsAssumption DEF Restart
<1>2. PcsTypeOK' /\ BatchIsAhead'
  BY <1>1 DEF CopiesInv, PcsTypeOK, BatchIsAhead, Marks
<1>3. \A r \in Rows : stored'[r] <= 1 + replays' /\ (Ahead(r)' => stored'[r] <= replays')
  BY <1>1 DEF CopiesInv, PcsTypeOK, CopiesBounded
<1> QED BY <1>2, <1>3, Zenon DEF CopiesInv, CopiesBounded

LEMMA CopiesStep ==
  ASSUME CopiesInv, [Next]_vars
  PROVE  CopiesInv'
<1>1. ASSUME UNCHANGED <<cursor, batch, last, stored, replays>>, source' \subseteq Rows PROVE CopiesInv'
  BY <1>1, Zenon DEF CopiesInv, PcsTypeOK, BatchIsAhead, CopiesBounded, Ahead
<1>2. CASE UNCHANGED vars
  BY <1>1, <1>2, Zenon DEF vars, CopiesInv, PcsTypeOK
<1>3. ASSUME NEW row \in Rows, Arrive(row) PROVE CopiesInv'
  BY <1>1, <1>3, Zenon DEF Arrive, CopiesInv, PcsTypeOK
<1>4. CASE Poll
  BY <1>4, CopiesPoll, Zenon
<1>5. ASSUME NEW row \in Rows, HandleRow(row) PROVE CopiesInv'
  BY <1>5, CopiesHandleRow, Zenon
<1>6. ASSUME NEW key, Expire(key) PROVE CopiesInv'
  BY <1>1, <1>6, Zenon DEF Expire, CopiesInv, PcsTypeOK
<1>7. ASSUME NEW ts \in Stamps \cup {0}, Restart(ts) PROVE CopiesInv'
  BY <1>7, CopiesRestart, Zenon
<1> QED BY <1>2, <1>3, <1>4, <1>5, <1>6, <1>7, Zenon DEF Next

-----------------------------------------------------------------------------
(* The cursor: it passes no row that is not stored. *)

LEMMA CursorInit == Init => CursorInv
<1> SUFFICES ASSUME Init PROVE CursorInv
  BY Zenon
<1>1. \A row \in Rows : strictlyAfter(cursor, row)
  <2>1. \A row \in Rows : row[1] \in Nat /\ row[1] > 0
    <3>1. \A ts \in Stamps : ts \in Nat /\ ts # 0
      BY PcsAssumption, Zenon
    <3>2. \A ts \in Stamps : ts > 0
      BY <3>1
    <3>3. ASSUME NEW row \in Rows PROVE row[1] \in Stamps
      BY Zenon DEF Rows
    <3> QED BY <3>1, <3>2, <3>3, Zenon
  <2>2. cursor[1] = 0
    BY Zenon DEF Init, NoCursor
  <2> QED BY <2>1, <2>2, Zenon DEF strictlyAfter
<1>2. SkipsNothing /\ KeysAreFree
  BY Zenon DEF Init, SkipsNothing, KeysAreFree
<1>3. NoLatecomers
  BY <1>1, Zenon DEF Init, NoLatecomers, Covered
<1> QED BY <1>2, <1>3, Zenon DEF CursorInv

(* A row that arrives in order is ahead of the cursor and of the running poll. *)
LEMMA CursorArrive ==
  ASSUME FeedIsOrderly, CopiesInv, CursorInv, NEW row \in Rows, Arrive(row)
  PROVE  CursorInv'
<1>1. /\ row \notin source /\ \A s \in source : Precedes(s, row)
      /\ source' = source \cup {row} /\ UNCHANGED <<cursor, batch, last, window, stored>>
  BY Zenon DEF Arrive, FeedIsOrderly
<1>2. ~Covered(row)
  BY <1>1, Zenon DEF CursorInv, NoLatecomers
<1>3. SkipsNothing'
  <2>1. strictlyAfter(cursor, row) /\ ~Passed(row)
    BY <1>2, Zenon DEF Covered, Passed
  <2>2. ASSUME NEW r \in source' PROVE (~strictlyAfter(cursor, r) => stored[r] > 0) /\ (Passed(r) => stored[r] > 0)
    <3>1. CASE r = row
      BY <2>1, <3>1, Zenon
    <3>2. CASE r # row
      <4>1. r \in source
        BY <1>1, <3>2, Zenon
      <4> QED BY <4>1, Zenon DEF CursorInv, SkipsNothing
    <3> QED BY <3>1, <3>2, Zenon
  <2>3. \A r : Passed(r)' <=> Passed(r)
    BY <1>1, Zenon DEF Passed
  <2> QED BY <1>1, <2>2, <2>3, Zenon DEF SkipsNothing
<1>4. NoLatecomers'
  <2>1. \A r : Covered(r)' <=> Covered(r)
    BY <1>1, Zenon DEF Covered
  <2> QED BY <1>1, <2>1, Zenon DEF CursorInv, NoLatecomers
<1>5. KeysAreFree'
  BY <1>1, Zenon DEF CursorInv, KeysAreFree
<1> QED BY <1>3, <1>4, <1>5, Zenon DEF CursorInv

(* A page has every row up to its last one, and the window is empty when it is read. *)
LEMMA CursorPoll ==
  ASSUME FeedIsOrderly, CopiesInv, CursorInv, Poll
  PROVE  CursorInv'
<1>1. /\ batch = {} /\ window' = {}
      /\ UNCHANGED <<source, cursor, stored>>
  BY Zenon DEF Poll, FeedIsOrderly
<1>2. /\ last' \in batch' /\ batch' \subseteq Pending
      /\ \A r \in Pending : Precedes(r, last') => r \in batch'
  BY Zenon DEF Poll, IsPage
<1>3. last' \in source /\ last' \in Marks /\ source \subseteq Marks /\ source \subseteq Rows
  BY <1>2, RowsAreMarks, Zenon DEF Pending, CopiesInv, PcsTypeOK
<1>4. ASSUME NEW r \in source, Passed(r)' PROVE stored[r] > 0
  <2>1. ~strictlyAfter(last', r) /\ r \notin batch'
    BY <1>4, Zenon DEF Passed
  <2>2. r = last' \/ Precedes(r, last')
    BY <1>3, <2>1, MarkOrder, Zenon
  <2>3. r \notin Pending
    BY <1>2, <2>1, <2>2, Zenon
  <2>4. ~strictlyAfter(cursor, r)
    BY <2>3, Zenon DEF Pending
  <2> QED BY <2>4, Zenon DEF CursorInv, SkipsNothing
<1>5. SkipsNothing'
  BY <1>1, <1>4, Zenon DEF CursorInv, SkipsNothing
<1>6. NoLatecomers'
  <2>1. ASSUME NEW r \in Rows \ source, Covered(r)' PROVE \E s \in source : ~Precedes(s, r)
    <3>1. CASE ~strictlyAfter(cursor, r)
      BY <3>1, Zenon DEF CursorInv, NoLatecomers, Covered
    <3>2. CASE ~strictlyAfter(last', r)
      <4>1. r \in Marks
        BY RowsAreMarks, Zenon
      <4>2. ~Precedes(last', r)
        BY <1>3, <3>2, <4>1, MarkOrder, Zenon
      <4> QED BY <1>3, <4>2, Zenon
    <3> QED BY <1>1, <2>1, <3>1, <3>2, Zenon DEF Covered
  <2> QED BY <1>1, <2>1, Zenon DEF NoLatecomers
<1>7. KeysAreFree'
  BY <1>1, Zenon DEF KeysAreFree
<1> QED BY <1>5, <1>6, <1>7, Zenon DEF CursorInv

LEMMA CursorHandleRow ==
  ASSUME FeedIsOrderly, CopiesInv, CursorInv, NEW row \in Rows, HandleRow(row)
  PROVE  CursorInv'
<1>1. /\ row \in batch /\ Grows(row) /\ window' \subseteq window \cup {PayloadKey(row)}
      /\ UNCHANGED <<source, last>>
      /\ \/ Consume(row) /\ stored' = [stored EXCEPT ![row] = @ + 1]
         \/ batch' = {} /\ cursor' = cursor
  <2>1. row \in batch
    BY HandleRowCases, Zenon
  <2>2. PayloadKey(row) \notin window
    BY <2>1, Zenon DEF CursorInv, KeysAreFree
  <2> QED BY <2>2, HandleRowCases, Zenon
<1>2. /\ source \subseteq Rows /\ batch \subseteq Rows /\ \A r \in Rows : stored[r] \in Nat
      /\ \A r \in Rows : stored'[r] = stored[r] \/ stored'[r] = stored[r] + 1
  BY <1>1, Zenon DEF Grows, CopiesInv, PcsTypeOK
<1>3. \A r \in source : stored[r] > 0 => stored'[r] > 0
  BY <1>2
<1>4. CASE Consume(row) /\ stored' = [stored EXCEPT ![row] = @ + 1]
  <2>1. batch' = batch \ {row} /\ cursor' = IF batch = {row} THEN last ELSE cursor
    BY <1>4, Zenon DEF Consume
  <2>2. stored'[row] > 0
    BY <1>2, <1>4 DEF CopiesInv, PcsTypeOK
  <2>3. ASSUME NEW r \in source, ~strictlyAfter(last, r), r \notin batch' PROVE stored'[r] > 0
    <3>1. CASE r = row
      BY <2>2, <3>1, Zenon
    <3>2. CASE r # row
      <4>1. r \notin batch
        BY <2>1, <2>3, <3>2, Zenon
      <4>2. Passed(r)
        BY <1>1, <2>3, <4>1, Zenon DEF Passed
      <4> QED BY <1>3, <4>2, Zenon DEF CursorInv, SkipsNothing
    <3> QED BY <3>1, <3>2, Zenon
  <2>4. \A r \in source : ~strictlyAfter(cursor, r) => stored'[r] > 0
    BY <1>3, Zenon DEF CursorInv, SkipsNothing
  <2>5. SkipsNothing'
    <3>1. \A r \in source : Passed(r)' => stored'[r] > 0
      BY <1>1, <2>3, Zenon DEF Passed
    <3>2. ASSUME NEW r \in source, ~strictlyAfter(cursor', r) PROVE stored'[r] > 0
      <4>1. CASE batch = {row}
        <5>1. cursor' = last /\ r \notin batch'
          BY <2>1, <4>1, Zenon
        <5> QED BY <2>3, <3>2, <5>1, Zenon
      <4>2. CASE batch # {row}
        BY <2>1, <2>4, <3>2, <4>2, Zenon
      <4> QED BY <4>1, <4>2, Zenon
    <3> QED BY <1>1, <3>1, <3>2, Zenon DEF SkipsNothing
  <2>6. \A r \in Rows : Covered(r)' => Covered(r)
    BY <1>1, <2>1, Zenon DEF Covered
  <2>7. NoLatecomers'
    BY <1>1, <2>6, Zenon DEF CursorInv, NoLatecomers
  <2>8. KeysAreFree'
    <3>1. ASSUME NEW r \in batch' PROVE PayloadKey(r) \notin window'
      <4>1. r \in batch /\ r # row /\ r \in Rows
        BY <1>2, <2>1, Zenon
      <4>2. PayloadKey(r) # PayloadKey(row)
        BY <4>1, Zenon DEF FeedIsOrderly
      <4>3. PayloadKey(r) \notin window
        BY <4>1, Zenon DEF CursorInv, KeysAreFree
      <4> QED BY <1>1, <4>2, <4>3, Zenon
    <3> QED BY <3>1, Zenon DEF KeysAreFree
  <2> QED BY <2>5, <2>7, <2>8, Zenon DEF CursorInv
<1>5. CASE batch' = {} /\ cursor' = cursor
  <2>1. SkipsNothing'
    BY <1>1, <1>3, <1>5, Zenon DEF CursorInv, SkipsNothing, Passed
  <2>2. NoLatecomers'
    BY <1>1, <1>5, Zenon DEF CursorInv, NoLatecomers, Covered
  <2>3. KeysAreFree'
    BY <1>5, Zenon DEF KeysAreFree
  <2> QED BY <2>1, <2>2, <2>3, Zenon DEF CursorInv
<1> QED BY <1>1, <1>4, <1>5, Zenon

(* The cursor of a restart lies behind what is not consumed and what is not there yet. *)
LEMMA CursorRestart ==
  ASSUME CopiesInv, CursorInv, NEW ts \in Stamps \cup {0}, Restart(ts)
  PROVE  CursorInv'
<1>1. /\ cursor' = <<ts, 0>> /\ batch' = {} /\ UNCHANGED <<source, stored>> /\ ts \in Nat
      /\ \A row \in Rows : row \notin source \/ strictlyAfter(cursor, row) => row[1] > ts
  BY PcsAssumption DEF Restart
<1>2. \A row \in Rows : row[1] > ts => strictlyAfter(cursor', row)
  BY <1>1, Zenon DEF strictlyAfter
<1>3. \A row \in source : row \in Rows
  BY Zenon DEF CopiesInv, PcsTypeOK
<1>4. SkipsNothing'
  BY <1>1, <1>2, <1>3, Zenon DEF CursorInv, SkipsNothing, Passed
<1>5. NoLatecomers'
  BY <1>1, <1>2, Zenon DEF NoLatecomers, Covered
<1>6. KeysAreFree'
  BY <1>1, Zenon DEF KeysAreFree
<1> QED BY <1>4, <1>5, <1>6, Zenon DEF CursorInv

LEMMA CursorStep ==
  ASSUME FeedIsOrderly, CopiesInv, CursorInv, [Next]_vars
  PROVE  CursorInv'
<1>1. ASSUME UNCHANGED <<source, cursor, batch, last, stored>>, window' \subseteq window PROVE CursorInv'
  <2>1. SkipsNothing' /\ NoLatecomers'
    BY <1>1, Zenon DEF CursorInv, SkipsNothing, NoLatecomers, Covered, Passed
  <2>2. KeysAreFree'
    BY <1>1, Zenon DEF CursorInv, KeysAreFree
  <2> QED BY <2>1, <2>2, Zenon DEF CursorInv
<1>2. CASE UNCHANGED vars
  BY <1>1, <1>2, Zenon DEF vars
<1>3. ASSUME NEW row \in Rows, Arrive(row) PROVE CursorInv'
  BY <1>3, CursorArrive, Zenon
<1>4. CASE Poll
  BY <1>4, CursorPoll, Zenon
<1>5. ASSUME NEW row \in Rows, HandleRow(row) PROVE CursorInv'
  BY <1>5, CursorHandleRow, Zenon
<1>6. ASSUME NEW key, Expire(key) PROVE CursorInv'
  BY <1>1, <1>6, Zenon DEF Expire
<1>7. ASSUME NEW ts \in Stamps \cup {0}, Restart(ts) PROVE CursorInv'
  BY <1>7, CursorRestart, Zenon
<1> QED BY <1>2, <1>3, <1>4, <1>5, <1>6, <1>7, Zenon DEF Next

(***************************************************************************)
(* PCSImporter.poll: when rows appear in cursor order, the dedup window    *)
(* closes between polls and no two rows share a dedup key, every source    *)
(* row at or before the cursor has been stored; and a row has at most one  *)
(* copy more than there were aborted polls, restarts and unanswered SETNX. *)
(***************************************************************************)
THEOREM CursorPassesStoredRows == ASSUME FeedIsOrderly PROVE Spec => []StoredOncePerReplay
<1>1. Init => CopiesInv /\ CursorInv
  BY CopiesInit, CursorInit, Zenon
<1>2. CopiesInv /\ CursorInv /\ [Next]_vars => (CopiesInv /\ CursorInv)'
  BY CopiesStep, CursorStep, Zenon
<1>3. CopiesInv /\ CursorInv => StoredOncePerReplay
  BY Zenon DEF CopiesInv, CopiesBounded, CursorInv, SkipsNothing, StoredOncePerReplay
<1> QED BY <1>1, <1>2, <1>3, PTL DEF Spec

-----------------------------------------------------------------------------
(* Counting. *)

INSTANCE FiniteSetTheorems

(* A set of natural numbers that is not empty has a least element. *)
LEMMA LeastElement ==
  ASSUME NEW T \in SUBSET Nat, T # {}
  PROVE  \E m \in T : \A n \in T : m <= n
<1> DEFINE R == {ss \in Nat \X Nat : ss[1] < ss[2]}
<1>1. IsWellFoundedOn(R, Nat)
  BY NatLessThanWellFounded, Zenon DEF OpToRel
<1>2. PICK m \in T : \A y \in T : ~(<<y, m>> \in R)
  <2> HIDE DEF R
  <2> QED BY <1>1, WFMin, Zenon
<1>3. ASSUME NEW n \in T PROVE m <= n
  <2>1. m \in Nat /\ n \in Nat
    BY Zenon
  <2>2. n < m => <<n, m>> \in R
    BY <2>1, Zenon
  <2> QED BY <2>1, <2>2, <1>2
<1> QED BY <1>3, Zenon

(* How often x is in seq. *)
Occurrences(seq, x) == Cardinality({i \in DOMAIN seq : seq[i] = x})

LEMMA OccurrencesEmpty ==
  ASSUME NEW x
  PROVE  Occurrences(<<>>, x) = 0
<1>1. {i \in DOMAIN <<>> : <<>>[i] = x} = {}
  OBVIOUS
<1> QED BY <1>1, FS_EmptySet, Zenon DEF Occurrences

(* An element that is appended is counted once. *)
LEMMA OccurrencesAppend ==
  ASSUME NEW S, NEW seq \in Seq(S), NEW e \in S, NEW x
  PROVE  /\ Occurrences(seq, x) \in Nat
         /\ Occurrences(Append(seq, e), x) = Occurrences(seq, x) + (IF e = x THEN 1 ELSE 0)
<1> DEFINE at == {i \in DOMAIN seq : seq[i] = x}
           n == Len(seq) + 1
<1>1. IsFiniteSet(at) /\ Cardinality(at) \in Nat
  <2>1. DOMAIN seq = 1 .. Len(seq) /\ Len(seq) \in Nat
    OBVIOUS
  <2>2. IsFiniteSet(1 .. Len(seq))
    BY <2>1, FS_Interval
  <2>3. at \subseteq 1 .. Len(seq)
    BY <2>1, Zenon
  <2> HIDE DEF at
  <2> QED BY <2>2, <2>3, FS_Subset, FS_CardinalityType, Zenon
<1>2. n \notin at
  OBVIOUS
<1>3. {i \in DOMAIN Append(seq, e) : Append(seq, e)[i] = x} = IF e = x THEN at \cup {n} ELSE at
  <2>1. /\ DOMAIN Append(seq, e) = 1 .. n /\ DOMAIN seq = 1 .. Len(seq) /\ Len(seq) \in Nat
        /\ Append(seq, e)[n] = e
        /\ \A i \in 1 .. Len(seq) : Append(seq, e)[i] = seq[i]
    OBVIOUS
  <2>2. \A i \in 1 .. n : i \in 1 .. Len(seq) \/ i = n
    BY <2>1
  <2>3. n \in 1 .. n /\ \A i \in 1 .. Len(seq) : i \in 1 .. n
    BY <2>1
  <2> DEFINE more == Append(seq, e)
  <2> HIDE DEF n, more
  <2> QED BY <2>1, <2>2, <2>3, Zenon DEF more
<1> HIDE DEF n
<1>4. Cardinality(at \cup {n}) = Cardinality(at) + 1
  <2> HIDE DEF at
  <2> QED BY <1>1, <1>2, FS_AddElement, Zenon
<1>5. Occurrences(seq, x) = Cardinality(at)
  BY Zenon DEF Occurrences
<1>6. Occurrences(Append(seq, e), x) = Cardinality(IF e = x THEN at \cup {n} ELSE at)
  BY <1>3, Zenon DEF Occurrences
<1> HIDE DEF at
<1> QED BY <1>1, <1>4, <1>5, <1>6

-----------------------------------------------------------------------------
(***************************************************************************)
(* The outbox.  Inductive: the open drains hold disjoint batches of rows   *)
(* that are pending, and a row is on its topic once for every publication  *)
(* that was rolled back and once more while its publication stands.        *)
(***************************************************************************)
OutboxTypeOK ==
  /\ rowState \in [OutboxRows -> {"absent", "pending", "published"}]
  /\ drain \in [Publishers -> SUBSET OutboxRows]
  /\ sent \in [Publishers -> SUBSET OutboxRows]
  /\ topic \in Seq(OutboxRows)
  /\ undone \in [OutboxRows -> Nat]

Standing(r) == rowState[r] = "published" \/ \E p \in Publishers : r \in sent[p]

DrainsApart ==
  /\ \A p \in Publishers : sent[p] \subseteq drain[p]
  /\ \A p \in Publishers : \A r \in drain[p] : rowState[r] = "pending"
  /\ \A p, q \in Publishers : \A r \in OutboxRows : r \in drain[p] /\ r \in drain[q] => p = q

OutboxInv ==
  /\ OutboxTypeOK
  /\ DrainsApart
  /\ \A r \in OutboxRows : Occurrences(topic, r) = undone[r] + (IF Standing(r) THEN 1 ELSE 0)

LEMMA OutboxInitInv == OutboxInit => OutboxInv
<1> SUFFICES ASSUME OutboxInit PROVE OutboxInv
  BY Zenon
<1>1. OutboxTypeOK /\ DrainsApart
  BY DEF OutboxInit, OutboxTypeOK, DrainsApart
<1>2. ASSUME NEW r \in OutboxRows
      PROVE  Occurrences(topic, r) = 0 /\ undone[r] = 0 /\ ~Standing(r)
  BY OccurrencesEmpty, Zenon DEF OutboxInit, Standing
<1> QED BY <1>1, <1>2 DEF OutboxInv

(* Rows are counted as before when the topic is as before and publications stand as before. *)
LEMMA CountsStand ==
  ASSUME OutboxInv, OutboxTypeOK', DrainsApart', UNCHANGED <<topic, undone>>,
         \A r \in OutboxRows : Standing(r)' <=> Standing(r)
  PROVE  OutboxInv'
<1>1. ASSUME NEW r \in OutboxRows
      PROVE  Occurrences(topic', r) = undone'[r] + (IF Standing(r)' THEN 1 ELSE 0)
  BY Zenon DEF OutboxInv
<1> QED BY <1>1, Zenon DEF OutboxInv

LEMMA CommitEventStep ==
  ASSUME OutboxInv, NEW r \in OutboxRows, CommitEvent(r)
  PROVE  OutboxInv'
<1>1. OutboxTypeOK' /\ DrainsApart'
  BY Zenon DEF OutboxInv, OutboxTypeOK, DrainsApart, CommitEvent
<1>2. \A q \in OutboxRows : Standing(q)' <=> Standing(q)
  BY Zenon DEF OutboxInv, OutboxTypeOK, Standing, CommitEvent
<1> QED BY <1>1, <1>2, CountsStand, Zenon DEF CommitEvent

LEMMA BeginDrainStep ==
  ASSUME OutboxInv, NEW p \in Publishers, BeginDrain(p)
  PROVE  OutboxInv'
<1>1. /\ Batch \in SUBSET OutboxRows
      /\ \A r \in Batch : rowState[r] = "pending" /\ \A q \in Publishers : r \notin drain[q]
  BY Zenon DEF Batch, PollOutbox
<1>2. OutboxTypeOK'
  BY <1>1, Zenon DEF OutboxInv, OutboxTypeOK, BeginDrain
<1>3. /\ drain' = [drain EXCEPT ![p] = Batch] /\ sent' = [sent EXCEPT ![p] = {}] /\ drain[p] = {}
      /\ UNCHANGED <<rowState, topic, undone>>
  BY Zenon DEF BeginDrain
<1>4. sent[p] = {}
  BY <1>3, Zenon DEF OutboxInv, DrainsApart
<1>5. DrainsApart'
  <2> DEFINE B == Batch
  <2> HIDE DEF B
  <2>1. \A q \in Publishers : drain'[q] = IF q = p THEN B ELSE drain[q]
    BY <1>3, Zenon DEF B, OutboxInv, OutboxTypeOK
  <2>2. \A q \in Publishers : sent'[q] = IF q = p THEN {} ELSE sent[q]
    BY <1>3, Zenon DEF OutboxInv, OutboxTypeOK
  <2>3. /\ \A r \in B : rowState[r] = "pending" /\ \A q \in Publishers : r \notin drain[q]
        /\ rowState' = rowState /\ DrainsApart
    BY <1>1, <1>3, Zenon DEF B, OutboxInv
  <2> QED BY <2>1, <2>2, <2>3 DEF DrainsApart
<1>6. \A r \in OutboxRows : Standing(r)' <=> Standing(r)
  BY <1>3, <1>4, Zenon DEF OutboxInv, OutboxTypeOK, Standing
<1> QED BY <1>2, <1>3, <1>5, <1>6, CountsStand, Zenon

(* The next row of a drain is one of its rows that is not on the topic on its behalf. *)
LEMMA CurrentRow ==
  ASSUME OutboxInv, NEW p \in Publishers, drain[p] \ sent[p] # {}
  PROVE  /\ Current(p) \in OutboxRows /\ Current(p) \in drain[p]
         /\ ~Standing(Current(p))
<1> DEFINE T == drain[p] \ sent[p]
<1>1. T \in SUBSET Nat /\ T \subseteq OutboxRows
  BY OutboxAssumption DEF OutboxInv, OutboxTypeOK, OutboxRows
<1> HIDE DEF T
<1>2. T # {}
  BY Zenon DEF T
<1>3. \E m \in T : \A n \in T : m <= n
  BY <1>1, <1>2, LeastElement, Zenon
<1>4. Min(T) \in T
  BY <1>3, Zenon DEF Min
<1>5. Current(p) \in T
  BY <1>4, Zenon DEF Current, T
<1>6. Current(p) \in drain[p] /\ Current(p) \notin sent[p] /\ Current(p) \in OutboxRows
  BY <1>1, <1>5, Zenon DEF T
<1>7. ~Standing(Current(p))
  BY <1>6, Zenon DEF OutboxInv, OutboxTypeOK, DrainsApart, Standing
<1> QED BY <1>6, <1>7, Zenon

LEMMA PublishNextStep ==
  ASSUME OutboxInv, NEW p \in Publishers, PublishNext(p)
  PROVE  OutboxInv'
<1> DEFINE cur == Current(p)
<1>1. cur \in OutboxRows /\ cur \in drain[p] /\ ~Standing(cur)
  BY CurrentRow, Zenon DEF PublishNext
<1>2. /\ topic' = Append(topic, cur) /\ sent' = [sent EXCEPT ![p] = sent[p] \cup {cur}]
      /\ UNCHANGED <<rowState, drain, undone>>
  BY Zenon DEF PublishNext
<1> HIDE DEF cur
<1>3. OutboxTypeOK'
  BY <1>1, <1>2 DEF OutboxInv, OutboxTypeOK
<1>4. \A q \in Publishers : sent'[q] = IF q = p THEN sent[p] \cup {cur} ELSE sent[q]
  BY <1>2, Zenon DEF OutboxInv, OutboxTypeOK
<1>5. DrainsApart'
  <2>1. DrainsApart
    BY Zenon DEF OutboxInv
  <2> QED BY <1>1, <1>2, <1>4, <2>1 DEF DrainsApart
<1>6. \A r \in OutboxRows : Standing(r)' <=> Standing(r) \/ r = cur
  BY <1>2, <1>4 DEF Standing
<1>7. ASSUME NEW r \in OutboxRows
      PROVE  Occurrences(topic', r) = undone'[r] + (IF Standing(r)' THEN 1 ELSE 0)
  <2>1. topic \in Seq(OutboxRows) /\ undone[r] \in Nat
    BY Zenon DEF OutboxInv, OutboxTypeOK
  <2>2. /\ Occurrences(topic, r) \in Nat
        /\ Occurrences(topic', r) = Occurrences(topic, r) + (IF cur = r THEN 1 ELSE 0)
    <3>1. /\ Occurrences(topic, r) \in Nat
          /\ Occurrences(Append(topic, cur), r) = Occurrences(topic, r) + (IF cur = r THEN 1 ELSE 0)
      BY <1>1, <2>1, OccurrencesAppend
    <3> QED BY <1>2, <3>1, Zenon
  <2>3. Occurrences(topic, r) = undone[r] + (IF Standing(r) THEN 1 ELSE 0)
    BY Zenon DEF OutboxInv
  <2>4. undone'[r] = undone[r]
    BY <1>2, Zenon
  <2>5. CASE r = cur
    <3>1. /\ Occurrences(topic', r) = Occurrences(topic, r) + 1
          /\ Occurrences(topic, r) = undone[r] + 0 /\ Standing(r)'
      BY <1>1, <1>6, <2>2, <2>3, <2>5, Zenon
    <3> QED BY <2>1, <2>4, <3>1
  <2>6. CASE r # cur
    <3>1. Occurrences(topic', r) = Occurrences(topic, r) + 0
      BY <2>2, <2>6, Zenon
    <3>2. Standing(r)' <=> Standing(r)
      BY <1>6, <2>6, Zenon
    <3> QED BY <2>1, <2>2, <2>3, <2>4, <3>1, <3>2
  <2> QED BY <2>5, <2>6, Zenon
<1> QED BY <1>3, <1>5, <1>7, Zenon DEF OutboxInv

LEMMA CommitDrainStep ==
  ASSUME OutboxInv, NEW p \in Publishers, CommitDrain(p)
  PROVE  OutboxInv'
<1>1. /\ sent[p] = drain[p] /\ drain' = [drain EXCEPT ![p] = {}] /\ sent' = [sent EXCEPT ![p] = {}]
      /\ UNCHANGED <<topic, undone>>
      /\ rowState' = [r \in OutboxRows |-> IF r \in drain[p] THEN "published" ELSE rowState[r]]
  BY Zenon DEF CommitDrain
<1>2. OutboxTypeOK'
  BY <1>1, Zenon DEF OutboxInv, OutboxTypeOK
<1>3. \A q \in Publishers : /\ drain'[q] = IF q = p THEN {} ELSE drain[q]
                            /\ sent'[q] = IF q = p THEN {} ELSE sent[q]
  BY <1>1, Zenon DEF OutboxInv, OutboxTypeOK
<1>4. \A r \in OutboxRows : rowState'[r] = IF r \in drain[p] THEN "published" ELSE rowState[r]
  BY <1>1, Zenon
<1>5. DrainsApart'
  <2>1. \A q \in Publishers : \A r \in drain[q] : r \in OutboxRows
    BY Zenon DEF OutboxInv, OutboxTypeOK
  <2>2. DrainsApart
    BY Zenon DEF OutboxInv
  <2> QED BY <1>3, <1>4, <2>1, <2>2, Zenon DEF DrainsApart
<1>6. \A r \in OutboxRows : Standing(r)' <=> Standing(r)
  BY <1>1, <1>3, <1>4 DEF Standing
<1> QED BY <1>1, <1>2, <1>5, <1>6, CountsStand, Zenon

LEMMA FailDrainStep ==
  ASSUME OutboxInv, NEW p \in Publishers, NEW reached \in BOOLEAN, FailDrain(p, reached)
  PROVE  OutboxInv'
<1> DEFINE landed == sent[p] \cup (IF reached THEN {Current(p)} ELSE {})
<1>1. /\ drain' = [drain EXCEPT ![p] = {}] /\ sent' = [sent EXCEPT ![p] = {}] /\ rowState' = rowState
      /\ undone' = [r \in OutboxRows |-> IF r \in landed THEN undone[r] + 1 ELSE undone[r]]
      /\ topic' = IF reached THEN Append(topic, Current(p)) ELSE topic
  BY Zenon DEF FailDrain, Rollback
<1>2. reached => Current(p) \in OutboxRows /\ ~Standing(Current(p))
  <2>1. reached => drain[p] \ sent[p] # {}
    BY Zenon DEF FailDrain, OutboxInv, DrainsApart
  <2> QED BY <2>1, CurrentRow, Zenon
<1>3. \A r : r \in landed <=> r \in sent[p] \/ (reached /\ r = Current(p))
  BY Zenon
<1> HIDE DEF landed
<1>4. OutboxTypeOK'
  <2>1. topic' \in Seq(OutboxRows)
    BY <1>1, <1>2 DEF OutboxInv, OutboxTypeOK
  <2>2. undone' \in [OutboxRows -> Nat]
    BY <1>1 DEF OutboxInv, OutboxTypeOK
  <2> QED BY <1>1, <2>1, <2>2, Zenon DEF OutboxInv, OutboxTypeOK
<1>5. \A q \in Publishers : /\ drain'[q] = IF q = p THEN {} ELSE drain[q]
                            /\ sent'[q] = IF q = p THEN {} ELSE sent[q]
  BY <1>1, Zenon DEF OutboxInv, OutboxTypeOK
<1>6. DrainsApart'
  <2>1. DrainsApart
    BY Zenon DEF OutboxInv
  <2> QED BY <1>1, <1>5, <2>1 DEF DrainsApart
<1>7. ASSUME NEW r \in OutboxRows
      PROVE  Occurrences(topic', r) = undone'[r] + (IF Standing(r)' THEN 1 ELSE 0)
  <2>1. topic \in Seq(OutboxRows) /\ undone[r] \in Nat
    BY Zenon DEF OutboxInv, OutboxTypeOK
  <2>2. Occurrences(topic, r) = undone[r] + (IF Standing(r) THEN 1 ELSE 0)
    BY Zenon DEF OutboxInv
  <2>3. Standing(r)' <=> Standing(r) /\ r \notin sent[p]
    BY <1>1, <1>5 DEF Standing, OutboxInv, OutboxTypeOK, DrainsApart
  <2>4. r \in sent[p] => Standing(r)
    BY Zenon DEF Standing
  <2>5. undone'[r] = IF r \in landed THEN undone[r] + 1 ELSE undone[r]
    BY <1>1, Zenon
  <2>6. CASE reached
    <3>1. /\ Occurrences(topic, r) \in Nat
          /\ Occurrences(topic', r) = Occurrences(topic, r) + (IF Current(p) = r THEN 1 ELSE 0)
      BY <1>1, <1>2, <2>1, <2>6, OccurrencesAppend
    <3> QED BY <1>2, <1>3, <2>1, <2>2, <2>3, <2>4, <2>5, <2>6, <3>1
  <2>7. CASE ~reached
    BY <1>1, <1>3, <2>1, <2>2, <2>3, <2>4, <2>5, <2>7
  <2> QED BY <2>6, <2>7, Zenon
<1> QED BY <1>4, <1>6, <1>7, Zenon DEF OutboxInv

LEMMA OutboxStep == OutboxInv /\ [OutboxNext]_outboxVars => OutboxInv'
<1> SUFFICES ASSUME OutboxInv, [OutboxNext]_outboxVars PROVE OutboxInv'
  BY Zenon
<1>1. CASE UNCHANGED outboxVars
  BY <1>1, Zenon DEF outboxVars, OutboxInv, OutboxTypeOK, DrainsApart, Standing
<1> QED BY <1>1, CommitEventStep, BeginDrainStep, PublishNextStep, CommitDrainStep, FailDrainStep, Zenon
        DEF OutboxNext, DrainStep

LEMMA OutboxInvariant == OutboxSpec => []OutboxInv
BY OutboxInitInv, OutboxStep, PTL DEF OutboxSpec

(***************************************************************************)
(* Drain publishes a row a second time only after a publication of it was  *)
(* rolled back, for any number of replicas, rows and failing drains and    *)
(* any batch size: FOR UPDATE SKIP LOCKED keeps the batches of two         *)
(* replicas apart, and a row that is marked is on its topic.               *)
(***************************************************************************)
THEOREM DrainsPublishOnce == OutboxSpec => []DuplicatesAreRollbacks
<1>1. OutboxInv => DuplicatesAreRollbacks
  <2> SUFFICES ASSUME OutboxInv, NEW r \in OutboxRows
               PROVE  /\ Copies(r) <= undone[r] + 1
                      /\ rowState[r] = "published" => Copies(r) = undone[r] + 1
    BY Zenon DEF DuplicatesAreRollbacks
  <2>1. Copies(r) = undone[r] + (IF Standing(r) THEN 1 ELSE 0) /\ undone[r] \in Nat
    BY Zenon DEF OutboxInv, OutboxTypeOK, Copies, Occurrences
  <2>2. rowState[r] = "published" => Standing(r)
    BY Zenon DEF Standing
  <2> QED BY <2>1, <2>2
<1> QED BY <1>1, OutboxInvariant, PTL
==============================================================================
