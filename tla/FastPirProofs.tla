---------------------------- MODULE FastPirProofs -----------------------------
(* Proofs about module FastPir, for any number of threads side by side.    *)
EXTENDS FastPir, TLAPS

-----------------------------------------------------------------------------
(* The invariant: every part anywhere is in the place of the row it is of. *)

Versions == 0..MaxVersion
OwnRows(b) == {f \in [RowsOf(b) -> Part] : \A r \in RowsOf(b) : f[r].row = r}
Coefficients == {<<>>} \cup UNION {[RowsOf(b) -> Part] : b \in Block}

OwnAnswers(r, n) == {f \in [0..(n - 1) -> Part] : \A c \in 0..(n - 1) : f[c].row = r}
Answers == UNION {[0..(n - 1) -> Part] : n \in 0..SEAL_DB_COLUMNS}

Writer == [does : Writing, row : Row, version : Versions, column : Column, size : Int,
           coefficients : Coefficients]
Reader == [does : {"answer"}, row : Row, column : 0..SEAL_DB_COLUMNS, since : Versions,
           answer : Answers]

\* What a thread holds: the rows of its block once it has read them, or the part of the
\* answer that it has.
Fine(w) ==
  \/ w = Idle
  \/ /\ w \in Writer
     /\ w.does \in {"pop", "popped", "encode"} => w.coefficients \in OwnRows(BlockOf(w.row))
  \/ w \in Reader /\ w.answer \in OwnAnswers(w.row, w.column)

DbOwn ==
  /\ db \in [Row -> [Column -> Part]]
  /\ \A r \in Row, c \in Column : db[r][c].row = r

SealOwn ==
  /\ seal_db \in [Block -> [Column -> UNION {[RowsOf(b) -> Part] : b \in Block}]]
  /\ \A b \in Block, c \in Column : seal_db[b][c] \in OwnRows(b)

HandlersFine == \A h \in Handler : Fine(handler[h])

Counters ==
  /\ excess \in Int /\ DOMAIN handler = Handler
  /\ version \in [Row -> Versions] /\ done \in [Row -> Versions]
  /\ alone \subseteq Writers /\ raced \in BOOLEAN

IInv == DbOwn /\ SealOwn /\ HandlersFine /\ Counters

-----------------------------------------------------------------------------
(* The invariant of a thread w that writes with no other beside it, with the  *)
(* matrix d and the encodings s: it holds its block as it is, has encoded as  *)
(* it is what lies before its column, and nobody else writes.                *)

HasRead == {"pop", "popped", "encode"}
OtherRows(b) == RowsOf(b) \ {LastRow}

HasRows(w, d) ==
  w.does \in HasRead =>
    \A r \in OtherRows(BlockOf(w.row)) : w.coefficients[r] = d[r][w.column]

Encoded(w, d, s) ==
  w.does # "copy" =>
    \A c \in Column, r \in OtherRows(BlockOf(w.row)) :
      c < w.column => s[BlockOf(w.row)][c][r] = d[r][c]

AloneInv ==
  \A h \in alone : /\ Writers = {h}
                   /\ HasRows(handler[h], db) /\ Encoded(handler[h], db, seal_db)

-----------------------------------------------------------------------------
(* The invariant as long as no two threads have written at a time: e is how   *)
(* far the size is off and n the values whose writing has returned.          *)

Size(w, e) ==
  /\ w.does \in {"copy", "pad", "padded", "encode"} => e = 0
  /\ w.does \in {"read", "pop", "popped"} => e = 1
  /\ w.does \in {"padded", "popped"} => w.size = e

\* A writer has its value where it has been.
HasWritten(w, d, s) ==
  /\ \A c \in Column : (w.does = "copy" => c < w.column) => d[w.row][c].version >= w.version
  /\ w.does \in HasRead => w.coefficients[w.row].version >= w.version
  /\ w.does # "copy" => \A c \in Column :
       c < w.column => s[BlockOf(w.row)][c][w.row].version >= w.version

\* A writer brings nothing older than what is there.
Brings(w, n) ==
  /\ w.version >= n[w.row]
  /\ w.does \in HasRead =>
       \A r \in RowsOf(BlockOf(w.row)) : w.coefficients[r].version >= n[r]

RowsKept(d, s, n) ==
  /\ \A r \in Row, c \in Column : d[r][c].version >= n[r]
  /\ \A b \in Block, c \in Column : \A r \in RowsOf(b) : s[b][c][r].version >= n[r]

\* A reader has found nothing older than what it may expect.
RowFound(q, n) ==
  /\ q.since <= n[q.row]
  /\ \A c \in 0..(q.column - 1) : q.answer[c].version >= q.since

LoneInv ==
  ~ raced =>
    /\ Writers = alone /\ RowsKept(db, seal_db, done)
    /\ Writers = {} => excess = 0
    /\ \A h \in Writers : /\ Size(handler[h], excess) /\ Brings(handler[h], done)
                          /\ HasWritten(handler[h], db, seal_db)
    /\ \A h \in Handler : handler[h].does = "answer" => RowFound(handler[h], done)

-----------------------------------------------------------------------------
(* The constants and the records of the threads.                           *)

LEMMA Sizes ==
  /\ db_rows \in Nat \ {0} /\ SEAL_DB_COLUMNS \in Nat \ {0} /\ MaxVersion \in Nat
  /\ LastRow \in Row /\ LastColumn \in Column /\ 0 \in Column /\ 0 \in Versions
BY PirAssumption DEF LastRow, Row, LastColumn, Column, Versions

LEMMA BlockOfRow ==
  ASSUME NEW r \in Row
  PROVE  BlockOf(r) \in Block /\ r \in RowsOf(BlockOf(r)) /\ RowsOf(BlockOf(r)) \subseteq Row
BY DEF Block, RowsOf

LEMMA ZeroPart ==
  ASSUME NEW r \in Row PROVE Zero(r) \in Part /\ Zero(r).row = r
BY Sizes DEF Zero, Part, Versions

LEMMA OwnRowsAre ==
  ASSUME NEW r \in Row, NEW f \in OwnRows(BlockOf(r))
  PROVE  f \in UNION {[RowsOf(b) -> Part] : b \in Block}
BY BlockOfRow DEF OwnRows

LEMMA WriterIs ==
  ASSUME HandlersFine, NEW h \in Handler, handler[h].does \in Writing
  PROVE  /\ handler[h] \in Writer
         /\ handler[h].does \in {"pop", "popped", "encode"} =>
              handler[h].coefficients \in OwnRows(BlockOf(handler[h].row))
BY DEF HandlersFine, Fine, Idle, Reader, Writing

LEMMA ReaderIs ==
  ASSUME HandlersFine, NEW h \in Handler, handler[h].does = "answer"
  PROVE  /\ handler[h] \in Reader
         /\ handler[h].answer \in OwnAnswers(handler[h].row, handler[h].column)
BY DEF HandlersFine, Fine, Idle, Writer, Writing

\* Thread h goes on as w.
LEMMA HandlerSet ==
  ASSUME IInv, NEW h \in Handler, NEW w, Fine(w), handler' = [handler EXCEPT ![h] = w]
  PROVE  /\ HandlersFine' /\ DOMAIN handler' = Handler
         /\ handler'[h] = w
         /\ \A g \in Handler : g # h => handler'[g] = handler[g]
         /\ Writers' = IF w.does \in Writing THEN Writers \cup {h} ELSE Writers \ {h}
<1>1. /\ DOMAIN handler' = Handler /\ handler'[h] = w
      /\ \A g \in Handler : g # h => handler'[g] = handler[g]
  BY DEF IInv, Counters
<1>2. HandlersFine'
  BY <1>1 DEF IInv, HandlersFine
<1>3. Writers' = IF w.does \in Writing THEN Writers \cup {h} ELSE Writers \ {h}
  BY <1>1 DEF Writers
<1> QED BY <1>1, <1>2, <1>3

\* A step of thread h that goes on writing, or reading, and leaves the counters.
LEMMA GoesOnAs ==
  ASSUME IInv, NEW h \in Handler, NEW w, Fine(w), handler' = [handler EXCEPT ![h] = w],
         h \in alone => w.does \in Writing,
         UNCHANGED <<version, done, alone, raced>>, excess' \in Int, DbOwn', SealOwn'
  PROVE  IInv'
<1>1. HandlersFine' /\ DOMAIN handler' = Handler
      /\ Writers' = IF w.does \in Writing THEN Writers \cup {h} ELSE Writers \ {h}
  BY HandlerSet
<1>2. Counters'
  BY <1>1 DEF IInv, Counters
<1> QED BY <1>1, <1>2 DEF IInv

LEMMA Unwritten ==
  /\ DbOwn /\ UNCHANGED db => DbOwn'
  /\ SealOwn /\ UNCHANGED seal_db => SealOwn'
BY DEF DbOwn, SealOwn

-----------------------------------------------------------------------------
(* The steps of set_value.                                                 *)

LEMMA BeginSetStep ==
  ASSUME IInv, NEW h \in Handler, NEW r \in Row, BeginSet(h, r) PROVE IInv'
<1>0. PICK w : w = [does |-> "copy", row |-> r, version |-> version'[r], column |-> 0,
                    size |-> 0, coefficients |-> <<>>]
  OBVIOUS
<1>1. version' = [version EXCEPT ![r] = @ + 1] /\ version[r] < MaxVersion
      /\ handler' = [handler EXCEPT ![h] = w]
      /\ alone' = (IF Writers = {} THEN {h} ELSE {}) /\ raced' = (raced \/ Writers # {})
      /\ UNCHANGED <<db, excess, seal_db, done>>
  BY <1>0 DEF BeginSet
<1>2. version' \in [Row -> Versions]
  BY <1>1, Sizes DEF IInv, Counters, Versions
<1>3. Fine(w) /\ w.does \in Writing
  BY <1>0, <1>2, Sizes DEF Fine, Writer, Writing, Coefficients
<1>4. /\ HandlersFine' /\ DOMAIN handler' = Handler
      /\ Writers' = Writers \cup {h}
  BY <1>1, <1>3, HandlerSet
<1>5. Counters'
  BY <1>1, <1>2, <1>4 DEF IInv, Counters
<1> QED BY <1>1, <1>4, <1>5, Unwritten DEF IInv

\* A write of the thread's own part.
LEMMA OwnWrite ==
  ASSUME DbOwn, NEW r \in Row, NEW c \in Column, NEW v \in Versions,
         db' = [db EXCEPT ![r][c] = [row |-> r, version |-> v]]
  PROVE  DbOwn'
BY DEF DbOwn, Part, Versions

LEMMA NextColumnFine ==
  ASSUME IInv, NEW h \in Handler, handler[h].does = "copy", NextColumn(h, "copy", "pad")
  PROVE  \E w : /\ Fine(w) /\ w.does \in Writing
                /\ handler' = [handler EXCEPT ![h] = w]
<1>1. handler[h] \in Writer
  BY WriterIs DEF IInv, Writing
<1>2. CASE handler[h].column + 1 \in Column
  <2>1. PICK w : w = [handler[h] EXCEPT !.does = "copy", !.column = handler[h].column + 1]
    OBVIOUS
  <2>2. w \in Writer /\ w.does = "copy"
    BY <1>1, <1>2, <2>1 DEF Writer, Writing
  <2>3. handler' = [handler EXCEPT ![h] = w]
    BY <1>1, <1>2, <2>1 DEF NextColumn, Goes, Writer, IInv, Counters
  <2> QED BY <2>2, <2>3 DEF Fine, Writing
<1>3. CASE handler[h].column + 1 \notin Column
  <2>1. PICK w : w = [handler[h] EXCEPT !.does = "pad", !.column = 0]
    OBVIOUS
  <2>2. w \in Writer /\ w.does = "pad"
    BY <1>1, <2>1, Sizes DEF Writer, Writing
  <2>3. handler' = [handler EXCEPT ![h] = w]
    BY <1>1, <1>3, <2>1 DEF NextColumn, Goes, Writer, IInv, Counters
  <2> QED BY <2>2, <2>3 DEF Fine, Writing
<1> QED BY <1>2, <1>3

LEMMA CopyStep ==
  ASSUME IInv, NEW h \in Handler, Copy(h) PROVE IInv'
<1>1. handler[h].does = "copy" /\ handler[h] \in Writer
  BY WriterIs DEF Copy, IInv, Writing
<1>2. PICK w : /\ Fine(w) /\ w.does \in Writing
               /\ handler' = [handler EXCEPT ![h] = w]
  BY <1>1, NextColumnFine DEF Copy
<1>3. DbOwn'
  <2>1. PICK r \in Row, c \in Column, v \in Versions :
          r = handler[h].row /\ c = handler[h].column /\ v = handler[h].version
    BY <1>1 DEF Writer
  <2>2. db' = [db EXCEPT ![r][c] = [row |-> r, version |-> v]]
    BY <2>1 DEF Copy
  <2> QED BY <2>2, OwnWrite DEF IInv
<1>4. UNCHANGED <<excess, seal_db, version, done, alone, raced>>
  BY DEF Copy
<1>5. SealOwn' /\ excess' \in Int
  BY <1>4, Unwritten DEF IInv, Counters
<1> QED BY <1>2, <1>3, <1>4, <1>5, GoesOnAs

LEMMA LoadSizeStep ==
  ASSUME IInv, NEW h \in Handler, LoadSize(h) PROVE IInv'
<1>1. handler[h].does \in {"pad", "pop"} /\ handler[h] \in Writer
      /\ (handler[h].does = "pop" =>
            handler[h].coefficients \in OwnRows(BlockOf(handler[h].row)))
  BY WriterIs DEF LoadSize, IInv, Writing
<1>2. PICK w : w = [handler[h] EXCEPT !.size = excess,
                      !.does = IF @ = "pad" THEN "padded" ELSE "popped"]
  OBVIOUS
<1>3. handler' = [handler EXCEPT ![h] = w]
      /\ UNCHANGED <<db, excess, seal_db, version, done, alone, raced>>
  BY <1>1, <1>2 DEF LoadSize, Writer, IInv, Counters
<1>4. /\ w \in Writer /\ w.row = handler[h].row /\ w.coefficients = handler[h].coefficients
      /\ w.does = (IF handler[h].does = "pad" THEN "padded" ELSE "popped")
  BY <1>1, <1>2 DEF Writer, Writing, IInv, Counters
<1>5. Fine(w) /\ w.does \in Writing
  BY <1>1, <1>4 DEF Fine, Writing
<1>6. DbOwn' /\ SealOwn' /\ excess' \in Int
  BY <1>3, Unwritten DEF IInv, Counters
<1> QED BY <1>3, <1>5, <1>6, GoesOnAs

\* A thread only changes where it is.
LEMMA GoesTo ==
  ASSUME IInv, NEW h \in Handler, NEW does \in Writing, NEW c \in Column,
         handler[h] \in Writer, Goes(h, does, c),
         does \in {"pop", "popped", "encode"} =>
           handler[h].coefficients \in OwnRows(BlockOf(handler[h].row))
  PROVE  \E w : /\ Fine(w) /\ w.does \in Writing
                /\ handler' = [handler EXCEPT ![h] = w]
<1>1. PICK w : w = [handler[h] EXCEPT !.does = does, !.column = c]
  OBVIOUS
<1>2. handler' = [handler EXCEPT ![h] = w]
  BY <1>1 DEF Goes, Writer, IInv, Counters
<1>3. /\ w \in Writer /\ w.row = handler[h].row /\ w.coefficients = handler[h].coefficients
      /\ w.does = does
  BY <1>1 DEF Writer
<1> QED BY <1>2, <1>3 DEF Fine

LEMMA PadStep ==
  ASSUME IInv, NEW h \in Handler, Pad(h) PROVE IInv'
<1>1. handler[h].does = "padded" /\ handler[h] \in Writer
      /\ handler[h].column \in Column /\ handler[h].size \in Int
  BY WriterIs DEF Pad, IInv, Writing, Writer
<1>2. PICK w : Fine(w) /\ w.does \in Writing /\ handler' = [handler EXCEPT ![h] = w]
  BY <1>1, GoesTo DEF Pad, Writing
<1>3. DbOwn'
  <2>1. CASE db' = db
    BY <2>1, Unwritten DEF IInv
  <2>2. CASE db' = [db EXCEPT ![LastRow][LastColumn] = [row |-> LastRow, version |-> 0]]
    BY <2>2, OwnWrite, Sizes DEF IInv
  <2> QED BY <2>1, <2>2 DEF Pad, Zero
<1>4. excess' \in Int /\ UNCHANGED <<seal_db, version, done, alone, raced>>
  BY <1>1 DEF Pad
<1>5. SealOwn'
  BY <1>4, Unwritten DEF IInv
<1> QED BY <1>2, <1>3, <1>4, <1>5, GoesOnAs

\* Whatever the size of the matrix, what is read of a row is of that row, or zero.
LEMMA SubmatrixOwn ==
  ASSUME DbOwn, NEW r \in Row, NEW c \in Column
  PROVE  Submatrix(BlockOf(r), c) \in OwnRows(BlockOf(r))
<1>1. \A q \in RowsOf(BlockOf(r)) : q \in Row
  BY BlockOfRow
<1>2. \A q \in Row : /\ db[q][c] \in Part /\ db[q][c].row = q
                     /\ Zero(q) \in Part /\ Zero(q).row = q
  BY ZeroPart DEF DbOwn
<1> QED BY <1>1, <1>2 DEF Submatrix, OwnRows

LEMMA ReadStep ==
  ASSUME IInv, NEW h \in Handler, Read(h) PROVE IInv'
<1>1. handler[h].does = "read" /\ handler[h] \in Writer
      /\ handler[h].row \in Row /\ handler[h].column \in Column
  BY WriterIs DEF Read, IInv, Writing, Writer
<1>2. PICK f : f = Submatrix(BlockOf(handler[h].row), handler[h].column)
  OBVIOUS
<1>3. f \in OwnRows(BlockOf(handler[h].row)) /\ f \in Coefficients
  BY <1>1, <1>2, SubmatrixOwn, OwnRowsAre DEF IInv, Coefficients
<1>4. PICK w : w = [handler[h] EXCEPT !.does = "pop", !.coefficients = f]
  OBVIOUS
<1>5. handler' = [handler EXCEPT ![h] = w]
      /\ UNCHANGED <<db, excess, seal_db, version, done, alone, raced>>
  BY <1>1, <1>2, <1>4 DEF Read, Writer, IInv, Counters
<1>6. w \in Writer /\ w.does = "pop" /\ w.row = handler[h].row /\ w.coefficients = f
  BY <1>1, <1>3, <1>4 DEF Writer, Writing
<1>7. Fine(w) /\ w.does \in Writing
  BY <1>3, <1>6 DEF Fine, Writing
<1>8. DbOwn' /\ SealOwn' /\ excess' \in Int
  BY <1>5, Unwritten DEF IInv, Counters
<1> QED BY <1>5, <1>7, <1>8, GoesOnAs

LEMMA PopStep ==
  ASSUME IInv, NEW h \in Handler, Pop(h) PROVE IInv'
<1>1. handler[h].does = "popped" /\ handler[h] \in Writer
      /\ handler[h].column \in Column /\ handler[h].size \in Int
      /\ handler[h].coefficients \in OwnRows(BlockOf(handler[h].row))
  BY WriterIs DEF Pop, IInv, Writing, Writer
<1>2. PICK w : Fine(w) /\ w.does \in Writing /\ handler' = [handler EXCEPT ![h] = w]
  BY <1>1, GoesTo DEF Pop, Writing
<1>3. excess' \in Int /\ UNCHANGED <<db, seal_db, version, done, alone, raced>>
  BY <1>1 DEF Pop
<1>4. DbOwn' /\ SealOwn'
  BY <1>3, Unwritten DEF IInv
<1> QED BY <1>2, <1>3, <1>4, GoesOnAs

\* Only the encoding of the thread's own block is written, with what it read there.
LEMMA EncodeOwn ==
  ASSUME SealOwn, NEW r \in Row, NEW c \in Column, NEW f \in OwnRows(BlockOf(r)),
         seal_db' = [seal_db EXCEPT ![BlockOf(r)][c] = f]
  PROVE  SealOwn'
<1>1. BlockOf(r) \in Block /\ f \in UNION {[RowsOf(b) -> Part] : b \in Block}
  BY BlockOfRow, OwnRowsAre
<1>2. \A b \in Block, d \in Column :
        seal_db'[b][d] = IF b = BlockOf(r) /\ d = c THEN f ELSE seal_db[b][d]
  BY <1>1 DEF SealOwn
<1>3. seal_db' \in [Block -> [Column -> UNION {[RowsOf(b) -> Part] : b \in Block}]]
  BY <1>1 DEF SealOwn
<1> QED BY <1>2, <1>3 DEF SealOwn

LEMMA EncodeStep ==
  ASSUME IInv, NEW h \in Handler, EncodeColumn(h) PROVE IInv'
<1>1. handler[h].does = "encode" /\ handler[h] \in Writer
      /\ handler[h].row \in Row /\ handler[h].column \in Column
      /\ handler[h].version \in Versions
      /\ handler[h].coefficients \in OwnRows(BlockOf(handler[h].row))
  BY WriterIs DEF EncodeColumn, IInv, Writing, Writer
<1>2. UNCHANGED <<db, excess, version, raced>>
      /\ seal_db' = [seal_db EXCEPT ![BlockOf(handler[h].row)][handler[h].column]
                                      = handler[h].coefficients]
  BY DEF EncodeColumn
<1>3. SealOwn'
  <2>1. PICK r \in Row, c \in Column : r = handler[h].row /\ c = handler[h].column
    BY <1>1
  <2>2. PICK f \in OwnRows(BlockOf(r)) : f = handler[h].coefficients
    BY <1>1, <2>1
  <2>3. seal_db' = [seal_db EXCEPT ![BlockOf(r)][c] = f]
    BY <1>2, <2>1, <2>2
  <2> QED BY <2>3, EncodeOwn DEF IInv
<1>4. DbOwn' /\ excess' \in Int
  BY <1>2, Unwritten DEF IInv, Counters
<1>5. CASE Returns(h)
  <2>1. Fine(Idle) /\ Idle.does \notin Writing
    BY DEF Fine, Idle, Writing
  <2>2. /\ HandlersFine' /\ DOMAIN handler' = Handler
        /\ Writers' = Writers \ {h}
    BY <1>5, <2>1, HandlerSet DEF Returns
  <2>3. done' \in [Row -> Versions] /\ alone' \subseteq Writers'
    BY <1>1, <1>5, <2>2 DEF Returns, IInv, Counters
  <2>4. Counters'
    BY <1>2, <1>4, <2>2, <2>3 DEF IInv, Counters
  <2> QED BY <1>3, <1>4, <2>2, <2>4 DEF IInv
<1>6. CASE /\ handler[h].column # LastColumn /\ Goes(h, "pad", handler[h].column + 1)
           /\ UNCHANGED <<done, alone>>
  <2>1. handler[h].column + 1 \in Column
    BY <1>1, <1>6, Sizes DEF Column, LastColumn
  <2>2. PICK w : Fine(w) /\ w.does \in Writing /\ handler' = [handler EXCEPT ![h] = w]
    BY <1>1, <1>6, <2>1, GoesTo DEF Writing
  <2> QED BY <1>2, <1>3, <1>4, <1>6, <2>2, GoesOnAs
<1> QED BY <1>5, <1>6 DEF EncodeColumn

-----------------------------------------------------------------------------
(* The steps of get_value_privately.                                       *)

LEMMA BeginGetStep ==
  ASSUME IInv, NEW h \in Handler, NEW r \in Row, BeginGet(h, r) PROVE IInv'
<1>0. PICK w : w = [does |-> "answer", row |-> r, column |-> 0, since |-> done[r],
                    answer |-> <<>>]
  OBVIOUS
<1>1. handler' = [handler EXCEPT ![h] = w]
      /\ UNCHANGED <<db, excess, seal_db, version, done, alone, raced>>
  BY <1>0 DEF BeginGet
<1>2. handler[h] = Idle
  BY DEF BeginGet
<1>3. <<>> \in OwnAnswers(r, 0) /\ <<>> \in Answers
  <2>1. 0..(0 - 1) = {} /\ 0 \in 0..SEAL_DB_COLUMNS
    BY Sizes
  <2> QED BY <2>1 DEF OwnAnswers, Answers
<1>4. w \in Reader /\ w.answer = <<>> /\ w.row = r /\ w.column = 0
  BY <1>0, <1>3, Sizes DEF Reader, IInv, Counters
<1>5. Fine(w)
  BY <1>3, <1>4 DEF Fine
<1>6. h \notin alone
  BY <1>2 DEF IInv, Counters, Writers, Idle, Writing
<1>7. DbOwn' /\ SealOwn' /\ excess' \in Int
  BY <1>1, Unwritten DEF IInv, Counters
<1> QED BY <1>1, <1>5, <1>6, <1>7, GoesOnAs

LEMMA AnswerGoesOn ==
  ASSUME IInv, NEW h \in Handler, AnswerQuery(h) PROVE IInv'
<1>1. /\ handler[h] \in Reader /\ handler[h].row \in Row /\ handler[h].column \in Column
      /\ handler[h].answer \in OwnAnswers(handler[h].row, handler[h].column)
      /\ handler[h].does = "answer"
  BY ReaderIs DEF AnswerQuery, IInv, Reader
<1>2. PICK r \in Row, n \in Column : r = handler[h].row /\ n = handler[h].column
  BY <1>1
<1>3. PICK a : a = [c \in 0..n |-> IF c < n THEN handler[h].answer[c]
                                   ELSE seal_db[BlockOf(r)][c][r]]
  OBVIOUS
<1>4. n \in Nat /\ n < SEAL_DB_COLUMNS /\ n + 1 \in 0..SEAL_DB_COLUMNS
      /\ (n + 1) - 1 = n /\ 0..n \subseteq Column
  BY <1>2, Sizes DEF Column
<1>5. a \in OwnAnswers(r, n + 1)
  <2>1. \A c \in 0..n : c < n => c \in 0..(n - 1)
    BY <1>4
  <2>2. \A c \in 0..(n - 1) : handler[h].answer[c] \in Part /\ handler[h].answer[c].row = r
    BY <1>1, <1>2 DEF OwnAnswers
  <2>3. \A c \in Column : /\ seal_db[BlockOf(r)][c][r] \in Part
                          /\ seal_db[BlockOf(r)][c][r].row = r
    BY BlockOfRow DEF IInv, SealOwn, OwnRows
  <2>4. \A c \in 0..n : a[c] \in Part /\ a[c].row = r
    BY <1>3, <1>4, <2>1, <2>2, <2>3
  <2>5. DOMAIN a = 0..n /\ a \in [0..n -> Part]
    BY <1>3, <2>4
  <2> QED BY <1>4, <2>4, <2>5 DEF OwnAnswers
<1>6. a \in Answers
  BY <1>4, <1>5 DEF OwnAnswers, Answers
<1>7. PICK w : w = [handler[h] EXCEPT !.column = n + 1, !.answer = a]
  OBVIOUS
<1>8. handler' = [handler EXCEPT ![h] = w]
      /\ UNCHANGED <<db, excess, seal_db, version, done, alone, raced>>
  BY <1>1, <1>2, <1>3, <1>7 DEF AnswerQuery, Reader, IInv, Counters
<1>9. w \in Reader /\ w.row = r /\ w.column = n + 1 /\ w.answer = a
  BY <1>1, <1>2, <1>4, <1>6, <1>7 DEF Reader
<1>10. Fine(w)
  BY <1>5, <1>9 DEF Fine
<1>11. h \notin alone
  BY <1>1 DEF IInv, Counters, Writers, Writing
<1>12. DbOwn' /\ SealOwn' /\ excess' \in Int
  BY <1>8, Unwritten DEF IInv, Counters
<1> QED BY <1>8, <1>10, <1>11, <1>12, GoesOnAs

LEMMA EndGetStep ==
  ASSUME IInv, NEW h \in Handler, EndGet(h) PROVE IInv'
<1>1. handler' = [handler EXCEPT ![h] = Idle]
      /\ UNCHANGED <<db, excess, seal_db, version, done, alone, raced>>
  BY DEF EndGet
<1>2. Fine(Idle)
  BY DEF Fine
<1>3. h \notin alone
  BY DEF EndGet, IInv, Counters, Writers, Writing
<1>4. DbOwn' /\ SealOwn' /\ excess' \in Int
  BY <1>1, Unwritten DEF IInv, Counters
<1> QED BY <1>1, <1>2, <1>3, <1>4, GoesOnAs

-----------------------------------------------------------------------------

LEMMA InitiallyIInv ==
  ASSUME PirInit PROVE IInv
<1>1. DbOwn
  BY ZeroPart DEF PirInit, DbOwn
<1>2. \A b \in Block : [r \in RowsOf(b) |-> Zero(r)] \in OwnRows(b)
  BY ZeroPart DEF OwnRows, RowsOf
<1>3. SealOwn
  BY <1>2 DEF PirInit, SealOwn, OwnRows
<1>4. HandlersFine
  BY DEF PirInit, HandlersFine, Fine
<1>5. Writers = {} /\ alone = {} /\ raced = FALSE /\ excess = 0 /\ DOMAIN handler = Handler
  BY DEF PirInit, Writers, Idle, Writing
<1>6. version \in [Row -> Versions] /\ done \in [Row -> Versions]
  BY Sizes DEF PirInit
<1>7. alone \subseteq Writers /\ excess \in Int
  BY <1>5
<1>8. Counters
  BY <1>5, <1>6, <1>7, Zenon DEF Counters
<1> QED BY <1>1, <1>3, <1>4, <1>8 DEF IInv

LEMMA Inductive == PirSpec => []IInv
<1>1. PirInit => IInv
  BY InitiallyIInv
<1>2. IInv /\ [PirNext]_pirVars => IInv'
  <2> SUFFICES ASSUME IInv, [PirNext]_pirVars PROVE IInv'
    OBVIOUS
  <2>1. CASE \E h \in Handler : GoesOn(h)
    BY <2>1, CopyStep, LoadSizeStep, PadStep, ReadStep, PopStep, EncodeStep, AnswerGoesOn,
       EndGetStep DEF GoesOn
  <2>2. CASE \E h \in Handler : \E r \in Row : BeginSet(h, r) \/ BeginGet(h, r)
    BY <2>2, BeginSetStep, BeginGetStep
  <2>3. CASE UNCHANGED pirVars
    <3>1. DbOwn' /\ SealOwn'
      BY <2>3, Unwritten DEF pirVars, IInv
    <3>2. HandlersFine' /\ Counters'
      BY <2>3 DEF pirVars, IInv, HandlersFine, Counters, Writers
    <3> QED BY <3>1, <3>2 DEF IInv
  <2> QED BY <2>1, <2>2, <2>3 DEF PirNext
<1> QED BY <1>1, <1>2, PTL DEF PirSpec

-----------------------------------------------------------------------------

\* Every variable keeps its type, for any number of threads, rows, columns and writers.
THEOREM PirTypeCorrect == PirSpec => []PirTypeOK
<1>1. IInv => PirTypeOK
  <2> SUFFICES ASSUME IInv PROVE PirTypeOK
    OBVIOUS
  <2>1. ASSUME NEW h \in Handler
        PROVE  \/ handler[h] = Idle
               \/ /\ handler[h].does \in Writing
                  /\ handler[h].row \in Row /\ handler[h].column \in Column
               \/ /\ handler[h].does = "answer" /\ handler[h].row \in Row
                  /\ handler[h].answer \in [0..(handler[h].column - 1) -> Part]
    BY DEF IInv, HandlersFine, Fine, Writer, Reader, OwnAnswers
  <2> QED BY <2>1 DEF IInv, DbOwn, SealOwn, Counters, PirTypeOK, Versions
<1> QED BY <1>1, Inductive, PTL

\* Whatever any number of threads do to the memory they share without a lock, no query
\* returns a part of another mailbox.
THEOREM NothingForeign == PirSpec => []NoForeignParts
<1>1. IInv => NoForeignParts
  <2> SUFFICES ASSUME IInv, NEW h \in Handler, handler[h].does = "answer",
                      NEW c \in DOMAIN handler[h].answer
               PROVE  handler[h].answer[c].row = handler[h].row
    BY DEF NoForeignParts
  <2>1. handler[h].answer \in OwnAnswers(handler[h].row, handler[h].column)
    BY ReaderIs DEF IInv
  <2> QED BY <2>1 DEF OwnAnswers
<1> QED BY <1>1, Inductive, PTL

-----------------------------------------------------------------------------
(* Writes that have no other beside them.                                  *)

LEMMA HandlerIs ==
  ASSUME IInv, NEW h \in Handler, NEW w, handler' = [handler EXCEPT ![h] = w]
  PROVE  /\ handler'[h] = w
         /\ \A g \in Handler : g # h => handler'[g] = handler[g]
         /\ Writers' = IF w.does \in Writing THEN Writers \cup {h} ELSE Writers \ {h}
<1>1. /\ handler'[h] = w
      /\ \A g \in Handler : g # h => handler'[g] = handler[g]
  BY DEF IInv, Counters
<1> QED BY <1>1 DEF Writers

\* A thread goes on writing, as w.
LEMMA AloneWrites ==
  ASSUME IInv, AloneInv, NEW h \in Handler, NEW w, handler[h].does \in Writing,
         w.does \in Writing, handler' = [handler EXCEPT ![h] = w], UNCHANGED alone,
         h \in alone => HasRows(w, db') /\ Encoded(w, db', seal_db')
  PROVE  AloneInv'
<1>1. h \in Writers /\ Writers' = Writers
  BY HandlerIs DEF Writers
<1> SUFFICES ASSUME NEW g \in alone
             PROVE  /\ Writers = {g}
                    /\ HasRows(handler'[g], db') /\ Encoded(handler'[g], db', seal_db')
  BY <1>1 DEF AloneInv, HasRows, Encoded
<1>2. Writers = {g} /\ g = h
  BY <1>1 DEF AloneInv
<1>3. handler'[g] = w
  BY <1>2, HandlerIs
<1> QED BY <1>2, <1>3

LEMMA LoneWrites ==
  ASSUME IInv, AloneInv, LoneInv, NEW h \in Handler, NEW w, handler[h].does \in Writing,
         w.does \in Writing, handler' = [handler EXCEPT ![h] = w],
         UNCHANGED <<alone, raced, done>>,
         ~ raced => /\ RowsKept(db', seal_db', done) /\ Size(w, excess') /\ Brings(w, done)
                    /\ HasWritten(w, db', seal_db')
  PROVE  LoneInv'
<1>1. h \in Writers /\ Writers' = Writers /\ handler'[h] = w
      /\ \A g \in Handler : g # h => handler'[g] = handler[g]
  BY HandlerIs DEF Writers
<1> SUFFICES ASSUME ~ raced
             PROVE  /\ Writers = alone /\ RowsKept(db', seal_db', done)
                    /\ \A g \in Writers : /\ Size(handler'[g], excess')
                                          /\ Brings(handler'[g], done)
                                          /\ HasWritten(handler'[g], db', seal_db')
                    /\ \A g \in Handler : handler'[g].does = "answer" => RowFound(handler'[g], done)
  BY <1>1 DEF LoneInv
<1>2. Writers = alone /\ Writers = {h}
  BY <1>1 DEF LoneInv, AloneInv
<1>3. ASSUME NEW g \in Handler, handler'[g].does = "answer" PROVE RowFound(handler'[g], done)
  BY <1>1, <1>3 DEF LoneInv, Writing
<1> QED BY <1>1, <1>2, <1>3

\* A thread that does not write goes on, as w.
LEMMA AloneReads ==
  ASSUME IInv, AloneInv, NEW h \in Handler, NEW w, handler[h].does \notin Writing,
         w.does \notin Writing, handler' = [handler EXCEPT ![h] = w],
         UNCHANGED <<db, seal_db, alone>>
  PROVE  AloneInv'
<1>1. h \notin Writers /\ Writers' = Writers
      /\ \A g \in Handler : g # h => handler'[g] = handler[g]
  BY HandlerIs DEF Writers
<1>2. \A g \in alone : g \in Handler /\ g # h
  BY <1>1 DEF IInv, Counters, Writers
<1>3. \A g \in alone : handler'[g] = handler[g]
  BY <1>1, <1>2
<1> QED BY <1>1, <1>3 DEF AloneInv, HasRows, Encoded

LEMMA LoneReads ==
  ASSUME IInv, LoneInv, NEW h \in Handler, NEW w, handler[h].does \notin Writing,
         w.does \notin Writing, handler' = [handler EXCEPT ![h] = w],
         UNCHANGED <<db, excess, seal_db, alone, raced, done>>,
         ~ raced /\ w.does = "answer" => RowFound(w, done)
  PROVE  LoneInv'
<1>1. h \notin Writers /\ Writers' = Writers /\ handler'[h] = w
      /\ \A g \in Handler : g # h => handler'[g] = handler[g]
  BY HandlerIs DEF Writers
<1> SUFFICES ASSUME ~ raced
             PROVE  /\ Writers = alone /\ RowsKept(db, seal_db, done)
                    /\ Writers = {} => excess = 0
                    /\ \A g \in Writers : /\ Size(handler'[g], excess)
                                          /\ Brings(handler'[g], done)
                                          /\ HasWritten(handler'[g], db, seal_db)
                    /\ \A g \in Handler : handler'[g].does = "answer" => RowFound(handler'[g], done)
  BY <1>1 DEF LoneInv
<1>2. \A g \in Writers : g \in Handler /\ handler'[g] = handler[g]
  BY <1>1 DEF Writers
<1> QED BY <1>1, <1>2 DEF LoneInv

LEMMA GoesIs ==
  ASSUME IInv, NEW h \in Handler, handler[h] \in Writer, NEW does, NEW c, Goes(h, does, c)
  PROVE  \E w : /\ handler' = [handler EXCEPT ![h] = w]
                /\ w.does = does /\ w.column = c /\ w.row = handler[h].row
                /\ w.version = handler[h].version /\ w.size = handler[h].size
                /\ w.coefficients = handler[h].coefficients
<1>1. PICK w : w = [handler[h] EXCEPT !.does = does, !.column = c]
  OBVIOUS
<1>2. handler' = [handler EXCEPT ![h] = w]
  BY <1>1 DEF Goes, Writer, IInv, Counters
<1>3. /\ w.does = does /\ w.column = c /\ w.row = handler[h].row
      /\ w.version = handler[h].version /\ w.size = handler[h].size
      /\ w.coefficients = handler[h].coefficients
  BY <1>1 DEF Writer
<1> QED BY <1>2, <1>3

\* What the types say of a writer.
LEMMA OfWriter ==
  ASSUME IInv, NEW h \in Handler, handler[h].does \in Writing
  PROVE  /\ handler[h] \in Writer /\ handler[h].row \in Row /\ handler[h].column \in Column
         /\ handler[h].version \in Versions /\ handler[h].size \in Int
         /\ handler[h].column \in Int /\ h \in Writers
         /\ BlockOf(handler[h].row) \in Block
         /\ handler[h].row \in RowsOf(BlockOf(handler[h].row))
<1>1. handler[h] \in Writer
  BY WriterIs DEF IInv
<1>2. handler[h].row \in Row /\ handler[h].column \in Column
      /\ handler[h].version \in Versions /\ handler[h].size \in Int
  BY <1>1 DEF Writer
<1> QED BY <1>1, <1>2, BlockOfRow, Sizes DEF Column, Writers

\* What holds of the thread itself when it is alone, and when nobody has raced.
LEMMA WritesAlone ==
  ASSUME IInv, AloneInv, LoneInv, NEW h \in Handler, handler[h].does \in Writing
  PROVE  /\ h \in alone => /\ Writers = {h}
                           /\ HasRows(handler[h], db) /\ Encoded(handler[h], db, seal_db)
         /\ ~ raced => /\ h \in alone /\ RowsKept(db, seal_db, done)
                       /\ Size(handler[h], excess) /\ Brings(handler[h], done)
                       /\ HasWritten(handler[h], db, seal_db)
BY OfWriter DEF AloneInv, LoneInv

AllInv == IInv /\ AloneInv /\ LoneInv

LEMMA CopyKeeps ==
  ASSUME AllInv, NEW h \in Handler, Copy(h) PROVE AloneInv' /\ LoneInv'
<1>1. /\ handler[h].does = "copy" /\ handler[h].does \in Writing
      /\ UNCHANGED <<excess, seal_db, version, done, alone, raced>>
  BY DEF Copy, Writing
<1>2. PICK r \in Row, c \in Column, v \in Versions :
        r = handler[h].row /\ c = handler[h].column /\ v = handler[h].version
  BY <1>1, OfWriter DEF AllInv
<1>3. \A q \in Row, d \in Column :
        db'[q][d] = IF q = r /\ d = c THEN [row |-> r, version |-> v] ELSE db[q][d]
  BY <1>2 DEF Copy, AllInv, IInv, DbOwn
<1>4. PICK w : /\ handler' = [handler EXCEPT ![h] = w]
               /\ w.row = r /\ w.version = v
               /\ \/ w.does = "copy" /\ w.column = c + 1
                  \/ w.does = "pad" /\ w.column = 0 /\ c + 1 \notin Column
  BY <1>1, <1>2, OfWriter, GoesIs DEF Copy, NextColumn, AllInv
<1>5. c \in 0..LastColumn /\ c \in Int /\ Column = 0..LastColumn /\ LastColumn \in Nat
  BY Sizes DEF Column, LastColumn
<1>6. w.does \in Writing /\ w.does \notin HasRead
  BY <1>4 DEF Writing, HasRead
<1>7. HasRows(w, db') /\ Encoded(w, db', seal_db')
  BY <1>4, <1>5, <1>6 DEF HasRows, Encoded
<1>8. AloneInv'
  BY <1>1, <1>4, <1>6, <1>7, AloneWrites DEF AllInv
<1>9. ASSUME ~ raced
      PROVE  /\ RowsKept(db', seal_db', done) /\ Size(w, excess') /\ Brings(w, done)
             /\ HasWritten(w, db', seal_db')
  <2>1. /\ RowsKept(db, seal_db, done) /\ Size(handler[h], excess) /\ Brings(handler[h], done)
        /\ HasWritten(handler[h], db, seal_db)
    BY <1>1, <1>9, WritesAlone DEF AllInv
  <2>2. v >= done[r]
    BY <1>2, <2>1 DEF Brings
  <2>3. RowsKept(db', seal_db', done)
    BY <1>1, <1>3, <2>1, <2>2 DEF RowsKept
  <2>4. Size(w, excess')
    BY <1>1, <1>4, <2>1 DEF Size
  <2>5. Brings(w, done)
    BY <1>4, <1>6, <2>2 DEF Brings
  <2>6. \A d \in Column : d < c => db[r][d].version >= v
    BY <1>1, <1>2, <2>1 DEF HasWritten
  <2>7. \A d \in Column : d < c \/ d = c => db'[r][d].version >= v
    BY <1>3, <1>5, <2>6 DEF Versions
  <2>8. \A d \in Column : (w.does = "copy" => d < w.column) => db'[r][d].version >= v
    <3>1. \A d \in Column : d < c + 1 => d < c \/ d = c
      BY <1>5
    <3>2. c + 1 \notin Column => \A d \in Column : d < c + 1
      BY <1>5
    <3> QED BY <1>4, <2>7, <3>1, <3>2
  <2>9. w.does # "copy" => \A d \in Column : ~ (d < w.column)
    BY <1>4, <1>5
  <2>10. HasWritten(w, db', seal_db')
    BY <1>4, <1>6, <2>8, <2>9 DEF HasWritten
  <2> QED BY <2>3, <2>4, <2>5, <2>10
<1>10. LoneInv'
  BY <1>1, <1>4, <1>6, <1>9, LoneWrites DEF AllInv
<1> QED BY <1>8, <1>10

LEMMA LoadSizeKeeps ==
  ASSUME AllInv, NEW h \in Handler, LoadSize(h) PROVE AloneInv' /\ LoneInv'
<1>1. /\ handler[h].does \in {"pad", "pop"} /\ handler[h].does \in Writing
      /\ UNCHANGED <<db, excess, seal_db, version, done, alone, raced>>
  BY DEF LoadSize, Writing
<1>2. PICK w : w = [handler[h] EXCEPT !.size = excess,
                      !.does = IF @ = "pad" THEN "padded" ELSE "popped"]
  OBVIOUS
<1>3. handler[h] \in Writer /\ handler' = [handler EXCEPT ![h] = w]
  BY <1>1, <1>2, OfWriter DEF LoadSize, Writer, AllInv, IInv, Counters
<1>4. /\ w.row = handler[h].row /\ w.version = handler[h].version
      /\ w.column = handler[h].column /\ w.coefficients = handler[h].coefficients
      /\ w.size = excess
      /\ handler[h].does = "pad" => w.does = "padded"
      /\ handler[h].does = "pop" => w.does = "popped"
  BY <1>2, <1>3 DEF Writer
<1>5. /\ w.does \in Writing /\ w.does # "copy" /\ handler[h].does # "copy"
      /\ w.does \in HasRead <=> handler[h].does \in HasRead
  BY <1>1, <1>4 DEF Writing, HasRead
<1>6. HasRows(handler[h], db) => HasRows(w, db)
  BY <1>4, <1>5 DEF HasRows
<1>7. Encoded(handler[h], db, seal_db) => Encoded(w, db, seal_db)
  BY <1>4, <1>5 DEF Encoded
<1>8. AloneInv'
  BY <1>1, <1>3, <1>5, <1>6, <1>7, AloneWrites, WritesAlone DEF AllInv
<1>9. Size(handler[h], excess) => Size(w, excess)
  BY <1>1, <1>4 DEF Size
<1>10. Brings(handler[h], done) => Brings(w, done)
  BY <1>4, <1>5 DEF Brings
<1>11. HasWritten(handler[h], db, seal_db) => HasWritten(w, db, seal_db)
  BY <1>4, <1>5 DEF HasWritten
<1>12. LoneInv'
  BY <1>1, <1>3, <1>5, <1>9, <1>10, <1>11, LoneWrites, WritesAlone DEF AllInv
<1> QED BY <1>8, <1>12

LEMMA PadKeeps ==
  ASSUME AllInv, NEW h \in Handler, Pad(h) PROVE AloneInv' /\ LoneInv'
<1>1. /\ handler[h].does = "padded" /\ handler[h].does \in Writing
      /\ UNCHANGED <<seal_db, version, done, alone, raced>>
      /\ excess' = handler[h].size + 1
  BY DEF Pad, Writing
<1>2. PICK w : /\ handler' = [handler EXCEPT ![h] = w]
               /\ w.does = "read" /\ w.column = handler[h].column /\ w.row = handler[h].row
               /\ w.version = handler[h].version
  BY <1>1, OfWriter, GoesIs DEF Pad, AllInv
<1>3. \A r \in Row \ {LastRow}, c \in Column : db'[r][c] = db[r][c]
  BY DEF Pad, AllInv, IInv, DbOwn
<1>4. w.does \in Writing /\ w.does \notin HasRead
  BY <1>2 DEF Writing, HasRead
<1>5. HasRows(w, db')
  BY <1>4 DEF HasRows
<1>6. Encoded(handler[h], db, seal_db) => Encoded(w, db', seal_db')
  <2>1. \A r \in OtherRows(BlockOf(w.row)) : r \in Row \ {LastRow}
    BY DEF OtherRows, RowsOf
  <2> QED BY <1>1, <1>2, <1>3, <2>1 DEF Encoded
<1>7. AloneInv'
  BY <1>1, <1>2, <1>4, <1>5, <1>6, AloneWrites, WritesAlone DEF AllInv
<1>8. ASSUME ~ raced
      PROVE  /\ RowsKept(db', seal_db', done) /\ Size(w, excess') /\ Brings(w, done)
             /\ HasWritten(w, db', seal_db')
  <2>1. /\ RowsKept(db, seal_db, done) /\ Size(handler[h], excess) /\ Brings(handler[h], done)
        /\ HasWritten(handler[h], db, seal_db)
    BY <1>1, <1>8, WritesAlone DEF AllInv
  <2>2. handler[h].size = 0
    BY <1>1, <2>1 DEF Size
  <2>3. db' = db /\ excess' = 1
    BY <1>1, <2>2 DEF Pad
  <2>4. Size(w, excess')
    BY <1>2, <2>3 DEF Size
  <2>5. Brings(w, done)
    BY <1>2, <1>4, <2>1 DEF Brings
  <2>6. HasWritten(w, db', seal_db')
    BY <1>1, <1>2, <1>4, <2>1, <2>3 DEF HasWritten
  <2> QED BY <1>1, <2>1, <2>3, <2>4, <2>5, <2>6
<1>9. LoneInv'
  BY <1>1, <1>2, <1>4, <1>8, LoneWrites DEF AllInv
<1> QED BY <1>7, <1>9

LEMMA ReadKeeps ==
  ASSUME AllInv, NEW h \in Handler, Read(h) PROVE AloneInv' /\ LoneInv'
<1>1. /\ handler[h].does = "read" /\ handler[h].does \in Writing
      /\ UNCHANGED <<db, excess, seal_db, version, done, alone, raced>>
  BY DEF Read, Writing
<1>2. PICK r \in Row, c \in Column : r = handler[h].row /\ c = handler[h].column
  BY <1>1, OfWriter DEF AllInv
<1>3. PICK w : w = [handler[h] EXCEPT !.does = "pop",
                                      !.coefficients = Submatrix(BlockOf(r), c)]
  OBVIOUS
<1>4. handler[h] \in Writer /\ handler' = [handler EXCEPT ![h] = w]
  BY <1>1, <1>2, <1>3, OfWriter DEF Read, Writer, AllInv, IInv, Counters
<1>5. /\ w.does = "pop" /\ w.row = r /\ w.column = c /\ w.version = handler[h].version
      /\ w.coefficients = Submatrix(BlockOf(r), c)
  BY <1>2, <1>3, <1>4 DEF Writer
<1>6. w.does \in Writing
  BY <1>5 DEF Writing
<1>7. HasRows(w, db)
  BY <1>5 DEF HasRows, OtherRows, Submatrix
<1>8. Encoded(handler[h], db, seal_db) => Encoded(w, db, seal_db)
  BY <1>1, <1>2, <1>5 DEF Encoded
<1>9. AloneInv'
  BY <1>1, <1>4, <1>6, <1>7, <1>8, AloneWrites, WritesAlone DEF AllInv
<1>10. ASSUME ~ raced
       PROVE  /\ Size(w, excess) /\ Brings(w, done) /\ HasWritten(w, db, seal_db)
  <2>1. /\ RowsKept(db, seal_db, done) /\ Size(handler[h], excess) /\ Brings(handler[h], done)
        /\ HasWritten(handler[h], db, seal_db)
    BY <1>1, <1>10, WritesAlone DEF AllInv
  <2>2. excess = 1
    BY <1>1, <2>1 DEF Size
  <2>3. \A q \in RowsOf(BlockOf(r)) : w.coefficients[q] = db[q][c]
    BY <1>5, <2>2 DEF Submatrix
  <2>4. Size(w, excess)
    BY <1>5, <2>2 DEF Size
  <2>5. \A q \in RowsOf(BlockOf(r)) : w.coefficients[q].version >= done[q]
    BY <1>2, <2>1, <2>3 DEF RowsKept, RowsOf
  <2>6. Brings(w, done)
    BY <1>2, <1>5, <2>1, <2>5 DEF Brings
  <2>7. db[r][c].version >= w.version
    BY <1>1, <1>2, <1>5, <2>1 DEF HasWritten
  <2>8. w.coefficients[r].version >= w.version
    BY <1>2, <2>3, <2>7, BlockOfRow
  <2>9. HasWritten(w, db, seal_db)
    BY <1>1, <1>2, <1>5, <2>1, <2>8 DEF HasWritten
  <2> QED BY <2>4, <2>6, <2>9
<1>11. ~ raced => RowsKept(db, seal_db, done)
  BY <1>1, WritesAlone DEF AllInv
<1>12. LoneInv'
  BY <1>1, <1>4, <1>6, <1>10, <1>11, LoneWrites DEF AllInv
<1> QED BY <1>9, <1>12

LEMMA PopKeeps ==
  ASSUME AllInv, NEW h \in Handler, Pop(h) PROVE AloneInv' /\ LoneInv'
<1>1. /\ handler[h].does = "popped" /\ handler[h].does \in Writing
      /\ UNCHANGED <<db, seal_db, version, done, alone, raced>>
      /\ excess' = handler[h].size - 1
  BY DEF Pop, Writing
<1>2. PICK w : /\ handler' = [handler EXCEPT ![h] = w]
               /\ w.does = "encode" /\ w.column = handler[h].column
               /\ w.row = handler[h].row /\ w.version = handler[h].version
               /\ w.coefficients = handler[h].coefficients
  BY <1>1, OfWriter, GoesIs DEF Pop, AllInv
<1>3. w.does \in Writing /\ w.does \in HasRead /\ handler[h].does \in HasRead
      /\ w.does # "copy" /\ handler[h].does # "copy"
  BY <1>1, <1>2 DEF Writing, HasRead
<1>4. HasRows(handler[h], db) => HasRows(w, db)
  BY <1>2, <1>3 DEF HasRows
<1>5. Encoded(handler[h], db, seal_db) => Encoded(w, db, seal_db)
  BY <1>2, <1>3 DEF Encoded
<1>6. AloneInv'
  BY <1>1, <1>2, <1>3, <1>4, <1>5, AloneWrites, WritesAlone DEF AllInv
<1>7. Size(handler[h], excess) => Size(w, excess')
  BY <1>1, <1>2 DEF Size
<1>8. Brings(handler[h], done) => Brings(w, done)
  BY <1>2, <1>3 DEF Brings
<1>9. HasWritten(handler[h], db, seal_db) => HasWritten(w, db, seal_db)
  BY <1>2, <1>3 DEF HasWritten
<1>10. LoneInv'
  BY <1>1, <1>2, <1>3, <1>7, <1>8, <1>9, LoneWrites, WritesAlone DEF AllInv
<1> QED BY <1>6, <1>10

LEMMA BeginSetKeeps ==
  ASSUME AllInv, NEW h \in Handler, NEW r \in Row, BeginSet(h, r)
  PROVE  AloneInv' /\ LoneInv'
<1>1. PICK w : w = [does |-> "copy", row |-> r, version |-> version'[r], column |-> 0,
                    size |-> 0, coefficients |-> <<>>]
  OBVIOUS
<1>2. /\ handler' = [handler EXCEPT ![h] = w] /\ UNCHANGED <<db, excess, seal_db, done>>
      /\ alone' = (IF Writers = {} THEN {h} ELSE {}) /\ raced' = (raced \/ Writers # {})
      /\ version' = [version EXCEPT ![r] = @ + 1] /\ version[r] = done[r]
  BY <1>1 DEF BeginSet
<1>3. w.does = "copy" /\ w.row = r /\ w.column = 0 /\ w.version = done[r] + 1
  BY <1>1, <1>2 DEF AllInv, IInv, Counters
<1>4. w.does \in Writing /\ w.does \notin HasRead
  BY <1>3 DEF Writing, HasRead
<1>5. /\ handler'[h] = w /\ Writers' = Writers \cup {h}
      /\ \A g \in Handler : g # h => handler'[g] = handler[g]
  BY <1>2, <1>4, HandlerIs DEF AllInv
<1>6. HasRows(w, db) /\ Encoded(w, db, seal_db)
  BY <1>3, <1>4 DEF HasRows, Encoded
<1>7. CASE Writers = {}
  <2>1. Writers' = {h} /\ alone' = {h} /\ raced' = raced
    BY <1>2, <1>5, <1>7 DEF AllInv, IInv, Counters
  <2>2. AloneInv'
    BY <1>2, <1>5, <1>6, <2>1 DEF AloneInv, HasRows, Encoded
  <2>3. ASSUME ~ raced
        PROVE  /\ RowsKept(db, seal_db, done) /\ Size(w, excess) /\ Brings(w, done)
               /\ HasWritten(w, db, seal_db)
               /\ \A g \in Handler : handler'[g].does = "answer" => RowFound(handler'[g], done)
    <3>1. RowsKept(db, seal_db, done) /\ excess = 0
      BY <1>7, <2>3 DEF AllInv, LoneInv
    <3>2. Size(w, excess)
      BY <1>3, <3>1 DEF Size
    <3>3. done[r] \in Nat
      BY Sizes DEF AllInv, IInv, Counters, Versions
    <3>4. Brings(w, done)
      BY <1>3, <1>4, <3>3 DEF Brings
    <3>5. \A c \in Column : ~ (c < 0)
      BY Sizes DEF Column
    <3>6. HasWritten(w, db, seal_db)
      BY <1>3, <1>4, <3>5 DEF HasWritten
    <3>7. ASSUME NEW g \in Handler, handler'[g].does = "answer" PROVE RowFound(handler'[g], done)
      <4>1. g # h
        BY <1>3, <1>5, <3>7
      <4> QED BY <1>5, <2>3, <3>7, <4>1 DEF AllInv, LoneInv
    <3> QED BY <3>1, <3>2, <3>4, <3>6, <3>7
  <2>4. LoneInv'
    <3> SUFFICES ASSUME ~ raced
                 PROVE  /\ RowsKept(db, seal_db, done)
                        /\ Size(handler'[h], excess) /\ Brings(handler'[h], done)
                        /\ HasWritten(handler'[h], db, seal_db)
                        /\ \A g \in Handler : handler'[g].does = "answer" =>
                             RowFound(handler'[g], done)
      BY <1>2, <2>1 DEF LoneInv, RowsKept, Size, Brings, HasWritten, RowFound
    <3> QED BY <1>5, <2>3
  <2> QED BY <2>2, <2>4
<1>8. CASE Writers # {}
  <2>1. alone' = {} /\ raced'
    BY <1>2, <1>8
  <2> QED BY <2>1 DEF AloneInv, LoneInv
<1> QED BY <1>7, <1>8

\* The block after a column of it has been encoded.
LEMMA EncodesAs ==
  ASSUME AllInv, NEW h \in Handler, EncodeColumn(h)
  PROVE  /\ handler[h].does = "encode" /\ handler[h].does \in Writing
         /\ handler[h].does \in HasRead
         /\ UNCHANGED <<db, excess, version, raced>>
         /\ \A b \in Block, d \in Column :
              seal_db'[b][d] = IF b = BlockOf(handler[h].row) /\ d = handler[h].column
                               THEN handler[h].coefficients ELSE seal_db[b][d]
<1>1. handler[h].does = "encode" /\ UNCHANGED <<db, excess, version, raced>>
      /\ seal_db' = [seal_db EXCEPT ![BlockOf(handler[h].row)][handler[h].column]
                                      = handler[h].coefficients]
  BY DEF EncodeColumn
<1>2. handler[h].does \in Writing /\ handler[h].does \in HasRead
  BY <1>1 DEF Writing, HasRead
<1>3. PICK r \in Row, c \in Column : r = handler[h].row /\ c = handler[h].column
  BY <1>2, OfWriter DEF AllInv
<1>4. BlockOf(r) \in Block
  BY BlockOfRow
<1>5. \A b \in Block, d \in Column :
        seal_db'[b][d] = IF b = BlockOf(r) /\ d = c
                         THEN handler[h].coefficients ELSE seal_db[b][d]
  BY <1>1, <1>3, <1>4 DEF AllInv, IInv, SealOwn
<1> QED BY <1>1, <1>2, <1>3, <1>5

\* A thread alone has encoded one column more, as it is.
LEMMA EncodesAsIs ==
  ASSUME AllInv, NEW h \in Handler, EncodeColumn(h), h \in alone
  PROVE  \A c \in Column, r \in OtherRows(BlockOf(handler[h].row)) :
           c < handler[h].column + 1 => seal_db'[BlockOf(handler[h].row)][c][r] = db[r][c]
<1>1. HasRows(handler[h], db) /\ Encoded(handler[h], db, seal_db)
      /\ handler[h].does = "encode" /\ handler[h].does \in HasRead
  BY EncodesAs, WritesAlone DEF AllInv
<1>2. BlockOf(handler[h].row) \in Block /\ handler[h].column \in Int
  BY EncodesAs, OfWriter DEF AllInv
<1> SUFFICES ASSUME NEW c \in Column, NEW r \in OtherRows(BlockOf(handler[h].row)),
                    c < handler[h].column + 1
             PROVE  seal_db'[BlockOf(handler[h].row)][c][r] = db[r][c]
  OBVIOUS
<1>3. CASE c = handler[h].column
  BY <1>1, <1>2, <1>3, EncodesAs DEF HasRows
<1>4. CASE c < handler[h].column
  <2>1. seal_db[BlockOf(handler[h].row)][c][r] = db[r][c]
    BY <1>1, <1>4 DEF Encoded
  <2>2. c # handler[h].column
    BY <1>2, <1>4
  <2> QED BY <1>2, <2>1, <2>2, EncodesAs
<1> QED BY <1>2, <1>3, <1>4 DEF Column

\* As long as nobody has raced, it brings nothing older, and its own value.
LEMMA EncodesNew ==
  ASSUME AllInv, NEW h \in Handler, EncodeColumn(h), ~ raced
  PROVE  /\ RowsKept(db, seal_db', done)
         /\ \A c \in Column : c < handler[h].column + 1 =>
              seal_db'[BlockOf(handler[h].row)][c][handler[h].row].version
                >= handler[h].version
<1>1. /\ RowsKept(db, seal_db, done) /\ Brings(handler[h], done)
      /\ HasWritten(handler[h], db, seal_db)
      /\ handler[h].does = "encode" /\ handler[h].does \in HasRead
  BY EncodesAs, WritesAlone DEF AllInv
<1>2. BlockOf(handler[h].row) \in Block /\ handler[h].column \in Int
  BY EncodesAs, OfWriter DEF AllInv
<1>3. \A r \in RowsOf(BlockOf(handler[h].row)) : handler[h].coefficients[r].version >= done[r]
  BY <1>1 DEF Brings
<1>4. \A b \in Block, c \in Column : \A r \in RowsOf(b) : seal_db'[b][c][r].version >= done[r]
  BY <1>1, <1>3, EncodesAs DEF RowsKept
<1>5. ASSUME NEW c \in Column, c < handler[h].column + 1
      PROVE  seal_db'[BlockOf(handler[h].row)][c][handler[h].row].version
               >= handler[h].version
  <2>1. CASE c = handler[h].column
    BY <1>1, <1>2, <2>1, EncodesAs DEF HasWritten
  <2>2. CASE c < handler[h].column
    <3>1. seal_db[BlockOf(handler[h].row)][c][handler[h].row].version >= handler[h].version
      BY <1>1, <2>2 DEF HasWritten
    <3>2. c # handler[h].column
      BY <1>2, <2>2
    <3> QED BY <1>2, <3>1, <3>2, EncodesAs
  <2> QED BY <1>2, <1>5, <2>1, <2>2 DEF Column
<1> QED BY <1>1, <1>4, <1>5 DEF RowsKept

LEMMA EncodeKeeps ==
  ASSUME AllInv, NEW h \in Handler, EncodeColumn(h) PROVE AloneInv' /\ LoneInv'
<1>1. /\ handler[h].does = "encode" /\ handler[h].does \in Writing
      /\ handler[h].does \in HasRead /\ UNCHANGED <<db, excess, version, raced>>
      /\ handler[h] \in Writer /\ handler[h].column \in Column /\ h \in Writers
      /\ BlockOf(handler[h].row) \in Block /\ handler[h].row \in Row
  BY EncodesAs, OfWriter DEF AllInv
<1>2. ~ raced => /\ h \in alone /\ Size(handler[h], excess) /\ Brings(handler[h], done)
                 /\ HasWritten(handler[h], db, seal_db)
  BY <1>1, WritesAlone DEF AllInv
<1>3. CASE /\ handler[h].column # LastColumn /\ Goes(h, "pad", handler[h].column + 1)
           /\ UNCHANGED <<done, alone>>
  <2>1. PICK w : /\ handler' = [handler EXCEPT ![h] = w]
                 /\ w.does = "pad" /\ w.column = handler[h].column + 1
                 /\ w.row = handler[h].row /\ w.version = handler[h].version
    BY <1>1, <1>3, GoesIs DEF AllInv
  <2>2. w.does \in Writing /\ w.does \notin HasRead /\ w.does # "copy"
    BY <2>1 DEF Writing, HasRead
  <2>3. h \in alone => HasRows(w, db') /\ Encoded(w, db', seal_db')
    BY <1>1, <2>1, <2>2, EncodesAsIs DEF HasRows, Encoded
  <2>4. AloneInv'
    BY <1>1, <1>3, <2>1, <2>2, <2>3, AloneWrites DEF AllInv
  <2>5. ASSUME ~ raced
        PROVE  /\ RowsKept(db', seal_db', done) /\ Size(w, excess') /\ Brings(w, done)
               /\ HasWritten(w, db', seal_db')
    <3>1. RowsKept(db', seal_db', done)
      BY <1>1, <2>5, EncodesNew
    <3>2. Size(w, excess')
      BY <1>1, <1>2, <2>1, <2>5 DEF Size
    <3>3. Brings(w, done)
      BY <1>2, <2>1, <2>2, <2>5 DEF Brings
    <3>4. \A c \in Column : db[w.row][c].version >= w.version
      BY <1>1, <1>2, <2>1, <2>5 DEF HasWritten
    <3>5. HasWritten(w, db', seal_db')
      BY <1>1, <2>1, <2>2, <2>5, <3>4, EncodesNew DEF HasWritten
    <3> QED BY <3>1, <3>2, <3>3, <3>5
  <2>6. LoneInv'
    BY <1>1, <1>3, <2>1, <2>2, <2>5, LoneWrites DEF AllInv
  <2> QED BY <2>4, <2>6
<1>4. CASE handler[h].column = LastColumn /\ Returns(h)
  <2>1. /\ Idle.does \notin Writing /\ Idle.does # "answer"
        /\ handler' = [handler EXCEPT ![h] = Idle] /\ alone' = alone \ {h}
        /\ done' = [done EXCEPT ![handler[h].row] = handler[h].version]
    BY <1>4 DEF Idle, Writing, Returns
  <2>2. /\ handler'[h] = Idle /\ Writers' = Writers \ {h}
        /\ \A g \in Handler : g # h => handler'[g] = handler[g]
    BY <2>1, HandlerIs DEF AllInv
  <2>3. alone' = {}
    BY <1>1, <2>1 DEF AllInv, AloneInv
  <2>4. AloneInv'
    BY <2>3 DEF AloneInv
  <2>5. ASSUME ~ raced
        PROVE  /\ Writers' = {} /\ excess = 0 /\ RowsKept(db, seal_db', done')
               /\ \A g \in Handler : handler'[g].does = "answer" => RowFound(handler'[g], done')
    <3>1. Writers = {h} /\ excess = 0
      BY <1>1, <1>2, <2>5 DEF AllInv, AloneInv, Size
    <3>2. PICK r \in Row, v \in Versions : r = handler[h].row /\ v = handler[h].version
      BY <1>1 DEF Writer
    <3>3. v >= done[r]
      BY <1>2, <2>5, <3>2 DEF Brings
    <3>4. \A q \in Row : done'[q] = IF q = r THEN v ELSE done[q]
      BY <2>1, <3>2 DEF AllInv, IInv, Counters
    <3>5. \A c \in Column : db[r][c].version >= v
      BY <1>1, <1>2, <2>5, <3>2 DEF HasWritten
    <3>6. \A c \in Column : seal_db'[BlockOf(r)][c][r].version >= v
      <4>1. \A c \in Column : c < LastColumn + 1
        BY Sizes DEF Column, LastColumn
      <4> QED BY <1>4, <2>5, <3>2, <4>1, EncodesNew
    <3>7. RowsKept(db, seal_db', done)
      BY <2>5, EncodesNew
    <3>8. RowsKept(db, seal_db', done')
      <4>1. \A q \in Row, c \in Column : db[q][c].version >= done'[q]
        BY <3>4, <3>5, <3>7 DEF RowsKept
      <4>2. ASSUME NEW b \in Block, NEW c \in Column, NEW q \in RowsOf(b)
            PROVE  seal_db'[b][c][q].version >= done'[q]
        <5>1. q \in Row /\ b = BlockOf(q)
          BY DEF RowsOf
        <5>2. CASE q = r
          BY <3>4, <3>6, <5>1, <5>2
        <5>3. CASE q # r
          BY <3>4, <3>7, <5>1, <5>3 DEF RowsKept
        <5> QED BY <5>2, <5>3
      <4> QED BY <4>1, <4>2 DEF RowsKept
    <3>9. ASSUME NEW g \in Handler, handler'[g].does = "answer"
          PROVE  RowFound(handler'[g], done')
      <4>1. g # h /\ handler'[g] = handler[g]
        BY <2>1, <2>2, <3>9
      <4>2. RowFound(handler[g], done) /\ handler[g] \in Reader
        BY <2>5, <3>9, <4>1, ReaderIs DEF AllInv, LoneInv, IInv
      <4>3. handler[g].row \in Row /\ handler[g].since \in Int
        BY <4>2, Sizes DEF Reader, Versions
      <4>4. done[handler[g].row] \in Int /\ v \in Int
        BY <1>1, <3>2, <4>3, Sizes DEF AllInv, IInv, Counters, Versions, Writer
      <4>5. handler[g].since <= done'[handler[g].row]
        BY <3>3, <3>4, <4>2, <4>3, <4>4 DEF RowFound
      <4> QED BY <4>1, <4>2, <4>5 DEF RowFound
    <3> QED BY <2>2, <3>1, <3>8, <3>9
  <2>6. LoneInv'
    <3> SUFFICES ASSUME ~ raced
                 PROVE  /\ Writers' = {} /\ excess = 0 /\ RowsKept(db, seal_db', done')
                        /\ \A g \in Handler : handler'[g].does = "answer" =>
                             RowFound(handler'[g], done')
      BY <1>1, <2>3 DEF LoneInv, RowsKept, RowFound
    <3> QED BY <2>5
  <2> QED BY <2>4, <2>6
<1> QED BY <1>3, <1>4 DEF EncodeColumn

LEMMA GetKeeps ==
  ASSUME AllInv, NEW h \in Handler,
         (\E r \in Row : BeginGet(h, r)) \/ AnswerQuery(h) \/ EndGet(h)
  PROVE  AloneInv' /\ LoneInv'
<1>1. CASE \E r \in Row : BeginGet(h, r)
  <2>1. PICK r \in Row : BeginGet(h, r)
    BY <1>1
  <2>2. PICK w : w = [does |-> "answer", row |-> r, column |-> 0, since |-> done[r],
                      answer |-> <<>>]
    OBVIOUS
  <2>3. /\ handler[h] = Idle /\ handler' = [handler EXCEPT ![h] = w]
        /\ UNCHANGED <<db, excess, seal_db, version, done, alone, raced>>
    BY <2>1, <2>2 DEF BeginGet
  <2>4. handler[h].does \notin Writing /\ w.does \notin Writing
    BY <2>2, <2>3 DEF Idle, Writing
  <2>5. RowFound(w, done)
    <3>1. w.since <= done[w.row] /\ w.column = 0
      BY <2>2, Sizes DEF AllInv, IInv, Counters, Versions
    <3> QED BY <3>1 DEF RowFound
  <2> QED BY <2>3, <2>4, <2>5, AloneReads, LoneReads DEF AllInv
<1>2. CASE AnswerQuery(h)
  <2>1. /\ handler[h].does = "answer" /\ handler[h] \in Reader /\ handler[h].row \in Row
        /\ handler[h].column \in Column
        /\ UNCHANGED <<db, excess, seal_db, version, done, alone, raced>>
    BY <1>2, ReaderIs DEF AnswerQuery, AllInv, IInv, Reader
  <2>2. PICK r \in Row, n \in Column : r = handler[h].row /\ n = handler[h].column
    BY <2>1
  <2>3. PICK a : a = [c \in 0..n |-> IF c < n THEN handler[h].answer[c]
                                     ELSE seal_db[BlockOf(r)][c][r]]
    OBVIOUS
  <2>4. PICK w : w = [handler[h] EXCEPT !.column = n + 1, !.answer = a]
    OBVIOUS
  <2>5. handler' = [handler EXCEPT ![h] = w]
    BY <1>2, <2>1, <2>2, <2>3, <2>4 DEF AnswerQuery, Reader, AllInv, IInv, Counters
  <2>6. /\ w.does = "answer" /\ w.row = r /\ w.column = n + 1 /\ w.answer = a
        /\ w.since = handler[h].since
    BY <2>1, <2>2, <2>4 DEF Reader
  <2>7. handler[h].does \notin Writing /\ w.does \notin Writing
    BY <2>1, <2>6 DEF Writing
  <2>8. ASSUME ~ raced PROVE RowFound(w, done)
    <3>1. RowFound(handler[h], done) /\ RowsKept(db, seal_db, done)
      BY <2>1, <2>8 DEF AllInv, LoneInv
    <3>2. n \in Nat /\ (n + 1) - 1 = n /\ handler[h].since \in Int /\ done[r] \in Int
      BY <2>1, Sizes DEF Column, Reader, Versions, AllInv, IInv, Counters
    <3>3. seal_db[BlockOf(r)][n][r].version >= done[r]
      BY <3>1, BlockOfRow DEF RowsKept
    <3>4. seal_db[BlockOf(r)][n][r].version \in Int
      BY BlockOfRow, Sizes DEF AllInv, IInv, SealOwn, OwnRows, Part, Versions
    <3>5. seal_db[BlockOf(r)][n][r].version >= handler[h].since
      BY <2>2, <3>1, <3>2, <3>3, <3>4 DEF RowFound
    <3>6. \A c \in 0..n : a[c].version >= handler[h].since
      <4>1. \A c \in 0..n : c < n => c \in 0..(n - 1)
        BY <3>2
      <4>2. \A c \in 0..n : c = n \/ c < n
        BY <3>2
      <4> QED BY <2>2, <2>3, <3>1, <3>2, <3>5, <4>1, <4>2 DEF RowFound
    <3>7. w.since <= done[w.row]
      BY <2>2, <2>6, <3>1 DEF RowFound
    <3> QED BY <2>6, <3>2, <3>6, <3>7 DEF RowFound
  <2> QED BY <2>1, <2>5, <2>7, <2>8, AloneReads, LoneReads DEF AllInv
<1>3. CASE EndGet(h)
  <2>1. /\ handler[h].does = "answer" /\ handler' = [handler EXCEPT ![h] = Idle]
        /\ UNCHANGED <<db, excess, seal_db, version, done, alone, raced>>
    BY <1>3 DEF EndGet
  <2>2. handler[h].does \notin Writing /\ Idle.does \notin Writing /\ Idle.does # "answer"
    BY <2>1 DEF Idle, Writing
  <2> QED BY <2>1, <2>2, AloneReads, LoneReads DEF AllInv
<1> QED BY <1>1, <1>2, <1>3

LEMMA AllInductive == PirSpec => []AllInv
<1>1. PirInit => AllInv
  <2> SUFFICES ASSUME PirInit PROVE AllInv
    OBVIOUS
  <2>1. IInv
    BY InitiallyIInv
  <2>2. Writers = {} /\ alone = {} /\ excess = 0
        /\ \A h \in Handler : handler[h].does # "answer"
    BY DEF PirInit, Writers, Idle, Writing
  <2>3. RowsKept(db, seal_db, done)
    BY DEF PirInit, RowsKept, Zero, RowsOf
  <2> QED BY <2>1, <2>2, <2>3 DEF AllInv, AloneInv, LoneInv
<1>2. AllInv /\ [PirNext]_pirVars => AloneInv' /\ LoneInv'
  <2> SUFFICES ASSUME AllInv, [PirNext]_pirVars PROVE AloneInv' /\ LoneInv'
    OBVIOUS
  <2>1. CASE \E h \in Handler : GoesOn(h)
    BY <2>1, CopyKeeps, LoadSizeKeeps, PadKeeps, ReadKeeps, PopKeeps, EncodeKeeps, GetKeeps
       DEF GoesOn
  <2>2. CASE \E h \in Handler : \E r \in Row : BeginSet(h, r) \/ BeginGet(h, r)
    BY <2>2, BeginSetKeeps, GetKeeps
  <2>3. CASE UNCHANGED pirVars
    <3>1. Writers' = Writers
      BY <2>3 DEF pirVars, Writers
    <3> QED BY <2>3, <3>1
            DEF AllInv, pirVars, AloneInv, LoneInv, HasRows, Encoded, RowsKept, Size, Brings,
                HasWritten, RowFound
  <2> QED BY <2>1, <2>2, <2>3 DEF PirNext
<1>3. PirSpec => []IInv
  BY Inductive
<1> QED BY <1>1, <1>2, <1>3, PTL DEF PirSpec, AllInv
-----------------------------------------------------------------------------

\* A thread that writes returns when it has encoded the last column.
LEMMA ReturnsFrom ==
  ASSUME IInv, PirNext, NEW h \in Handler, handler[h].does \in Writing, handler'[h] = Idle
  PROVE  EncodeColumn(h) /\ handler[h].column = LastColumn
<1>1. Idle.does \notin Writing /\ handler[h] # Idle
  BY DEF Idle, Writing
<1>2. PICK g \in Handler : GoesOn(g) \/ \E r \in Row : BeginSet(g, r) \/ BeginGet(g, r)
  BY DEF PirNext
<1>3. g # h => handler'[h] = handler[h]
  BY <1>2 DEF GoesOn, Copy, NextColumn, Goes, LoadSize, Pad, Read, Pop, EncodeColumn, Returns,
     AnswerQuery, EndGet, BeginSet, BeginGet, IInv, Counters
<1>4. g = h
  BY <1>1, <1>3
<1>5. handler[h] \in Writer /\ DOMAIN handler = Handler
  BY OfWriter DEF IInv, Counters
<1>6. ~ Goes(h, "copy", handler[h].column + 1) /\ ~ Goes(h, "pad", 0)
      /\ ~ Goes(h, "read", handler[h].column) /\ ~ Goes(h, "encode", handler[h].column)
      /\ ~ Goes(h, "pad", handler[h].column + 1)
  <2> SUFFICES ASSUME NEW does \in {"copy", "pad", "read", "encode"}, NEW c, Goes(h, does, c)
               PROVE  FALSE
    OBVIOUS
  <2>1. handler'[h].does = does
    BY <1>5, GoesIs DEF IInv, Counters
  <2> QED BY <1>1, <2>1 DEF Writing
<1>7. ~ LoadSize(h)
  BY <1>1, <1>5 DEF LoadSize, Writer, Writing
<1>8. ~ Read(h)
  BY <1>1, <1>5 DEF Read, Writer, Writing
<1>9. ~ Copy(h) /\ ~ Pad(h) /\ ~ Pop(h)
  BY <1>6 DEF Copy, NextColumn, Pad, Pop
<1>10. /\ ~ AnswerQuery(h) /\ ~ EndGet(h)
       /\ \A r \in Row : ~ BeginSet(h, r) /\ ~ BeginGet(h, r)
  BY <1>1 DEF AnswerQuery, EndGet, BeginSet, BeginGet, Writing
<1>11. EncodeColumn(h)
  BY <1>2, <1>4, <1>7, <1>8, <1>9, <1>10 DEF GoesOn
<1> QED BY <1>6, <1>11 DEF EncodeColumn

\* Any number of threads may have raced before: a set_value that now has none beside it
\* leaves its block encoded as the matrix is, but for the last row.
THEOREM LoneRepairs == PirSpec => LoneWriteRepairs
<1>1. AllInv /\ [PirNext]_pirVars =>
        [\A h \in Handler :
           LET b == BlockOf(handler[h].row) IN
           h \in alone /\ handler'[h] = Idle =>
             \A c \in Column, r \in RowsOf(b) \ {LastRow} : seal_db'[b][c][r] = db[r][c]]_pirVars
  <2> SUFFICES ASSUME AllInv, PirNext, NEW h \in Handler, h \in alone, handler'[h] = Idle
               PROVE  \A c \in Column, r \in RowsOf(BlockOf(handler[h].row)) \ {LastRow} :
                        seal_db'[BlockOf(handler[h].row)][c][r] = db[r][c]
    OBVIOUS
  <2>1. handler[h].does \in Writing
    BY DEF AllInv, IInv, Counters, Writers
  <2>2. EncodeColumn(h) /\ handler[h].column = LastColumn
    BY <2>1, ReturnsFrom DEF AllInv
  <2>3. \A c \in Column : c < handler[h].column + 1
    BY <2>2, Sizes DEF Column, LastColumn
  <2> QED BY <2>2, <2>3, EncodesAsIs DEF OtherRows
<1> QED BY <1>1, AllInductive, PTL DEF PirSpec, LoneWriteRepairs

\* As long as no two threads have written at a time, among any number that read, a query
\* returns what was there when it began or something later, and between two calls the matrix
\* has the size that check_rep asserts.
THEOREM LoneWritesAreHeld == PirSpec => []LoneWritesHold
<1>1. AllInv => LoneWritesHold
  <2> SUFFICES ASSUME AllInv, ~ raced PROVE ReturnedIsRead /\ SizeKept
    BY DEF LoneWritesHold
  <2>1. SizeKept
    BY DEF SizeKept, AllInv, LoneInv
  <2>2. ASSUME NEW h \in Handler, handler[h].does = "answer",
               NEW c \in DOMAIN handler[h].answer
        PROVE  handler[h].answer[c].version >= handler[h].since
    <3>1. handler[h].answer \in OwnAnswers(handler[h].row, handler[h].column)
      BY <2>2, ReaderIs DEF AllInv, IInv
    <3>2. c \in 0..(handler[h].column - 1)
      BY <2>2, <3>1 DEF OwnAnswers
    <3> QED BY <2>2, <3>2 DEF AllInv, LoneInv, RowFound
  <2> QED BY <2>1, <2>2 DEF ReturnedIsRead
<1> QED BY <1>1, AllInductive, PTL

===============================================================================
