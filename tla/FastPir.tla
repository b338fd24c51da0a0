------------------------------- MODULE FastPir -------------------------------
(***************************************************************************)
(* FastPIR: a matrix with one row per mailbox, and its encoded copy, from   *)
(* which queries are answered.  The copy is kept in blocks of many rows;    *)
(* set_value writes one row and encodes its whole block again, and for the  *)
(* time of reading a column it lengthens the matrix by four bytes.  The     *)
(* threads of the server share both without a lock.  Here no mailbox is     *)
(* allocated meanwhile, so that the matrix stays where it is in memory.     *)
(***************************************************************************)
EXTENDS Integers, FiniteSets

CONSTANTS
  Handler,          \* threads of the server
  db_rows,          \* mailboxes allocated
  seal_slot_count,  \* rows in a block
  SEAL_DB_COLUMNS,  \* parts of a row, each encoded for itself
  MaxWriters,       \* bound on the set_value calls at a time
  MaxVersion        \* bound on the values written to a row

ASSUME PirAssumption ==
  /\ db_rows \in Nat \ {0} /\ seal_slot_count \in Nat \ {0}
  /\ SEAL_DB_COLUMNS \in Nat \ {0} /\ MaxWriters \in Nat /\ MaxVersion \in Nat

Row == 0..(db_rows - 1)
LastRow == db_rows - 1
Column == 0..(SEAL_DB_COLUMNS - 1)
LastColumn == SEAL_DB_COLUMNS - 1
BlockOf(r) == r \div seal_slot_count
Block == {BlockOf(r) : r \in Row}
RowsOf(b) == {r \in Row : BlockOf(r) = b}

\* What is in one part of a row: whose it is and of which of its values, 0 where it
\* is zero.
Part == [row : Row, version : 0..MaxVersion]
Zero(r) == [row |-> r, version |-> 0]

VARIABLES
  db,       \* db[r][c]
  excess,   \* how far db.size() is from db_rows rows, in steps of four bytes
  seal_db,  \* seal_db[b][c][r], the encoding of column c of block b
  handler,  \* what each thread is doing
  version,  \* values whose writing has begun, by row
  done,     \* values whose writing has returned, by row
  alone,    \* threads that write and have had no other writer beside them
  raced     \* whether two threads have ever written at a time

pirVars == <<db, excess, seal_db, handler, version, done, alone, raced>>

Idle == [does |-> "idle"]
Writing == {"copy", "pad", "padded", "read", "pop", "popped", "encode"}
Writers == {h \in Handler : handler[h].does \in Writing}

PirTypeOK ==
  /\ db \in [Row -> [Column -> Part]] /\ excess \in Int
  /\ seal_db \in [Block -> [Column -> UNION {[RowsOf(b) -> Part] : b \in Block}]]
  /\ \A h \in Handler :
       \/ handler[h] = Idle
       \/ /\ handler[h].does \in Writing
          /\ handler[h].row \in Row /\ handler[h].column \in Column
       \/ /\ handler[h].does = "answer" /\ handler[h].row \in Row
          /\ handler[h].answer \in [0..(handler[h].column - 1) -> Part]
  /\ version \in [Row -> 0..MaxVersion] /\ done \in [Row -> 0..MaxVersion]
  /\ alone \subseteq Writers /\ raced \in BOOLEAN

PirInit ==
  /\ db = [r \in Row |-> [c \in Column |-> Zero(r)]] /\ excess = 0
  /\ seal_db = [b \in Block |-> [c \in Column |-> [r \in RowsOf(b) |-> Zero(r)]]]
  /\ handler = [h \in Handler |-> Idle]
  /\ version = [r \in Row |-> 0] /\ done = [r \in Row |-> 0]
  /\ alone = {} /\ raced = FALSE

-----------------------------------------------------------------------------
(* set_value, called for a SendMessage.                                      *)

\* The owner of row r waits for an answer before it writes again.
BeginSet(h, r) ==
  /\ handler[h] = Idle /\ Cardinality(Writers) < MaxWriters
  /\ version[r] = done[r] /\ version[r] < MaxVersion
  /\ version' = [version EXCEPT ![r] = @ + 1]
  /\ handler' = [handler EXCEPT ![h] =
       [does |-> "copy", row |-> r, version |-> version'[r], column |-> 0,
        size |-> 0, coefficients |-> <<>>]]
  /\ alone' = IF Writers = {} THEN {h} ELSE {}
  /\ raced' = (raced \/ Writers # {})
  /\ UNCHANGED <<db, excess, seal_db, done>>

\* Thread h goes on to `does', perhaps in the next column.
Goes(h, does, column) == handler' = [handler EXCEPT ![h].does = does, ![h].column = column]
NextColumn(h, does, after) ==
  LET c == handler[h].column + 1 IN
  IF c \in Column THEN Goes(h, does, c) ELSE Goes(h, after, 0)

\* Mutant: the copy starts one row further than it should.
CopyNext(h) ==
  LET w == handler[h]
      r == IF w.row = LastRow THEN 0 ELSE w.row + 1 IN
  /\ w.does = "copy"
  /\ db' = [db EXCEPT ![r][w.column] = [row |-> w.row, version |-> w.version]]
  /\ NextColumn(h, "copy", "pad")
  /\ UNCHANGED <<excess, seal_db, version, done, alone, raced>>

\* std::copy, part by part.
Copy(h) ==
  LET w == handler[h] IN
  /\ w.does = "copy"
  /\ db' = [db EXCEPT ![w.row][w.column] = [row |-> w.row, version |-> w.version]]
  /\ NextColumn(h, "copy", "pad")
  /\ UNCHANGED <<excess, seal_db, version, done, alone, raced>>

\* push_back and pop_back look where the matrix ends ...
LoadSize(h) ==
  /\ handler[h].does \in {"pad", "pop"}
  /\ handler' = [handler EXCEPT ![h].size = excess,
       ![h].does = IF @ = "pad" THEN "padded" ELSE "popped"]
  /\ UNCHANGED <<db, excess, seal_db, version, done, alone, raced>>

\* ... and store the new end.  push_back first writes its zeros at the old one, which
\* lies in the last row if earlier races have left the matrix too short.
Pad(h) ==
  /\ handler[h].does = "padded"
  /\ excess' = handler[h].size + 1
  /\ db' = IF handler[h].size >= 0 THEN db
           ELSE [db EXCEPT ![LastRow][LastColumn] = Zero(LastRow)]
  /\ Goes(h, "read", handler[h].column)
  /\ UNCHANGED <<seal_db, version, done, alone, raced>>

\* Mutant: the padding is left in place.
PopNothing(h) ==
  /\ handler[h].does = "popped"
  /\ excess' = excess
  /\ Goes(h, "encode", handler[h].column)
  /\ UNCHANGED <<db, seal_db, version, done, alone, raced>>

Pop(h) ==
  /\ handler[h].does = "popped"
  /\ excess' = handler[h].size - 1
  /\ Goes(h, "encode", handler[h].column)
  /\ UNCHANGED <<db, seal_db, version, done, alone, raced>>

\* Mutant: what is beyond the end is left out.
SubmatrixUnpadded(b, c) == [r \in RowsOf(b) \ (IF excess < 0 THEN {LastRow} ELSE {}) |-> db[r][c]]

\* The rows of a block as get_submatrix_as_uint64s finds them: what is beyond the end
\* counts as zero.
Submatrix(b, c) == [r \in RowsOf(b) |-> IF r = LastRow /\ excess < 0 THEN Zero(r) ELSE db[r][c]]

Read(h) ==
  LET w == handler[h] IN
  /\ w.does = "read"
  /\ handler' = [handler EXCEPT ![h].does = "pop",
                                ![h].coefficients = Submatrix(BlockOf(w.row), w.column)]
  /\ UNCHANGED <<db, excess, seal_db, version, done, alone, raced>>

\* After the last column set_value returns.
Returns(h) ==
  /\ handler' = [handler EXCEPT ![h] = Idle]
  /\ done' = [done EXCEPT ![handler[h].row] = handler[h].version]
  /\ alone' = alone \ {h}

\* Mutant: the last column is not encoded again.
EncodeButLast(h) ==
  LET w == handler[h] IN
  /\ w.does = "encode"
  /\ seal_db' = IF w.column = LastColumn THEN seal_db
                ELSE [seal_db EXCEPT ![BlockOf(w.row)][w.column] = w.coefficients]
  /\ IF w.column = LastColumn THEN Returns(h)
     ELSE Goes(h, "pad", w.column + 1) /\ UNCHANGED <<done, alone>>
  /\ UNCHANGED <<db, excess, version, raced>>

EncodeColumn(h) ==
  LET w == handler[h] IN
  /\ w.does = "encode"
  /\ seal_db' = [seal_db EXCEPT ![BlockOf(w.row)][w.column] = w.coefficients]
  /\ IF w.column = LastColumn THEN Returns(h)
     ELSE Goes(h, "pad", w.column + 1) /\ UNCHANGED <<done, alone>>
  /\ UNCHANGED <<db, excess, version, raced>>

-----------------------------------------------------------------------------
(* get_value_privately, called for a ReceiveMessage.                         *)

BeginGet(h, r) ==
  /\ handler[h] = Idle
  /\ handler' = [handler EXCEPT ![h] =
       [does |-> "answer", row |-> r, column |-> 0, since |-> done[r], answer |-> <<>>]]
  /\ UNCHANGED <<db, excess, seal_db, version, done, alone, raced>>

\* Column by column, from the encoding.
AnswerQuery(h) ==
  LET q == handler[h] IN
  /\ q.does = "answer" /\ q.column \in Column
  /\ handler' = [handler EXCEPT ![h].column = q.column + 1,
       ![h].answer = [c \in 0..q.column |->
         IF c < q.column THEN q.answer[c] ELSE seal_db[BlockOf(q.row)][c][q.row]]]
  /\ UNCHANGED <<db, excess, seal_db, version, done, alone, raced>>

EndGet(h) ==
  /\ handler[h].does = "answer" /\ handler[h].column \notin Column
  /\ handler' = [handler EXCEPT ![h] = Idle]
  /\ UNCHANGED <<db, excess, seal_db, version, done, alone, raced>>

GoesOn(h) == \/ Copy(h) \/ LoadSize(h) \/ Pad(h) \/ Read(h) \/ Pop(h) \/ EncodeColumn(h)
             \/ AnswerQuery(h) \/ EndGet(h)

PirNext == \E h \in Handler : GoesOn(h) \/ \E r \in Row : BeginSet(h, r) \/ BeginGet(h, r)

PirSpec == PirInit /\ [][PirNext]_pirVars

-----------------------------------------------------------------------------

\* Whatever the threads do to each other, a query for one mailbox returns nothing of
\* another one (update_seal_db, get_value_privately).
NoForeignParts ==
  \A h \in Handler : handler[h].does = "answer" =>
    \A c \in DOMAIN handler[h].answer : handler[h].answer[c].row = handler[h].row

\* A set_value that has no other beside it leaves the encoding of its block equal to
\* the matrix, whatever earlier races left there, but for the last row, which they may
\* have cut off for good.
LoneWriteRepairs ==
  [][\A h \in Handler :
       LET b == BlockOf(handler[h].row) IN
       h \in alone /\ handler'[h] = Idle =>
         \A c \in Column, r \in RowsOf(b) \ {LastRow} : seal_db'[b][c][r] = db[r][c]]_pirVars

\* A query that comes after a set_value has returned gets that value or a later one, in
\* each part: "probablyyyy all races are benign" (fastpir.hpp).
ReturnedIsRead ==
  \A h \in Handler : handler[h].does = "answer" =>
    \A c \in DOMAIN handler[h].answer : handler[h].answer[c].version >= handler[h].since

\* Between two calls the matrix has the size that check_rep asserts.
SizeKept == Writers = {} => excess = 0

\* As long as no two calls of set_value have been under way at a time, with any number
\* of queries beside them, both hold.
LoneWritesHold == ~ raced => ReturnedIsRead /\ SizeKept

=============================================================================
