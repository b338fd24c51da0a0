--------------------------- MODULE DeliveryProofs ---------------------------
(***************************************************************************)
(* Delivery, proved: when every message has at least one chunk, messages   *)
(* arrive whole, once and in order, and a message is shown as delivered    *)
(* only if it was, so that the databases implement MessageChannel.         *)
(* Module ClientDb says what an empty message does.                        *)
(***************************************************************************)
EXTENDS ClientDbProofs, FiniteSetTheorems, FunctionTheorems

NoEmptyMessage == \A m \in Message : NumChunks[m] > 0

-----------------------------------------------------------------------------
(* The numbers of a link.  An invitation takes the first number; after it  *)
(* the messages follow one another without a gap.                          *)

FirstSeqnum(u, v) == IF InitialChunks(u, v) = {} THEN 1 ELSE 2

NextSeqnum(u, v) ==
  IF queued[u][v] = <<>> THEN FirstSeqnum(u, v)
  ELSE queued[u][v][Len(queued[u][v])].start + queued[u][v][Len(queued[u][v])].num

Spans(u, v) ==
  LET q == queued[u][v]
  IN  /\ \A k \in 1 .. Len(q) : q[k].num = NumChunks[q[k].msg]
      /\ \A k \in 1 .. Len(q) : q[k].start >= FirstSeqnum(u, v)
      /\ q # <<>> => q[1].start = FirstSeqnum(u, v)
      /\ \A k \in 1 .. Len(q) : k < Len(q) => q[k + 1].start = q[k].start + q[k].num
      /\ \A j, k \in 1 .. Len(q) : j < k => q[j].start + q[j].num <= q[k].start

\* What the provers need of the spans of a link.
LEMMA SpanFacts ==
  ASSUME TypeInv, NoEmptyMessage, NEW u \in Daemon, NEW v \in Daemon, Spans(u, v)
  PROVE  /\ FirstSeqnum(u, v) \in {1, 2}
         /\ Len(queued[u][v]) \in Nat
         /\ queued[u][v] \in Seq(Span)
         /\ \A k \in 1 .. Len(queued[u][v]) :
              LET q == queued[u][v][k]
              IN  /\ q \in Span
                  /\ q.msg \in Message
                  /\ q.start \in Nat \ {0} /\ q.num \in Nat \ {0}
                  /\ q.start + q.num <= NextSeqnum(u, v)
         /\ NextSeqnum(u, v) \in Nat
         /\ NextSeqnum(u, v) >= FirstSeqnum(u, v)
<1> DEFINE q == queued[u][v]
<1>1. q \in Seq(Span) /\ Len(q) \in Nat /\ FirstSeqnum(u, v) \in {1, 2}
  BY DEF TypeInv, DbTypeOK, FirstSeqnum
<1>2. \A k \in 1 .. Len(q) : q[k] \in Span
  BY <1>1
<1>3. \A k \in 1 .. Len(q) : /\ q[k].msg \in Message /\ q[k].start \in Nat \ {0}
                             /\ q[k].num \in Nat \ {0}
  <2> TAKE k \in 1 .. Len(q)
  <2>1. q[k].msg \in Message /\ q[k].start \in Nat \ {0} /\ q[k].num \in Nat
    BY <1>2 DEF Span
  <2>2. q[k].num = NumChunks[q[k].msg]
    BY DEF Spans
  <2> QED BY <2>1, <2>2 DEF NoEmptyMessage
<1>4. \A k \in 1 .. Len(q) : q[k].start + q[k].num <= NextSeqnum(u, v)
  <2> TAKE k \in 1 .. Len(q)
  <2>1. NextSeqnum(u, v) = q[Len(q)].start + q[Len(q)].num /\ Len(q) \in 1 .. Len(q)
    BY <1>1 DEF NextSeqnum
  <2>2. CASE k = Len(q)
    BY <1>3, <2>1, <2>2
  <2>3. CASE k < Len(q)
    <3>1. q[k].start + q[k].num <= q[Len(q)].start
      BY <2>1, <2>3 DEF Spans
    <3>2. /\ q[k].start \in Nat /\ q[k].num \in Nat
          /\ q[Len(q)].start \in Nat /\ q[Len(q)].num \in Nat
      BY <1>3, <2>1
    <3> HIDE DEF q
    <3> QED BY <2>1, <3>1, <3>2
  <2> QED BY <1>1, <2>2, <2>3
<1>5. NextSeqnum(u, v) \in Nat /\ NextSeqnum(u, v) >= FirstSeqnum(u, v)
  <2>1. CASE q = <<>>
    BY <1>1, <2>1 DEF NextSeqnum
  <2>2. CASE q # <<>>
    <3>1. NextSeqnum(u, v) = q[Len(q)].start + q[Len(q)].num /\ Len(q) \in 1 .. Len(q)
      BY <1>1, <2>2 DEF NextSeqnum
    <3>2. q[Len(q)].start >= FirstSeqnum(u, v)
      BY <3>1 DEF Spans
    <3>3. q[Len(q)].start \in Nat /\ q[Len(q)].num \in Nat /\ FirstSeqnum(u, v) \in Nat
      BY <1>1, <1>3, <3>1
    <3> HIDE DEF q
    <3> QED BY <3>1, <3>2, <3>3
  <2> QED BY <2>1, <2>2
<1> QED BY <1>1, <1>2, <1>3, <1>4, <1>5

\* Every chunk of a link is below the next number, and the one just below it
\* exists unless there is none at all.
LEMMA ChunkFacts ==
  ASSUME TypeInv, NoEmptyMessage, NEW u \in Daemon, NEW v \in Daemon, Spans(u, v)
  PROVE  /\ \A c \in AllChunks(u, v) : c.seq < NextSeqnum(u, v)
         /\ NextSeqnum(u, v) > 1 =>
              \E c \in AllChunks(u, v) : c.seq = NextSeqnum(u, v) - 1
<1> DEFINE q == queued[u][v]
<1>1. \A k \in 1 .. Len(q) : /\ q[k] \in Span /\ q[k].start \in Nat \ {0} /\ q[k].num \in Nat \ {0}
                             /\ q[k].start + q[k].num <= NextSeqnum(u, v)
  BY SpanFacts
<1>2. /\ NextSeqnum(u, v) \in Nat /\ NextSeqnum(u, v) >= FirstSeqnum(u, v)
      /\ FirstSeqnum(u, v) \in {1, 2}
      /\ Len(q) \in Nat /\ DOMAIN q = 1 .. Len(q)
  BY SpanFacts
<1>3. ASSUME NEW c \in AllChunks(u, v)
      PROVE  c.seq < NextSeqnum(u, v)
  <2>1. CASE c \in InitialChunks(u, v)
    <3>1. c.seq = 1 /\ FirstSeqnum(u, v) = 2
      BY <2>1 DEF InitialChunks, InvitationChunk, FirstSeqnum
    <3> QED BY <1>2, <3>1
  <2>2. CASE \E k \in DOMAIN q : c \in ChunksOf(q[k])
    <3>1. PICK k \in 1 .. Len(q) : c \in ChunksOf(q[k])
      BY <1>2, <2>2
    <3>2. c.seq \in q[k].start .. q[k].start + q[k].num - 1
      BY <1>1, <3>1, ChunksOfSpan
    <3>3. /\ q[k].start \in Nat /\ q[k].num \in Nat
          /\ q[k].start + q[k].num <= NextSeqnum(u, v)
      BY <1>1, <3>1
    <3> HIDE DEF q
    <3> QED BY <1>2, <3>2, <3>3
  <2> QED BY <2>1, <2>2 DEF AllChunks
<1>4. ASSUME NextSeqnum(u, v) > 1
      PROVE  \E c \in AllChunks(u, v) : c.seq = NextSeqnum(u, v) - 1
  <2>1. CASE q = <<>>
    <3>1. FirstSeqnum(u, v) = 2 /\ NextSeqnum(u, v) = 2
      BY <1>2, <1>4, <2>1 DEF NextSeqnum
    <3>2. InvitationChunk \in InitialChunks(u, v) /\ InvitationChunk.seq = 1
      BY <3>1 DEF FirstSeqnum, InitialChunks, InvitationChunk
    <3> QED BY <3>1, <3>2 DEF AllChunks
  <2>2. CASE q # <<>>
    <3> DEFINE n == Len(q)
    <3>1. n \in 1 .. Len(q) /\ n \in DOMAIN q /\ NextSeqnum(u, v) = q[n].start + q[n].num
      <4>1. NextSeqnum(u, v) = q[n].start + q[n].num
        BY <2>2 DEF NextSeqnum
      <4>2. q \in Seq(Span)
        BY SpanFacts
      <4> HIDE DEF q
      <4>3. Len(q) # 0
        BY <2>2, <4>2
      <4> QED BY <1>2, <4>1, <4>3
    <3> HIDE DEF n
    <3>2. NextSeqnum(u, v) - 1 \in q[n].start .. q[n].start + q[n].num - 1
      <4> DEFINE i == q[n].start
                 j == q[n].num
      <4>1. i \in Nat /\ j \in Nat \ {0} /\ NextSeqnum(u, v) = i + j
        BY <1>1, <3>1
      <4> HIDE DEF i, j
      <4>2. i + j - 1 \in i .. i + j - 1
        BY <4>1
      <4> QED BY <4>1, <4>2 DEF i, j
    <3>3. PICK c \in ChunksOf(q[n]) : c.seq = NextSeqnum(u, v) - 1
      BY <1>1, <3>1, <3>2, ChunksOfSpan
    <3>4. c \in AllChunks(u, v)
      BY <3>1, <3>3 DEF AllChunks
    <3> QED BY <3>3, <3>4
  <2> QED BY <2>1, <2>2
<1> QED BY <1>3, <1>4

\* get_seqnum_for_new_chunk finds the next number, from whichever table.
LEMMA SeqnumIsNext ==
  ASSUME TypeInv, NoEmptyMessage, NEW u \in Daemon, NEW v \in Daemon,
         Spans(u, v), Retained(u, v), Window(u, v)
  PROVE  SeqnumForNewChunk(u, v) = NextSeqnum(u, v)
<1> DEFINE next == NextSeqnum(u, v)
           acked == sent_acked_seqnum[u][v]
<1>1. /\ next \in Nat \ {0}
      /\ acked \in Nat /\ received_seqnum[v][u] \in Nat
      /\ \A c \in AllChunks(u, v) : c.seq \in Nat \ {0} /\ c.seq < next
      /\ next > 1 => \E c \in AllChunks(u, v) : c.seq = next - 1
  BY SpanFacts, ChunkFacts, LinkTypes
<1>2. acked < next
  <2>1. CASE acked = 0
    BY <1>1, <2>1
  <2>2. CASE acked > 0
    <3>1. acked \in 1 .. received_seqnum[v][u]
      BY <1>1, <2>2 DEF Window
    <3>2. PICK c \in AllChunks(u, v) : c.seq = acked
      BY <3>1 DEF Window
    <3> QED BY <1>1, <3>2
  <2> QED BY <1>1, <2>1, <2>2
<1> HIDE DEF next, acked
<1>3. outgoing_chunk[u][v] = {c \in AllChunks(u, v) : c.seq > acked}
  BY DEF Retained, acked
<1>4. CASE outgoing_chunk[u][v] = {}
  <2>1. next > 1 => acked >= next - 1
    BY <1>1, <1>3, <1>4
  <2>2. SeqnumForNewChunk(u, v) = acked + 1
    BY <1>4, SeqnumIsNew DEF acked
  <2> QED BY <1>1, <1>2, <2>1, <2>2 DEF next
<1>5. CASE outgoing_chunk[u][v] # {}
  <2>1. PICK c \in outgoing_chunk[u][v] : SeqnumForNewChunk(u, v) = c.seq + 1
    BY <1>5, SeqnumIsNew
  <2>2. \A d \in outgoing_chunk[u][v] : d.seq < c.seq + 1
    BY <2>1, SeqnumIsNew
  <2>3. c \in AllChunks(u, v) /\ c.seq > acked
    BY <1>3, <2>1
  <2>4. next > 1 /\ c.seq <= next - 1
    BY <1>1, <2>3
  <2>5. PICK d \in AllChunks(u, v) : d.seq = next - 1
    BY <1>1, <2>4
  <2>6. d \in outgoing_chunk[u][v]
    BY <1>1, <1>3, <2>3, <2>4, <2>5
  <2>7. c.seq = next - 1
    BY <1>1, <2>2, <2>3, <2>4, <2>5, <2>6
  <2> QED BY <1>1, <2>1, <2>7 DEF next
<1> QED BY <1>4, <1>5

\* The pieces of a message up to a number are as many as the numbers.
LEMMA PiecesUpTo ==
  ASSUME NEW q \in Span, NEW s \in Nat,
         q.start <= s + 1, s < q.start + q.num
  PROVE  Cardinality({c \in ChunksOf(q) : c.seq <= s}) = s + 1 - q.start
<1> DEFINE P == {c \in ChunksOf(q) : c.seq <= s}
           C(k) == [msg |-> q.msg, seq |-> k, start |-> q.start, num |-> q.num]
           f == [k \in q.start .. s |-> C(k)]
<1>1. q.start \in Nat /\ q.num \in Nat
  BY DEF Span
<1>2. ChunksOf(q) = {C(k) : k \in q.start .. q.start + q.num - 1}
  BY DEF ChunksOf
<1>3. \A k : C(k).seq = k
  OBVIOUS
<1> HIDE DEF C
<1>4. \A k \in q.start .. s : C(k) \in P
  <2> TAKE k \in q.start .. s
  <2>1. k \in q.start .. q.start + q.num - 1 /\ k <= s
    BY <1>1
  <2> QED BY <1>2, <1>3, <2>1
<1>5. \A c \in P : \E k \in q.start .. s : C(k) = c
  <2> TAKE c \in P
  <2>1. PICK k \in q.start .. q.start + q.num - 1 : c = C(k)
    BY <1>2
  <2>2. k <= s
    BY <1>3, <2>1
  <2>3. k \in q.start .. s
    BY <1>1, <2>2
  <2> QED BY <2>1, <2>3
<1>6. f \in [q.start .. s -> P]
  BY <1>4
<1>7. \A j, k \in q.start .. s : f[j] = f[k] => j = k
  BY <1>3
<1>8. \A c \in P : \E k \in q.start .. s : f[k] = c
  BY <1>5
<1> HIDE DEF f, P
<1>9. f \in Bijection(q.start .. s, P)
  BY <1>6, <1>7, <1>8, Fun_IsBij
<1>10. ExistsBijection(q.start .. s, P)
  BY <1>9 DEF ExistsBijection
<1>11. /\ IsFiniteSet(q.start .. s)
       /\ Cardinality(q.start .. s) = IF q.start > s THEN 0 ELSE s - q.start + 1
  <2>1. q.start \in Int /\ s \in Int
    BY <1>1
  <2> DEFINE first == q.start
  <2>2. first \in Int
    BY <2>1
  <2> HIDE DEF first
  <2>3. /\ IsFiniteSet(first .. s)
        /\ Cardinality(first .. s) = IF first > s THEN 0 ELSE s - first + 1
    BY <2>1, <2>2, FS_Interval
  <2> QED BY <2>3 DEF first
<1>12. Cardinality(P) = Cardinality(q.start .. s)
  BY <1>10, <1>11, FS_Bijection
<1> QED BY <1>1, <1>11, <1>12 DEF P

-----------------------------------------------------------------------------
(* The inbox.  What v has assembled is the first spans of the link, and    *)
(* what it has collected is the part of the next one up to received_seqnum;*)
(* a span is assembled the moment its last chunk is there.                 *)

Inbox(u, v) ==
  LET q == queued[u][v]
      n == Len(received[v][u])
      r == received_seqnum[v][u]
  IN  /\ n <= Len(q)
      /\ \A k \in 1 .. n : received[v][u][k] = ChunksOf(q[k])
      /\ n > 0 => r + 1 >= q[n].start + q[n].num
      /\ IF n = Len(q) THEN incoming_chunk[v][u] = {}
         ELSE /\ incoming_chunk[v][u] = {c \in ChunksOf(q[n + 1]) : c.seq <= r}
              /\ r + 1 < q[n + 1].start + q[n + 1].num

\* All there is to know of one link.
LinkInv(u, v) == Retained(u, v) /\ Window(u, v) /\ Spans(u, v) /\ Inbox(u, v)

DeliveryInv == WindowInv /\ \A u, v \in Daemon : Spans(u, v) /\ Inbox(u, v)

\* received_seqnum never gets past the numbers given out.
LEMMA SeqnumBelowNext ==
  ASSUME TypeInv, NoEmptyMessage, NEW u \in Daemon, NEW v \in Daemon,
         Spans(u, v), Window(u, v)
  PROVE  received_seqnum[v][u] < NextSeqnum(u, v)
<1>1. /\ NextSeqnum(u, v) \in Nat \ {0}
      /\ received_seqnum[v][u] \in Nat
      /\ \A c \in AllChunks(u, v) : c.seq < NextSeqnum(u, v)
  BY SpanFacts, ChunkFacts, LinkTypes
<1>2. CASE received_seqnum[v][u] = 0
  BY <1>1, <1>2
<1>3. CASE received_seqnum[v][u] > 0
  <2>1. received_seqnum[v][u] \in 1 .. received_seqnum[v][u]
    BY <1>1, <1>3
  <2>2. PICK c \in AllChunks(u, v) : c.seq = received_seqnum[v][u]
    BY <2>1 DEF Window
  <2> QED BY <1>1, <2>2
<1> QED BY <1>1, <1>2, <1>3

\* A span queued after the others.
LEMMA AppendedSpan ==
  ASSUME TypeInv, NoEmptyMessage, NEW u \in Daemon, NEW v \in Daemon, NEW m \in Message,
         Retained(u, v), Window(u, v), Spans(u, v), LinkQueues(u, v, m)
  PROVE  /\ Len(queued'[u][v]) = Len(queued[u][v]) + 1
         /\ \A k \in 1 .. Len(queued[u][v]) : queued'[u][v][k] = queued[u][v][k]
         /\ LET q == queued'[u][v][Len(queued[u][v]) + 1]
            IN  q.msg = m /\ q.start = NextSeqnum(u, v) /\ q.num = NumChunks[m]
<1>1. queued[u][v] \in Seq(Span) /\ NewSpan(u, v, m) \in Span
  BY NewSpanType, SpanFacts
<1>2. queued'[u][v] = Append(queued[u][v], NewSpan(u, v, m))
  BY DEF LinkQueues
<1>3. LET q == NewSpan(u, v, m)
      IN  q.msg = m /\ q.start = NextSeqnum(u, v) /\ q.num = NumChunks[m]
  BY SeqnumIsNext DEF NewSpan
<1> QED BY <1>1, <1>2, <1>3

LEMMA SpansStep ==
  ASSUME TypeInv, NoEmptyMessage, NEW u \in Daemon, NEW v \in Daemon,
         Retained(u, v), Window(u, v), Spans(u, v), LinkStep(u, v)
  PROVE  Spans(u, v)'
<1> DEFINE q == queued[u][v]
           p == queued'[u][v]
           n == Len(queued[u][v])
<1>1. FirstSeqnum(u, v)' = FirstSeqnum(u, v)
  BY DEF FirstSeqnum, InitialChunks
<1>2. CASE p = q
  BY <1>1, <1>2 DEF Spans
<1>3. ASSUME NEW m \in Message, LinkQueues(u, v, m)
      PROVE  Spans(u, v)'
  <2>1. /\ Len(p) = n + 1
        /\ \A k \in 1 .. n : p[k] = q[k]
        /\ p[n + 1].msg = m /\ p[n + 1].start = NextSeqnum(u, v) /\ p[n + 1].num = NumChunks[m]
    BY <1>3, AppendedSpan
  <2>2. /\ n \in Nat
        /\ NextSeqnum(u, v) \in Nat /\ NextSeqnum(u, v) >= FirstSeqnum(u, v)
        /\ \A k \in 1 .. n : /\ q[k].start \in Nat /\ q[k].num \in Nat
                             /\ q[k].start + q[k].num <= NextSeqnum(u, v)
    BY SpanFacts
  <2>3. /\ n = 0 => NextSeqnum(u, v) = FirstSeqnum(u, v)
        /\ n > 0 => NextSeqnum(u, v) = q[n].start + q[n].num
    BY SpanFacts DEF NextSeqnum
  <2>4. /\ \A k \in 1 .. n : q[k].num = NumChunks[q[k].msg]
        /\ \A k \in 1 .. n : q[k].start >= FirstSeqnum(u, v)
        /\ n > 0 => q[1].start = FirstSeqnum(u, v)
        /\ \A k \in 1 .. n : k < n => q[k + 1].start = q[k].start + q[k].num
        /\ \A j, k \in 1 .. n : j < k => q[j].start + q[j].num <= q[k].start
    BY <2>2 DEF Spans
  <2> HIDE DEF p, q, n
  <2>5. \A k \in 1 .. n + 1 : k \in 1 .. n \/ k = n + 1
    BY <2>2
  <2>6. \A k \in 1 .. n + 1 : p[k].num = NumChunks[p[k].msg]
    BY <2>1, <2>4, <2>5
  <2>7. \A k \in 1 .. n + 1 : p[k].start >= FirstSeqnum(u, v)
    BY <2>1, <2>2, <2>4, <2>5
  <2>8. p[1].start = FirstSeqnum(u, v)
    BY <2>1, <2>2, <2>3, <2>4
  <2>9. \A k \in 1 .. n + 1 : k < n + 1 => p[k + 1].start = p[k].start + p[k].num
    <3> SUFFICES ASSUME NEW k \in 1 .. n
                 PROVE  p[k + 1].start = p[k].start + p[k].num
      BY <2>2
    <3>1. CASE k = n
      BY <2>1, <2>2, <2>3, <3>1
    <3>2. CASE k < n
      <4>1. k + 1 \in 1 .. n
        BY <2>2, <3>2
      <4> QED BY <2>1, <2>4, <3>2, <4>1
    <3> QED BY <2>2, <3>1, <3>2
  <2>10. \A j, k \in 1 .. n + 1 : j < k => p[j].start + p[j].num <= p[k].start
    <3> SUFFICES ASSUME NEW j \in 1 .. n + 1, NEW k \in 1 .. n + 1, j < k
                 PROVE  p[j].start + p[j].num <= p[k].start
      OBVIOUS
    <3>1. j \in 1 .. n
      BY <2>2
    <3>2. CASE k = n + 1
      BY <2>1, <2>2, <3>1, <3>2
    <3>3. CASE k \in 1 .. n
      BY <2>1, <2>4, <3>1, <3>3
    <3> QED BY <2>5, <3>2, <3>3
  <2> QED BY <1>1, <2>1, <2>6, <2>7, <2>8, <2>9, <2>10 DEF Spans, p
<1> QED BY <1>2, <1>3
      DEF LinkStep, SenderIdle, LinkAcks, LinkReceives, LinkIsInvited

\* The last span assembled ends before the next chunk expected, and the spans
\* after the one being collected start after it.
LEMMA InboxFacts ==
  ASSUME TypeInv, NoEmptyMessage, NEW u \in Daemon, NEW v \in Daemon,
         Spans(u, v), Inbox(u, v)
  PROVE  LET q == queued[u][v]
             n == Len(received[v][u])
             r == received_seqnum[v][u]
         IN  /\ n \in Nat /\ r \in Nat
             /\ \A k \in 1 .. n : q[k].start + q[k].num <= r + 1
             /\ n < Len(q) => q[n + 1].start <= r + 1 \/ n = 0
             /\ \A k \in 1 .. Len(q) : k > n + 1 => q[k].start > r + 1
<1> DEFINE q == queued[u][v]
           n == Len(received[v][u])
           r == received_seqnum[v][u]
<1>1. n \in Nat /\ r \in Nat
  <2>1. received[v][u] \in Seq(SUBSET Chunk)
    BY LinkSequences
  <2> QED BY <2>1, LinkTypes
<1>2. /\ Len(q) \in Nat /\ n <= Len(q)
      /\ \A k \in 1 .. Len(q) : q[k].start \in Nat /\ q[k].num \in Nat \ {0}
  BY SpanFacts DEF Inbox
<1>3. /\ \A j, k \in 1 .. Len(q) : j < k => q[j].start + q[j].num <= q[k].start
      /\ \A k \in 1 .. Len(q) : k < Len(q) => q[k + 1].start = q[k].start + q[k].num
      /\ n > 0 => r + 1 >= q[n].start + q[n].num
      /\ n < Len(q) => r + 1 < q[n + 1].start + q[n + 1].num
  <2>1. /\ \A j, k \in 1 .. Len(q) : j < k => q[j].start + q[j].num <= q[k].start
        /\ \A k \in 1 .. Len(q) : k < Len(q) => q[k + 1].start = q[k].start + q[k].num
    BY <1>1, <1>2 DEF Spans
  <2>2. /\ n > 0 => r + 1 >= q[n].start + q[n].num
        /\ n # Len(q) => r + 1 < q[n + 1].start + q[n + 1].num
    BY Zenon DEF Inbox
  <2> HIDE DEF q, n, r
  <2>3. n < Len(q) => n # Len(q)
    BY <1>1, <1>2
  <2> QED BY <2>1, <2>2, <2>3, Zenon
<1> HIDE DEF q, n, r
<1>4. \A k \in 1 .. n : q[k].start + q[k].num <= r + 1
  <2> TAKE k \in 1 .. n
  <2>1. k \in 1 .. Len(q) /\ n \in 1 .. Len(q)
    BY <1>1, <1>2
  <2>2. k = n \/ q[k].start + q[k].num <= q[n].start
    BY <1>1, <1>3, <2>1
  <2>3. /\ r + 1 >= q[n].start + q[n].num
        /\ q[n].start \in Nat /\ q[n].num \in Nat
        /\ q[k].start \in Nat /\ q[k].num \in Nat
    BY <1>2, <1>3, <2>1
  <2> QED BY <1>1, <2>2, <2>3
<1>5. ASSUME n < Len(q), n # 0
      PROVE  q[n + 1].start <= r + 1
  <2>1. n \in 1 .. Len(q)
    BY <1>1, <1>2, <1>5
  <2>2. q[n + 1].start = q[n].start + q[n].num
    BY <1>3, <1>5, <2>1
  <2> QED BY <1>1, <1>3, <1>5, <2>2
<1>6. ASSUME NEW k \in 1 .. Len(q), k > n + 1
      PROVE  q[k].start > r + 1
  <2>1. n + 1 \in 1 .. Len(q) /\ n < Len(q)
    BY <1>1, <1>2, <1>6
  <2>2. q[n + 1].start + q[n + 1].num <= q[k].start
    BY <1>3, <1>6, <2>1
  <2>3. r + 1 < q[n + 1].start + q[n + 1].num
    BY <1>3, <2>1
  <2>4. q[n + 1].start \in Nat /\ q[n + 1].num \in Nat /\ q[k].start \in Nat
    BY <1>2, <2>1
  <2> QED BY <1>1, <2>2, <2>3, <2>4
<1> QED BY <1>1, <1>4, <1>5, <1>6 DEF q, n, r

\* A new chunk of a message that can arrive belongs to the span being collected.
LEMMA ChunkBelongs ==
  ASSUME TypeInv, NoEmptyMessage, NEW u \in Daemon, NEW v \in Daemon, LinkInv(u, v),
         NEW c \in SentChunks(u, v), LinkReceives(u, v, c)
  PROVE  LET q == queued[u][v]
             n == Len(received[v][u])
         IN  n < Len(q) /\ c \in ChunksOf(q[n + 1])
<1> DEFINE q == queued[u][v]
           n == Len(received[v][u])
           r == received_seqnum[v][u]
<1>1. c \in AllChunks(u, v) /\ c.seq = r + 1 /\ c.msg # Invitation
  BY NewChunkIsNext DEF LinkInv, LinkReceives
<1>2. c \notin InitialChunks(u, v)
  BY <1>1 DEF InitialChunks, InvitationChunk
<1>3. PICK k \in DOMAIN q : c \in ChunksOf(q[k])
  BY <1>1, <1>2 DEF AllChunks
<1>4. /\ k \in 1 .. Len(q) /\ q[k] \in Span /\ Len(q) \in Nat
      /\ q[k].start \in Nat /\ q[k].num \in Nat
  <2>1. q \in Seq(Span) /\ Len(q) \in Nat
    BY SpanFacts DEF LinkInv
  <2>2. k \in 1 .. Len(q)
    BY <1>3, <2>1
  <2>3. q[k] \in Span /\ q[k].start \in Nat /\ q[k].num \in Nat
    BY <2>2, SpanFacts DEF LinkInv
  <2> QED BY <2>1, <2>2, <2>3
<1>5. c.seq \in q[k].start .. q[k].start + q[k].num - 1
  BY <1>3, <1>4, ChunksOfSpan
<1>6. /\ n \in Nat /\ r \in Nat
      /\ \A j \in 1 .. n : q[j].start + q[j].num <= r + 1
      /\ \A j \in 1 .. Len(q) : j > n + 1 => q[j].start > r + 1
  BY InboxFacts DEF LinkInv
<1> HIDE DEF q, n, r
<1>7. k > n
  <2>1. ASSUME k <= n
        PROVE  FALSE
    <3>1. k \in 1 .. n
      BY <1>4, <1>6, <2>1
    <3>2. q[k].start + q[k].num <= r + 1
      BY <1>6, <3>1
    <3> QED BY <1>1, <1>4, <1>5, <1>6, <3>2
  <2> QED BY <1>4, <1>6, <2>1
<1>8. k <= n + 1
  <2>1. ASSUME k > n + 1
        PROVE  FALSE
    <3>1. q[k].start > r + 1
      BY <1>4, <1>6, <2>1
    <3> QED BY <1>1, <1>4, <1>5, <1>6, <3>1
  <2> QED BY <1>4, <1>6, <2>1
<1>9. k = n + 1 /\ n < Len(q)
  BY <1>4, <1>6, <1>7, <1>8
<1> QED BY <1>3, <1>9 DEF q, n

\* Receiving the next chunk of a message.
LEMMA InboxReceives ==
  ASSUME TypeInv, NoEmptyMessage, NEW u \in Daemon, NEW v \in Daemon, LinkInv(u, v),
         NEW c \in SentChunks(u, v), LinkReceives(u, v, c)
  PROVE  Inbox(u, v)'
<1> DEFINE q == queued[u][v]
           n == Len(received[v][u])
           r == received_seqnum[v][u]
           Q == queued[u][v][Len(received[v][u]) + 1]
           inc == incoming_chunk[v][u]
<1>1. n \in Nat /\ r \in Nat /\ Len(q) \in Nat /\ n < Len(q) /\ c \in ChunksOf(Q)
  BY InboxFacts, SpanFacts, ChunkBelongs DEF LinkInv
<1>2. /\ Q \in Span /\ Q.start \in Nat /\ Q.num \in Nat \ {0}
      /\ n + 1 \in 1 .. Len(q)
  <2>1. \A k \in 1 .. Len(q) : q[k] \in Span /\ q[k].start \in Nat \ {0} /\ q[k].num \in Nat \ {0}
    BY SpanFacts DEF LinkInv
  <2>2. n + 1 \in 1 .. Len(q)
    <3> HIDE DEF q, n
    <3> QED BY <1>1
  <2>3. Q = q[n + 1]
    OBVIOUS
  <2> HIDE DEF q, n, Q
  <2> QED BY <2>1, <2>2, <2>3
<1>3. /\ inc = {d \in ChunksOf(Q) : d.seq <= r}
      /\ r + 1 < Q.start + Q.num
      /\ \A k \in 1 .. n : received[v][u][k] = ChunksOf(q[k])
      /\ received[v][u] \in Seq(SUBSET Chunk)
  <2>1. n # Len(q)
    BY <1>1
  <2>2. /\ inc = {d \in ChunksOf(Q) : d.seq <= r}
        /\ r + 1 < Q.start + Q.num
        /\ \A k \in 1 .. n : received[v][u][k] = ChunksOf(q[k])
    BY <2>1 DEF LinkInv, Inbox
  <2>3. received[v][u] \in Seq(SUBSET Chunk)
    BY LinkSequences
  <2> QED BY <2>2, <2>3
<1>4. /\ c.seq = r + 1 /\ received_seqnum'[v][u] = r + 1
      /\ c.start = Q.start /\ c.num = Q.num
      /\ c.seq \in Q.start .. Q.start + Q.num - 1
      /\ queued'[u][v] = q
  <2>1. c.seq = r + 1
    BY NewChunkIsNext DEF LinkInv, LinkReceives
  <2>2. received_seqnum'[v][u] = r + 1 /\ queued'[u][v] = q
    BY <2>1 DEF LinkReceives, SeqnumAfter, SenderIdle
  <2> QED BY <1>1, <1>2, <2>1, <2>2, ChunksOfSpan
<1>5. SameMessage(v, u, c) = {d \in ChunksOf(Q) : d.seq <= r + 1}
  <2>1. \A d \in ChunksOf(Q) : /\ d.start = Q.start /\ d.seq \in Nat
                               /\ d.seq = r + 1 => d = c
    <3>1. \A d \in ChunksOf(Q) : \E k \in Q.start .. Q.start + Q.num - 1 :
            d = [msg |-> Q.msg, seq |-> k, start |-> Q.start, num |-> Q.num]
      BY DEF ChunksOf
    <3>2. c = [msg |-> Q.msg, seq |-> r + 1, start |-> Q.start, num |-> Q.num]
      <4>1. PICK k \in Q.start .. Q.start + Q.num - 1 :
              c = [msg |-> Q.msg, seq |-> k, start |-> Q.start, num |-> Q.num]
        BY <1>1, <3>1
      <4> HIDE DEF Q, r
      <4>2. c.seq = k
        BY <4>1
      <4> QED BY <1>4, <4>1, <4>2
    <3> HIDE DEF Q, r
    <3> QED BY <1>2, <3>1, <3>2
  <2>2. SameMessage(v, u, c) = {d \in inc : d.start = Q.start} \cup {c}
    BY <1>4 DEF SameMessage
  <2> HIDE DEF Q, r, inc
  <2>3. \A d \in ChunksOf(Q) : d.seq <= r + 1 <=> d.seq <= r \/ d = c
    BY <1>1, <1>4, <2>1
  <2>4. {d \in inc : d.start = Q.start} = {d \in ChunksOf(Q) : d.seq <= r}
    BY <1>3, <2>1
  <2> QED BY <1>1, <2>2, <2>3, <2>4
<1>6. IsComplete(v, u, c) <=> r + 2 = Q.start + Q.num
  <2> DEFINE s == r + 1
  <2>1. s \in Nat /\ Q.start <= s + 1 /\ s < Q.start + Q.num
    <3>1. r \in Nat /\ Q.start \in Nat /\ Q.num \in Nat
      BY <1>1, <1>2
    <3>2. Q.start <= r + 1
      <4>1. r + 1 \in Q.start .. Q.start + Q.num - 1
        BY <1>4
      <4> HIDE DEF Q, r
      <4> QED BY <3>1, <4>1
    <3>3. r + 1 < Q.start + Q.num
      BY <1>3
    <3> HIDE DEF Q, r
    <3> QED BY <3>1, <3>2, <3>3
  <2>2. Cardinality({d \in ChunksOf(Q) : d.seq <= s}) = s + 1 - Q.start
    <3> HIDE DEF s, Q
    <3> QED BY <1>2, <2>1, PiecesUpTo
  <2>3. IsComplete(v, u, c) <=> s + 1 - Q.start = Q.num
    BY <1>4, <1>5, <2>2 DEF IsComplete
  <2> HIDE DEF Q, r
  <2> QED BY <1>1, <1>2, <2>3
<1>7. CASE r + 2 = Q.start + Q.num
  <2>1. SameMessage(v, u, c) = ChunksOf(Q)
    <3> HIDE DEF Q, r
    <3>1. \A d \in ChunksOf(Q) : d.seq \in Nat /\ d.seq <= Q.start + Q.num - 1
      <4>1. \A d \in ChunksOf(Q) : d.seq \in Q.start .. Q.start + Q.num - 1
        BY <1>2, ChunksOfSpan
      <4> QED BY <1>2, <4>1
    <3>2. \A d \in ChunksOf(Q) : d.seq <= r + 1
      BY <1>1, <1>2, <1>7, <3>1
    <3> QED BY <1>5, <3>2
  <2>2. /\ received'[v][u] = Append(received[v][u], ChunksOf(Q))
        /\ incoming_chunk'[v][u] = {d \in inc : d.start # c.start}
    BY <1>6, <1>7, <2>1 DEF LinkReceives
  <2>3. incoming_chunk'[v][u] = {}
    BY <1>2, <1>3, <1>4, <2>2, ChunksOfSpan
  <2>4. ChunksOf(Q) \in SUBSET Chunk
    BY <1>2, ChunksOfSpan
  <2>5. /\ Len(received'[v][u]) = n + 1
        /\ \A k \in 1 .. n : received'[v][u][k] = received[v][u][k]
        /\ received'[v][u][n + 1] = ChunksOf(q[n + 1])
    <3> DEFINE got == received[v][u]
               new == received'[v][u]
               C == ChunksOf(Q)
    <3>1. C = ChunksOf(q[n + 1]) /\ n = Len(got)
      OBVIOUS
    <3>2. got \in Seq(SUBSET Chunk) /\ C \in SUBSET Chunk /\ new = Append(got, C)
      BY <1>3, <2>2, <2>4
    <3> HIDE DEF got, new, C
    <3>3. /\ Len(new) = Len(got) + 1
          /\ \A k \in 1 .. Len(got) : new[k] = got[k]
          /\ new[Len(got) + 1] = C
      BY <3>2
    <3> HIDE DEF n
    <3>4. Len(new) = n + 1 /\ (\A k \in 1 .. n : new[k] = got[k]) /\ new[n + 1] = C
      BY <3>1, <3>3
    <3> QED BY <3>1, <3>4 DEF got, new
  <2>6. \A k \in 1 .. n + 1 : received'[v][u][k] = ChunksOf(q[k])
    <3> TAKE k \in 1 .. n + 1
    <3>1. k \in 1 .. n \/ k = n + 1
      BY <1>1
    <3> QED BY <1>3, <2>5, <3>1
  <2>7. received_seqnum'[v][u] + 1 >= q[n + 1].start + q[n + 1].num
    <3> HIDE DEF r
    <3> QED BY <1>1, <1>2, <1>4, <1>7
  <2>8. ASSUME n + 1 # Len(q)
        PROVE  /\ {d \in ChunksOf(q[n + 2]) : d.seq <= r + 1} = {}
               /\ r + 2 < q[n + 2].start + q[n + 2].num
    <3>1. n + 2 \in 1 .. Len(q) /\ n + 1 < Len(q)
      <4> HIDE DEF q, n, r, Q
      <4> QED BY <1>1, <2>8
    <3>2. q[n + 2] \in Span /\ q[n + 2].start \in Nat /\ q[n + 2].num \in Nat \ {0}
      BY <3>1, SpanFacts DEF LinkInv
    <3>3. q[n + 2].start = r + 2
      <4>1. q[n + 1 + 1].start = q[n + 1].start + q[n + 1].num
        BY <1>2, <3>1 DEF LinkInv, Spans
      <4>2. n + 1 + 1 = n + 2
        BY <1>1
      <4> QED BY <1>7, <4>1, <4>2
    <3>4. \A d \in ChunksOf(q[n + 2]) : d.seq \in q[n + 2].start .. q[n + 2].start + q[n + 2].num - 1
      BY <3>2, ChunksOfSpan
    <3> HIDE DEF q, n, r
    <3>5. \A d \in ChunksOf(q[n + 2]) : ~ (d.seq <= r + 1)
      BY <1>1, <3>2, <3>3, <3>4
    <3> QED BY <1>1, <3>2, <3>3, <3>5
  <2>9. n + 1 <= Len(q)
    BY <1>1
  <2> HIDE DEF q, n, r
  <2>10. n + 1 + 1 = n + 2 /\ r + 1 + 1 = r + 2
    BY <1>1
  <2> QED BY <1>1, <1>4, <2>3, <2>5, <2>6, <2>7, <2>8, <2>9, <2>10 DEF Inbox
<1>8. CASE r + 2 # Q.start + Q.num
  <2>1. /\ received'[v][u] = received[v][u]
        /\ incoming_chunk'[v][u] = inc \cup {c}
    BY <1>6, <1>8 DEF LinkReceives
  <2>2. incoming_chunk'[v][u] = {d \in ChunksOf(Q) : d.seq <= r + 1}
    <3>1. \A d \in inc : d.start = c.start
      BY <1>2, <1>3, <1>4, ChunksOfSpan
    <3>2. SameMessage(v, u, c) = inc \cup {c}
      BY <3>1 DEF SameMessage
    <3> QED BY <1>5, <2>1, <3>2
  <2>3. r + 2 < Q.start + Q.num
    <3> HIDE DEF Q, r
    <3> QED BY <1>1, <1>2, <1>3, <1>8
  <2>4. n > 0 => r + 2 >= q[n].start + q[n].num
    <3>1. n > 0 => r + 1 >= q[n].start + q[n].num
      BY DEF LinkInv, Inbox
    <3>2. n > 0 => q[n].start \in Nat /\ q[n].num \in Nat
      BY <1>1, SpanFacts DEF LinkInv
    <3> HIDE DEF q, n, r
    <3> QED BY <1>1, <3>1, <3>2
  <2>5. n <= Len(q) /\ n # Len(q) /\ r + 1 + 1 = r + 2
    BY <1>1
  <2> QED BY <1>3, <1>4, <2>1, <2>2, <2>3, <2>4, <2>5 DEF Inbox
<1> QED BY <1>7, <1>8

\* The invitation of a link comes before all its messages.
LEMMA InboxInvited ==
  ASSUME TypeInv, NoEmptyMessage, NEW u \in Daemon, NEW v \in Daemon, LinkInv(u, v),
         NEW c \in SentChunks(u, v), LinkIsInvited(u, v, c)
  PROVE  Inbox(u, v)'
<1> DEFINE q == queued[u][v]
           n == Len(received[v][u])
           r == received_seqnum[v][u]
<1>1. c \in AllChunks(u, v) /\ c.seq = r + 1 /\ c.msg = Invitation
  BY NewChunkIsNext DEF LinkInv, LinkIsInvited
<1>2. /\ n \in Nat /\ r \in Nat /\ Len(q) \in Nat /\ n <= Len(q)
      /\ \A k \in 1 .. n : q[k].start + q[k].num <= r + 1
      /\ \A k \in 1 .. Len(q) : /\ q[k] \in Span /\ q[k].msg # Invitation
                               /\ q[k].start \in Nat /\ q[k].num \in Nat \ {0}
  <2>1. Spans(u, v) /\ Inbox(u, v)
    BY DEF LinkInv
  <2>2. /\ n \in Nat /\ r \in Nat
        /\ \A k \in 1 .. n : q[k].start + q[k].num <= r + 1
    BY <2>1, InboxFacts
  <2>3. Len(q) \in Nat
    BY <2>1, SpanFacts
  <2>4. n <= Len(q)
    BY <2>1 DEF Inbox
  <2>5. \A k \in 1 .. Len(q) : /\ q[k] \in Span /\ q[k].msg \in Message
                               /\ q[k].start \in Nat /\ q[k].num \in Nat \ {0}
    BY <2>1, SpanFacts
  <2> HIDE DEF q, n, r
  <2> QED BY <2>2, <2>3, <2>4, <2>5, MessageAssumption
<1>3. c = InvitationChunk /\ FirstSeqnum(u, v) = 2
  <2>1. c \in InitialChunks(u, v)
    <3>1. ASSUME NEW k \in DOMAIN q, c \in ChunksOf(q[k])
          PROVE  FALSE
      <4>1. q \in Seq(Span)
        BY SpanFacts DEF LinkInv
      <4>2. k \in 1 .. Len(q)
        BY <3>1, <4>1
      <4>3. c.msg = q[k].msg
        BY <1>2, <3>1, <4>2, ChunksOfSpan
      <4> QED BY <1>1, <1>2, <4>2, <4>3
    <3> QED BY <1>1, <3>1 DEF AllChunks
  <2> QED BY <2>1 DEF InitialChunks, FirstSeqnum
<1>4. r = 0
  BY <1>1, <1>2, <1>3 DEF InvitationChunk
<1>5. \A k \in 1 .. Len(q) : q[k].start >= 2
  BY <1>3 DEF LinkInv, Spans
<1>6. /\ received'[v][u] = received[v][u]
      /\ received_seqnum'[v][u] = 1
      /\ incoming_chunk'[v][u] = incoming_chunk[v][u]
      /\ queued'[u][v] = q
  BY <1>1, <1>4 DEF LinkIsInvited, SeqnumAfter, SenderIdle
<1>7. n = 0
  <2>1. ASSUME n > 0
        PROVE  FALSE
    <3>1. n \in 1 .. n /\ n \in 1 .. Len(q)
      BY <1>2, <2>1
    <3>2. q[n].start + q[n].num <= 1 /\ q[n].start >= 2 /\ q[n].num \in Nat /\ q[n].start \in Nat
      BY <1>2, <1>4, <1>5, <3>1
    <3> HIDE DEF q, n
    <3> QED BY <3>2
  <2> QED BY <1>2, <2>1
<1>8. CASE Len(q) = 0
  <2>1. incoming_chunk[v][u] = {}
    BY <1>7, <1>8 DEF LinkInv, Inbox
  <2> QED BY <1>6, <1>7, <1>8, <2>1 DEF Inbox
<1>9. CASE Len(q) # 0
  <2>1. 1 \in 1 .. Len(q)
    BY <1>2, <1>9
  <2>2. incoming_chunk[v][u] = {d \in ChunksOf(q[1]) : d.seq <= 0}
    BY <1>4, <1>7, <1>9 DEF LinkInv, Inbox
  <2>3. \A d \in ChunksOf(q[1]) : ~ (d.seq <= 0) /\ ~ (d.seq <= 1)
    <3>1. \A d \in ChunksOf(q[1]) : d.seq \in q[1].start .. q[1].start + q[1].num - 1
      BY <1>2, <2>1, ChunksOfSpan
    <3> QED BY <1>2, <1>5, <2>1, <3>1
  <2>4. 2 < q[1].start + q[1].num
    BY <1>2, <1>5, <2>1
  <2>5. incoming_chunk'[v][u] = {d \in ChunksOf(q[1]) : d.seq <= 1}
    BY <1>6, <2>2, <2>3
  <2> HIDE DEF q
  <2> QED BY <1>2, <1>6, <1>7, <1>9, <2>4, <2>5 DEF Inbox, q
<1> QED BY <1>8, <1>9

\* Queueing one more message.
LEMMA InboxQueues ==
  ASSUME TypeInv, NoEmptyMessage, NEW u \in Daemon, NEW v \in Daemon, LinkInv(u, v),
         NEW m \in Message, LinkQueues(u, v, m)
  PROVE  Inbox(u, v)'
<1> DEFINE q == queued[u][v]
           p == queued'[u][v]
           n == Len(received[v][u])
           r == received_seqnum[v][u]
<1>1. /\ Len(p) = Len(q) + 1
      /\ \A k \in 1 .. Len(q) : p[k] = q[k]
      /\ p[Len(q) + 1].start = NextSeqnum(u, v)
      /\ p[Len(q) + 1].num = NumChunks[m]
  BY AppendedSpan DEF LinkInv
<1>2. /\ n \in Nat /\ r \in Nat /\ Len(q) \in Nat /\ n <= Len(q)
      /\ NextSeqnum(u, v) \in Nat /\ r < NextSeqnum(u, v)
      /\ NumChunks[m] \in Nat \ {0}
  <2>1. NumChunks[m] \in Nat \ {0}
    BY MessageAssumption DEF NoEmptyMessage
  <2> QED BY <2>1, InboxFacts, SpanFacts, SeqnumBelowNext DEF LinkInv, Inbox
<1>3. /\ received'[v][u] = received[v][u] /\ received_seqnum'[v][u] = r
      /\ incoming_chunk'[v][u] = incoming_chunk[v][u]
  BY DEF LinkQueues, ReceiverIdle
<1>4. /\ \A k \in 1 .. n : received[v][u][k] = ChunksOf(q[k])
      /\ n > 0 => r + 1 >= q[n].start + q[n].num
      /\ n = Len(q) => incoming_chunk[v][u] = {}
      /\ n # Len(q) => /\ incoming_chunk[v][u] = {c \in ChunksOf(q[n + 1]) : c.seq <= r}
                       /\ r + 1 < q[n + 1].start + q[n + 1].num
  BY DEF LinkInv, Inbox
<1> HIDE DEF p, q, n, r
<1>5. /\ \A k \in 1 .. n : received[v][u][k] = ChunksOf(p[k])
      /\ n > 0 => r + 1 >= p[n].start + p[n].num
      /\ n <= Len(p) /\ n # Len(p)
  BY <1>1, <1>2, <1>4
<1>6. /\ incoming_chunk[v][u] = {c \in ChunksOf(p[n + 1]) : c.seq <= r}
      /\ r + 1 < p[n + 1].start + p[n + 1].num
  <2>1. CASE n # Len(q)
    <3>1. n + 1 \in 1 .. Len(q)
      BY <1>2, <2>1
    <3> QED BY <1>1, <1>4, <2>1, <3>1
  <2>2. CASE n = Len(q)
    <3>1. p[n + 1].start = NextSeqnum(u, v) /\ p[n + 1].num = NumChunks[m]
      BY <1>1, <2>2
    <3>2. \A c \in ChunksOf(p[n + 1]) : ~ (c.seq <= r)
      <4> TAKE c \in ChunksOf(p[n + 1])
      <4>1. PICK s \in p[n + 1].start .. p[n + 1].start + p[n + 1].num - 1 :
              c = [msg |-> p[n + 1].msg, seq |-> s, start |-> p[n + 1].start,
                   num |-> p[n + 1].num]
        BY DEF ChunksOf
      <4>2. c.seq = s
        BY <4>1
      <4>3. s > r
        BY <1>2, <3>1
      <4> QED BY <1>2, <3>1, <4>2, <4>3
    <3> QED BY <1>2, <1>4, <2>2, <3>1, <3>2
  <2> QED BY <2>1, <2>2
<1> QED BY <1>3, <1>5, <1>6 DEF Inbox, p, n, r

LEMMA InboxStep ==
  ASSUME TypeInv, NoEmptyMessage, NEW u \in Daemon, NEW v \in Daemon, LinkInv(u, v),
         LinkStep(u, v)
  PROVE  Inbox(u, v)'
<1>1. CASE SenderIdle(u, v) /\ ReceiverIdle(u, v)
  BY <1>1 DEF SenderIdle, ReceiverIdle, LinkInv, Inbox
<1>2. CASE \E ack \in 0 .. received_seqnum[v][u] : LinkAcks(u, v, ack)
  BY <1>2 DEF LinkAcks, ReceiverIdle, LinkInv, Inbox
<1> QED BY <1>1, <1>2, InboxQueues, InboxReceives, InboxInvited DEF LinkStep

LEMMA DeliveryInit ==
  ASSUME NoEmptyMessage
  PROVE  DbInit => DeliveryInv
<1> SUFFICES ASSUME DbInit, NEW u \in Daemon, NEW v \in Daemon
             PROVE  Spans(u, v) /\ Inbox(u, v)
  BY WindowInit DEF DeliveryInv
<1>1. /\ queued[u][v] = <<>> /\ received[v][u] = <<>>
      /\ incoming_chunk[v][u] = {}
  BY DEF DbInit
<1> QED BY <1>1 DEF Spans, Inbox

LEMMA DeliveryLink ==
  ASSUME DeliveryInv, NEW u \in Daemon, NEW v \in Daemon
  PROVE  TypeInv /\ LinkInv(u, v)
BY DEF DeliveryInv, WindowInv, RetainedInv, UnackedIsRetained, Retained, LinkInv

LEMMA DeliveryInductive ==
  ASSUME NoEmptyMessage
  PROVE  DeliveryInv /\ [DbNext]_dbvars => DeliveryInv'
<1> SUFFICES ASSUME DeliveryInv, [DbNext]_dbvars
             PROVE  DeliveryInv'
  OBVIOUS
<1>1. WindowInv'
  BY WindowInductive DEF DeliveryInv
<1>2. ASSUME NEW u \in Daemon, NEW v \in Daemon
      PROVE  Spans(u, v)' /\ Inbox(u, v)'
  <2>1. TypeInv /\ LinkInv(u, v) /\ LinkStep(u, v)
    BY DeliveryLink, EveryStepOnLink
  <2> QED BY <2>1, SpansStep, InboxStep DEF LinkInv
<1> QED BY <1>1, <1>2 DEF DeliveryInv

\* Messages reach a friend whole, each exactly once and in the order in which
\* they were queued, whatever the network loses, repeats, delays or reorders,
\* provided that there are no empty ones.
THEOREM InOrder ==
  ASSUME NoEmptyMessage
  PROVE  DbSpec => []InOrderExactlyOnce
<1>1. DeliveryInv => InOrderExactlyOnce
  <2> SUFFICES ASSUME DeliveryInv, NEW u \in Daemon, NEW v \in Daemon
               PROVE  /\ Len(received[v][u]) <= Len(queued[u][v])
                      /\ \A k \in DOMAIN received[v][u] :
                           received[v][u][k] = ChunksOf(queued[u][v][k])
    BY DEF InOrderExactlyOnce
  <2>1. received[v][u] \in Seq(SUBSET Chunk)
    BY DeliveryLink, LinkSequences
  <2>2. DOMAIN received[v][u] = 1 .. Len(received[v][u])
    BY <2>1
  <2> QED BY <2>2, DeliveryLink DEF LinkInv, Inbox
<1>2. DbSpec => []DeliveryInv
  BY DeliveryInit, DeliveryInductive, PTL DEF DbSpec
<1> QED BY <1>1, <1>2, PTL

\* A chunk is either the invitation or one of a span.
LEMMA MessageChunks ==
  ASSUME TypeInv, NoEmptyMessage, NEW u \in Daemon, NEW v \in Daemon, Spans(u, v)
  PROVE  \A c : c \in AllChunks(u, v) \ InitialChunks(u, v) <=>
                \E k \in 1 .. Len(queued[u][v]) : c \in ChunksOf(queued[u][v][k])
<1>1. DOMAIN queued[u][v] = 1 .. Len(queued[u][v])
  BY SpanFacts
<1>2. ASSUME NEW k \in 1 .. Len(queued[u][v]), NEW c \in ChunksOf(queued[u][v][k])
      PROVE  c \notin InitialChunks(u, v)
  <2>1. queued[u][v][k] \in Span /\ queued[u][v][k].msg # Invitation
    BY SpanFacts, MessageAssumption
  <2>2. c.msg # Invitation
    BY <2>1, ChunksOfSpan
  <2> QED BY <2>2 DEF InitialChunks, InvitationChunk
<1> QED BY <1>1, <1>2 DEF AllChunks

\* "We guarantee that we have received all sequence numbers up to and including
\* this value": for every daemon and friend, the chunks up to received_seqnum
\* are those assembled or collected, and no other is.
THEOREM ReceivedUpTo ==
  ASSUME NoEmptyMessage
  PROVE  DbSpec => []ReceivedUpToSeqnum
<1>1. ASSUME DeliveryInv, NEW u \in Daemon, NEW v \in Daemon
      PROVE  {c \in AllChunks(u, v) \ InitialChunks(u, v) : c.seq <= received_seqnum[v][u]} =
             incoming_chunk[v][u] \cup UNION {received[v][u][k] : k \in DOMAIN received[v][u]}
  <2> DEFINE q == queued[u][v]
             got == received[v][u]
             n == Len(received[v][u])
             r == received_seqnum[v][u]
             Q(k) == queued[u][v][k]
  <2>0. TypeInv /\ LinkInv(u, v)
    BY <1>1, DeliveryLink
  <2>1. /\ n \in Nat /\ r \in Nat /\ Len(q) \in Nat /\ n <= Len(q)
        /\ \A k \in 1 .. n : Q(k).start + Q(k).num <= r + 1
        /\ \A k \in 1 .. Len(q) : k > n + 1 => Q(k).start > r + 1
        /\ \A k \in 1 .. Len(q) : /\ Q(k) \in Span
                                 /\ Q(k).start \in Nat /\ Q(k).num \in Nat \ {0}
    <3>1. Spans(u, v) /\ Inbox(u, v) /\ TypeInv
      BY <2>0 DEF LinkInv
    <3>2. /\ n \in Nat /\ r \in Nat
          /\ \A k \in 1 .. n : Q(k).start + Q(k).num <= r + 1
          /\ \A k \in 1 .. Len(q) : k > n + 1 => Q(k).start > r + 1
      BY <3>1, InboxFacts
    <3>3. n <= Len(q)
      BY <3>1 DEF Inbox
    <3>4. /\ Len(q) \in Nat
          /\ \A k \in 1 .. Len(q) : /\ Q(k) \in Span
                                   /\ Q(k).start \in Nat /\ Q(k).num \in Nat \ {0}
      BY <3>1, SpanFacts
    <3> QED BY <3>2, <3>3, <3>4
  <2>2. \A k \in 1 .. Len(q) : \A c \in ChunksOf(Q(k)) :
          c.seq \in Q(k).start .. Q(k).start + Q(k).num - 1
    BY <2>1, ChunksOfSpan
  <2>3. DOMAIN got = 1 .. n /\ \A k \in 1 .. n : got[k] = ChunksOf(Q(k))
    <3>1. got \in Seq(SUBSET Chunk)
      BY <2>0, LinkSequences
    <3> QED BY <2>0, <3>1 DEF LinkInv, Inbox
  <2>4. /\ n = Len(q) => incoming_chunk[v][u] = {}
        /\ n # Len(q) => incoming_chunk[v][u] = {c \in ChunksOf(Q(n + 1)) : c.seq <= r}
    BY <2>0 DEF LinkInv, Inbox
  <2>5. \A c : c \in AllChunks(u, v) \ InitialChunks(u, v) <=>
               \E k \in 1 .. Len(q) : c \in ChunksOf(Q(k))
    BY <2>0, MessageChunks DEF LinkInv
  <2> HIDE DEF q, got, n, r, Q
  <2>6. ASSUME NEW c \in AllChunks(u, v) \ InitialChunks(u, v), c.seq <= r
        PROVE  c \in incoming_chunk[v][u] \/ \E k \in 1 .. n : c \in got[k]
    <3>1. PICK k \in 1 .. Len(q) : c \in ChunksOf(Q(k))
      BY <2>5, <2>6
    <3>2. c.seq \in Nat /\ c.seq >= Q(k).start
      BY <2>1, <2>2, <3>1
    <3>3. k <= n + 1
      BY <2>1, <2>6, <3>1, <3>2
    <3>4. CASE k \in 1 .. n
      BY <2>3, <3>1, <3>4
    <3>5. CASE k = n + 1
      <4>1. n # Len(q)
        BY <2>1, <3>1, <3>5
      <4> QED BY <2>4, <2>6, <3>1, <3>5, <4>1
    <3> QED BY <2>1, <3>1, <3>3, <3>4, <3>5
  <2>7. ASSUME NEW k \in 1 .. n, NEW c \in got[k]
        PROVE  c \in AllChunks(u, v) \ InitialChunks(u, v) /\ c.seq <= r
    <3>1. k \in 1 .. Len(q) /\ c \in ChunksOf(Q(k))
      BY <2>1, <2>3, <2>7
    <3>2. c.seq \in Q(k).start .. Q(k).start + Q(k).num - 1
      BY <2>2, <3>1
    <3>3. Q(k).start + Q(k).num <= r + 1
      BY <2>1
    <3>4. c.seq <= r
      BY <2>1, <3>1, <3>2, <3>3
    <3> QED BY <2>5, <3>1, <3>4
  <2>8. ASSUME NEW c \in incoming_chunk[v][u]
        PROVE  c \in AllChunks(u, v) \ InitialChunks(u, v) /\ c.seq <= r
    <3>1. n # Len(q) /\ c \in ChunksOf(Q(n + 1)) /\ c.seq <= r
      BY <2>4, <2>8
    <3>2. n + 1 \in 1 .. Len(q)
      BY <2>1, <3>1
    <3> QED BY <2>5, <3>1, <3>2
  <2>9. {c \in AllChunks(u, v) \ InitialChunks(u, v) : c.seq <= r} =
         incoming_chunk[v][u] \cup UNION {got[k] : k \in DOMAIN got}
    BY <2>3, <2>6, <2>7, <2>8
  <2> QED BY <2>9 DEF r, got
<1>2. DeliveryInv => ReceivedUpToSeqnum
  BY <1>1 DEF ReceivedUpToSeqnum
<1>3. DbSpec => []DeliveryInv
  BY DeliveryInit, DeliveryInductive, PTL DEF DbSpec
<1> QED BY <1>2, <1>3, PTL

-----------------------------------------------------------------------------
(* The books of the sender: sent_friend against what was queued and what   *)
(* the friend has.                                                         *)

\* What is queued for a friend is for a recipient, and the reverse.
Booked(m, v) ==
  \E k \in 1 .. Len(queued[Author[m]][v]) : queued[Author[m]][v][k].msg = m

Arrived(m, v) ==
  \E k \in 1 .. Len(received[v][Author[m]]) : queued[Author[m]][v][k].msg = m

Books ==
  /\ \A u, v \in Daemon : \A k \in 1 .. Len(queued[u][v]) :
       u = Author[queued[u][v][k].msg] /\ v \in recipients[queued[u][v][k].msg]
  /\ \A m \in Message : \A v \in recipients[m] : Booked(m, v)
  /\ \A m \in Message : \A v \in delivered[m] : Arrived(m, v)

BooksInv == DeliveryInv /\ Books

\* Both sequences of a link only grow.
LEMMA LinkGrows ==
  ASSUME TypeInv, NEW u \in Daemon, NEW v \in Daemon, LinkStep(u, v)
  PROVE  /\ Len(queued[u][v]) \in Nat /\ Len(queued'[u][v]) \in Nat
         /\ Len(queued[u][v]) <= Len(queued'[u][v])
         /\ \A k \in 1 .. Len(queued[u][v]) : queued'[u][v][k] = queued[u][v][k]
         /\ Len(received[v][u]) \in Nat /\ Len(received'[v][u]) \in Nat
         /\ Len(received[v][u]) <= Len(received'[v][u])
<1>1. queued[u][v] \in Seq(Span) /\ received[v][u] \in Seq(SUBSET Chunk)
  BY DEF TypeInv, DbTypeOK
<1>2. \/ queued'[u][v] = queued[u][v]
      \/ \E m \in Message : queued'[u][v] = Append(queued[u][v], NewSpan(u, v, m))
  BY DEF LinkStep, SenderIdle, LinkQueues, LinkAcks, LinkReceives, LinkIsInvited
<1>3. \/ received'[v][u] = received[v][u]
      \/ \E c \in SentChunks(u, v) :
           received'[v][u] = Append(received[v][u], SameMessage(v, u, c))
  BY DEF LinkStep, ReceiverIdle, LinkQueues, LinkAcks, LinkReceives, LinkIsInvited
<1>4. \A m \in Message : NewSpan(u, v, m) \in Span
  BY NewSpanType
<1>5. \A c \in SentChunks(u, v) : SameMessage(v, u, c) \in SUBSET Chunk
  <2>1. incoming_chunk \in [Daemon -> [Daemon -> SUBSET Chunk]]
    BY DEF TypeInv, DbTypeOK
  <2>2. incoming_chunk[v][u] \in SUBSET Chunk /\ SentChunks(u, v) \in SUBSET Chunk
    BY <2>1, AllChunksType DEF SentChunks
  <2> QED BY <2>2 DEF SameMessage
<1>6. /\ Len(queued[u][v]) \in Nat /\ Len(queued'[u][v]) \in Nat
      /\ Len(queued[u][v]) <= Len(queued'[u][v])
      /\ \A k \in 1 .. Len(queued[u][v]) : queued'[u][v][k] = queued[u][v][k]
  BY <1>1, <1>2, <1>4
<1>7. /\ Len(received[v][u]) \in Nat /\ Len(received'[v][u]) \in Nat
      /\ Len(received[v][u]) <= Len(received'[v][u])
  BY <1>1, <1>3, <1>5
<1> QED BY <1>6, <1>7

\* Bookings and arrivals are for good.
LEMMA BooksStay ==
  ASSUME DeliveryInv, [DbNext]_dbvars, NEW m \in Message, NEW v \in Daemon
  PROVE  /\ Booked(m, v) => Booked(m, v)'
         /\ Arrived(m, v) => Arrived(m, v)'
<1> DEFINE u == Author[m]
<1>1. u \in Daemon
  BY MessageAssumption
<1> HIDE DEF u
<1>2. TypeInv /\ LinkInv(u, v) /\ LinkStep(u, v)
  <2>1. TypeInv /\ LinkInv(u, v)
    BY <1>1, DeliveryLink
  <2> QED BY <1>1, <2>1, EveryStepOnLink
<1>3. Len(received[v][u]) <= Len(queued[u][v])
  BY <1>2 DEF LinkInv, Inbox
<1>4. /\ Len(queued[u][v]) \in Nat /\ Len(queued'[u][v]) \in Nat
      /\ Len(queued[u][v]) <= Len(queued'[u][v])
      /\ \A k \in 1 .. Len(queued[u][v]) : queued'[u][v][k] = queued[u][v][k]
      /\ Len(received[v][u]) \in Nat /\ Len(received'[v][u]) \in Nat
      /\ Len(received[v][u]) <= Len(received'[v][u])
  BY <1>1, <1>2, LinkGrows
<1>5. ASSUME Booked(m, v)
      PROVE  Booked(m, v)'
  <2>1. PICK k \in 1 .. Len(queued[u][v]) : queued[u][v][k].msg = m
    BY <1>5 DEF Booked, u
  <2> DEFINE l == Len(queued[u][v])
             p == Len(queued'[u][v])
  <2>2. k \in 1 .. l /\ l \in Nat /\ p \in Nat /\ l <= p
    BY <1>4, <2>1
  <2>3. queued'[u][v][k].msg = m
    BY <1>4, <2>1
  <2> HIDE DEF l, p
  <2>4. k \in 1 .. p
    BY <2>2
  <2> QED BY <2>3, <2>4 DEF Booked, u, p
<1>6. ASSUME Arrived(m, v)
      PROVE  Arrived(m, v)'
  <2>1. PICK k \in 1 .. Len(received[v][u]) : queued[u][v][k].msg = m
    BY <1>6 DEF Arrived, u
  <2>2. k \in 1 .. Len(received'[v][u]) /\ k \in 1 .. Len(queued[u][v])
    BY <1>3, <1>4, <2>1
  <2>3. queued'[u][v][k].msg = m
    BY <1>4, <2>1, <2>2
  <2> QED BY <2>2, <2>3 DEF Arrived, u
<1> QED BY <1>5, <1>6

\* A message none of whose chunks is outstanding for a recipient has arrived
\* there: its last chunk is acked, so it was received.
LEMMA NothingOutstanding ==
  ASSUME NoEmptyMessage, BooksInv, NEW u \in Daemon, NEW v \in Daemon,
         NEW ack \in 0 .. received_seqnum[v][u], LinkAcks(u, v, ack),
         NEW m \in Message, Author[m] = u, v \in recipients[m],
         \A c \in outgoing_chunk'[u][v] : c.msg # m
  PROVE  Arrived(m, v)
<1> DEFINE q == queued[u][v]
           n == Len(received[v][u])
           r == received_seqnum[v][u]
<1>1. TypeInv /\ LinkInv(u, v)
  BY DeliveryLink DEF BooksInv
<1>2. PICK k \in 1 .. Len(q) : q[k].msg = m
  BY DEF BooksInv, Books, Booked
<1>3. /\ n \in Nat /\ r \in Nat /\ Len(q) \in Nat /\ n <= Len(q)
      /\ q[k] \in Span /\ q[k].start \in Nat \ {0} /\ q[k].num \in Nat \ {0}
      /\ k > n + 1 => q[k].start > r + 1
      /\ DOMAIN q = 1 .. Len(q)
  <2>1. Spans(u, v) /\ Inbox(u, v) /\ TypeInv
    BY <1>1 DEF LinkInv
  <2>2. n \in Nat /\ r \in Nat /\ (k > n + 1 => q[k].start > r + 1)
    BY <1>2, <2>1, InboxFacts
  <2>3. n <= Len(q)
    BY <2>1 DEF Inbox
  <2>4. /\ Len(q) \in Nat /\ q \in Seq(Span)
        /\ q[k] \in Span /\ q[k].start \in Nat \ {0} /\ q[k].num \in Nat \ {0}
    BY <1>2, <2>1, SpanFacts
  <2> HIDE DEF q, n, r
  <2> QED BY <2>2, <2>3, <2>4
<1>4. PICK c \in ChunksOf(q[k]) : c.seq = q[k].start + q[k].num - 1
  <2>1. q[k].start + q[k].num - 1 \in q[k].start .. q[k].start + q[k].num - 1
    <3>1. \A i, j \in Nat \ {0} : i + j - 1 \in i .. i + j - 1
      OBVIOUS
    <3> QED BY <1>3, <3>1
  <2> QED BY <1>3, <2>1, ChunksOfSpan
<1>5. c.msg = m /\ c \in AllChunks(u, v)
  BY <1>2, <1>3, <1>4, ChunksOfSpan DEF AllChunks
<1>6. c.seq <= r
  <2>1. c \notin outgoing_chunk'[u][v]
    BY <1>5
  <2>2. /\ outgoing_chunk[u][v] = {d \in AllChunks(u, v) : d.seq > sent_acked_seqnum[u][v]}
        /\ outgoing_chunk'[u][v] = {d \in outgoing_chunk[u][v] : d.seq > ack}
        /\ ack > sent_acked_seqnum[u][v]
    BY <1>1 DEF LinkInv, Retained, LinkAcks
  <2>3. ~ (c.seq > sent_acked_seqnum[u][v]) \/ ~ (c.seq > ack)
    BY <1>5, <2>1, <2>2
  <2>4. sent_acked_seqnum[u][v] \in Nat /\ ack \in Nat /\ ack <= r /\ c.seq \in Nat
    <3>1. sent_acked_seqnum[u][v] \in Nat /\ c.seq \in Nat
      BY <1>1, <1>5, LinkTypes
    <3>2. \A i \in Nat : \A j \in 0 .. i : j \in Nat /\ j <= i
      OBVIOUS
    <3> QED BY <1>3, <3>1, <3>2
  <2> QED BY <1>3, <2>2, <2>3, <2>4
<1>7. k <= n
  <2>1. n < Len(q) => r + 1 < q[n + 1].start + q[n + 1].num
    BY <1>1, <1>3 DEF LinkInv, Inbox
  <2> HIDE DEF q, n, r
  <2>2. k # n + 1
    BY <1>2, <1>3, <1>4, <1>6, <2>1
  <2>3. ~ (k > n + 1)
    BY <1>3, <1>4, <1>6
  <2> QED BY <1>2, <1>3, <2>2, <2>3
<1>8. k \in 1 .. n
  BY <1>2, <1>3, <1>7
<1> QED BY <1>2, <1>8 DEF Arrived

LEMMA BooksQueue ==
  ASSUME NoEmptyMessage, BooksInv, NEW m \in Message,
         NEW rs \in SUBSET Friends(Author[m]), QueueMessage(m, rs)
  PROVE  Books'
<1>1. /\ recipients[m] = {} /\ rs \subseteq Daemon
      /\ recipients' = [recipients EXCEPT ![m] = rs]
      /\ delivered' = delivered
      /\ recipients \in [Message -> SUBSET Daemon]
      /\ delivered \in [Message -> SUBSET Daemon]
      /\ TypeInv /\ Author[m] \in Daemon /\ DeliveryInv
  BY MessageAssumption
     DEF QueueMessage, Friends, BooksInv, DeliveryInv, WindowInv, RetainedInv, TypeInv, DbTypeOK
<1>2. recipients'[m] = rs /\ \A x \in Message : recipients[x] \subseteq recipients'[x]
  BY <1>1
<1>3. [DbNext]_dbvars
  BY DEF DbNext
<1>4. ASSUME NEW u \in Daemon, NEW v \in Daemon, NEW k \in 1 .. Len(queued'[u][v])
      PROVE  /\ u = Author[queued'[u][v][k].msg]
             /\ v \in recipients'[queued'[u][v][k].msg]
  <2>1. LinkInv(u, v) /\ queued[u][v] \in Seq(Span) /\ Len(queued[u][v]) \in Nat
    BY <1>1, DeliveryLink, SpanFacts DEF LinkInv
  <2>2. \A j \in 1 .. Len(queued[u][v]) :
          /\ u = Author[queued[u][v][j].msg]
          /\ v \in recipients[queued[u][v][j].msg]
          /\ queued[u][v][j].msg \in Message
    <3>1. \A j \in 1 .. Len(queued[u][v]) : queued[u][v][j].msg \in Message
      BY <1>1, <2>1, SpanFacts DEF LinkInv
    <3> QED BY <3>1 DEF BooksInv, Books
  <2>3. CASE queued'[u][v] = queued[u][v]
    BY <1>2, <1>4, <2>2, <2>3
  <2>4. CASE /\ u = Author[m] /\ v \in rs
             /\ queued'[u][v] = Append(queued[u][v], NewSpan(u, v, m))
    <3>1. CASE k \in 1 .. Len(queued[u][v])
      <4>1. queued'[u][v][k] = queued[u][v][k]
        BY <2>1, <2>4, <3>1
      <4> QED BY <1>2, <2>2, <3>1, <4>1
    <3>2. CASE k = Len(queued[u][v]) + 1
      <4>1. queued'[u][v][k] = NewSpan(u, v, m)
        BY <2>1, <2>4, <3>2
      <4>2. queued'[u][v][k].msg = m
        BY <1>1, <4>1, NewSpanType
      <4> QED BY <1>2, <2>4, <4>2
    <3>3. Len(queued'[u][v]) = Len(queued[u][v]) + 1
      BY <2>1, <2>4
    <3> QED BY <1>4, <2>1, <3>1, <3>2, <3>3
  <2> QED BY <1>1, <2>3, <2>4, QueueMessageEffect
<1>5. ASSUME NEW x \in Message, NEW v \in recipients'[x]
      PROVE  Booked(x, v)'
  <2>1. CASE v \in recipients[x]
    <3>1. v \in Daemon /\ Booked(x, v)
      BY <1>1, <2>1 DEF BooksInv, Books
    <3> QED BY <1>1, <1>3, <3>1, BooksStay
  <2>2. CASE x = m /\ v \in rs
    <3> DEFINE u == Author[m]
    <3>1. v \in Daemon /\ queued[u][v] \in Seq(Span) /\ NewSpan(u, v, m) \in Span
      <4>1. v \in Daemon /\ u \in Daemon /\ TypeInv
        BY <1>1, <2>2, DeliveryLink
      <4>2. queued \in [Daemon -> [Daemon -> Seq(Span)]]
        BY <4>1 DEF TypeInv, DbTypeOK
      <4>3. NewSpan(u, v, m) \in Span
        BY <4>1, NewSpanType
      <4> HIDE DEF u
      <4> QED BY <4>1, <4>2, <4>3
    <3>2. queued'[u][v] = Append(queued[u][v], NewSpan(u, v, m))
      BY <1>1, <2>2, <3>1, QueueMessageEffect
    <3>3. NewSpan(u, v, m).msg = m
      BY <1>1, <3>1, NewSpanType
    <3>4. /\ Len(queued[u][v]) + 1 \in 1 .. Len(queued'[u][v])
          /\ queued'[u][v][Len(queued[u][v]) + 1] = NewSpan(u, v, m)
      BY <3>1, <3>2
    <3> QED BY <2>2, <3>3, <3>4 DEF Booked
  <2> QED BY <1>1, <2>1, <2>2
<1>6. ASSUME NEW x \in Message, NEW v \in delivered'[x]
      PROVE  Arrived(x, v)'
  <2>1. v \in Daemon /\ Arrived(x, v)
    BY <1>1 DEF BooksInv, Books
  <2> QED BY <1>1, <1>3, <2>1, BooksStay
<1> QED BY <1>4, <1>5, <1>6 DEF Books

LEMMA BooksAck ==
  ASSUME NoEmptyMessage, BooksInv, NEW u \in Daemon, NEW v \in Friends(u),
         NEW ack \in 0 .. received_seqnum[v][u], ReceiveAck(u, v, ack)
  PROVE  Books'
<1>1. /\ v \in Daemon /\ TypeInv /\ DeliveryInv
      /\ recipients' = recipients /\ queued' = queued /\ received' = received
      /\ recipients \in [Message -> SUBSET Daemon]
      /\ delivered \in [Message -> SUBSET Daemon]
  BY DEF ReceiveAck, Friends, BooksInv, DeliveryInv, WindowInv, RetainedInv, TypeInv, DbTypeOK
<1>2. ASSUME NEW m \in Message, NEW w \in delivered'[m], w \notin delivered[m]
      PROVE  Arrived(m, w)
  <2>1. /\ w = v /\ Author[m] = u /\ v \in recipients[m]
        /\ \A x \in Daemon : \A c \in outgoing_chunk'[u][x] : c.msg # m
    <3> DEFINE out == [outgoing_chunk EXCEPT ![u][v] = @ \ AckedChunks(u, v, ack)]
    <3>1. /\ delivered' = [x \in Message |-> IF x \in NewlyDelivered(u, v, out)
                                             THEN delivered[x] \cup {v} ELSE delivered[x]]
          /\ outgoing_chunk' = out
      BY DEF ReceiveAck
    <3> HIDE DEF out
    <3>2. w = v /\ m \in NewlyDelivered(u, v, out)
      BY <1>2, <3>1
    <3> QED BY <3>1, <3>2 DEF NewlyDelivered
  <2>2. LinkAcks(u, v, ack)
    <3>1. LinkStep(u, v) /\ sent_acked_seqnum[u][v] \in Nat /\ ack > sent_acked_seqnum[u][v]
      BY <1>1, ReceiveAckOnLink, LinkTypes DEF ReceiveAck, IsNewAck
    <3>2. /\ sent_acked_seqnum \in [Daemon -> [Daemon -> Nat]]
          /\ received_seqnum \in [Daemon -> [Daemon -> Nat]]
      BY <1>1 DEF TypeInv, DbTypeOK
    <3>3. ack \in Nat
      <4>1. received_seqnum[v][u] \in Nat
        BY <1>1, <3>2
      <4> QED BY <4>1
    <3>4. sent_acked_seqnum' = [sent_acked_seqnum EXCEPT ![u][v] = ack]
      BY DEF ReceiveAck
    <3>5. sent_acked_seqnum'[u][v] = ack
      BY <1>1, <3>2, <3>3, <3>4
    <3>6. sent_acked_seqnum'[u][v] # sent_acked_seqnum[u][v]
      BY <3>1, <3>3, <3>5
    <3>7. \E a \in 0 .. received_seqnum[v][u] : LinkAcks(u, v, a)
      BY <3>1, <3>6 DEF LinkStep, SenderIdle, LinkQueues, LinkReceives, LinkIsInvited
    <3> QED BY <3>5, <3>7 DEF LinkAcks
  <2> QED BY <1>1, <2>1, <2>2, NothingOutstanding
<1>3. ASSUME NEW m \in Message, NEW w \in delivered'[m]
      PROVE  Arrived(m, w)'
  <2>1. Arrived(m, w)
    BY <1>2 DEF BooksInv, Books
  <2> QED BY <1>1, <2>1 DEF Arrived
<1> QED BY <1>1, <1>3 DEF BooksInv, Books, Booked

LEMMA BooksReceive ==
  ASSUME BooksInv, NEW u \in Daemon, NEW v \in Friends(u), NEW c \in SentChunks(v, u),
         ReceiveChunk(u, v, c) \/ ReceiveInvitation(u, v, c)
  PROVE  Books'
<1>1. /\ recipients' = recipients /\ delivered' = delivered /\ queued' = queued
      /\ delivered \in [Message -> SUBSET Daemon]
      /\ DeliveryInv /\ [DbNext]_dbvars
  BY DEF ReceiveChunk, ReceiveInvitation, BooksInv, DeliveryInv, WindowInv, RetainedInv,
         TypeInv, DbTypeOK, DbNext
<1>2. ASSUME NEW m \in Message, NEW w \in delivered'[m]
      PROVE  Arrived(m, w)'
  <2>1. w \in Daemon /\ Arrived(m, w)
    BY <1>1 DEF BooksInv, Books
  <2> QED BY <1>1, <2>1, BooksStay
<1> QED BY <1>1, <1>2 DEF BooksInv, Books, Booked

LEMMA BooksInductive ==
  ASSUME NoEmptyMessage
  PROVE  BooksInv /\ [DbNext]_dbvars => BooksInv'
<1> SUFFICES ASSUME BooksInv, [DbNext]_dbvars
             PROVE  Books'
  BY DeliveryInductive DEF BooksInv
<1>1. CASE \E m \in Message : \E rs \in SUBSET Friends(Author[m]) : QueueMessage(m, rs)
  BY <1>1, BooksQueue
<1>2. CASE \E u \in Daemon : \E v \in Friends(u) :
             \E ack \in 0 .. received_seqnum[v][u] : ReceiveAck(u, v, ack)
  BY <1>2, BooksAck
<1>3. CASE \E u \in Daemon : \E v \in Friends(u) : \E c \in SentChunks(v, u) :
             ReceiveChunk(u, v, c) \/ ReceiveInvitation(u, v, c)
  BY <1>3, BooksReceive
<1>4. CASE UNCHANGED dbvars
  BY <1>4 DEF dbvars, BooksInv, Books, Booked, Arrived
<1> QED BY <1>1, <1>2, <1>3, <1>4 DEF DbNext

LEMMA BooksInit ==
  ASSUME NoEmptyMessage
  PROVE  DbInit => BooksInv
BY DeliveryInit DEF DbInit, BooksInv, Books

\* A message shown as delivered to a friend is complete in that friend's inbox,
\* if no message is empty: receive_ack marks what has no chunk outstanding.
THEOREM DeliveredReceived ==
  ASSUME NoEmptyMessage
  PROVE  DbSpec => []DeliveredWasReceived
<1>1. BooksInv => DeliveredWasReceived
  <2> SUFFICES ASSUME BooksInv, NEW m \in Message, NEW v \in delivered[m]
               PROVE  \E k \in DOMAIN received[v][Author[m]] : queued[Author[m]][v][k].msg = m
    BY DEF DeliveredWasReceived
  <2>1. v \in Daemon /\ Author[m] \in Daemon /\ Arrived(m, v)
    BY MessageAssumption DEF BooksInv, Books, DeliveryInv, WindowInv, RetainedInv, TypeInv, DbTypeOK
  <2>2. received[v][Author[m]] \in Seq(SUBSET Chunk)
    <3>1. TypeInv
      BY <2>1, DeliveryLink DEF BooksInv
    <3>2. received \in [Daemon -> [Daemon -> Seq(SUBSET Chunk)]]
      BY <3>1 DEF TypeInv, DbTypeOK
    <3> QED BY <2>1, <3>2
  <2> QED BY <2>1, <2>2 DEF Arrived
<1>2. DbSpec => []BooksInv
  BY BooksInit, BooksInductive, PTL DEF DbSpec
<1> QED BY <1>1, <1>2, PTL

-----------------------------------------------------------------------------
(* The databases implement MessageChannel when there are no empty           *)
(* messages: queueing hands a message over, receiving its last chunk        *)
(* delivers it, and an ack that leaves no chunk outstanding confirms it.    *)

\* The pieces of one message are its content.
LEMMA ContentOfSpan ==
  ASSUME NoEmptyMessage, NEW q \in Span, q.num = NumChunks[q.msg]
  PROVE  Content(ChunksOf(q)) = q.msg
<1> DEFINE rows == ChunksOf(q)
           c == CHOOSE c \in rows : TRUE
           whole == [msg |-> c.msg, start |-> c.start, num |-> NumChunks[c.msg]]
<1>1. q.msg \in Message /\ q.start \in Nat \ {0} /\ q.num \in Nat \ {0}
  BY MessageAssumption DEF Span, NoEmptyMessage
<1>2. rows # {}
  <2>1. q.start \in q.start .. q.start + q.num - 1
    BY <1>1
  <2> QED BY <2>1, ChunksOfSpan
<1>3. c \in rows
  BY <1>2
<1>4. c.msg = q.msg /\ c.start = q.start
  BY <1>3, ChunksOfSpan
<1>5. whole.msg = q.msg /\ whole.start = q.start /\ whole.num = q.num
  BY <1>4
<1>6. ChunksOf(whole) = rows
  <2> HIDE DEF whole
  <2> QED BY <1>5 DEF ChunksOf
<1>7. Content(rows) = IF c.msg \in Message /\ rows = ChunksOf(whole) THEN c.msg ELSE Invitation
  BY DEF Content
<1> QED BY <1>1, <1>4, <1>6, <1>7

Msgs(q) == [k \in DOMAIN q |-> q[k].msg]

LEMMA MsgsAppend ==
  ASSUME NEW q \in Seq(Span), NEW s \in Span
  PROVE  Msgs(Append(q, s)) = Append(Msgs(q), s.msg)
<1>1. \A k \in 1 .. Len(q) : q[k].msg \in Message
  <2>1. \A k \in 1 .. Len(q) : q[k] \in Span
    OBVIOUS
  <2> QED BY <2>1 DEF Span
<1>2. Msgs(q) \in Seq(Message) /\ Len(Msgs(q)) = Len(q) /\ s.msg \in Message
  BY <1>1 DEF Msgs, Span
<1>3. /\ DOMAIN Msgs(Append(q, s)) = 1 .. Len(q) + 1
      /\ DOMAIN Append(Msgs(q), s.msg) = 1 .. Len(q) + 1
  BY <1>2 DEF Msgs
<1>4. \A k \in 1 .. Len(q) + 1 : Msgs(Append(q, s))[k] = Append(Msgs(q), s.msg)[k]
  BY <1>2 DEF Msgs
<1> QED BY <1>2, <1>3, <1>4 DEF Msgs

LEMMA HandedIs ==
  ASSUME NEW u \in Daemon, NEW v \in Daemon
  PROVE  Handed[u][v] = Msgs(queued[u][v])
BY DEF Handed, Msgs

\* What has been got is what was handed over first.
GotPrefix(u, v) ==
  /\ Len(received[v][u]) \in Nat
  /\ Len(received[v][u]) <= Len(queued[u][v])
  /\ Got[v][u] = [k \in 1 .. Len(received[v][u]) |-> queued[u][v][k].msg]

LEMMA GotIs ==
  ASSUME NoEmptyMessage, DeliveryInv, NEW u \in Daemon, NEW v \in Daemon
  PROVE  GotPrefix(u, v)
<1> DEFINE q == queued[u][v]
           got == received[v][u]
<1>1. TypeInv /\ Spans(u, v) /\ Inbox(u, v)
  BY DeliveryLink DEF LinkInv
<1>2. got \in Seq(SUBSET Chunk) /\ DOMAIN got = 1 .. Len(got) /\ Len(got) \in Nat
  <2>1. got \in Seq(SUBSET Chunk)
    <3>1. received \in [Daemon -> [Daemon -> Seq(SUBSET Chunk)]]
      BY <1>1 DEF TypeInv, DbTypeOK
    <3> QED BY <3>1
  <2> HIDE DEF got
  <2> QED BY <2>1
<1>3. \A k \in 1 .. Len(q) : q[k] \in Span /\ q[k].num = NumChunks[q[k].msg]
  BY <1>1, SpanFacts DEF Spans
<1>4. /\ Len(got) <= Len(q) /\ Len(q) \in Nat
      /\ \A k \in 1 .. Len(got) : got[k] = ChunksOf(q[k])
  BY <1>1, SpanFacts DEF Inbox
<1>5. \A k \in 1 .. Len(got) : Content(got[k]) = q[k].msg
  <2> TAKE k \in 1 .. Len(got)
  <2>1. k \in 1 .. Len(q)
    BY <1>2, <1>4
  <2> QED BY <1>3, <1>4, <2>1, ContentOfSpan
<1>6. Got[v][u] = [k \in DOMAIN got |-> Content(got[k])]
  BY DEF Got
<1> HIDE DEF q, got
<1>7. Got[v][u] = [k \in 1 .. Len(got) |-> q[k].msg]
  BY <1>2, <1>5, <1>6
<1> QED BY <1>2, <1>4, <1>7 DEF GotPrefix, q, got

-----------------------------------------------------------------------------
(* The steps.                                                              *)

\* SendMessage of the daemon hands the message over.
LEMMA QueueSubmits ==
  ASSUME BooksInv, NEW m \in Message, NEW rs \in SUBSET Friends(Author[m]),
         QueueMessage(m, rs)
  PROVE  Channel!Submit(m, rs)
<1> DEFINE a == Author[m]
<1>1. /\ TypeInv /\ DeliveryInv /\ a \in Daemon /\ rs \subseteq Daemon
      /\ rs # {} /\ recipients[m] = {}
  BY MessageAssumption
     DEF QueueMessage, Friends, BooksInv, DeliveryInv, WindowInv, RetainedInv
<1>2. \A v \in Daemon : \A k \in DOMAIN Handed[a][v] : Handed[a][v][k] # m
  <2> SUFFICES ASSUME NEW v \in Daemon, NEW k \in DOMAIN Handed[a][v], Handed[a][v][k] = m
               PROVE  FALSE
    OBVIOUS
  <2>1. queued[a][v] \in Seq(Span)
    BY <1>1 DEF TypeInv, DbTypeOK
  <2>2. k \in 1 .. Len(queued[a][v]) /\ queued[a][v][k].msg = m
    <3> DEFINE q == queued[a][v]
               h == Handed[a][v]
    <3>1. h = Msgs(q) /\ q \in Seq(Span) /\ k \in DOMAIN h /\ h[k] = m
      BY <1>1, <2>1, HandedIs
    <3> HIDE DEF q, h
    <3>2. k \in 1 .. Len(q) /\ q[k].msg = m
      BY <3>1 DEF Msgs
    <3> QED BY <3>2 DEF q
  <2>3. v \in recipients[m]
    BY <1>1, <2>2 DEF BooksInv, Books
  <2> QED BY <1>1, <2>3
<1>3. ASSUME NEW u \in Daemon, NEW v \in Daemon
      PROVE  Handed'[u][v] = IF u = a /\ v \in rs THEN Append(Handed[u][v], m)
                             ELSE Handed[u][v]
  <2>1. Handed'[u][v] = Msgs(queued'[u][v]) /\ Handed[u][v] = Msgs(queued[u][v])
    BY DEF Handed, Msgs
  <2>2. queued[u][v] \in Seq(Span) /\ NewSpan(u, v, m) \in Span /\ NewSpan(u, v, m).msg = m
    <3>1. queued \in [Daemon -> [Daemon -> Seq(Span)]]
      BY <1>1 DEF TypeInv, DbTypeOK
    <3>2. NewSpan(u, v, m) \in Span /\ NewSpan(u, v, m).msg = m
      BY <1>1, <1>3, NewSpanType
    <3> QED BY <1>3, <3>1, <3>2
  <2>3. Msgs(Append(queued[u][v], NewSpan(u, v, m))) = Append(Msgs(queued[u][v]), m)
    BY <2>2, MsgsAppend
  <2>4. \/ u = a /\ v \in rs /\ queued'[u][v] = Append(queued[u][v], NewSpan(u, v, m))
        \/ ~ (u = a /\ v \in rs) /\ queued'[u][v] = queued[u][v]
    BY <1>1, QueueMessageEffect
  <2> QED BY <2>1, <2>3, <2>4
<1>4. Handed' = [Handed EXCEPT ![a] =
                   [v \in Daemon |-> IF v \in rs THEN Append(Handed[a][v], m) ELSE Handed[a][v]]]
  <2>1. /\ Handed = [u \in Daemon |-> [v \in Daemon |-> Handed[u][v]]]
        /\ Handed' = [u \in Daemon |-> [v \in Daemon |-> Handed'[u][v]]]
    BY DEF Handed
  <2> DEFINE h == Handed
             g == Handed'
  <2>2. /\ h = [u \in Daemon |-> [v \in Daemon |-> h[u][v]]]
        /\ g = [u \in Daemon |-> [v \in Daemon |-> g[u][v]]]
        /\ \A u, v \in Daemon : g[u][v] = IF u = a /\ v \in rs THEN Append(h[u][v], m)
                                          ELSE h[u][v]
    BY <1>3, <2>1
  <2> HIDE DEF h, g, a
  <2>3. \A u \in Daemon \ {a} : g[u] = h[u]
    BY <2>2
  <2>4. g[a] = [v \in Daemon |-> IF v \in rs THEN Append(h[a][v], m) ELSE h[a][v]]
    BY <1>1, <2>2
  <2>5. g = [h EXCEPT ![a] =
               [v \in Daemon |-> IF v \in rs THEN Append(h[a][v], m) ELSE h[a][v]]]
    BY <1>1, <2>2, <2>3, <2>4
  <2> QED BY <2>5 DEF h, g
<1>5. UNCHANGED <<Got, delivered>>
  BY DEF QueueMessage, Got
<1> QED BY <1>1, <1>2, <1>4, <1>5 DEF Channel!Submit

\* The same after a step.
LEMMA GotNext ==
  ASSUME NoEmptyMessage
  PROVE  DeliveryInv' => (\A u, v \in Daemon : GotPrefix(u, v))'
<1>1. DeliveryInv => \A u, v \in Daemon : GotPrefix(u, v)
  BY GotIs
<1> QED BY <1>1, PTL

\* Receiving for one friend leaves the messages of all others alone.
LEMMA InboxElsewhere ==
  ASSUME TypeInv, NEW a \in Daemon, NEW b \in Friends(a), NEW c \in SentChunks(b, a),
         ReceiveChunk(a, b, c), NEW u \in Daemon, NEW v \in Daemon, ~ (v = a /\ u = b)
  PROVE  received'[v][u] = received[v][u]
<1>1. received \in [Daemon -> [Daemon -> Seq(SUBSET Chunk)]] /\ b \in Daemon
  BY DEF TypeInv, DbTypeOK, Friends
<1> DEFINE new == Append(received[a][b], SameMessage(a, b, c))
<1>2. received' = [received EXCEPT ![a][b] = new] \/ received' = received
  BY DEF ReceiveChunk
<1> HIDE DEF new
<1> QED BY <1>1, <1>2

\* Receiving a chunk is invisible or delivers the next message.
LEMMA ReceiveDelivers ==
  ASSUME NoEmptyMessage, BooksInv, BooksInv',
         NEW a \in Daemon, NEW b \in Friends(a), NEW c \in SentChunks(b, a),
         ReceiveChunk(a, b, c)
  PROVE  Channel!Deliver(b, a) \/ UNCHANGED Channel!chvars
<1>1. /\ TypeInv /\ DeliveryInv /\ DeliveryInv' /\ b \in Daemon
      /\ queued' = queued /\ delivered' = delivered /\ [DbNext]_dbvars
  BY DEF BooksInv, DeliveryInv, WindowInv, RetainedInv, Friends, ReceiveChunk, DbNext
<1>2. UNCHANGED <<Handed, delivered>>
  BY <1>1 DEF Handed
<1>3. ASSUME NEW u \in Daemon, NEW v \in Daemon, ~ (v = a /\ u = b)
      PROVE  Got'[v][u] = Got[v][u]
  <2>1. received'[v][u] = received[v][u]
    BY <1>1, <1>3, InboxElsewhere
  <2> QED BY <2>1 DEF Got
<1> DEFINE q == queued[b][a]
           n == Len(received[a][b])
           k == Len(received'[a][b])
<1>4. /\ n \in Nat /\ n <= Len(q) /\ Len(q) \in Nat
      /\ Got[a][b] = [j \in 1 .. n |-> q[j].msg]
      /\ k \in Nat /\ k <= Len(q)
      /\ Got'[a][b] = [j \in 1 .. k |-> q[j].msg]
  <2>1. GotPrefix(b, a)
    BY <1>1, GotIs
  <2>2. GotPrefix(b, a)'
    BY <1>1, GotNext
  <2>3. queued[b][a] \in Seq(Span)
    BY <1>1 DEF TypeInv, DbTypeOK
  <2> QED BY <1>1, <2>1, <2>2, <2>3 DEF GotPrefix
<1>5. k = n \/ k = n + 1
  <2>1. LinkStep(b, a)
    BY <1>1, EveryStepOnLink
  <2>2. \/ received'[a][b] = received[a][b]
        \/ received'[a][b] = Append(received[a][b], SameMessage(a, b, c))
    <3>1. received \in [Daemon -> [Daemon -> Seq(SUBSET Chunk)]]
      BY <1>1 DEF TypeInv, DbTypeOK
    <3> QED BY <1>1, <3>1 DEF ReceiveChunk
  <2>3. received[a][b] \in Seq(SUBSET Chunk) /\ SameMessage(a, b, c) \in SUBSET Chunk
    <3>1. incoming_chunk \in [Daemon -> [Daemon -> SUBSET Chunk]]
      BY <1>1 DEF TypeInv, DbTypeOK
    <3>2. incoming_chunk[a][b] \in SUBSET Chunk /\ SentChunks(b, a) \in SUBSET Chunk
      BY <1>1, <3>1, AllChunksType DEF SentChunks
    <3> QED BY <1>1, <3>2 DEF TypeInv, DbTypeOK, SameMessage
  <2> QED BY <2>2, <2>3
<1>6. CASE k = n
  <2>1. \A u, v \in Daemon : Got'[v][u] = Got[v][u]
    BY <1>3, <1>4, <1>6
  <2>2. Got' = Got
    BY <2>1 DEF Got
  <2> QED BY <1>2, <2>2 DEF Channel!chvars
<1>7. CASE k = n + 1
  <2>1. Len(Handed[b][a]) = Len(q) /\ Handed[b][a][n + 1] = q[n + 1].msg
    <3>1. Handed[b][a] = [j \in 1 .. Len(q) |-> q[j].msg]
      BY <1>1 DEF Handed
    <3> HIDE DEF q, n
    <3> QED BY <1>4, <1>7, <3>1
  <2>2. Len(Got[a][b]) = n /\ Got'[a][b] = Append(Got[a][b], Handed[b][a][n + 1])
    <3> DEFINE old == Got[a][b]
               now == Got'[a][b]
               x == Handed[b][a][n + 1]
    <3>1. /\ n \in Nat /\ x = q[n + 1].msg
          /\ old = [j \in 1 .. n |-> q[j].msg]
          /\ now = [j \in 1 .. n + 1 |-> q[j].msg]
      BY <1>4, <1>7, <2>1
    <3> HIDE DEF old, now, x, n, q
    <3>2. Len(old) = n /\ old \in Seq({q[j].msg : j \in 1 .. n})
      BY <3>1
    <3>3. now = Append(old, x)
      BY <3>1, <3>2
    <3> QED BY <3>2, <3>3 DEF old, now, x
  <2> DEFINE h == Got
             g == Got'
             new == Append(Got[a][b], Handed[b][a][Len(Got[a][b]) + 1])
  <2>3. /\ h = [v \in Daemon |-> [u \in Daemon |-> h[v][u]]]
        /\ g = [v \in Daemon |-> [u \in Daemon |-> g[v][u]]]
        /\ \A u, v \in Daemon : ~ (v = a /\ u = b) => g[v][u] = h[v][u]
        /\ g[a][b] = new
    BY <1>3, <2>2 DEF Got
  <2> HIDE DEF h, g, new
  <2>4. g = [h EXCEPT ![a][b] = new]
    <3>1. \A v \in Daemon : v # a => g[v] = h[v]
      BY <2>3
    <3>2. g[a] = [h[a] EXCEPT ![b] = new]
      BY <1>1, <2>3
    <3> QED BY <1>1, <2>3, <3>1, <3>2
  <2>5. Len(Got[a][b]) < Len(Handed[b][a])
    <3> HIDE DEF q, n, k
    <3> QED BY <1>4, <1>7, <2>1, <2>2
  <2> QED BY <1>2, <2>4, <2>5 DEF Channel!Deliver, h, g, new
<1> QED BY <1>5, <1>6, <1>7

\* Receiving an ack is invisible or confirms the messages it completes.
LEMMA AckConfirms ==
  ASSUME NoEmptyMessage, BooksInv, BooksInv',
         NEW u \in Daemon, NEW v \in Friends(u), NEW ack \in 0 .. received_seqnum[v][u],
         ReceiveAck(u, v, ack)
  PROVE  \/ \E ms \in SUBSET Message : Channel!Confirm(v, ms)
         \/ UNCHANGED Channel!chvars
<1> DEFINE out == [outgoing_chunk EXCEPT ![u][v] = @ \ AckedChunks(u, v, ack)]
           ms == NewlyDelivered(u, v, out)
<1>1. /\ TypeInv /\ DeliveryInv /\ v \in Daemon
      /\ queued' = queued /\ received' = received
      /\ delivered' = [m \in Message |-> IF m \in ms THEN delivered[m] \cup {v}
                                                     ELSE delivered[m]]
      /\ delivered \in [Message -> SUBSET Daemon]
  BY DEF BooksInv, DeliveryInv, WindowInv, RetainedInv, TypeInv, DbTypeOK, Friends, ReceiveAck
<1>2. ms \in SUBSET Message /\ \A m \in ms : Author[m] = u /\ v \notin delivered[m]
  BY DEF NewlyDelivered
<1> HIDE DEF ms
<1>3. UNCHANGED <<Handed, Got>>
  BY <1>1 DEF Handed, Got
<1>4. ASSUME NEW m \in ms
      PROVE  \E k \in DOMAIN Got[v][Author[m]] : Got[v][Author[m]][k] = m
  <2>1. v \in delivered'[m] /\ m \in Message /\ Author[m] \in Daemon
    BY <1>1, <1>2, MessageAssumption
  <2>2. Arrived(m, v)'
    BY <2>1 DEF BooksInv, Books
  <2>3. Arrived(m, v)
    BY <1>1, <2>2 DEF Arrived
  <2>4. GotPrefix(Author[m], v)
    BY <1>1, <2>1, GotIs
  <2> QED BY <2>3, <2>4 DEF Arrived, GotPrefix
<1>5. CASE ms = {}
  <2>1. delivered' = delivered
    BY <1>1, <1>5
  <2> QED BY <1>3, <2>1 DEF Channel!chvars
<1>6. CASE ms # {}
  BY <1>1, <1>2, <1>3, <1>4, <1>6 DEF Channel!Confirm
<1> QED BY <1>5, <1>6

LEMMA EveryStepOnChannel ==
  ASSUME NoEmptyMessage
  PROVE  BooksInv /\ BooksInv' /\ [DbNext]_dbvars => [Channel!Next]_(Channel!chvars)
<1> SUFFICES ASSUME BooksInv, BooksInv', [DbNext]_dbvars
             PROVE  Channel!Next \/ UNCHANGED Channel!chvars
  OBVIOUS
<1>1. ASSUME NEW m \in Message, NEW rs \in SUBSET Friends(Author[m]), QueueMessage(m, rs)
      PROVE  Channel!Next
  <2>1. Channel!Submit(m, rs) /\ rs \in SUBSET Daemon
    BY <1>1, QueueSubmits DEF Friends
  <2> QED BY <2>1 DEF Channel!Next
<1>2. ASSUME NEW u \in Daemon, NEW v \in Friends(u), NEW ack \in 0 .. received_seqnum[v][u],
             ReceiveAck(u, v, ack)
      PROVE  Channel!Next \/ UNCHANGED Channel!chvars
  <2>1. v \in Daemon
    BY DEF Friends
  <2> QED BY <1>2, <2>1, AckConfirms DEF Channel!Next
<1>3. ASSUME NEW u \in Daemon, NEW v \in Friends(u), NEW c \in SentChunks(v, u),
             ReceiveChunk(u, v, c)
      PROVE  Channel!Next \/ UNCHANGED Channel!chvars
  <2>1. v \in Daemon
    BY DEF Friends
  <2> QED BY <1>3, <2>1, ReceiveDelivers DEF Channel!Next
<1>4. ASSUME NEW u \in Daemon, NEW v \in Friends(u), NEW c \in SentChunks(v, u),
             ReceiveInvitation(u, v, c)
      PROVE  UNCHANGED Channel!chvars
  BY <1>4 DEF ReceiveInvitation, Channel!chvars, Handed, Got
<1>5. CASE UNCHANGED dbvars
  BY <1>5 DEF dbvars, Channel!chvars, Handed, Got
<1> QED BY <1>1, <1>2, <1>3, <1>4, <1>5 DEF DbNext

\* The databases keep the promise of MessageChannel: each message handed over
\* for a friend appears in that friend's inbox once and in its turn, and is
\* shown as delivered only afterwards, whatever the network does.
THEOREM ImplementsMessageChannel ==
  ASSUME NoEmptyMessage
  PROVE  DbSpec => ImplementsChannel
<1>1. DbInit => Channel!Init
  BY DEF DbInit, Channel!Init, Handed, Got
<1>2. DbInit => BooksInv
  BY BooksInit
<1>3. BooksInv /\ [DbNext]_dbvars => BooksInv'
  BY BooksInductive
<1>4. BooksInv /\ BooksInv' /\ [DbNext]_dbvars => [Channel!Next]_(Channel!chvars)
  BY EveryStepOnChannel
<1> QED BY <1>1, <1>2, <1>3, <1>4, PTL DEF DbSpec, ImplementsChannel, Channel!Spec

=============================================================================
