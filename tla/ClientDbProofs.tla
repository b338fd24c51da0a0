--------------------------- MODULE ClientDbProofs ---------------------------
(***************************************************************************)
(* Theorems about the databases of module ClientDb that hold for every set *)
(* of daemons and messages, every pattern of friendships and every size of *)
(* message, the empty one included.                                        *)
(***************************************************************************)
EXTENDS ClientDb, TLAPS

-----------------------------------------------------------------------------
(* Tables and chunks.                                                      *)

\* Writing the rows of one daemon about one friend leaves all others alone.
LEMMA TableUpdate ==
  ASSUME NEW S, NEW t \in [Daemon -> [Daemon -> S]],
         NEW u \in Daemon, NEW v \in Daemon, NEW x \in S
  PROVE  /\ [t EXCEPT ![u][v] = x] \in [Daemon -> [Daemon -> S]]
         /\ [t EXCEPT ![u][v] = x][u][v] = x
         /\ \A y, z \in Daemon : ~ (y = u /\ z = v) => [t EXCEPT ![u][v] = x][y][z] = t[y][z]
OBVIOUS

\* The chunks of a span are rows of the schema, and all of its message.
LEMMA ChunksOfSpan ==
  ASSUME NEW q \in Span
  PROVE  /\ ChunksOf(q) \in SUBSET Chunk
         /\ \A c \in ChunksOf(q) : /\ c.msg = q.msg /\ c.start = q.start /\ c.num = q.num
                                   /\ c.seq \in q.start .. q.start + q.num - 1
         /\ \A s \in q.start .. q.start + q.num - 1 :
              \E c \in ChunksOf(q) : c.seq = s
<1> DEFINE C(s) == [msg |-> q.msg, seq |-> s, start |-> q.start, num |-> q.num]
<1>1. q.msg \in Message /\ q.start \in Nat \ {0} /\ q.num \in Nat
  BY DEF Span
<1>2. \A s \in q.start .. q.start + q.num - 1 :
        /\ s \in Nat \ {0}
        /\ C(s) \in Chunk
        /\ C(s).msg = q.msg /\ C(s).seq = s /\ C(s).start = q.start /\ C(s).num = q.num
  BY <1>1 DEF Chunk
<1>3. ChunksOf(q) = {C(s) : s \in q.start .. q.start + q.num - 1}
  BY DEF ChunksOf
<1> HIDE DEF C
<1> QED BY <1>2, <1>3

\* So is the system chunk of an invitation.
LEMMA InitialChunksType ==
  ASSUME NEW u \in Daemon, NEW v \in Daemon
  PROVE  InitialChunks(u, v) \in SUBSET Chunk
BY DEF InitialChunks, InvitationChunk, Chunk

-----------------------------------------------------------------------------
(* Types.  The next sequence number is one more than the highest in use,   *)
(* so its type rests on there being a highest one.                         *)

HasLastChunk ==
  \A u, v \in Daemon :
    outgoing_chunk[u][v] # {} =>
      \E c \in outgoing_chunk[u][v] : \A d \in outgoing_chunk[u][v] : d.seq <= c.seq

TypeInv == DbTypeOK /\ HasLastChunk

\* get_seqnum_for_new_chunk returns a number above every chunk still waiting,
\* and the next after the last ack when there is none.
LEMMA SeqnumIsNew ==
  ASSUME TypeInv, NEW u \in Daemon, NEW v \in Daemon
  PROVE  /\ SeqnumForNewChunk(u, v) \in Nat \ {0}
         /\ \A c \in outgoing_chunk[u][v] : c.seq < SeqnumForNewChunk(u, v)
         /\ outgoing_chunk[u][v] = {} => SeqnumForNewChunk(u, v) = sent_acked_seqnum[u][v] + 1
         /\ outgoing_chunk[u][v] # {} =>
              \E c \in outgoing_chunk[u][v] : SeqnumForNewChunk(u, v) = c.seq + 1
<1>1. /\ outgoing_chunk[u][v] \in SUBSET Chunk
      /\ sent_acked_seqnum[u][v] \in Nat
  BY DEF TypeInv, DbTypeOK
<1>2. CASE outgoing_chunk[u][v] = {}
  BY <1>1, <1>2 DEF SeqnumForNewChunk
<1>3. CASE outgoing_chunk[u][v] # {}
  <2> DEFINE last == CHOOSE c \in outgoing_chunk[u][v] :
                       \A d \in outgoing_chunk[u][v] : d.seq <= c.seq
  <2>1. /\ last \in outgoing_chunk[u][v]
        /\ \A d \in outgoing_chunk[u][v] : d.seq <= last.seq
    BY <1>3 DEF TypeInv, HasLastChunk
  <2>2. SeqnumForNewChunk(u, v) = last.seq + 1
    BY <1>3 DEF SeqnumForNewChunk
  <2>3. \A c \in outgoing_chunk[u][v] : c.seq \in Nat \ {0}
    BY <1>1 DEF Chunk
  <2> QED BY <1>3, <2>1, <2>2, <2>3
<1> QED BY <1>2, <1>3

\* What is queued is a span of the schema that starts above all waiting chunks.
LEMMA NewSpanType ==
  ASSUME TypeInv, NEW u \in Daemon, NEW v \in Daemon, NEW m \in Message
  PROVE  /\ NewSpan(u, v, m) \in Span
         /\ NewSpan(u, v, m).msg = m
         /\ NewSpan(u, v, m).start = SeqnumForNewChunk(u, v)
         /\ NewSpan(u, v, m).num = NumChunks[m]
BY SeqnumIsNew, MessageAssumption DEF NewSpan, Span

\* What queueing a message does to the rows for one friend.
LEMMA QueueMessageEffect ==
  ASSUME TypeInv, NEW m \in Message, NEW rs \in SUBSET Friends(Author[m]),
         QueueMessage(m, rs), NEW u \in Daemon, NEW v \in Daemon
  PROVE  \/ /\ u = Author[m] /\ v \in rs
            /\ outgoing_chunk'[u][v] = outgoing_chunk[u][v] \cup ChunksOf(NewSpan(u, v, m))
            /\ queued'[u][v] = Append(queued[u][v], NewSpan(u, v, m))
         \/ /\ ~ (u = Author[m] /\ v \in rs)
            /\ outgoing_chunk'[u][v] = outgoing_chunk[u][v]
            /\ queued'[u][v] = queued[u][v]
<1>1. Author[m] \in Daemon /\ rs \subseteq Daemon
  BY MessageAssumption DEF Friends
<1>2. /\ outgoing_chunk' = [outgoing_chunk EXCEPT ![Author[m]] =
           [w \in Daemon |-> IF w \in rs
                             THEN outgoing_chunk[Author[m]][w] \cup ChunksOf(NewSpan(Author[m], w, m))
                             ELSE outgoing_chunk[Author[m]][w]]]
      /\ queued' = [queued EXCEPT ![Author[m]] =
           [w \in Daemon |-> IF w \in rs
                             THEN Append(queued[Author[m]][w], NewSpan(Author[m], w, m))
                             ELSE queued[Author[m]][w]]]
  BY DEF QueueMessage
<1>3. /\ outgoing_chunk \in [Daemon -> [Daemon -> SUBSET Chunk]]
      /\ queued \in [Daemon -> [Daemon -> Seq(Span)]]
  BY DEF TypeInv, DbTypeOK
<1> QED BY <1>1, <1>2, <1>3

LEMMA QueueMessageTypes ==
  ASSUME TypeInv, NEW m \in Message, NEW rs \in SUBSET Friends(Author[m]),
         QueueMessage(m, rs)
  PROVE  TypeInv'
<1> DEFINE a == Author[m]
           chunks == [w \in Daemon |-> IF w \in rs
                        THEN outgoing_chunk[a][w] \cup ChunksOf(NewSpan(a, w, m))
                        ELSE outgoing_chunk[a][w]]
           spans == [w \in Daemon |-> IF w \in rs
                       THEN Append(queued[a][w], NewSpan(a, w, m))
                       ELSE queued[a][w]]
<1>1. a \in Daemon /\ rs \subseteq Daemon
  BY MessageAssumption DEF Friends
<1>2. DbTypeOK
  BY DEF TypeInv
<1>3. chunks \in [Daemon -> SUBSET Chunk] /\ spans \in [Daemon -> Seq(Span)]
  <2>1. \A w \in Daemon : NewSpan(a, w, m) \in Span /\ ChunksOf(NewSpan(a, w, m)) \in SUBSET Chunk
    BY <1>1, NewSpanType, ChunksOfSpan
  <2>2. \A w \in Daemon : outgoing_chunk[a][w] \in SUBSET Chunk /\ queued[a][w] \in Seq(Span)
    BY <1>1, <1>2 DEF DbTypeOK
  <2>3. \A w \in Daemon : Append(queued[a][w], NewSpan(a, w, m)) \in Seq(Span)
    BY <2>1, <2>2
  <2> QED BY <2>1, <2>2, <2>3
<1>4. DbTypeOK'
  <2>1. outgoing_chunk' = [outgoing_chunk EXCEPT ![a] = chunks] /\ queued' = [queued EXCEPT ![a] = spans]
    BY DEF QueueMessage
  <2> HIDE DEF chunks, spans
  <2>2. /\ outgoing_chunk' \in [Daemon -> [Daemon -> SUBSET Chunk]]
        /\ queued' \in [Daemon -> [Daemon -> Seq(Span)]]
    BY <1>1, <1>2, <1>3, <2>1 DEF DbTypeOK
  <2>3. recipients' \in [Message -> SUBSET Daemon]
    BY <1>1, <1>2 DEF QueueMessage, DbTypeOK
  <2> QED BY <1>2, <2>2, <2>3 DEF QueueMessage, DbTypeOK
<1>5. HasLastChunk'
  <2> SUFFICES ASSUME NEW u \in Daemon, NEW v \in Daemon, outgoing_chunk'[u][v] # {}
               PROVE  \E c \in outgoing_chunk'[u][v] :
                        \A d \in outgoing_chunk'[u][v] : d.seq <= c.seq
    BY DEF HasLastChunk
  <2> DEFINE q == NewSpan(u, v, m)
  <2>1. CASE outgoing_chunk'[u][v] = outgoing_chunk[u][v]
    BY <2>1 DEF TypeInv, HasLastChunk
  <2>2. CASE outgoing_chunk'[u][v] = outgoing_chunk[u][v] \cup ChunksOf(q)
    <3>1. q \in Span /\ q.start = SeqnumForNewChunk(u, v)
      BY NewSpanType
    <3>2. \A c \in outgoing_chunk[u][v] : c.seq < q.start
      BY <3>1, SeqnumIsNew
    <3>3. /\ outgoing_chunk[u][v] \in SUBSET Chunk
          /\ q.start \in Nat \ {0} /\ q.num \in Nat
      BY <1>2, <3>1 DEF DbTypeOK, Span
    <3>4. CASE q.num = 0
      <4>1. ChunksOf(q) = {}
        BY <3>1, <3>3, <3>4, ChunksOfSpan
      <4> QED BY <2>2, <4>1 DEF TypeInv, HasLastChunk
    <3>5. CASE q.num # 0
      <4> HIDE DEF q
      <4>0. q.start + q.num - 1 \in q.start .. q.start + q.num - 1
        BY <3>3, <3>5
      <4>1. PICK c \in ChunksOf(q) : c.seq = q.start + q.num - 1
        BY <3>1, <4>0, ChunksOfSpan
      <4>2. \A d \in ChunksOf(q) : d.seq <= c.seq
        BY <3>1, <3>3, <4>1, ChunksOfSpan
      <4>3. \A d \in outgoing_chunk[u][v] : d.seq <= c.seq
        BY <3>2, <3>3, <3>5, <4>1 DEF Chunk
      <4> QED BY <2>2, <4>2, <4>3
    <3> QED BY <3>4, <3>5
  <2> QED BY <2>1, <2>2, QueueMessageEffect
<1> QED BY <1>4, <1>5 DEF TypeInv

LEMMA ReceiveAckTypes ==
  ASSUME TypeInv, NEW u \in Daemon, NEW v \in Friends(u), NEW ack \in Nat,
         ReceiveAck(u, v, ack)
  PROVE  TypeInv'
<1>1. v \in Daemon
  BY DEF Friends
<1>2. DbTypeOK
  BY DEF TypeInv
<1> DEFINE out == [outgoing_chunk EXCEPT ![u][v] = outgoing_chunk[u][v] \ AckedChunks(u, v, ack)]
<1>3. /\ sent_acked_seqnum' = [sent_acked_seqnum EXCEPT ![u][v] = ack]
      /\ outgoing_chunk' = out
      /\ delivered' = [m \in Message |-> IF m \in NewlyDelivered(u, v, out)
                                         THEN delivered[m] \cup {v} ELSE delivered[m]]
      /\ progress' \in [Daemon -> [Daemon -> Progress]]
  <2>1. progress' = [progress EXCEPT ![u][v] = "Complete"] \/ progress' = progress
    BY <1>1, <1>2 DEF ReceiveAck, DbTypeOK
  <2>2. progress' \in [Daemon -> [Daemon -> Progress]]
    <3>1. progress \in [Daemon -> [Daemon -> Progress]] /\ "Complete" \in Progress
      BY <1>2 DEF DbTypeOK, Progress
    <3> QED BY <1>1, <2>1, <3>1
  <2> QED BY <1>1, <2>2 DEF ReceiveAck
<1>4. DbTypeOK'
  <2>1. outgoing_chunk' \in [Daemon -> [Daemon -> SUBSET Chunk]]
    <3>1. outgoing_chunk \in [Daemon -> [Daemon -> SUBSET Chunk]]
      BY <1>2 DEF DbTypeOK
    <3>2. outgoing_chunk[u][v] \ AckedChunks(u, v, ack) \in SUBSET Chunk
      BY <1>1, <3>1
    <3> QED BY <1>1, <1>3, <3>1, <3>2, TableUpdate
  <2>2. delivered' \in [Message -> SUBSET Daemon]
    <3> HIDE DEF out
    <3> QED BY <1>1, <1>2, <1>3 DEF DbTypeOK
  <2>3. sent_acked_seqnum' \in [Daemon -> [Daemon -> Nat]]
    <3>1. sent_acked_seqnum \in [Daemon -> [Daemon -> Nat]]
      BY <1>2 DEF DbTypeOK
    <3> QED BY <1>1, <1>3, <3>1, TableUpdate
  <2>4. UNCHANGED <<received_seqnum, incoming_chunk, received, recipients, queued>>
    BY DEF ReceiveAck
  <2> QED BY <1>2, <1>3, <2>1, <2>2, <2>3, <2>4 DEF DbTypeOK
<1>5. HasLastChunk'
  <2> SUFFICES ASSUME NEW x \in Daemon, NEW y \in Daemon, outgoing_chunk'[x][y] # {}
               PROVE  \E c \in outgoing_chunk'[x][y] :
                        \A d \in outgoing_chunk'[x][y] : d.seq <= c.seq
    BY DEF HasLastChunk
  <2>1. \/ outgoing_chunk'[x][y] = outgoing_chunk[x][y]
        \/ /\ x = u /\ y = v
           /\ outgoing_chunk'[x][y] = {c \in outgoing_chunk[x][y] : ~ (c.seq <= ack)}
    BY <1>1, <1>2, <1>3 DEF DbTypeOK, AckedChunks
  <2>2. PICK c \in outgoing_chunk[x][y] : \A d \in outgoing_chunk[x][y] : d.seq <= c.seq
    BY <2>1 DEF TypeInv, HasLastChunk
  <2>3. \A d \in outgoing_chunk[x][y] : d.seq \in Nat
    BY <1>2 DEF DbTypeOK, Chunk
  <2> QED BY <2>1, <2>2, <2>3
<1> QED BY <1>4, <1>5 DEF TypeInv

\* update_sequence_number writes one number, and moves it by at most one.
LEMMA UpdateSequenceNumberEffect ==
  ASSUME TypeInv, NEW u \in Daemon, NEW v \in Daemon, NEW c \in Chunk,
         UpdateSequenceNumber(u, v, c)
  PROVE  /\ received_seqnum' \in [Daemon -> [Daemon -> Nat]]
         /\ received_seqnum'[u][v] = IF c.seq = received_seqnum[u][v] + 1
                                     THEN c.seq ELSE received_seqnum[u][v]
         /\ \A x, y \in Daemon :
              ~ (x = u /\ y = v) => received_seqnum'[x][y] = received_seqnum[x][y]
<1>1. received_seqnum \in [Daemon -> [Daemon -> Nat]]
  BY DEF TypeInv, DbTypeOK
<1> DEFINE r == IF c.seq = received_seqnum[u][v] + 1 THEN c.seq ELSE received_seqnum[u][v]
<1>2. r \in Nat
  BY <1>1 DEF Chunk
<1>3. received_seqnum' = [received_seqnum EXCEPT ![u][v] = r]
  BY <1>1 DEF UpdateSequenceNumber
<1> HIDE DEF r
<1>4. /\ received_seqnum' \in [Daemon -> [Daemon -> Nat]]
      /\ received_seqnum'[u][v] = r
      /\ \A x, y \in Daemon :
           ~ (x = u /\ y = v) => received_seqnum'[x][y] = received_seqnum[x][y]
  BY <1>1, <1>2, <1>3, TableUpdate
<1> QED BY <1>4 DEF r

LEMMA ReceiveChunkTypes ==
  ASSUME TypeInv, NEW u \in Daemon, NEW v \in Friends(u), NEW c \in Chunk,
         ReceiveChunk(u, v, c)
  PROVE  TypeInv'
<1>1. v \in Daemon
  BY DEF Friends
<1>2. DbTypeOK
  BY DEF TypeInv
<1>3. received_seqnum' \in [Daemon -> [Daemon -> Nat]]
  BY <1>1, UpdateSequenceNumberEffect DEF ReceiveChunk
<1>4. incoming_chunk[u][v] \in SUBSET Chunk /\ SameMessage(u, v, c) \in SUBSET Chunk
  BY <1>1, <1>2 DEF DbTypeOK, SameMessage
<1>5. incoming_chunk' \in [Daemon -> [Daemon -> SUBSET Chunk]]
  <2>1. \/ incoming_chunk' = [incoming_chunk EXCEPT ![u][v] =
                                {d \in incoming_chunk[u][v] : d.start # c.start}]
        \/ incoming_chunk' = [incoming_chunk EXCEPT ![u][v] = incoming_chunk[u][v] \cup {c}]
    BY <1>1, <1>2 DEF ReceiveChunk, DbTypeOK
  <2>2. incoming_chunk \in [Daemon -> [Daemon -> SUBSET Chunk]]
    BY <1>2 DEF DbTypeOK
  <2>3. /\ {d \in incoming_chunk[u][v] : d.start # c.start} \in SUBSET Chunk
        /\ incoming_chunk[u][v] \cup {c} \in SUBSET Chunk
    BY <1>4
  <2> QED BY <1>1, <2>1, <2>2, <2>3, TableUpdate
<1>6. received' \in [Daemon -> [Daemon -> Seq(SUBSET Chunk)]]
  <2>1. \/ received' = [received EXCEPT ![u][v] = Append(received[u][v], SameMessage(u, v, c))]
        \/ received' = received
    BY <1>1, <1>2 DEF ReceiveChunk, DbTypeOK
  <2>2. received \in [Daemon -> [Daemon -> Seq(SUBSET Chunk)]]
    BY <1>2 DEF DbTypeOK
  <2>3. Append(received[u][v], SameMessage(u, v, c)) \in Seq(SUBSET Chunk)
    BY <1>1, <1>4, <2>2
  <2> DEFINE rows == Seq(SUBSET Chunk)
             new == Append(received[u][v], SameMessage(u, v, c))
  <2>4. received \in [Daemon -> [Daemon -> rows]] /\ new \in rows
    BY <2>2, <2>3
  <2>5. received' = [received EXCEPT ![u][v] = new] \/ received' = received
    BY <2>1
  <2> HIDE DEF rows, new
  <2>6. received' \in [Daemon -> [Daemon -> rows]]
    BY <1>1, <2>4, <2>5
  <2> QED BY <2>6 DEF rows
<1> QED BY <1>2, <1>3, <1>5, <1>6 DEF TypeInv, DbTypeOK, HasLastChunk, ReceiveChunk

LEMMA ReceiveInvitationTypes ==
  ASSUME TypeInv, NEW u \in Daemon, NEW v \in Friends(u), NEW c \in Chunk,
         ReceiveInvitation(u, v, c)
  PROVE  TypeInv'
<1>1. v \in Daemon
  BY DEF Friends
<1>2. DbTypeOK
  BY DEF TypeInv
<1>3. received_seqnum' \in [Daemon -> [Daemon -> Nat]]
  BY <1>1, UpdateSequenceNumberEffect DEF ReceiveInvitation
<1>4. progress' \in [Daemon -> [Daemon -> Progress]]
  BY <1>1, <1>2 DEF DbTypeOK, ReceiveInvitation, ProgressAfterInvitation, Progress
<1> QED BY <1>2, <1>3, <1>4 DEF TypeInv, DbTypeOK, HasLastChunk, ReceiveInvitation

-----------------------------------------------------------------------------
(* Whatever travels is a row of the schema.                                *)

LEMMA AllChunksType ==
  ASSUME TypeInv, NEW u \in Daemon, NEW v \in Daemon
  PROVE  AllChunks(u, v) \in SUBSET Chunk
<1>1. \A k \in DOMAIN queued[u][v] : queued[u][v][k] \in Span
  BY DEF TypeInv, DbTypeOK
<1>2. \A k \in DOMAIN queued[u][v] : ChunksOf(queued[u][v][k]) \in SUBSET Chunk
  BY <1>1, ChunksOfSpan
<1> QED BY <1>2, InitialChunksType DEF AllChunks

LEMMA TypeInvInit == DbInit => TypeInv
<1> SUFFICES ASSUME DbInit
             PROVE  TypeInv
  OBVIOUS
<1>1. \A u, v \in Daemon : InitialChunks(u, v) \in SUBSET Chunk
  BY InitialChunksType
<1>2. outgoing_chunk \in [Daemon -> [Daemon -> SUBSET Chunk]]
  BY <1>1 DEF DbInit
<1>3. DbTypeOK
  BY <1>2, FriendshipAssumption DEF DbInit, DbTypeOK
<1>4. HasLastChunk
  BY DEF DbInit, HasLastChunk, InitialChunks, InvitationChunk
<1> QED BY <1>3, <1>4 DEF TypeInv

LEMMA TypeInvNext == TypeInv /\ [DbNext]_dbvars => TypeInv'
<1> SUFFICES ASSUME TypeInv, [DbNext]_dbvars
             PROVE  TypeInv'
  OBVIOUS
<1>1. CASE \E m \in Message : \E rs \in SUBSET Friends(Author[m]) : QueueMessage(m, rs)
  BY <1>1, QueueMessageTypes
<1>2. ASSUME NEW u \in Daemon, NEW v \in Friends(u),
             NEW ack \in 0 .. received_seqnum[v][u], ReceiveAck(u, v, ack)
      PROVE  TypeInv'
  BY <1>2, ReceiveAckTypes
<1>3. ASSUME NEW u \in Daemon, NEW v \in Friends(u), NEW c \in SentChunks(v, u),
             ReceiveChunk(u, v, c) \/ ReceiveInvitation(u, v, c)
      PROVE  TypeInv'
  <2>1. c \in Chunk
    BY AllChunksType DEF SentChunks, Friends
  <2> QED BY <1>3, <2>1, ReceiveChunkTypes, ReceiveInvitationTypes
<1>4. CASE UNCHANGED dbvars
  BY <1>4 DEF dbvars, TypeInv, DbTypeOK, HasLastChunk
<1> QED BY <1>1, <1>2, <1>3, <1>4 DEF DbNext

\* Every table of every database only ever holds rows of its schema, whatever
\* the network hands to the transactions: in particular every chunk that is
\* queued gets a sequence number from 1 on.
THEOREM DbTypeCorrect == DbSpec => []DbTypeOK
<1>1. DbSpec => []TypeInv
  BY TypeInvInit, TypeInvNext, PTL DEF DbSpec
<1> QED BY <1>1, PTL DEF TypeInv

-----------------------------------------------------------------------------
(* One link.  Most of what there is to prove is about the link from u to   *)
(* v: what u keeps for v as a sender, and v for u as a receiver.  A step   *)
(* of any daemon leaves both halves of the link alone or changes one.      *)

SenderIdle(u, v) ==
  /\ outgoing_chunk'[u][v] = outgoing_chunk[u][v]
  /\ sent_acked_seqnum'[u][v] = sent_acked_seqnum[u][v]
  /\ queued'[u][v] = queued[u][v]

ReceiverIdle(u, v) ==
  /\ received_seqnum'[v][u] = received_seqnum[v][u]
  /\ incoming_chunk'[v][u] = incoming_chunk[v][u]
  /\ received'[v][u] = received[v][u]

LinkQueues(u, v, m) ==
  /\ outgoing_chunk'[u][v] = outgoing_chunk[u][v] \cup ChunksOf(NewSpan(u, v, m))
  /\ sent_acked_seqnum'[u][v] = sent_acked_seqnum[u][v]
  /\ queued'[u][v] = Append(queued[u][v], NewSpan(u, v, m))
  /\ ReceiverIdle(u, v)

LinkAcks(u, v, ack) ==
  /\ ack > sent_acked_seqnum[u][v]
  /\ outgoing_chunk'[u][v] = {c \in outgoing_chunk[u][v] : c.seq > ack}
  /\ sent_acked_seqnum'[u][v] = ack
  /\ queued'[u][v] = queued[u][v]
  /\ ReceiverIdle(u, v)

SeqnumAfter(u, v, c) ==
  IF c.seq = received_seqnum[v][u] + 1 THEN c.seq ELSE received_seqnum[v][u]

LinkReceives(u, v, c) ==
  /\ c.msg # Invitation
  /\ IsNewChunk(v, u, c)
  /\ received_seqnum'[v][u] = SeqnumAfter(u, v, c)
  /\ \/ /\ IsComplete(v, u, c)
        /\ received'[v][u] = Append(received[v][u], SameMessage(v, u, c))
        /\ incoming_chunk'[v][u] = {d \in incoming_chunk[v][u] : d.start # c.start}
     \/ /\ ~ IsComplete(v, u, c)
        /\ incoming_chunk'[v][u] = incoming_chunk[v][u] \cup {c}
        /\ received'[v][u] = received[v][u]
  /\ SenderIdle(u, v)

LinkIsInvited(u, v, c) ==
  /\ c.msg = Invitation
  /\ IsNewChunk(v, u, c)
  /\ received_seqnum'[v][u] = SeqnumAfter(u, v, c)
  /\ incoming_chunk'[v][u] = incoming_chunk[v][u]
  /\ received'[v][u] = received[v][u]
  /\ SenderIdle(u, v)

LinkStep(u, v) ==
  \/ SenderIdle(u, v) /\ ReceiverIdle(u, v)
  \/ \E m \in Message : LinkQueues(u, v, m)
  \/ \E ack \in 0 .. received_seqnum[v][u] : LinkAcks(u, v, ack)
  \/ \E c \in SentChunks(u, v) : LinkReceives(u, v, c) \/ LinkIsInvited(u, v, c)

LEMMA LinkSequences ==
  ASSUME TypeInv, NEW u \in Daemon, NEW v \in Daemon
  PROVE  received[u][v] \in Seq(SUBSET Chunk) /\ queued[u][v] \in Seq(Span)
<1>1. /\ received \in [Daemon -> [Daemon -> Seq(SUBSET Chunk)]]
      /\ queued \in [Daemon -> [Daemon -> Seq(Span)]]
  BY DEF TypeInv, DbTypeOK
<1> QED BY <1>1

LEMMA QueueMessageOnLink ==
  ASSUME TypeInv, NEW m \in Message, NEW rs \in SUBSET Friends(Author[m]),
         QueueMessage(m, rs), NEW u \in Daemon, NEW v \in Daemon
  PROVE  LinkStep(u, v)
<1>1. ReceiverIdle(u, v) /\ sent_acked_seqnum'[u][v] = sent_acked_seqnum[u][v]
  BY DEF QueueMessage, ReceiverIdle
<1> QED BY <1>1, QueueMessageEffect DEF LinkStep, LinkQueues, SenderIdle

LEMMA ReceiveAckOnLink ==
  ASSUME TypeInv, NEW a \in Daemon, NEW b \in Friends(a),
         NEW ack \in 0 .. received_seqnum[b][a], ReceiveAck(a, b, ack),
         NEW u \in Daemon, NEW v \in Daemon
  PROVE  LinkStep(u, v)
<1>1. a \in Daemon /\ b \in Daemon
  BY DEF Friends
<1>2. /\ outgoing_chunk \in [Daemon -> [Daemon -> SUBSET Chunk]]
      /\ sent_acked_seqnum \in [Daemon -> [Daemon -> Nat]]
      /\ ack \in Nat
  <2>1. received_seqnum \in [Daemon -> [Daemon -> Nat]]
    BY DEF TypeInv, DbTypeOK
  <2>2. received_seqnum[b][a] \in Nat
    BY <1>1, <2>1
  <2>3. ack \in Nat
    BY <2>2
  <2> QED BY <2>3 DEF TypeInv, DbTypeOK
<1>3. /\ outgoing_chunk' = [outgoing_chunk EXCEPT ![a][b] =
                             outgoing_chunk[a][b] \ AckedChunks(a, b, ack)]
      /\ sent_acked_seqnum' = [sent_acked_seqnum EXCEPT ![a][b] = ack]
      /\ ack > sent_acked_seqnum[a][b]
  BY <1>1, <1>2 DEF ReceiveAck, IsNewAck
<1>4. outgoing_chunk[a][b] \ AckedChunks(a, b, ack) =
        {c \in outgoing_chunk[a][b] : c.seq > ack}
  <2>1. \A c \in outgoing_chunk[a][b] : c.seq \in Nat
    BY <1>1, <1>2 DEF Chunk
  <2> QED BY <1>2, <2>1 DEF AckedChunks
<1>5. ReceiverIdle(u, v) /\ queued'[u][v] = queued[u][v]
  BY DEF ReceiveAck, ReceiverIdle
<1>6. CASE u = a /\ v = b
  <2>1. /\ outgoing_chunk'[u][v] = {c \in outgoing_chunk[u][v] : c.seq > ack}
        /\ sent_acked_seqnum'[u][v] = ack
    BY <1>1, <1>2, <1>3, <1>4, <1>6
  <2> QED BY <1>3, <1>5, <1>6, <2>1 DEF LinkStep, LinkAcks
<1>7. CASE ~ (u = a /\ v = b)
  <2>1. /\ outgoing_chunk'[u][v] = outgoing_chunk[u][v]
        /\ sent_acked_seqnum'[u][v] = sent_acked_seqnum[u][v]
    BY <1>1, <1>2, <1>3, <1>7
  <2> QED BY <1>5, <2>1 DEF LinkStep, SenderIdle
<1> QED BY <1>6, <1>7

LEMMA ReceiveChunkOnLink ==
  ASSUME TypeInv, NEW a \in Daemon, NEW b \in Friends(a), NEW c \in SentChunks(b, a),
         ReceiveChunk(a, b, c), NEW u \in Daemon, NEW v \in Daemon
  PROVE  LinkStep(u, v)
<1>1. b \in Daemon /\ c \in Chunk
  BY AllChunksType DEF Friends, SentChunks
<1>2. /\ incoming_chunk \in [Daemon -> [Daemon -> SUBSET Chunk]]
      /\ received \in [Daemon -> [Daemon -> Seq(SUBSET Chunk)]]
  BY DEF TypeInv, DbTypeOK
<1>3. SenderIdle(u, v)
  BY DEF ReceiveChunk, SenderIdle
<1>4. /\ received_seqnum'[a][b] = SeqnumAfter(b, a, c)
      /\ ~ (v = a /\ u = b) => received_seqnum'[v][u] = received_seqnum[v][u]
  BY <1>1, UpdateSequenceNumberEffect DEF ReceiveChunk, SeqnumAfter
<1> DEFINE new == Append(received[a][b], SameMessage(a, b, c))
           rest == {d \in incoming_chunk[a][b] : d.start # c.start}
           more == incoming_chunk[a][b] \cup {c}
<1>5. \/ /\ IsComplete(a, b, c)
         /\ received' = [received EXCEPT ![a][b] = new]
         /\ incoming_chunk' = [incoming_chunk EXCEPT ![a][b] = rest]
      \/ /\ ~ IsComplete(a, b, c)
         /\ received' = received
         /\ incoming_chunk' = [incoming_chunk EXCEPT ![a][b] = more]
  BY <1>1, <1>2 DEF ReceiveChunk
<1> HIDE DEF new, rest, more
<1>6. CASE v = a /\ u = b
  <2>1. \/ /\ IsComplete(a, b, c)
           /\ received'[a][b] = new /\ incoming_chunk'[a][b] = rest
        \/ /\ ~ IsComplete(a, b, c)
           /\ received'[a][b] = received[a][b] /\ incoming_chunk'[a][b] = more
    BY <1>1, <1>2, <1>5
  <2>2. LinkReceives(b, a, c)
    BY <1>3, <1>4, <1>6, <2>1 DEF LinkReceives, ReceiveChunk, new, rest, more
  <2> QED BY <1>6, <2>2 DEF LinkStep
<1>7. CASE ~ (v = a /\ u = b)
  <2>1. received'[v][u] = received[v][u] /\ incoming_chunk'[v][u] = incoming_chunk[v][u]
    BY <1>1, <1>2, <1>5, <1>7
  <2> QED BY <1>3, <1>4, <1>7, <2>1 DEF LinkStep, ReceiverIdle
<1> QED BY <1>6, <1>7

LEMMA ReceiveInvitationOnLink ==
  ASSUME TypeInv, NEW a \in Daemon, NEW b \in Friends(a), NEW c \in SentChunks(b, a),
         ReceiveInvitation(a, b, c), NEW u \in Daemon, NEW v \in Daemon
  PROVE  LinkStep(u, v)
<1>1. b \in Daemon /\ c \in Chunk
  BY AllChunksType DEF Friends, SentChunks
<1>2. /\ SenderIdle(u, v)
      /\ incoming_chunk'[v][u] = incoming_chunk[v][u]
      /\ received'[v][u] = received[v][u]
  BY DEF ReceiveInvitation, SenderIdle
<1>3. /\ received_seqnum'[a][b] = SeqnumAfter(b, a, c)
      /\ ~ (v = a /\ u = b) => received_seqnum'[v][u] = received_seqnum[v][u]
  BY <1>1, UpdateSequenceNumberEffect DEF ReceiveInvitation, SeqnumAfter
<1>4. CASE v = a /\ u = b
  <2>1. LinkIsInvited(b, a, c)
    BY <1>2, <1>3, <1>4 DEF LinkIsInvited, ReceiveInvitation
  <2> QED BY <1>4, <2>1 DEF LinkStep
<1>5. CASE ~ (v = a /\ u = b)
  BY <1>2, <1>3, <1>5 DEF LinkStep, ReceiverIdle
<1> QED BY <1>4, <1>5

\* The acknowledged number of a link changes only by an acknowledgement that
\* raises it.
LEMMA AckedGrows ==
  ASSUME NEW u \in Daemon, NEW v \in Daemon, LinkStep(u, v)
  PROVE  \/ sent_acked_seqnum'[u][v] = sent_acked_seqnum[u][v]
         \/ \E ack \in 0 .. received_seqnum[v][u] :
               sent_acked_seqnum'[u][v] = ack /\ ack > sent_acked_seqnum[u][v]
<1>1. CASE SenderIdle(u, v) /\ ReceiverIdle(u, v)
  BY <1>1 DEF SenderIdle
<1>2. CASE \E m \in Message : LinkQueues(u, v, m)
  BY <1>2 DEF LinkQueues
<1>3. CASE \E ack \in 0 .. received_seqnum[v][u] : LinkAcks(u, v, ack)
  BY <1>3 DEF LinkAcks
<1>4. CASE \E c \in SentChunks(u, v) : LinkReceives(u, v, c) \/ LinkIsInvited(u, v, c)
  BY <1>4 DEF LinkReceives, LinkIsInvited, SenderIdle
<1> QED BY <1>1, <1>2, <1>3, <1>4 DEF LinkStep

\* Every step of the databases is a step of the given link.
LEMMA EveryStepOnLink ==
  ASSUME TypeInv, [DbNext]_dbvars, NEW u \in Daemon, NEW v \in Daemon
  PROVE  LinkStep(u, v)
<1>1. CASE \E m \in Message : \E rs \in SUBSET Friends(Author[m]) : QueueMessage(m, rs)
  BY <1>1, QueueMessageOnLink
<1>2. CASE \E a \in Daemon : \E b \in Friends(a) :
             \E ack \in 0 .. received_seqnum[b][a] : ReceiveAck(a, b, ack)
  BY <1>2, ReceiveAckOnLink
<1>3. CASE \E a \in Daemon : \E b \in Friends(a) : \E c \in SentChunks(b, a) :
             ReceiveChunk(a, b, c) \/ ReceiveInvitation(a, b, c)
  BY <1>3, ReceiveChunkOnLink, ReceiveInvitationOnLink
<1>4. CASE UNCHANGED dbvars
  BY <1>4 DEF dbvars, LinkStep, SenderIdle, ReceiverIdle
<1> QED BY <1>1, <1>2, <1>3, <1>4 DEF DbNext

-----------------------------------------------------------------------------
(* The sending half: what is outstanding is exactly what is not acked.     *)

\* The chunks a link has ever had, after one more message.
LEMMA AllChunksAfterQueueing ==
  ASSUME TypeInv, NEW u \in Daemon, NEW v \in Daemon, NEW m \in Message,
         queued'[u][v] = Append(queued[u][v], NewSpan(u, v, m))
  PROVE  AllChunks(u, v)' = AllChunks(u, v) \cup ChunksOf(NewSpan(u, v, m))
<1> DEFINE q == NewSpan(u, v, m)
<1>1. queued[u][v] \in Seq(Span) /\ q \in Span
  <2>1. queued \in [Daemon -> [Daemon -> Seq(Span)]]
    BY DEF TypeInv, DbTypeOK
  <2>2. q \in Span
    BY NewSpanType
  <2> HIDE DEF q
  <2> QED BY <2>1, <2>2
<1> HIDE DEF q
<1>2. /\ DOMAIN Append(queued[u][v], q) = DOMAIN queued[u][v] \cup {Len(queued[u][v]) + 1}
      /\ \A k \in DOMAIN queued[u][v] : Append(queued[u][v], q)[k] = queued[u][v][k]
      /\ Append(queued[u][v], q)[Len(queued[u][v]) + 1] = q
  BY <1>1
<1>3. UNION {ChunksOf(Append(queued[u][v], q)[k]) : k \in DOMAIN Append(queued[u][v], q)} =
        (UNION {ChunksOf(queued[u][v][k]) : k \in DOMAIN queued[u][v]}) \cup ChunksOf(q)
  <2> DEFINE old == queued[u][v]
             new == Append(queued[u][v], q)
             last == Len(queued[u][v]) + 1
  <2>1. /\ DOMAIN new = DOMAIN old \cup {last} /\ new[last] = q
        /\ \A k \in DOMAIN old : new[k] = old[k]
    BY <1>2
  <2> HIDE DEF old, new, last
  <2>2. UNION {ChunksOf(new[k]) : k \in DOMAIN new} =
          (UNION {ChunksOf(old[k]) : k \in DOMAIN old}) \cup ChunksOf(q)
    BY <2>1
  <2> QED BY <2>2 DEF old, new
<1>4. AllChunks(u, v)' = InitialChunks(u, v) \cup
        UNION {ChunksOf(Append(queued[u][v], q)[k]) : k \in DOMAIN Append(queued[u][v], q)}
  BY DEF AllChunks, InitialChunks, q
<1>5. AllChunks(u, v)' = AllChunks(u, v) \cup ChunksOf(q)
  BY <1>3, <1>4 DEF AllChunks
<1> QED BY <1>5 DEF q

LEMMA AllChunksUnchanged ==
  ASSUME NEW u \in Daemon, NEW v \in Daemon, queued'[u][v] = queued[u][v]
  PROVE  AllChunks(u, v)' = AllChunks(u, v)
BY DEF AllChunks, InitialChunks

\* The numbers of a link, for the provers' arithmetic.
LEMMA LinkTypes ==
  ASSUME TypeInv, NEW u \in Daemon, NEW v \in Daemon
  PROVE  /\ sent_acked_seqnum[u][v] \in Nat
         /\ received_seqnum[v][u] \in Nat
         /\ \A c \in AllChunks(u, v) : c.seq \in Nat \ {0}
<1>1. /\ sent_acked_seqnum \in [Daemon -> [Daemon -> Nat]]
      /\ received_seqnum \in [Daemon -> [Daemon -> Nat]]
  BY DEF TypeInv, DbTypeOK
<1>2. AllChunks(u, v) \in SUBSET Chunk /\ \A c \in Chunk : c.seq \in Nat \ {0}
  BY AllChunksType DEF Chunk
<1> QED BY <1>1, <1>2

Retained(u, v) ==
  outgoing_chunk[u][v] = {c \in AllChunks(u, v) : c.seq > sent_acked_seqnum[u][v]}

LEMMA RetainedStep ==
  ASSUME TypeInv, NEW u \in Daemon, NEW v \in Daemon, Retained(u, v), LinkStep(u, v)
  PROVE  Retained(u, v)'
<1>1. /\ sent_acked_seqnum[u][v] \in Nat /\ received_seqnum[v][u] \in Nat
      /\ \A c \in AllChunks(u, v) : c.seq \in Nat
  BY LinkTypes
<1>2. CASE SenderIdle(u, v)
  BY <1>2, AllChunksUnchanged DEF SenderIdle, Retained
<1>3. ASSUME NEW m \in Message, LinkQueues(u, v, m)
      PROVE  Retained(u, v)'
  <2> DEFINE q == NewSpan(u, v, m)
  <2>1. /\ q \in Span
        /\ q.start = SeqnumForNewChunk(u, v) /\ q.start \in Nat \ {0} /\ q.num \in Nat
    BY NewSpanType DEF Span
  <2>2. q.start > sent_acked_seqnum[u][v]
    BY <1>1, <2>1, SeqnumIsNew DEF Retained
  <2>3. \A c \in ChunksOf(q) : c.seq > sent_acked_seqnum[u][v]
    BY <1>1, <2>1, <2>2, ChunksOfSpan
  <2>4. AllChunks(u, v)' = AllChunks(u, v) \cup ChunksOf(q)
    BY <1>3, AllChunksAfterQueueing DEF LinkQueues
  <2> QED BY <1>3, <2>3, <2>4 DEF LinkQueues, Retained
<1>4. ASSUME NEW ack \in 0 .. received_seqnum[v][u], LinkAcks(u, v, ack)
      PROVE  Retained(u, v)'
  <2>1. AllChunks(u, v)' = AllChunks(u, v)
    BY <1>4, AllChunksUnchanged DEF LinkAcks
  <2> QED BY <1>1, <1>4, <2>1 DEF LinkAcks, Retained
<1> QED BY <1>2, <1>3, <1>4 DEF LinkStep, LinkReceives, LinkIsInvited

RetainedInv == TypeInv /\ UnackedIsRetained

LEMMA RetainedInductive == RetainedInv /\ [DbNext]_dbvars => RetainedInv'
<1> SUFFICES ASSUME RetainedInv, [DbNext]_dbvars
             PROVE  RetainedInv'
  OBVIOUS
<1>1. TypeInv'
  BY TypeInvNext DEF RetainedInv
<1>2. \A u, v \in Daemon : Retained(u, v)'
  BY EveryStepOnLink, RetainedStep DEF RetainedInv, UnackedIsRetained, Retained
<1> QED BY <1>1, <1>2 DEF RetainedInv, UnackedIsRetained, Retained

LEMMA RetainedInit == DbInit => RetainedInv
<1> SUFFICES ASSUME DbInit
             PROVE  UnackedIsRetained
  BY TypeInvInit DEF RetainedInv
<1>1. \A u, v \in Daemon : AllChunks(u, v) = InitialChunks(u, v)
  BY DEF DbInit, AllChunks
<1>2. \A u, v \in Daemon : \A c \in InitialChunks(u, v) : c.seq > 0
  BY DEF InitialChunks, InvitationChunk
<1> QED BY <1>1, <1>2 DEF DbInit, UnackedIsRetained

\* A chunk stays in outgoing_chunk until an ack covers it and no longer, so
\* "any message with seqnum > sent_acked_seqnum" can be retried: for every
\* network, every friendship and every size of message.
THEOREM UnackedRetained == DbSpec => []UnackedIsRetained
<1>1. DbSpec => []RetainedInv
  BY RetainedInit, RetainedInductive, PTL DEF DbSpec
<1> QED BY <1>1, PTL DEF RetainedInv

-----------------------------------------------------------------------------
(* Both halves: what v has received runs ahead of what u has an ack for by *)
(* at most one chunk, and leaves no gap.                                   *)

Window(u, v) ==
  /\ sent_acked_seqnum[u][v] <= received_seqnum[v][u]
  /\ \A d \in incoming_chunk[v][u] : d.seq <= received_seqnum[v][u]
  /\ \A s \in 1 .. received_seqnum[v][u] : \E c \in AllChunks(u, v) : c.seq = s

\* A new chunk that can arrive is the very next one.
LEMMA NewChunkIsNext ==
  ASSUME TypeInv, NEW u \in Daemon, NEW v \in Daemon, Window(u, v),
         NEW c \in SentChunks(u, v), IsNewChunk(v, u, c)
  PROVE  c \in AllChunks(u, v) /\ c.seq = received_seqnum[v][u] + 1
<1>1. c \in AllChunks(u, v) /\ c.seq <= sent_acked_seqnum[u][v] + 1
  BY DEF SentChunks
<1> QED BY <1>1, LinkTypes DEF Window, IsNewChunk

LEMMA WindowStep ==
  ASSUME TypeInv, NEW u \in Daemon, NEW v \in Daemon, Window(u, v), LinkStep(u, v)
  PROVE  Window(u, v)'
<1>1. /\ sent_acked_seqnum[u][v] \in Nat /\ received_seqnum[v][u] \in Nat
      /\ \A c \in AllChunks(u, v) : c.seq \in Nat \ {0}
  BY LinkTypes
<1>2. CASE SenderIdle(u, v) /\ ReceiverIdle(u, v)
  BY <1>2, AllChunksUnchanged DEF SenderIdle, ReceiverIdle, Window
<1>3. ASSUME NEW m \in Message, LinkQueues(u, v, m)
      PROVE  Window(u, v)'
  <2>1. AllChunks(u, v)' = AllChunks(u, v) \cup ChunksOf(NewSpan(u, v, m))
    BY <1>3, AllChunksAfterQueueing DEF LinkQueues
  <2> QED BY <1>3, <2>1 DEF LinkQueues, ReceiverIdle, Window
<1>4. ASSUME NEW ack \in 0 .. received_seqnum[v][u], LinkAcks(u, v, ack)
      PROVE  Window(u, v)'
  <2>1. AllChunks(u, v)' = AllChunks(u, v)
    BY <1>4, AllChunksUnchanged DEF LinkAcks
  <2>2. ack <= received_seqnum[v][u]
    BY <1>1
  <2> QED BY <1>4, <2>1, <2>2 DEF LinkAcks, ReceiverIdle, Window
<1>5. ASSUME NEW c \in SentChunks(u, v), LinkReceives(u, v, c) \/ LinkIsInvited(u, v, c)
      PROVE  Window(u, v)'
  <2>1. c \in AllChunks(u, v) /\ c.seq = received_seqnum[v][u] + 1
    BY <1>5, NewChunkIsNext DEF LinkReceives, LinkIsInvited
  <2>2. /\ sent_acked_seqnum'[u][v] = sent_acked_seqnum[u][v]
        /\ AllChunks(u, v)' = AllChunks(u, v)
    BY <1>5, AllChunksUnchanged DEF LinkReceives, LinkIsInvited, SenderIdle
  <2>3. received_seqnum'[v][u] = received_seqnum[v][u] + 1
    BY <1>5, <2>1 DEF LinkReceives, LinkIsInvited, SeqnumAfter
  <2>4. \A d \in incoming_chunk'[v][u] : d \in incoming_chunk[v][u] \/ d = c
    BY <1>5 DEF LinkReceives, LinkIsInvited
  <2>5. incoming_chunk[v][u] \in SUBSET Chunk /\ \A d \in Chunk : d.seq \in Nat
    BY DEF TypeInv, DbTypeOK, Chunk
  <2>6. \A d \in incoming_chunk'[v][u] : d.seq <= received_seqnum'[v][u]
    <3> TAKE d \in incoming_chunk'[v][u]
    <3>1. CASE d = c
      BY <1>1, <2>1, <2>3, <3>1
    <3>2. CASE d \in incoming_chunk[v][u]
      <4>1. d.seq \in Nat /\ d.seq <= received_seqnum[v][u]
        BY <2>5, <3>2 DEF Window
      <4> QED BY <1>1, <2>3, <4>1
    <3> QED BY <2>4, <3>1, <3>2
  <2>7. \A s \in 1 .. received_seqnum'[v][u] : \E d \in AllChunks(u, v)' : d.seq = s
    <3> TAKE s \in 1 .. received_seqnum'[v][u]
    <3>1. s \in 1 .. received_seqnum[v][u] \/ s = c.seq
      BY <1>1, <2>1, <2>3
    <3> QED BY <2>1, <2>2, <3>1 DEF Window
  <2>8. sent_acked_seqnum'[u][v] <= received_seqnum'[v][u]
    BY <1>1, <2>2, <2>3 DEF Window
  <2> QED BY <2>6, <2>7, <2>8 DEF Window
<1> QED BY <1>2, <1>3, <1>4, <1>5 DEF LinkStep

WindowInv == RetainedInv /\ \A u, v \in Daemon : Window(u, v)

LEMMA WindowInit == DbInit => WindowInv
<1> SUFFICES ASSUME DbInit
             PROVE  \A u, v \in Daemon : Window(u, v)
  BY RetainedInit DEF WindowInv
<1> QED BY DEF DbInit, Window

LEMMA WindowInductive == WindowInv /\ [DbNext]_dbvars => WindowInv'
<1> SUFFICES ASSUME WindowInv, [DbNext]_dbvars
             PROVE  WindowInv'
  OBVIOUS
<1>1. RetainedInv'
  BY RetainedInductive DEF WindowInv
<1>2. \A u, v \in Daemon : Window(u, v)'
  BY EveryStepOnLink, WindowStep DEF WindowInv, RetainedInv
<1> QED BY <1>1, <1>2 DEF WindowInv

LEMMA WindowTransactions == WindowInv => TransactionsSucceed
<1> SUFFICES ASSUME WindowInv, NEW u \in Daemon, NEW v \in Friends(u)
             PROVE  /\ AckCovered(u, v, received_seqnum[v][u])
                    /\ \A c \in SentChunks(v, u) :
                         IsNewChunk(u, v, c) => \A d \in incoming_chunk[u][v] : d.seq # c.seq
  BY DEF TransactionsSucceed
<1>1. v \in Daemon /\ TypeInv /\ Window(u, v) /\ Window(v, u) /\ Retained(u, v)
  BY DEF Friends, WindowInv, RetainedInv, UnackedIsRetained, Retained
<1>2. AckCovered(u, v, received_seqnum[v][u])
  <2> SUFFICES ASSUME NEW s \in sent_acked_seqnum[u][v] + 1 .. received_seqnum[v][u]
               PROVE  \E c \in outgoing_chunk[u][v] : c.seq = s
    BY DEF AckCovered
  <2>1. s \in 1 .. received_seqnum[v][u] /\ s > sent_acked_seqnum[u][v]
    BY <1>1, LinkTypes
  <2>2. PICK c \in AllChunks(u, v) : c.seq = s
    BY <1>1, <2>1 DEF Window
  <2> QED BY <1>1, <2>1, <2>2 DEF Retained
<1>3. ASSUME NEW c \in SentChunks(v, u), IsNewChunk(u, v, c), NEW d \in incoming_chunk[u][v]
      PROVE  d.seq # c.seq
  <2>1. c.seq = received_seqnum[u][v] + 1
    BY <1>1, <1>3, NewChunkIsNext
  <2>2. d.seq <= received_seqnum[u][v]
    BY <1>1 DEF Window
  <2>3. received_seqnum[u][v] \in Nat
    BY <1>1, LinkTypes
  <2> QED BY <2>1, <2>2, <2>3
<1> QED BY <1>2, <1>3

\* receive_ack finds the row of every sequence number it covers, and
\* receive_chunk never meets a row with the key it inserts.
THEOREM TransactionsNeverFail == DbSpec => []TransactionsSucceed
<1>1. DbSpec => []WindowInv
  BY WindowInit, WindowInductive, PTL DEF DbSpec
<1> QED BY <1>1, WindowTransactions, PTL

\* No step takes a sequence number or a delivered message back.
THEOREM NothingTakenBack == DbSpec => NothingIsTakenBack
<1>1. TypeInv /\ [DbNext]_dbvars =>
        [\A u, v \in Daemon :
           /\ sent_acked_seqnum'[u][v] >= sent_acked_seqnum[u][v]
           /\ received_seqnum'[u][v] >= received_seqnum[u][v]
           /\ SubSeq(received'[u][v], 1, Len(received[u][v])) = received[u][v]]_dbvars
  <2> SUFFICES ASSUME TypeInv, [DbNext]_dbvars, NEW u \in Daemon, NEW v \in Daemon
               PROVE  /\ sent_acked_seqnum'[u][v] >= sent_acked_seqnum[u][v]
                      /\ received_seqnum'[u][v] >= received_seqnum[u][v]
                      /\ SubSeq(received'[u][v], 1, Len(received[u][v])) = received[u][v]
    OBVIOUS
  <2>1. LinkStep(u, v) /\ LinkStep(v, u)
    BY EveryStepOnLink
  <2>2. /\ sent_acked_seqnum[u][v] \in Nat /\ received_seqnum[u][v] \in Nat
        /\ received_seqnum[v][u] \in Nat
    BY LinkTypes
  <2>3. sent_acked_seqnum'[u][v] >= sent_acked_seqnum[u][v]
    BY <2>1, <2>2, AckedGrows
  <2>4. received_seqnum'[u][v] = received_seqnum[u][v] \/
          \E c \in SentChunks(v, u) : received_seqnum'[u][v] = SeqnumAfter(v, u, c)
    BY <2>1 DEF LinkStep, ReceiverIdle, LinkQueues, LinkAcks, LinkReceives, LinkIsInvited
  <2>5. received_seqnum'[u][v] >= received_seqnum[u][v]
    BY <2>2, <2>4 DEF SeqnumAfter
  <2>6. received'[u][v] = received[u][v] \/
          \E rows \in SUBSET Chunk : received'[u][v] = Append(received[u][v], rows)
    <3>1. \A c \in SentChunks(v, u) : SameMessage(u, v, c) \in SUBSET Chunk
      <4>1. incoming_chunk \in [Daemon -> [Daemon -> SUBSET Chunk]]
        BY DEF TypeInv, DbTypeOK
      <4>2. incoming_chunk[u][v] \in SUBSET Chunk /\ SentChunks(v, u) \in SUBSET Chunk
        BY <4>1, AllChunksType DEF SentChunks
      <4> QED BY <4>2 DEF SameMessage
    <3> QED BY <2>1, <3>1
          DEF LinkStep, ReceiverIdle, LinkQueues, LinkAcks, LinkReceives, LinkIsInvited
  <2>7. received[u][v] \in Seq(SUBSET Chunk)
    BY LinkSequences
  <2>8. SubSeq(received'[u][v], 1, Len(received[u][v])) = received[u][v]
    BY <2>6, <2>7
  <2> QED BY <2>3, <2>5, <2>8
<1>2. DbSpec => []TypeInv
  BY TypeInvInit, TypeInvNext, PTL DEF DbSpec
<1> QED BY <1>1, <1>2, PTL DEF DbSpec, NothingIsTakenBack

=============================================================================
