------------------------- MODULE TransmitterProofs -------------------------
(***************************************************************************)
(* The transmitter threads, the server and all faults together implement   *)
(* the network ClientDb assumes: whatever is on its way was sent by its    *)
(* sender and is still covered by the sender's database.  So every theorem *)
(* about the databases holds of the whole system, for any number of        *)
(* daemons, requests under way and faults.                                 *)
(***************************************************************************)
EXTENDS Transmitter, DeliveryProofs

-----------------------------------------------------------------------------
(* The first outstanding chunk is the one after the last ack, because the  *)
(* numbers of a link have no gap.                                          *)

Consecutive(u, v) ==
  \A c \in AllChunks(u, v) : c.seq > 1 => \E d \in AllChunks(u, v) : d.seq = c.seq - 1

DbInv == WindowInv /\ \A u, v \in Daemon : Consecutive(u, v)

LEMMA DbInvLink ==
  ASSUME DbInv, NEW u \in Daemon, NEW v \in Daemon
  PROVE  TypeInv /\ Retained(u, v) /\ Window(u, v) /\ Consecutive(u, v)
BY DEF DbInv, WindowInv, RetainedInv, UnackedIsRetained, Retained

LEMMA ConsecutiveStep ==
  ASSUME TypeInv, NEW u \in Daemon, NEW v \in Daemon,
         Retained(u, v), Window(u, v), Consecutive(u, v), LinkStep(u, v)
  PROVE  Consecutive(u, v)'
<1>1. CASE queued'[u][v] = queued[u][v]
  BY <1>1, AllChunksUnchanged DEF Consecutive
<1>2. ASSUME NEW m \in Message, LinkQueues(u, v, m)
      PROVE  Consecutive(u, v)'
  <2> DEFINE q == NewSpan(u, v, m)
             all == AllChunks(u, v)
             acked == sent_acked_seqnum[u][v]
  <2>1. AllChunks(u, v)' = all \cup ChunksOf(q)
    BY <1>2, AllChunksAfterQueueing DEF LinkQueues
  <2>2. /\ q \in Span /\ q.start \in Nat \ {0} /\ q.num \in Nat
        /\ q.start = SeqnumForNewChunk(u, v)
    BY NewSpanType DEF Span
  <2>3. /\ acked \in Nat /\ received_seqnum[v][u] \in Nat
        /\ \A c \in all : c.seq \in Nat \ {0}
    BY LinkTypes
  <2>4. q.start > 1 => \E d \in all : d.seq = q.start - 1
    <3> SUFFICES ASSUME q.start > 1
                 PROVE  \E d \in all : d.seq = q.start - 1
      OBVIOUS
    <3>1. CASE outgoing_chunk[u][v] = {}
      <4>1. q.start = acked + 1
        BY <2>2, <3>1, SeqnumIsNew
      <4>2. acked \in 1 .. received_seqnum[v][u] /\ q.start - 1 = acked
        <5> HIDE DEF q, acked
        <5>1. acked <= received_seqnum[v][u]
          BY DEF Window, acked
        <5> QED BY <2>2, <2>3, <4>1, <5>1
      <4>3. \E d \in all : d.seq = acked
        BY <4>2 DEF Window
      <4> QED BY <4>2, <4>3
    <3>2. CASE outgoing_chunk[u][v] # {}
      <4>1. PICK d \in outgoing_chunk[u][v] : q.start = d.seq + 1
        BY <2>2, <3>2, SeqnumIsNew
      <4>2. d \in all
        BY <4>1 DEF Retained
      <4>3. d.seq = q.start - 1
        <5> HIDE DEF q, all
        <5> QED BY <2>3, <4>1, <4>2
      <4> QED BY <4>2, <4>3
    <3> QED BY <3>1, <3>2
  <2>5. ASSUME NEW c \in ChunksOf(q), c.seq > 1
        PROVE  \E d \in all \cup ChunksOf(q) : d.seq = c.seq - 1
    <3>1. c.seq \in q.start .. q.start + q.num - 1
      BY <2>2, ChunksOfSpan
    <3>2. CASE c.seq = q.start
      BY <2>4, <2>5, <3>2
    <3>3. CASE c.seq # q.start
      <4>1. c.seq - 1 \in q.start .. q.start + q.num - 1
        <5> HIDE DEF q
        <5> QED BY <2>2, <3>1, <3>3
      <4> QED BY <2>2, <4>1, ChunksOfSpan
    <3> QED BY <3>2, <3>3
  <2>6. \A c \in all : c.seq > 1 => \E d \in all : d.seq = c.seq - 1
    BY DEF Consecutive
  <2> HIDE DEF q, all
  <2> QED BY <2>1, <2>5, <2>6 DEF Consecutive
<1> QED BY <1>1, <1>2 DEF LinkStep, SenderIdle, LinkAcks, LinkReceives, LinkIsInvited

LEMMA DbInvInit == DbInit => DbInv
<1> SUFFICES ASSUME DbInit, NEW u \in Daemon, NEW v \in Daemon
             PROVE  Consecutive(u, v)
  BY WindowInit DEF DbInv
<1>1. AllChunks(u, v) = InitialChunks(u, v)
  BY DEF DbInit, AllChunks
<1> QED BY <1>1 DEF Consecutive, InitialChunks, InvitationChunk

LEMMA DbInvNext ==
  ASSUME DbInv, [DbNext]_dbvars
  PROVE  DbInv'
<1>1. WindowInv'
  BY WindowInductive DEF DbInv
<1>2. ASSUME NEW u \in Daemon, NEW v \in Daemon
      PROVE  Consecutive(u, v)'
  BY DbInvLink, EveryStepOnLink, ConsecutiveStep
<1> QED BY <1>1, <1>2 DEF DbInv

\* chunk_to_send lets out nothing further ahead.
LEMMA FirstIsSent ==
  ASSUME DbInv, NEW u \in Daemon, NEW v \in Daemon, NEW c \in outgoing_chunk[u][v],
         IsFirstChunk(u, v, c)
  PROVE  c \in SentChunks(u, v)
<1>1. TypeInv /\ Retained(u, v) /\ Consecutive(u, v)
  BY DbInvLink
<1>2. /\ c \in AllChunks(u, v) /\ c.seq > sent_acked_seqnum[u][v]
      /\ sent_acked_seqnum[u][v] \in Nat
      /\ \A d \in AllChunks(u, v) : d.seq \in Nat \ {0}
  BY <1>1, LinkTypes DEF Retained
<1>3. ASSUME c.seq > sent_acked_seqnum[u][v] + 1
      PROVE  FALSE
  <2>1. PICK d \in AllChunks(u, v) : d.seq = c.seq - 1
    BY <1>1, <1>2, <1>3 DEF Consecutive
  <2>2. d.seq > sent_acked_seqnum[u][v] /\ d.seq < c.seq
    BY <1>2, <1>3, <2>1
  <2>3. d \in outgoing_chunk[u][v]
    BY <1>1, <2>2 DEF Retained
  <2> QED BY <1>2, <2>2, <2>3 DEF IsFirstChunk
<1> QED BY <1>2, <1>3 DEF SentChunks

\* What has been sent stays sent, what has been received stays received.
LEMMA SentStays ==
  ASSUME DbInv, [DbNext]_dbvars, NEW u \in Daemon, NEW v \in Daemon
  PROVE  /\ SentChunks(u, v) \subseteq SentChunks(u, v)'
         /\ received_seqnum[u][v] \in Nat /\ received_seqnum'[u][v] \in Nat
         /\ received_seqnum[u][v] <= received_seqnum'[u][v]
<1>1. TypeInv /\ TypeInv' /\ LinkStep(u, v) /\ LinkStep(v, u)
  BY DbInvLink, DbInvNext, EveryStepOnLink DEF DbInv, WindowInv, RetainedInv
<1>2. /\ sent_acked_seqnum[u][v] \in Nat /\ received_seqnum[u][v] \in Nat
      /\ \A c \in AllChunks(u, v) : c.seq \in Nat
  BY <1>1, LinkTypes
<1>3. sent_acked_seqnum'[u][v] \in Nat /\ received_seqnum'[u][v] \in Nat
  BY <1>1 DEF TypeInv, DbTypeOK
<1>4. sent_acked_seqnum'[u][v] >= sent_acked_seqnum[u][v]
  <2>1. \/ sent_acked_seqnum'[u][v] = sent_acked_seqnum[u][v]
        \/ \E ack \in 0 .. received_seqnum[v][u] :
              sent_acked_seqnum'[u][v] = ack /\ ack > sent_acked_seqnum[u][v]
    BY <1>1, AckedGrows
  <2> QED BY <1>2, <2>1
<1>5. AllChunks(u, v) \subseteq AllChunks(u, v)'
  <2>1. CASE queued'[u][v] = queued[u][v]
    BY <2>1, AllChunksUnchanged
  <2>2. ASSUME NEW m \in Message, LinkQueues(u, v, m)
        PROVE  AllChunks(u, v) \subseteq AllChunks(u, v)'
    BY <1>1, <2>2, AllChunksAfterQueueing DEF LinkQueues
  <2> QED BY <1>1, <2>1, <2>2 DEF LinkStep, SenderIdle, LinkAcks, LinkReceives, LinkIsInvited
<1>6. received_seqnum'[u][v] >= received_seqnum[u][v]
  <2>1. received_seqnum'[u][v] = received_seqnum[u][v] \/
          \E c \in SentChunks(v, u) : received_seqnum'[u][v] = SeqnumAfter(v, u, c)
    BY <1>1 DEF LinkStep, ReceiverIdle, LinkQueues, LinkAcks, LinkReceives, LinkIsInvited
  <2> QED BY <1>2, <2>1 DEF SeqnumAfter
<1>7. SentChunks(u, v) \subseteq SentChunks(u, v)'
  <2> SUFFICES ASSUME NEW c \in SentChunks(u, v)
               PROVE  c \in AllChunks(u, v)' /\ c.seq <= sent_acked_seqnum'[u][v] + 1
    BY DEF SentChunks
  <2>1. c \in AllChunks(u, v) /\ c.seq <= sent_acked_seqnum[u][v] + 1
    BY DEF SentChunks
  <2>2. c \in AllChunks(u, v)' /\ c.seq \in Nat
    BY <1>2, <1>5, <2>1
  <2> QED BY <1>2, <1>3, <1>4, <2>1, <2>2
<1> QED BY <1>2, <1>3, <1>6, <1>7

-----------------------------------------------------------------------------
(* Every step of the whole system is one transaction of one database or    *)
(* leaves all of them alone.                                               *)

Types == ThreadTypeOK /\ ServerTypeOK

TrafficInv == DbInv /\ Types /\ OnlyGenuineTraffic

\* The first reply of a thread that has some.
LEMMA FirstReply ==
  ASSUME Types, NEW u \in Daemon, replies[u] # <<>>
  PROVE  /\ Head(replies[u]) \in Reply
         /\ Head(replies[u]).from \in Friends(u)
         /\ Head(replies[u]) = replies[u][1] /\ 1 \in DOMAIN replies[u]
         /\ Tail(replies[u]) \in Seq(Reply)
         /\ \A i \in DOMAIN Tail(replies[u]) : i + 1 \in DOMAIN replies[u]
                                               /\ Tail(replies[u])[i] = replies[u][i + 1]
<1> DEFINE q == replies[u]
<1>1. q \in Seq(Reply) /\ q # <<>> /\ \A i \in DOMAIN q : q[i].from \in Friends(u)
  BY DEF Types, ThreadTypeOK
<1> HIDE DEF q
<1>2. /\ Head(q) = q[1] /\ 1 \in DOMAIN q /\ q[1] \in Reply
      /\ Tail(q) \in Seq(Reply)
      /\ \A i \in DOMAIN Tail(q) : i + 1 \in DOMAIN q /\ Tail(q)[i] = q[i + 1]
  BY <1>1
<1> QED BY <1>1, <1>2 DEF q

\* The next friend to query of a thread that has some.
LEMMA FirstQuery ==
  ASSUME Types, NEW u \in Daemon, pc[u] = "retrieve"
  PROVE  /\ Head(todo[u]) \in Friends(u) /\ Head(todo[u]) \in Daemon
         /\ Tail(todo[u]) \in Seq(Daemon)
         /\ IsLastQuery(u) <=> Tail(todo[u]) = <<>>
         /\ \A i \in DOMAIN Tail(todo[u]) : Tail(todo[u])[i] \in Friends(u)
<1> DEFINE q == todo[u]
<1>1. q \in Seq(Daemon) /\ q # <<>> /\ \A i \in DOMAIN q : q[i] \in Friends(u)
  BY DEF Types, ThreadTypeOK
<1> HIDE DEF q
<1>2. /\ Head(q) = q[1] /\ 1 \in DOMAIN q
      /\ Tail(q) \in Seq(Daemon)
      /\ \A i \in DOMAIN Tail(q) : i + 1 \in DOMAIN q /\ Tail(q)[i] = q[i + 1]
  BY <1>1
<1>3. Len(q) = 1 <=> Tail(q) = <<>>
  <2>1. Len(Tail(q)) = Len(q) - 1 /\ Len(q) \in Nat
    BY <1>1
  <2> DEFINE t == Tail(q)
  <2>2. t \in Seq(Daemon)
    BY <1>2
  <2> HIDE DEF t
  <2>3. t = <<>> <=> Len(t) = 0
    BY <2>2
  <2> QED BY <2>1, <2>3 DEF t
<1> QED BY <1>1, <1>2, <1>3 DEF q, Friends, IsLastQuery

LEMMA AckIsDbStep ==
  ASSUME TrafficInv, NEW u \in Daemon, ProcessAck(u)
  PROVE  [DbNext]_dbvars
<1>1. /\ replies[u] # <<>> /\ Types /\ OnlyGenuineTraffic
      /\ DbInv
  BY DEF ProcessAck, TrafficInv
<1> DEFINE r == Head(replies[u])
<1>2. r \in Reply /\ r.from \in Friends(u) /\ r = replies[u][1] /\ 1 \in DOMAIN replies[u]
  BY <1>1, FirstReply
<1>3. r.ack \in Nat /\ r.from \in Daemon /\ r.ack <= received_seqnum[r.from][u]
  BY <1>1, <1>2 DEF Reply, OnlyGenuineTraffic
<1>4. received_seqnum[r.from][u] \in Nat
  BY <1>1, <1>3, DbInvLink, LinkTypes
<1>5. CASE ReceiveAck(u, r.from, r.ack)
  <2>1. r.ack \in 0 .. received_seqnum[r.from][u]
    BY <1>3, <1>4
  <2> HIDE DEF r
  <2> QED BY <1>2, <1>5, <2>1 DEF DbNext
<1>6. CASE UNCHANGED dbvars
  BY <1>6
<1> QED BY <1>5, <1>6 DEF ProcessAck

LEMMA ChunkIsDbStep ==
  ASSUME TrafficInv, NEW u \in Daemon, ProcessChunk(u)
  PROVE  [DbNext]_dbvars
<1>1. replies[u] # <<>> /\ Types /\ OnlyGenuineTraffic
  BY DEF ProcessChunk, TrafficInv, Types, ThreadTypeOK
<1> DEFINE r == Head(replies[u])
           c == r.mail.chunk
<1>2. r \in Reply /\ r.from \in Friends(u) /\ r = replies[u][1] /\ 1 \in DOMAIN replies[u]
  BY <1>1, FirstReply
<1>3. GenuineMail(r.from, r.mail)
  BY <1>1, <1>2 DEF OnlyGenuineTraffic
<1>4. ASSUME r.mail.to = u, ReceiveChunk(u, r.from, c) \/ ReceiveInvitation(u, r.from, c)
      PROVE  DbNext
  <2>1. c \in SentChunks(r.from, u)
    BY <1>3, <1>4, NoValueAssumption DEF GenuineMail
  <2> HIDE DEF r, c
  <2> QED BY <1>2, <1>4, <2>1 DEF DbNext
<1>5. CASE UNCHANGED dbvars
  BY <1>5
<1> QED BY <1>4, <1>5 DEF ProcessChunk

LEMMA EveryStepOfDb ==
  ASSUME TrafficInv, [Next]_vars
  PROVE  [DbNext]_dbvars
<1>1. ASSUME NEW m \in Message, Submit(m)
      PROVE  DbNext
  BY <1>1 DEF Submit, DbNext
<1>2. ASSUME NEW u \in Daemon, Round(u)
      PROVE  [DbNext]_dbvars
  BY <1>2, AckIsDbStep, ChunkIsDbStep
     DEF Round, StartRound, ReadPir, ReadPirAcks, NextQuery, SendTo, SendNothing, SendRequest
<1>3. ASSUME NEW u \in Daemon, NEW s \in Slot, Serve(u, s)
      PROVE  UNCHANGED dbvars
  BY <1>3 DEF Serve, WritePir, WritePirAcks
<1>4. CASE Fault
  BY <1>4 DEF Fault, RetrieveFails, NextQuery, RoundFails, InvitationFails, SendFails,
              SendRequest, AcksFail, Crash, RequestLost, ServerRestart
<1>5. CASE UNCHANGED vars
  BY <1>5 DEF vars
<1> QED BY <1>1, <1>2, <1>3, <1>4, <1>5 DEF Next

-----------------------------------------------------------------------------
(* Types.  Each lemma is about what one step of daemon u writes.           *)

\* What the thread of u has in hand, and that it fits the point it is at.
ThreadOK(u, p, t, q) ==
  /\ p \in {"sleep", "retrieve", "ack", "chunk"}
  /\ t \in Seq(Daemon) /\ q \in Seq(Reply)
  /\ p = "sleep" => q = <<>>
  /\ p = "retrieve" <=> t # <<>>
  /\ p = "chunk" => q # <<>>
  /\ \A i \in DOMAIN t : t[i] \in Friends(u)
  /\ \A i \in DOMAIN q : q[i].from \in Friends(u)

CachesOK ==
  /\ prev_success \in [Daemon -> Daemon \cup {Nobody}]
  /\ just_sent \in [Daemon -> Daemon \cup {Nobody}]
  /\ just_acked \in [Daemon -> Daemon \cup {Nobody}]
  /\ \A u \in Daemon :
       {prev_success[u], just_sent[u], just_acked[u]} \subseteq Friends(u) \cup {Nobody}

LEMMA ThreadWrites ==
  ASSUME Types, NEW u \in Daemon,
         pc' = [pc EXCEPT ![u] = pc'[u]], todo' = [todo EXCEPT ![u] = todo'[u]],
         replies' = [replies EXCEPT ![u] = replies'[u]],
         ThreadOK(u, pc'[u], todo'[u], replies'[u]), CachesOK'
  PROVE  ThreadTypeOK'
<1>1. ASSUME NEW v \in Daemon
      PROVE  ThreadOK(v, pc'[v], todo'[v], replies'[v])
  <2>1. CASE v = u
    BY <2>1
  <2>2. CASE v # u
    <3>1. /\ pc \in [Daemon -> {"sleep", "retrieve", "ack", "chunk"}]
          /\ todo \in [Daemon -> Seq(Daemon)]
          /\ replies \in [Daemon -> Seq(Reply)]
      BY DEF Types, ThreadTypeOK
    <3>2. pc'[v] = pc[v] /\ todo'[v] = todo[v] /\ replies'[v] = replies[v]
      BY <2>2, <3>1
    <3>3. ThreadOK(v, pc[v], todo[v], replies[v])
      BY DEF Types, ThreadTypeOK, ThreadOK
    <3> QED BY <3>2, <3>3
  <2> QED BY <2>1, <2>2
<1>2. /\ pc' = [v \in Daemon |-> pc'[v]]
      /\ todo' = [v \in Daemon |-> todo'[v]]
      /\ replies' = [v \in Daemon |-> replies'[v]]
  <2>1. /\ pc \in [Daemon -> {"sleep", "retrieve", "ack", "chunk"}]
        /\ todo \in [Daemon -> Seq(Daemon)]
        /\ replies \in [Daemon -> Seq(Reply)]
    BY DEF Types, ThreadTypeOK
  <2> QED BY <2>1
<1>3. /\ pc' \in [Daemon -> {"sleep", "retrieve", "ack", "chunk"}]
      /\ todo' \in [Daemon -> Seq(Daemon)]
      /\ replies' \in [Daemon -> Seq(Reply)]
  BY <1>1, <1>2 DEF ThreadOK
<1> QED BY <1>1, <1>3 DEF ThreadOK, ThreadTypeOK, CachesOK

LEMMA UnchangedThread ==
  ASSUME Types, NEW u \in Daemon
  PROVE  /\ pc = [pc EXCEPT ![u] = pc[u]]
         /\ todo = [todo EXCEPT ![u] = todo[u]]
         /\ replies = [replies EXCEPT ![u] = replies[u]]
         /\ ThreadOK(u, pc[u], todo[u], replies[u])
         /\ CachesOK
BY DEF Types, ThreadTypeOK, ThreadOK, CachesOK

LEMMA StartRoundTypes ==
  ASSUME Types, NEW u \in Daemon, StartRound(u)
  PROVE  Types'
<1>1. PICK t \in ReceiveAddresses(u) :
        /\ todo' = [todo EXCEPT ![u] = t]
        /\ pc' = [pc EXCEPT ![u] = IF t = <<>> THEN "ack" ELSE "retrieve"]
  BY DEF StartRound
<1>2. t \in Seq(Daemon) /\ \A i \in DOMAIN t : t[i] \in Friends(u)
  <2> DEFINE size == Smaller(ReceiveFriendsPerRound, Cardinality(Friends(u)))
  <2>1. t \in [1 .. size -> Friends(u)]
    BY <1>1 DEF ReceiveAddresses
  <2>2. size \in Nat
    BY FriendsAssumption, RoundAssumption, FS_CardinalityType DEF Smaller
  <2> HIDE DEF size
  <2>3. t \in Seq(Friends(u)) /\ Friends(u) \subseteq Daemon
    BY <2>1, <2>2 DEF Friends
  <2> QED BY <2>1, <2>3
<1>3. /\ pc'[u] = IF t = <<>> THEN "ack" ELSE "retrieve"
      /\ todo'[u] = t
      /\ replies' = replies /\ replies[u] = <<>> /\ replies \in [Daemon -> Seq(Reply)]
      /\ pc[u] = "sleep" /\ answer' = answer
  BY <1>1 DEF StartRound, Types, ThreadTypeOK, servervars
<1>4. ThreadOK(u, pc'[u], todo'[u], replies'[u])
  BY <1>2, <1>3 DEF ThreadOK
<1>5. CachesOK'
  BY DEF Types, ThreadTypeOK, StartRound, CachesOK
<1>6. ThreadTypeOK'
  BY <1>1, <1>3, <1>4, <1>5, ThreadWrites, UnchangedThread
<1>7. ServerTypeOK'
  <2>1. \A v \in Daemon : answer'[v] # NoMail => pc'[v] = "retrieve"
    BY <1>1, <1>3 DEF Types, ThreadTypeOK, ServerTypeOK
  <2> QED BY <2>1 DEF StartRound, servervars, Types, ServerTypeOK
<1> QED BY <1>6, <1>7 DEF Types

LEMMA AppendedReply ==
  ASSUME NEW q \in Seq(Reply), NEW r \in Reply, NEW F, r.from \in F,
         \A i \in DOMAIN q : q[i].from \in F
  PROVE  /\ Append(q, r) \in Seq(Reply)
         /\ \A i \in DOMAIN Append(q, r) : Append(q, r)[i].from \in F
<1>1. /\ Append(q, r) \in Seq(Reply)
      /\ \A i \in DOMAIN Append(q, r) : i \in DOMAIN q \/ i = Len(q) + 1
      /\ \A i \in DOMAIN q : Append(q, r)[i] = q[i]
      /\ Append(q, r)[Len(q) + 1] = r
  OBVIOUS
<1> QED BY <1>1

LEMMA NextQueryTypes ==
  ASSUME Types, NEW u \in Daemon, pc[u] = "retrieve", NextQuery(u),
         \/ UNCHANGED replies
         \/ \E r \in Reply : /\ r.from \in Friends(u)
                             /\ replies' = [replies EXCEPT ![u] = Append(@, r)]
  PROVE  Types'
<1>1. /\ Tail(todo[u]) \in Seq(Daemon)
      /\ IsLastQuery(u) <=> Tail(todo[u]) = <<>>
      /\ \A i \in DOMAIN Tail(todo[u]) : Tail(todo[u])[i] \in Friends(u)
  BY FirstQuery
<1>2. /\ pc \in [Daemon -> {"sleep", "retrieve", "ack", "chunk"}]
      /\ todo \in [Daemon -> Seq(Daemon)]
      /\ replies \in [Daemon -> Seq(Reply)]
      /\ answer \in [Daemon -> Mail \cup {NoMail}]
      /\ \A i \in DOMAIN replies[u] : replies[u][i].from \in Friends(u)
  BY DEF Types, ThreadTypeOK, ServerTypeOK
<1>3. /\ todo' = [todo EXCEPT ![u] = Tail(todo[u])]
      /\ pc' = [pc EXCEPT ![u] = IF IsLastQuery(u) THEN "ack" ELSE "retrieve"]
      /\ answer' = [answer EXCEPT ![u] = NoMail]
  BY DEF NextQuery
<1>4. /\ replies'[u] \in Seq(Reply)
      /\ \A i \in DOMAIN replies'[u] : replies'[u][i].from \in Friends(u)
      /\ replies' = [replies EXCEPT ![u] = replies'[u]]
  <2>1. CASE UNCHANGED replies
    BY <1>2, <2>1
  <2>2. ASSUME NEW r \in Reply, r.from \in Friends(u),
               replies' = [replies EXCEPT ![u] = Append(replies[u], r)]
        PROVE  /\ replies'[u] \in Seq(Reply)
               /\ \A i \in DOMAIN replies'[u] : replies'[u][i].from \in Friends(u)
               /\ replies' = [replies EXCEPT ![u] = replies'[u]]
    <3>1. replies'[u] = Append(replies[u], r)
      BY <1>2, <2>2
    <3>2. /\ Append(replies[u], r) \in Seq(Reply)
          /\ \A i \in DOMAIN Append(replies[u], r) : Append(replies[u], r)[i].from \in Friends(u)
      BY <1>2, <2>2, AppendedReply
    <3> QED BY <2>2, <3>1, <3>2
  <2> QED BY <2>1, <2>2
<1>5. ThreadOK(u, pc'[u], todo'[u], replies'[u])
  <2>1. /\ todo'[u] = Tail(todo[u])
        /\ pc'[u] = IF todo'[u] = <<>> THEN "ack" ELSE "retrieve"
    BY <1>1, <1>2, <1>3
  <2> QED BY <1>1, <1>4, <2>1 DEF ThreadOK
<1>6. CachesOK'
  BY DEF Types, ThreadTypeOK, NextQuery, CachesOK
<1>7. ThreadTypeOK'
  <2>1. pc' = [pc EXCEPT ![u] = pc'[u]] /\ todo' = [todo EXCEPT ![u] = todo'[u]]
    BY <1>2, <1>3
  <2> QED BY <1>4, <1>5, <1>6, <2>1, ThreadWrites
<1>8. ServerTypeOK'
  <2>1. \A v \in Daemon : answer'[v] # NoMail => pc'[v] = "retrieve"
    BY <1>2, <1>3 DEF Types, ServerTypeOK
  <2>2. answer' \in [Daemon -> Mail \cup {NoMail}]
    BY <1>2, <1>3
  <2> QED BY <2>1, <2>2 DEF NextQuery, Types, ServerTypeOK
<1> QED BY <1>7, <1>8 DEF Types

LEMMA ReadPirTypes ==
  ASSUME Types, NEW u \in Daemon, ReadPir(u)
  PROVE  Types'
<1>1. Head(todo[u]) \in Daemon /\ pc[u] = "retrieve"
  BY FirstQuery DEF ReadPir
<1>2. ThreadTypeOK'
  BY DEF ReadPir, threadvars, Types, ThreadTypeOK
<1>3. ServerTypeOK'
  <2>1. pir[Head(todo[u])] \in Mail
    BY <1>1 DEF Types, ServerTypeOK
  <2>2. answer' = [answer EXCEPT ![u] = pir[Head(todo[u])]] /\ pc' = pc
    BY DEF ReadPir, threadvars
  <2>3. answer' \in [Daemon -> Mail \cup {NoMail}]
    BY <2>1, <2>2 DEF Types, ServerTypeOK
  <2>4. \A v \in Daemon : answer'[v] # NoMail => pc'[v] = "retrieve"
    BY <1>1, <2>2 DEF Types, ServerTypeOK
  <2> QED BY <2>3, <2>4 DEF ReadPir, Types, ServerTypeOK
<1> QED BY <1>2, <1>3 DEF Types

LEMMA ReadPirAcksTypes ==
  ASSUME Types, NEW u \in Daemon, ReadPirAcks(u)
  PROVE  Types'
<1> DEFINE v == Head(todo[u])
           r == [from |-> v, mail |-> answer[u], ack |-> pir_acks[v][u]]
<1>1. /\ v \in Daemon /\ v \in Friends(u) /\ pc[u] = "retrieve" /\ NextQuery(u)
      /\ replies' = [replies EXCEPT ![u] = Append(@, r)]
  BY FirstQuery DEF ReadPirAcks
<1>2. answer[u] \in Mail /\ pir_acks[v][u] \in Nat
  BY <1>1 DEF ReadPirAcks, Types, ServerTypeOK, AckRow
<1> HIDE DEF v
<1>3. r \in Reply /\ r.from = v
  BY <1>1, <1>2 DEF Reply
<1> HIDE DEF r
<1> QED BY <1>1, <1>3, NextQueryTypes

\* A friend or nobody is remembered.
LEMMA CacheWrites ==
  ASSUME Types, NEW u \in Daemon, NEW x \in Friends(u) \cup {Nobody},
         prev_success' = prev_success \/ prev_success' = [prev_success EXCEPT ![u] = x],
         just_sent' = just_sent \/ just_sent' = [just_sent EXCEPT ![u] = x],
         just_acked' = just_acked \/ just_acked' = [just_acked EXCEPT ![u] = x]
  PROVE  CachesOK'
<1>1. /\ x \in Daemon \cup {Nobody}
      /\ prev_success \in [Daemon -> Daemon \cup {Nobody}]
      /\ just_sent \in [Daemon -> Daemon \cup {Nobody}]
      /\ just_acked \in [Daemon -> Daemon \cup {Nobody}]
      /\ \A v \in Daemon :
           {prev_success[v], just_sent[v], just_acked[v]} \subseteq Friends(v) \cup {Nobody}
  BY DEF Types, ThreadTypeOK, Friends
<1>2. /\ prev_success' \in [Daemon -> Daemon \cup {Nobody}]
      /\ just_sent' \in [Daemon -> Daemon \cup {Nobody}]
      /\ just_acked' \in [Daemon -> Daemon \cup {Nobody}]
  BY <1>1
<1>3. \A v \in Daemon : /\ prev_success'[v] \in Friends(v) \cup {Nobody}
                        /\ just_sent'[v] \in Friends(v) \cup {Nobody}
                        /\ just_acked'[v] \in Friends(v) \cup {Nobody}
  BY <1>1
<1> QED BY <1>2, <1>3 DEF CachesOK

\* Steps of a thread that is not querying.
LEMMA ProcessingTypes ==
  ASSUME Types, NEW u \in Daemon, pc[u] \in {"ack", "chunk"},
         NEW p \in {"sleep", "ack", "chunk"}, NEW q \in Seq(Reply),
         pc' = [pc EXCEPT ![u] = p], todo' = todo, replies' = [replies EXCEPT ![u] = q],
         p = "sleep" => q = <<>>, p = "chunk" => q # <<>>,
         \A i \in DOMAIN q : q[i].from \in Friends(u),
         CachesOK', UNCHANGED <<answer, pir, pir_acks>>,
         requests' \in [Daemon -> [Slot -> Request \cup {NoRequest}]]
  PROVE  Types'
<1>1. /\ pc \in [Daemon -> {"sleep", "retrieve", "ack", "chunk"}]
      /\ replies \in [Daemon -> Seq(Reply)]
  BY DEF Types, ThreadTypeOK
<1>2. pc'[u] = p /\ replies'[u] = q /\ todo[u] \in Seq(Daemon) /\ todo'[u] = <<>>
  BY <1>1 DEF Types, ThreadTypeOK
<1>3. ThreadOK(u, pc'[u], todo'[u], replies'[u])
  BY <1>2 DEF ThreadOK
<1>4. ThreadTypeOK'
  <2>1. /\ pc' = [pc EXCEPT ![u] = pc'[u]] /\ replies' = [replies EXCEPT ![u] = replies'[u]]
        /\ todo' = [todo EXCEPT ![u] = todo'[u]]
    BY <1>2, UnchangedThread
  <2> QED BY <1>3, <2>1, ThreadWrites
<1>5. ServerTypeOK'
  <2>1. \A v \in Daemon : answer'[v] # NoMail => pc'[v] = "retrieve"
    BY <1>1 DEF Types, ServerTypeOK
  <2> QED BY <2>1 DEF Types, ServerTypeOK
<1> QED BY <1>4, <1>5 DEF Types

LEMMA ProcessAckTypes ==
  ASSUME Types, NEW u \in Daemon, ProcessAck(u)
  PROVE  Types'
<1>1. /\ pc[u] = "ack" /\ replies[u] # <<>> /\ Head(replies[u]).from \in Friends(u)
      /\ replies[u] \in Seq(Reply)
      /\ \A i \in DOMAIN replies[u] : replies[u][i].from \in Friends(u)
      /\ replies' = [replies EXCEPT ![u] = replies[u]]
  BY FirstReply, UnchangedThread DEF ProcessAck, ThreadOK
<1>2. CachesOK'
  BY <1>1, CacheWrites DEF ProcessAck
<1>3. /\ pc' = [pc EXCEPT ![u] = "chunk"] /\ todo' = todo
      /\ UNCHANGED <<answer, pir, pir_acks>>
      /\ requests' \in [Daemon -> [Slot -> Request \cup {NoRequest}]]
  BY DEF ProcessAck, servervars, Types, ServerTypeOK
<1> QED BY <1>1, <1>2, <1>3, ProcessingTypes

LEMMA ProcessChunkTypes ==
  ASSUME Types, NEW u \in Daemon, ProcessChunk(u) \/ InvitationFails(u)
  PROVE  Types'
<1>1. pc[u] = "chunk" /\ replies[u] # <<>>
  BY DEF ProcessChunk, InvitationFails, Types, ThreadTypeOK
<1>2. Head(replies[u]).from \in Friends(u) /\ Tail(replies[u]) \in Seq(Reply)
  BY <1>1, FirstReply
<1>3. \A i \in DOMAIN Tail(replies[u]) : Tail(replies[u])[i].from \in Friends(u)
  BY <1>1, FirstReply DEF Types, ThreadTypeOK
<1>4. CachesOK'
  BY <1>2, CacheWrites DEF ProcessChunk, InvitationFails
<1>5. /\ pc' = [pc EXCEPT ![u] = "ack"] /\ todo' = todo
      /\ replies' = [replies EXCEPT ![u] = Tail(replies[u])]
      /\ UNCHANGED <<answer, pir, pir_acks>>
      /\ requests' \in [Daemon -> [Slot -> Request \cup {NoRequest}]]
  BY DEF ProcessChunk, InvitationFails, servervars, Types, ServerTypeOK
<1> QED BY <1>1, <1>2, <1>3, <1>4, <1>5, ProcessingTypes

LEMMA NothingInHand ==
  ASSUME NEW S
  PROVE  \E q \in Seq(S) : q = <<>> /\ DOMAIN q = {}
<1>1. <<>> \in Seq(S) /\ DOMAIN <<>> = {}
  <2>1. <<>> \in Seq(S)
    OBVIOUS
  <2>2. DOMAIN <<>> = {}
    OBVIOUS
  <2> QED BY <2>1, <2>2
<1> WITNESS <<>> \in Seq(S)
<1> QED BY <1>1

LEMMA RoundFailsTypes ==
  ASSUME Types, NEW u \in Daemon, RoundFails(u)
  PROVE  Types'
<1>1. CachesOK'
  BY UnchangedThread DEF RoundFails, CachesOK
<1>2. /\ pc' = [pc EXCEPT ![u] = "sleep"] /\ todo' = todo
      /\ replies' = [replies EXCEPT ![u] = <<>>]
      /\ pc[u] \in {"ack", "chunk"}
      /\ UNCHANGED <<answer, pir, pir_acks>>
      /\ requests' \in [Daemon -> [Slot -> Request \cup {NoRequest}]]
  BY DEF RoundFails, servervars, Types, ServerTypeOK
<1>3. PICK q \in Seq(Reply) : q = <<>> /\ DOMAIN q = {}
  BY NothingInHand
<1>4. \A i \in DOMAIN q : q[i].from \in Friends(u)
  BY <1>3
<1> QED BY <1>1, <1>2, <1>3, <1>4, ProcessingTypes

LEMMA SendRequestTypes ==
  ASSUME DbInv, Types, NEW u \in Daemon, ReadyToSend(u), NEW mail \in Mail,
         mail.to \in Friends(u) \cup {Nobody}, SendRequest(u, mail)
  PROVE  Types'
<1>1. /\ pc[u] = "ack" /\ replies[u] = <<>> /\ replies[u] \in Seq(Reply)
      /\ \A i \in DOMAIN replies[u] : replies[u][i].from \in Friends(u)
      /\ replies' = [replies EXCEPT ![u] = replies[u]]
      /\ requests \in [Daemon -> [Slot -> Request \cup {NoRequest}]]
  BY UnchangedThread DEF ReadyToSend, SendRequest, ThreadOK, Types, ServerTypeOK
<1>2. CachesOK'
  BY CacheWrites DEF SendRequest
<1>3. requests' \in [Daemon -> [Slot -> Request \cup {NoRequest}]]
  <2> DEFINE r == [mail |-> mail, acks |-> AcksToSend(u), written |-> FALSE]
  <2>1. r \in Request
    <3>1. AcksToSend(u) \in AckRow
      BY DEF DbInv, WindowInv, RetainedInv, TypeInv, DbTypeOK, AcksToSend, AckRow
    <3> QED BY <3>1 DEF Request
  <2>2. PICK s \in Slot : requests' = [requests EXCEPT ![u][s] = r]
    BY DEF SendRequest
  <2> HIDE DEF r
  <2> QED BY <1>1, <2>1, <2>2
<1>4. /\ pc' = [pc EXCEPT ![u] = "sleep"] /\ todo' = todo
      /\ UNCHANGED <<answer, pir, pir_acks>>
  BY DEF SendRequest
<1> QED BY <1>1, <1>2, <1>3, <1>4, ProcessingTypes

LEMMA SendToMail ==
  ASSUME DbInv, NEW u \in Daemon, NEW v \in Friends(u), NEW c \in outgoing_chunk[u][v]
  PROVE  /\ [to |-> v, chunk |-> c] \in Mail
         /\ [to |-> v, chunk |-> c].to = v /\ [to |-> v, chunk |-> c].chunk = c
<1>1. v \in Daemon /\ outgoing_chunk \in [Daemon -> [Daemon -> SUBSET Chunk]]
  BY DEF Friends, DbInv, WindowInv, RetainedInv, TypeInv, DbTypeOK
<1>2. c \in Chunk
  BY <1>1
<1> QED BY <1>1, <1>2 DEF Mail

LEMMA DummyMail == Dummy \in Mail /\ Dummy.to = Nobody
BY DEF Dummy, Mail

LEMMA SendTypes ==
  ASSUME DbInv, Types, NEW u \in Daemon,
         (\E v \in Friends(u) : SendTo(u, v)) \/ SendNothing(u) \/ SendFails(u)
  PROVE  Types'
<1>1. ASSUME NEW v \in Friends(u), SendTo(u, v)
      PROVE  Types'
  <2>1. PICK c \in outgoing_chunk[u][v] : SendRequest(u, [to |-> v, chunk |-> c])
    BY <1>1 DEF SendTo
  <2> DEFINE mail == [to |-> v, chunk |-> c]
  <2>2. mail \in Mail /\ mail.to \in Friends(u) \cup {Nobody}
    BY SendToMail
  <2>3. ReadyToSend(u) /\ SendRequest(u, mail)
    BY <1>1, <2>1 DEF SendTo
  <2> HIDE DEF mail
  <2> QED BY <2>2, <2>3, SendRequestTypes
<1>2. CASE SendNothing(u) \/ SendFails(u)
  BY <1>2, DummyMail, SendRequestTypes DEF SendNothing, SendFails
<1> QED BY <1>1, <1>2

LEMMA AcksFailTypes ==
  ASSUME Types, NEW u \in Daemon, AcksFail(u)
  PROVE  Types'
<1>1. /\ pc[u] = "ack" /\ replies[u] = <<>> /\ replies[u] \in Seq(Reply)
      /\ \A i \in DOMAIN replies[u] : replies[u][i].from \in Friends(u)
      /\ replies' = [replies EXCEPT ![u] = replies[u]]
  BY UnchangedThread DEF ReadyToSend, AcksFail, ThreadOK
<1>2. CachesOK'
  <2>1. PICK v \in Friends(u) : just_sent' = [just_sent EXCEPT ![u] = v]
    BY DEF AcksFail
  <2> QED BY <2>1, CacheWrites DEF AcksFail
<1>3. /\ pc' = [pc EXCEPT ![u] = "sleep"] /\ todo' = todo
      /\ UNCHANGED <<answer, pir, pir_acks>>
      /\ requests' \in [Daemon -> [Slot -> Request \cup {NoRequest}]]
  BY DEF AcksFail, servervars, Types, ServerTypeOK
<1> QED BY <1>1, <1>2, <1>3, ProcessingTypes

LEMMA CrashTypes ==
  ASSUME Types, NEW u \in Daemon, Crash(u)
  PROVE  Types'
<1>1. PICK q \in Seq(Reply) : q = <<>> /\ DOMAIN q = {}
  BY NothingInHand
<1>2. PICK t \in Seq(Daemon) : t = <<>> /\ DOMAIN t = {}
  BY NothingInHand
<1>3. /\ pc' = [pc EXCEPT ![u] = "sleep"] /\ todo' = [todo EXCEPT ![u] = t]
      /\ replies' = [replies EXCEPT ![u] = q]
      /\ answer' = [answer EXCEPT ![u] = NoMail]
      /\ UNCHANGED <<requests, pir, pir_acks>>
  BY <1>1, <1>2 DEF Crash
<1>4. /\ pc \in [Daemon -> {"sleep", "retrieve", "ack", "chunk"}]
      /\ todo \in [Daemon -> Seq(Daemon)]
      /\ replies \in [Daemon -> Seq(Reply)]
      /\ answer \in [Daemon -> Mail \cup {NoMail}]
      /\ \A v \in Daemon : answer[v] # NoMail => pc[v] = "retrieve"
  BY DEF Types, ThreadTypeOK, ServerTypeOK
<1>5. pc'[u] = "sleep" /\ todo'[u] = t /\ replies'[u] = q
  BY <1>3, <1>4
<1>6. CachesOK'
  BY CacheWrites DEF Crash
<1>7. ThreadTypeOK'
  <2>1. ThreadOK(u, pc'[u], todo'[u], replies'[u])
    BY <1>1, <1>2, <1>5 DEF ThreadOK
  <2> QED BY <1>3, <1>5, <1>6, <2>1, ThreadWrites
<1>8. ServerTypeOK'
  <2>1. /\ answer' \in [Daemon -> Mail \cup {NoMail}]
        /\ \A v \in Daemon : answer'[v] # NoMail => pc'[v] = "retrieve"
    BY <1>3, <1>4
  <2> QED BY <1>3, <2>1 DEF Types, ServerTypeOK
<1> QED BY <1>7, <1>8 DEF Types

\* The server's own steps.
LEMMA ServerTypes ==
  ASSUME Types,
         \/ \E u \in Daemon : \E s \in Slot :
              WritePir(u, s) \/ WritePirAcks(u, s) \/ RequestLost(u, s)
         \/ ServerRestart
  PROVE  Types'
<1>1. /\ requests \in [Daemon -> [Slot -> Request \cup {NoRequest}]]
      /\ pir \in [Daemon -> Mail] /\ pir_acks \in [Daemon -> AckRow]
  BY DEF Types, ServerTypeOK
<1>2. ThreadTypeOK'
  BY DEF WritePir, WritePirAcks, RequestLost, ServerRestart, threadvars, Types, ThreadTypeOK
<1>3. ASSUME NEW u \in Daemon, NEW s \in Slot, requests[u][s] # NoRequest
      PROVE  /\ requests[u][s] \in Request
             /\ requests[u][s].mail \in Mail /\ requests[u][s].acks \in AckRow
             /\ [requests[u][s] EXCEPT !.written = TRUE] \in Request
  <2>1. requests[u][s] \in Request
    BY <1>1, <1>3
  <2> QED BY <2>1 DEF Request
<1>4. ASSUME NEW u \in Daemon, NEW s \in Slot, WritePir(u, s)
      PROVE  ServerTypeOK'
  <2> DEFINE r == [requests[u][s] EXCEPT !.written = TRUE]
  <2>1. /\ pir' = [pir EXCEPT ![u] = requests[u][s].mail]
        /\ requests' = [requests EXCEPT ![u][s] = r]
        /\ requests[u][s].mail \in Mail /\ r \in Request
    BY <1>3, <1>4 DEF WritePir
  <2> HIDE DEF r
  <2>2. /\ requests' \in [Daemon -> [Slot -> Request \cup {NoRequest}]]
        /\ pir' \in [Daemon -> Mail]
    BY <1>1, <2>1
  <2> QED BY <1>4, <2>2 DEF WritePir, threadvars, Types, ServerTypeOK
<1>5. ASSUME NEW u \in Daemon, NEW s \in Slot, WritePirAcks(u, s)
      PROVE  ServerTypeOK'
  <2>1. /\ pir_acks' = [pir_acks EXCEPT ![u] = requests[u][s].acks]
        /\ requests' = [requests EXCEPT ![u][s] = NoRequest]
        /\ requests[u][s].acks \in AckRow
    BY <1>3, <1>5 DEF WritePirAcks
  <2>2. /\ requests' \in [Daemon -> [Slot -> Request \cup {NoRequest}]]
        /\ pir_acks' \in [Daemon -> AckRow]
    BY <1>1, <2>1
  <2> QED BY <1>5, <2>2 DEF WritePirAcks, threadvars, Types, ServerTypeOK
<1>6. ASSUME NEW u \in Daemon, NEW s \in Slot, RequestLost(u, s)
      PROVE  ServerTypeOK'
  <2>1. requests' = [requests EXCEPT ![u][s] = NoRequest]
    BY <1>6 DEF RequestLost
  <2>2. requests' \in [Daemon -> [Slot -> Request \cup {NoRequest}]]
    BY <1>1, <2>1
  <2> QED BY <1>6, <2>2 DEF RequestLost, threadvars, Types, ServerTypeOK
<1>7. ASSUME ServerRestart
      PROVE  ServerTypeOK'
  <2>1. NoAcks \in AckRow /\ Dummy \in Mail
    BY DummyMail DEF NoAcks, AckRow
  <2> QED BY <1>7, <2>1 DEF ServerRestart, ServerTypeOK
<1> QED BY <1>2, <1>4, <1>5, <1>6, <1>7 DEF Types

LEMMA EveryStepTypes ==
  ASSUME DbInv, Types, [Next]_vars
  PROVE  Types'
<1>1. ASSUME NEW m \in Message, Submit(m)
      PROVE  Types'
  BY <1>1 DEF Submit, threadvars, servervars, Types, ThreadTypeOK, ServerTypeOK
<1>2. ASSUME NEW u \in Daemon, Round(u)
      PROVE  Types'
  BY <1>2, StartRoundTypes, ReadPirTypes, ReadPirAcksTypes, ProcessAckTypes,
     ProcessChunkTypes, SendTypes
     DEF Round
<1>3. ASSUME NEW u \in Daemon, NEW s \in Slot, Serve(u, s)
      PROVE  Types'
  BY <1>3, ServerTypes DEF Serve
<1>4. CASE Fault
  <2>1. ASSUME NEW u \in Daemon, RetrieveFails(u)
        PROVE  Types'
    BY <2>1, NextQueryTypes DEF RetrieveFails
  <2> QED BY <1>4, <2>1, RoundFailsTypes, ProcessChunkTypes, SendTypes, AcksFailTypes,
             CrashTypes, ServerTypes
          DEF Fault
<1>5. CASE UNCHANGED vars
  BY <1>5 DEF vars, threadvars, servervars, Types, ThreadTypeOK, ServerTypeOK
<1> QED BY <1>1, <1>2, <1>3, <1>4, <1>5 DEF Next

-----------------------------------------------------------------------------
(* Traffic.                                                                *)

\* OnlyGenuineTraffic in terms of one table of what has been sent.
SentTable == [u \in Daemon |-> [v \in Daemon |-> SentChunks(u, v)]]

Covered(u, mail) ==
  mail.to # Nobody => mail.to \in Friends(u) /\ mail.chunk \in SentTable[u][mail.to]

CoveredAcks(u, acks) == \A v \in Daemon : acks[v] <= received_seqnum[u][v]

CoveredReply(u, r) ==
  Covered(r.from, r.mail) /\ r.ack <= received_seqnum[r.from][u]

MailboxOK(u) == Covered(u, pir[u]) /\ CoveredAcks(u, pir_acks[u])

RequestsOK(u) ==
  \A s \in Slot : requests[u][s] # NoRequest =>
    Covered(u, requests[u][s].mail) /\ CoveredAcks(u, requests[u][s].acks)

AnswerOK(u) == answer[u] # NoMail => Covered(Head(todo[u]), answer[u])

RepliesOK(u) == \A i \in DOMAIN replies[u] : CoveredReply(u, replies[u][i])

CoveredTraffic ==
  \A u \in Daemon : MailboxOK(u) /\ RequestsOK(u) /\ AnswerOK(u) /\ RepliesOK(u)

LEMMA TrafficIsCovered ==
  Types => (OnlyGenuineTraffic <=> CoveredTraffic)
<1> SUFFICES ASSUME Types
             PROVE  OnlyGenuineTraffic <=> CoveredTraffic
  OBVIOUS
<1>1. \A u \in Daemon : \A mail : GenuineMail(u, mail) <=> Covered(u, mail)
  BY DEF GenuineMail, Covered, SentTable, Friends
<1>2. \A u \in Daemon : \A acks : GenuineAcks(u, acks) <=> CoveredAcks(u, acks)
  BY DEF GenuineAcks, CoveredAcks
<1>3. \A u \in Daemon : answer[u] # NoMail => Head(todo[u]) \in Daemon
  BY FirstQuery DEF Types, ServerTypeOK
<1>4. \A u \in Daemon : \A i \in DOMAIN replies[u] : replies[u][i].from \in Daemon
  BY DEF Types, ThreadTypeOK, Friends
<1> QED BY <1>1, <1>2, <1>3, <1>4
       DEF OnlyGenuineTraffic, CoveredTraffic, MailboxOK, RequestsOK, AnswerOK, RepliesOK,
           CoveredReply

LEMMA TrafficIsCoveredNext ==
  Types' => (OnlyGenuineTraffic' <=> CoveredTraffic')
BY TrafficIsCovered, PTL

\* The table only grows, and so do the received numbers.
TablesGrow ==
  \A u, v \in Daemon :
    /\ SentTable[u][v] \subseteq SentTable'[u][v]
    /\ received_seqnum[u][v] \in Nat /\ received_seqnum'[u][v] \in Nat
    /\ received_seqnum[u][v] <= received_seqnum'[u][v]

LEMMA TablesGrowing ==
  ASSUME DbInv, [DbNext]_dbvars
  PROVE  TablesGrow
<1> SUFFICES ASSUME NEW u \in Daemon, NEW v \in Daemon
             PROVE  /\ SentTable[u][v] \subseteq SentTable'[u][v]
                    /\ received_seqnum[u][v] \in Nat /\ received_seqnum'[u][v] \in Nat
                    /\ received_seqnum[u][v] <= received_seqnum'[u][v]
  BY DEF TablesGrow
<1>1. SentTable[u][v] = SentChunks(u, v) /\ SentTable'[u][v] = SentChunks(u, v)'
  BY DEF SentTable
<1> QED BY <1>1, SentStays


\* Traffic that is covered after the step.
NextCovered(u, mail) ==
  mail.to # Nobody => mail.to \in Friends(u) /\ mail.chunk \in SentTable'[u][mail.to]

NextCoveredAcks(u, acks) == \A v \in Daemon : acks[v] <= received_seqnum'[u][v]

NextCoveredReply(u, r) ==
  NextCovered(r.from, r.mail) /\ r.ack <= received_seqnum'[r.from][u]

LEMMA StillCovered ==
  ASSUME TablesGrow, NEW u \in Daemon
  PROVE  /\ \A mail \in Mail : Covered(u, mail) => NextCovered(u, mail)
         /\ \A acks \in AckRow : CoveredAcks(u, acks) => NextCoveredAcks(u, acks)
<1>1. \A v \in Friends(u) : v \in Daemon
  BY DEF Friends
<1>2. \A acks \in AckRow : \A v \in Daemon : acks[v] \in Nat
  BY DEF AckRow
<1> QED BY <1>1, <1>2 DEF TablesGrow, Covered, CoveredAcks, NextCovered, NextCoveredAcks

LEMMA CoveredNext ==
  ASSUME NEW u \in Daemon
  PROVE  /\ NextCovered(u, pir'[u]) /\ NextCoveredAcks(u, pir_acks'[u]) => MailboxOK(u)'
         /\ (\A s \in Slot : requests'[u][s] # NoRequest =>
               /\ NextCovered(u, requests'[u][s].mail)
               /\ NextCoveredAcks(u, requests'[u][s].acks)) => RequestsOK(u)'
         /\ (answer'[u] # NoMail => NextCovered(Head(todo'[u]), answer'[u])) => AnswerOK(u)'
         /\ (\A i \in DOMAIN replies'[u] : NextCoveredReply(u, replies'[u][i])) => RepliesOK(u)'
BY DEF MailboxOK, RequestsOK, AnswerOK, RepliesOK, CoveredReply, Covered, CoveredAcks,
       NextCovered, NextCoveredAcks, NextCoveredReply

\* Traffic that stays where it is.
LEMMA MailboxStays ==
  ASSUME Types, TablesGrow, NEW u \in Daemon, MailboxOK(u),
         pir'[u] = pir[u], pir_acks'[u] = pir_acks[u]
  PROVE  MailboxOK(u)'
<1>1. pir[u] \in Mail /\ pir_acks[u] \in AckRow
  BY DEF Types, ServerTypeOK
<1> QED BY <1>1, StillCovered, CoveredNext DEF MailboxOK

LEMMA RequestsStay ==
  ASSUME Types, TablesGrow, NEW u \in Daemon, RequestsOK(u),
         \A s \in Slot : requests'[u][s] # NoRequest =>
           /\ requests[u][s] # NoRequest
           /\ requests'[u][s].mail = requests[u][s].mail
           /\ requests'[u][s].acks = requests[u][s].acks
  PROVE  RequestsOK(u)'
<1>1. \A s \in Slot : requests[u][s] # NoRequest =>
        requests[u][s].mail \in Mail /\ requests[u][s].acks \in AckRow
  <2>1. \A s \in Slot : requests[u][s] # NoRequest => requests[u][s] \in Request
    BY DEF Types, ServerTypeOK
  <2> QED BY <2>1 DEF Request
<1> QED BY <1>1, StillCovered, CoveredNext DEF RequestsOK

LEMMA AnswerStays ==
  ASSUME Types, TablesGrow, NEW u \in Daemon, AnswerOK(u),
         answer'[u] # NoMail => answer'[u] = answer[u] /\ todo'[u] = todo[u]
  PROVE  AnswerOK(u)'
<1>1. answer[u] # NoMail => answer[u] \in Mail /\ Head(todo[u]) \in Daemon
  BY FirstQuery DEF Types, ServerTypeOK
<1> QED BY <1>1, StillCovered, CoveredNext DEF AnswerOK

LEMMA ReplyStays ==
  ASSUME TablesGrow, NEW u \in Daemon, NEW r \in Reply, CoveredReply(u, r)
  PROVE  NextCoveredReply(u, r)
<1>1. r.from \in Daemon /\ r.mail \in Mail /\ r.ack \in Nat
  BY DEF Reply
<1>2. r.ack <= received_seqnum'[r.from][u]
  BY <1>1 DEF CoveredReply, TablesGrow
<1> QED BY <1>1, <1>2, StillCovered DEF CoveredReply, NextCoveredReply

LEMMA RepliesStay ==
  ASSUME Types, TablesGrow, NEW u \in Daemon, RepliesOK(u),
         \A i \in DOMAIN replies'[u] : \E j \in DOMAIN replies[u] :
           replies'[u][i] = replies[u][j]
  PROVE  RepliesOK(u)'
<1>1. \A j \in DOMAIN replies[u] : replies[u][j] \in Reply /\ CoveredReply(u, replies[u][j])
  BY DEF Types, ThreadTypeOK, RepliesOK
<1>2. \A j \in DOMAIN replies[u] : NextCoveredReply(u, replies[u][j])
  BY <1>1, ReplyStays
<1> QED BY <1>2, CoveredNext

\* Steps that send nothing, read no mailbox and write none.
LEMMA QuietTraffic ==
  ASSUME Types, TablesGrow, CoveredTraffic,
         UNCHANGED <<pir, pir_acks, requests>>,
         \A v \in Daemon : answer'[v] # NoMail => answer'[v] = answer[v] /\ todo'[v] = todo[v],
         \A v \in Daemon : \A i \in DOMAIN replies'[v] : \E j \in DOMAIN replies[v] :
           replies'[v][i] = replies[v][j]
  PROVE  CoveredTraffic'
<1> SUFFICES ASSUME NEW v \in Daemon
             PROVE  (MailboxOK(v) /\ RequestsOK(v) /\ AnswerOK(v) /\ RepliesOK(v))'
  BY DEF CoveredTraffic
<1>1. MailboxOK(v) /\ RequestsOK(v) /\ AnswerOK(v) /\ RepliesOK(v)
  BY DEF CoveredTraffic
<1> QED BY <1>1, MailboxStays, RequestsStay, AnswerStays, RepliesStay

\* A daemon takes what its mailbox of a friend holds.
LEMMA ReadPirTraffic ==
  ASSUME Types, TablesGrow, CoveredTraffic, NEW u \in Daemon, ReadPir(u)
  PROVE  CoveredTraffic'
<1>1. /\ Head(todo[u]) \in Daemon
      /\ answer' = [answer EXCEPT ![u] = pir[Head(todo[u])]]
      /\ UNCHANGED <<pir, pir_acks, requests, todo, replies>>
      /\ answer \in [Daemon -> Mail \cup {NoMail}]
      /\ pir \in [Daemon -> Mail]
  BY FirstQuery DEF ReadPir, threadvars, Types, ServerTypeOK
<1>2. NextCovered(Head(todo[u]), pir[Head(todo[u])])
  BY <1>1, StillCovered DEF CoveredTraffic, MailboxOK
<1> SUFFICES ASSUME NEW v \in Daemon
             PROVE  (MailboxOK(v) /\ RequestsOK(v) /\ AnswerOK(v) /\ RepliesOK(v))'
  BY DEF CoveredTraffic
<1>3. MailboxOK(v) /\ RequestsOK(v) /\ AnswerOK(v) /\ RepliesOK(v)
  BY DEF CoveredTraffic
<1>4. AnswerOK(v)'
  <2>1. CASE v = u
    BY <1>1, <1>2, <2>1, CoveredNext
  <2>2. CASE v # u
    BY <1>1, <1>3, <2>2, AnswerStays
  <2> QED BY <2>1, <2>2
<1> QED BY <1>1, <1>3, <1>4, MailboxStays, RequestsStay, RepliesStay

LEMMA ReadPirAcksTraffic ==
  ASSUME Types, TablesGrow, CoveredTraffic, NEW u \in Daemon, ReadPirAcks(u)
  PROVE  CoveredTraffic'
<1> DEFINE v == Head(todo[u])
           r == [from |-> v, mail |-> answer[u], ack |-> pir_acks[v][u]]
<1>1. /\ v \in Daemon /\ answer[u] # NoMail
      /\ replies' = [replies EXCEPT ![u] = Append(replies[u], r)]
      /\ todo' = [todo EXCEPT ![u] = Tail(todo[u])]
      /\ answer' = [answer EXCEPT ![u] = NoMail]
      /\ UNCHANGED <<pir, pir_acks, requests>>
  BY FirstQuery DEF ReadPirAcks, NextQuery
<1>2. /\ answer[u] \in Mail /\ pir_acks[v][u] \in Nat
      /\ answer \in [Daemon -> Mail \cup {NoMail}]
      /\ todo \in [Daemon -> Seq(Daemon)] /\ replies \in [Daemon -> Seq(Reply)]
  BY <1>1 DEF Types, ThreadTypeOK, ServerTypeOK, AckRow
<1>3. Covered(v, answer[u]) /\ pir_acks[v][u] <= received_seqnum[v][u]
  BY <1>1 DEF CoveredTraffic, AnswerOK, MailboxOK, CoveredAcks
<1>4. r \in Reply /\ CoveredReply(u, r)
  <2> HIDE DEF v
  <2> QED BY <1>1, <1>2, <1>3 DEF Reply, CoveredReply
<1> HIDE DEF v, r
<1>5. NextCoveredReply(u, r)
  BY <1>4, ReplyStays
<1>6. RepliesOK(u)'
  <2>1. replies[u] \in Seq(Reply) /\ replies'[u] = Append(replies[u], r)
    BY <1>1, <1>2
  <2>2. \A i \in DOMAIN replies'[u] : \/ i \in DOMAIN replies[u] /\ replies'[u][i] = replies[u][i]
                                      \/ replies'[u][i] = r
    BY <1>4, <2>1
  <2>3. \A i \in DOMAIN replies[u] : NextCoveredReply(u, replies[u][i])
    <3>1. \A i \in DOMAIN replies[u] : replies[u][i] \in Reply /\ CoveredReply(u, replies[u][i])
      BY <2>1 DEF CoveredTraffic, RepliesOK
    <3> QED BY <3>1, ReplyStays
  <2> QED BY <1>5, <2>2, <2>3, CoveredNext
<1> SUFFICES ASSUME NEW w \in Daemon
             PROVE  (MailboxOK(w) /\ RequestsOK(w) /\ AnswerOK(w) /\ RepliesOK(w))'
  BY DEF CoveredTraffic
<1>7. MailboxOK(w) /\ RequestsOK(w) /\ AnswerOK(w) /\ RepliesOK(w)
  BY DEF CoveredTraffic
<1>8. RepliesOK(w)'
  <2>1. CASE w = u
    BY <1>6, <2>1
  <2>2. CASE w # u
    BY <1>1, <1>2, <1>7, <2>2, RepliesStay
  <2> QED BY <2>1, <2>2
<1>9. AnswerOK(w)'
  <2>1. answer'[w] # NoMail => answer'[w] = answer[w] /\ todo'[w] = todo[w]
    BY <1>1, <1>2
  <2> QED BY <1>7, <2>1, AnswerStays
<1> QED BY <1>1, <1>7, <1>8, <1>9, MailboxStays, RequestsStay

\* One request of u is new or gone, or u's mailbox is written from it.
LEMMA ServerTraffic ==
  ASSUME Types, TablesGrow, CoveredTraffic, NEW u \in Daemon,
         UNCHANGED <<answer, todo, replies>>,
         \A v \in Daemon \ {u} :
           pir'[v] = pir[v] /\ pir_acks'[v] = pir_acks[v] /\ requests'[v] = requests[v],
         MailboxOK(u)', RequestsOK(u)'
  PROVE  CoveredTraffic'
<1> SUFFICES ASSUME NEW v \in Daemon
             PROVE  (MailboxOK(v) /\ RequestsOK(v) /\ AnswerOK(v) /\ RepliesOK(v))'
  BY DEF CoveredTraffic
<1>1. MailboxOK(v) /\ RequestsOK(v) /\ AnswerOK(v) /\ RepliesOK(v)
  BY DEF CoveredTraffic
<1>2. AnswerOK(v)' /\ RepliesOK(v)'
  BY <1>1, AnswerStays, RepliesStay
<1>3. CASE v = u
  BY <1>2, <1>3
<1>4. CASE v # u
  BY <1>1, <1>2, <1>4, MailboxStays, RequestsStay
<1> QED BY <1>3, <1>4

LEMMA SendRequestTraffic ==
  ASSUME DbInv, Types, TablesGrow, CoveredTraffic, NEW u \in Daemon, NEW mail \in Mail,
         Covered(u, mail), SendRequest(u, mail)
  PROVE  CoveredTraffic'
<1> DEFINE r == [mail |-> mail, acks |-> AcksToSend(u), written |-> FALSE]
<1>1. PICK s \in Slot : requests' = [requests EXCEPT ![u][s] = r]
  BY DEF SendRequest
<1>2. r.mail = mail /\ r.acks = received_seqnum[u]
  BY DEF AcksToSend
<1> HIDE DEF r
<1>3. NextCovered(u, mail) /\ NextCoveredAcks(u, received_seqnum[u])
  BY StillCovered DEF TablesGrow, NextCoveredAcks
<1>4. requests \in [Daemon -> [Slot -> Request \cup {NoRequest}]]
  BY DEF Types, ServerTypeOK
<1>5. RequestsOK(u)'
  <2>1. ASSUME NEW x \in Slot, requests'[u][x] # NoRequest
        PROVE  /\ NextCovered(u, requests'[u][x].mail)
               /\ NextCoveredAcks(u, requests'[u][x].acks)
    <3>1. CASE x = s
      <4>1. requests'[u][x] = r
        BY <1>1, <1>4, <3>1
      <4> QED BY <1>2, <1>3, <4>1
    <3>2. CASE x # s
      <4>1. requests'[u][x] = requests[u][x] /\ requests[u][x] \in Request
        BY <1>1, <1>4, <2>1, <3>2
      <4>2. requests[u][x].mail \in Mail /\ requests[u][x].acks \in AckRow
        BY <4>1 DEF Request
      <4>3. Covered(u, requests[u][x].mail) /\ CoveredAcks(u, requests[u][x].acks)
        BY <2>1, <4>1 DEF CoveredTraffic, RequestsOK
      <4> QED BY <4>1, <4>2, <4>3, StillCovered
    <3> QED BY <3>1, <3>2
  <2> QED BY <2>1, CoveredNext
<1>6. MailboxOK(u)'
  BY MailboxStays DEF CoveredTraffic, SendRequest
<1>7. \A v \in Daemon \ {u} : requests'[v] = requests[v]
  BY <1>1, <1>4
<1> QED BY <1>5, <1>6, <1>7, ServerTraffic DEF SendRequest

LEMMA SendTraffic ==
  ASSUME DbInv, Types, TablesGrow, CoveredTraffic, NEW u \in Daemon,
         (\E v \in Friends(u) : SendTo(u, v)) \/ SendNothing(u) \/ SendFails(u)
  PROVE  CoveredTraffic'
<1>1. ASSUME NEW v \in Friends(u), SendTo(u, v)
      PROVE  CoveredTraffic'
  <2>1. PICK c \in outgoing_chunk[u][v] : MayBeSent(u, v, c) /\ SendRequest(u, [to |-> v, chunk |-> c])
    BY <1>1 DEF SendTo
  <2> DEFINE mail == [to |-> v, chunk |-> c]
  <2>2. v \in Daemon
    BY DEF Friends
  <2>3. c \in SentTable[u][v]
    BY <2>1, <2>2, FirstIsSent DEF MayBeSent, SentTable
  <2>4. mail \in Mail /\ Covered(u, mail)
    BY <2>3, SendToMail DEF Covered
  <2>5. SendRequest(u, mail)
    BY <2>1
  <2> HIDE DEF mail
  <2> QED BY <2>4, <2>5, SendRequestTraffic
<1>2. CASE SendNothing(u) \/ SendFails(u)
  <2>1. Dummy \in Mail /\ Covered(u, Dummy) /\ SendRequest(u, Dummy)
    BY <1>2, DummyMail DEF Covered, SendNothing, SendFails
  <2> QED BY <2>1, SendRequestTraffic
<1> QED BY <1>1, <1>2

LEMMA WriteTraffic ==
  ASSUME Types, TablesGrow, CoveredTraffic, NEW u \in Daemon, NEW s \in Slot,
         WritePir(u, s) \/ WritePirAcks(u, s) \/ RequestLost(u, s)
  PROVE  CoveredTraffic'
<1> DEFINE r == requests[u][s]
<1>1. /\ r \in Request /\ r.mail \in Mail /\ r.acks \in AckRow
      /\ Covered(u, r.mail) /\ CoveredAcks(u, r.acks)
      /\ NextCovered(u, r.mail) /\ NextCoveredAcks(u, r.acks)
  <2>1. r \in Request /\ Covered(u, r.mail) /\ CoveredAcks(u, r.acks)
    BY DEF WritePir, WritePirAcks, RequestLost, Types, ServerTypeOK, CoveredTraffic, RequestsOK
  <2>2. r.mail \in Mail /\ r.acks \in AckRow
    BY <2>1 DEF Request
  <2> QED BY <2>1, <2>2, StillCovered
<1>2. /\ requests \in [Daemon -> [Slot -> Request \cup {NoRequest}]]
      /\ pir \in [Daemon -> Mail] /\ pir_acks \in [Daemon -> AckRow]
      /\ UNCHANGED <<answer, todo, replies>>
  BY DEF Types, ServerTypeOK, WritePir, WritePirAcks, RequestLost, threadvars
<1>3. /\ \A v \in Daemon \ {u} : requests'[v] = requests[v]
      /\ \A x \in Slot : requests'[u][x] # NoRequest =>
           /\ requests[u][x] # NoRequest
           /\ requests'[u][x].mail = requests[u][x].mail
           /\ requests'[u][x].acks = requests[u][x].acks
  <2>1. PICK new : /\ requests' = [requests EXCEPT ![u][s] = new]
                   /\ new # NoRequest => r # NoRequest /\ new.mail = r.mail /\ new.acks = r.acks
    <3> DEFINE w == [r EXCEPT !.written = TRUE]
    <3>1. w.mail = r.mail /\ w.acks = r.acks
      <4> HIDE DEF r
      <4> QED BY <1>1 DEF Request
    <3>2. \/ requests' = [requests EXCEPT ![u][s] = w] /\ r # NoRequest
          \/ requests' = [requests EXCEPT ![u][s] = NoRequest]
      BY DEF WritePir, WritePirAcks, RequestLost
    <3> HIDE DEF w, r
    <3> QED BY <3>1, <3>2
  <2> QED BY <1>2, <2>1
<1>4. RequestsOK(u)'
  BY <1>3, RequestsStay DEF CoveredTraffic
<1>5. MailboxOK(u) /\ pir[u] \in Mail /\ pir_acks[u] \in AckRow
  BY <1>2 DEF CoveredTraffic
<1>6. NextCovered(u, pir[u]) /\ NextCoveredAcks(u, pir_acks[u])
  BY <1>5, StillCovered DEF MailboxOK
<1>7. /\ pir'[u] \in {pir[u], r.mail} /\ pir_acks'[u] \in {pir_acks[u], r.acks}
      /\ \A v \in Daemon \ {u} : pir'[v] = pir[v] /\ pir_acks'[v] = pir_acks[v]
  BY <1>2 DEF WritePir, WritePirAcks, RequestLost
<1>8. MailboxOK(u)'
  BY <1>1, <1>6, <1>7, CoveredNext
<1> QED BY <1>2, <1>3, <1>4, <1>7, <1>8, ServerTraffic

LEMMA RestartTraffic ==
  ASSUME DbInv, Types, TablesGrow, CoveredTraffic, ServerRestart
  PROVE  CoveredTraffic'
<1> SUFFICES ASSUME NEW v \in Daemon
             PROVE  (MailboxOK(v) /\ RequestsOK(v) /\ AnswerOK(v) /\ RepliesOK(v))'
  BY DEF CoveredTraffic
<1>1. /\ pir'[v] = Dummy /\ pir_acks'[v] = NoAcks
      /\ \A s \in Slot : requests'[v][s] = NoRequest
      /\ answer'[v] = NoMail /\ replies' = replies
  BY DEF ServerRestart, threadvars
<1>2. NextCovered(v, Dummy) /\ NextCoveredAcks(v, NoAcks)
  BY DummyMail DEF NextCovered, NextCoveredAcks, NoAcks, TablesGrow
<1>3. RepliesOK(v)'
  BY <1>1, RepliesStay DEF CoveredTraffic
<1> QED BY <1>1, <1>2, <1>3, CoveredNext

LEMMA RoundTraffic ==
  ASSUME DbInv, Types, TablesGrow, CoveredTraffic, NEW u \in Daemon,
         \/ StartRound(u) \/ RetrieveFails(u) \/ ProcessAck(u) \/ ProcessChunk(u)
         \/ InvitationFails(u) \/ RoundFails(u) \/ AcksFail(u) \/ Crash(u)
  PROVE  CoveredTraffic'
<1>1. UNCHANGED <<pir, pir_acks, requests>>
  BY DEF StartRound, RetrieveFails, NextQuery, ProcessAck, ProcessChunk, InvitationFails,
         RoundFails, AcksFail, Crash, servervars
<1>2. /\ answer \in [Daemon -> Mail \cup {NoMail}]
      /\ todo \in [Daemon -> Seq(Daemon)] /\ replies \in [Daemon -> Seq(Reply)]
      /\ \A v \in Daemon : answer[v] # NoMail => pc[v] = "retrieve"
      /\ pc[u] = "chunk" => replies[u] # <<>>
  BY DEF Types, ThreadTypeOK, ServerTypeOK
<1>3. \A v \in Daemon : answer'[v] # NoMail => answer'[v] = answer[v] /\ todo'[v] = todo[v]
  <2>1. CASE StartRound(u)
    BY <1>2, <2>1 DEF StartRound, servervars
  <2>2. CASE RetrieveFails(u)
    BY <1>2, <2>2 DEF RetrieveFails, NextQuery
  <2>3. CASE Crash(u)
    BY <1>2, <2>3 DEF Crash
  <2>4. CASE ProcessAck(u) \/ ProcessChunk(u) \/ InvitationFails(u) \/ RoundFails(u) \/ AcksFail(u)
    BY <2>4 DEF ProcessAck, ProcessChunk, InvitationFails, RoundFails, AcksFail, servervars
  <2> QED BY <2>1, <2>2, <2>3, <2>4
<1>4. \/ replies' = replies
      \/ replies' = [replies EXCEPT ![u] = <<>>]
      \/ replies[u] # <<>> /\ replies' = [replies EXCEPT ![u] = Tail(replies[u])]
  BY <1>2 DEF StartRound, RetrieveFails, NextQuery, ProcessAck, ProcessChunk, InvitationFails,
         RoundFails, AcksFail, Crash
<1>5. ASSUME NEW v \in Daemon, NEW i \in DOMAIN replies'[v]
      PROVE  \E j \in DOMAIN replies[v] : replies'[v][i] = replies[v][j]
  <2>1. CASE replies'[v] = replies[v]
    BY <1>5, <2>1
  <2>2. CASE v = u /\ replies'[v] = <<>>
    <3>1. DOMAIN replies'[v] = {}
      BY <2>2, NothingInHand
    <3> QED BY <1>5, <3>1
  <2>3. CASE v = u /\ replies[u] # <<>> /\ replies'[v] = Tail(replies[u])
    BY <1>5, <2>3, FirstReply
  <2> QED BY <1>2, <1>4, <2>1, <2>2, <2>3
<1> QED BY <1>1, <1>3, <1>5, QuietTraffic

LEMMA EveryStepTraffic ==
  ASSUME DbInv, Types, TablesGrow, CoveredTraffic, [Next]_vars
  PROVE  CoveredTraffic'
<1>1. ASSUME NEW m \in Message, Submit(m)
      PROVE  CoveredTraffic'
  BY <1>1, QuietTraffic DEF Submit, threadvars, servervars
<1>2. ASSUME NEW u \in Daemon, Round(u)
      PROVE  CoveredTraffic'
  BY <1>2, RoundTraffic, ReadPirTraffic, ReadPirAcksTraffic, SendTraffic DEF Round
<1>3. ASSUME NEW u \in Daemon, NEW s \in Slot, Serve(u, s)
      PROVE  CoveredTraffic'
  BY <1>3, WriteTraffic DEF Serve
<1>4. CASE Fault
  BY <1>4, RoundTraffic, SendTraffic, WriteTraffic, RestartTraffic DEF Fault
<1>5. CASE UNCHANGED vars
  BY <1>5, QuietTraffic DEF vars, threadvars, servervars
<1> QED BY <1>1, <1>2, <1>3, <1>4, <1>5 DEF Next

-----------------------------------------------------------------------------
(* The theorems.                                                           *)

LEMMA TrafficInvInit == Init => TrafficInv
<1> SUFFICES ASSUME Init
             PROVE  TrafficInv
  OBVIOUS
<1>1. DbInv /\ \A u, v \in Daemon : received_seqnum[u][v] = 0
  BY DbInvInit DEF Init, DbInit
<1>2. PICK q \in Seq(Reply) : q = <<>> /\ DOMAIN q = {}
  BY NothingInHand
<1>3. PICK t \in Seq(Daemon) : t = <<>> /\ DOMAIN t = {}
  BY NothingInHand
<1>4. /\ pc = [u \in Daemon |-> "sleep"] /\ todo = [u \in Daemon |-> t]
      /\ replies = [u \in Daemon |-> q]
  BY <1>2, <1>3 DEF Init
<1>5. ThreadTypeOK
  BY <1>2, <1>3, <1>4 DEF Init, ThreadTypeOK
<1>6. ServerTypeOK
  <2>1. NoAcks \in AckRow
    BY DEF NoAcks, AckRow
  <2> QED BY <2>1, DummyMail DEF Init, ServerTypeOK
<1>7. CoveredTraffic
  <2> SUFFICES ASSUME NEW u \in Daemon
               PROVE  MailboxOK(u) /\ RequestsOK(u) /\ AnswerOK(u) /\ RepliesOK(u)
    BY DEF CoveredTraffic
  <2>1. MailboxOK(u)
    BY <1>1, DummyMail DEF Init, MailboxOK, Covered, CoveredAcks, NoAcks
  <2>2. RequestsOK(u) /\ AnswerOK(u)
    BY DEF Init, RequestsOK, AnswerOK
  <2>3. RepliesOK(u)
    BY <1>2, <1>4 DEF RepliesOK
  <2> QED BY <2>1, <2>2, <2>3
<1> QED BY <1>1, <1>5, <1>6, <1>7, TrafficIsCovered DEF TrafficInv, Types

LEMMA TrafficInvNext == TrafficInv /\ [Next]_vars => TrafficInv'
<1> SUFFICES ASSUME TrafficInv, [Next]_vars
             PROVE  TrafficInv'
  OBVIOUS
<1>1. DbInv /\ Types /\ CoveredTraffic /\ [DbNext]_dbvars
  BY TrafficIsCovered, EveryStepOfDb DEF TrafficInv
<1>2. TablesGrow /\ DbInv' /\ Types'
  BY <1>1, TablesGrowing, DbInvNext, EveryStepTypes
<1>3. CoveredTraffic'
  BY <1>1, <1>2, EveryStepTraffic
<1> QED BY <1>2, <1>3, TrafficIsCoveredNext DEF TrafficInv

\* Threads, mailboxes, requests and databases hold what they are meant to.
THEOREM TypeCorrect == Spec => []TypeOK
<1>1. TrafficInv => TypeOK
  BY DEF TrafficInv, DbInv, WindowInv, RetainedInv, TypeInv, Types, TypeOK
<1> QED BY <1>1, TrafficInvInit, TrafficInvNext, PTL DEF Spec

\* Whatever is in a mailbox, a late request, an answer or a reply was sent by
\* its sender and is still covered by the sender's database, whatever crashes,
\* fails or is lost.
THEOREM GenuineTraffic == Spec => []OnlyGenuineTraffic
<1>1. TrafficInv => OnlyGenuineTraffic
  BY DEF TrafficInv
<1> QED BY <1>1, TrafficInvInit, TrafficInvNext, PTL DEF Spec

\* The threads, the server and all faults are a network as ClientDb assumes it.
THEOREM TransmitterImplementsDb == Spec => ImplementsDb
<1>1. Init => DbInit
  BY DEF Init
<1>2. TrafficInv /\ [Next]_vars => [DbNext]_dbvars
  BY EveryStepOfDb
<1> QED BY <1>1, <1>2, TrafficInvInit, TrafficInvNext, PTL DEF Spec, ImplementsDb, DbSpec

\* End to end: the whole system, with any number of daemons, late requests and
\* faults, keeps the promise of MessageChannel when no message is empty.
THEOREM EndToEnd ==
  ASSUME NoEmptyMessage
  PROVE  Spec => ImplementsChannel
<1>1. Spec => DbSpec
  BY TransmitterImplementsDb DEF ImplementsDb
<1>2. DbSpec => ImplementsChannel
  BY ImplementsMessageChannel
<1> QED BY <1>1, <1>2

=============================================================================
