------------------------------ MODULE ClientDb ------------------------------
(***************************************************************************)
(* The transport tables of the client daemon's SQLite database and the     *)
(* transactions of client/daemon/db/db.rs that change them: queueing a     *)
(* message as chunks, accounting for an acknowledgement, and receiving a   *)
(* chunk or an invitation system message.  One database per daemon.        *)
(*                                                                         *)
(* Every action is one SQLite transaction of ONE daemon.  What the network *)
(* may hand to it is the guard of DbNext: any chunk the friend may have    *)
(* sent so far and any ack it may have published so far, lost, repeated,   *)
(* late and out of order at will.  Module Transmitter replaces that        *)
(* network by the transmitter threads and the server's mailboxes.          *)
(*                                                                         *)
(* Row keys: table[u][v] holds the rows of u's database about friend v.    *)
(***************************************************************************)
EXTENDS Integers, Sequences, FiniteSets

CONSTANTS
  Daemon,         \* the users' daemons
  Message,        \* message uids; each is sent at most once
  Author,         \* the daemon on which a message is queued
  NumChunks,      \* how many chunks a message serializes to
  Invitation,     \* the "message" of an OutgoingInvitation system chunk
  InitProgress    \* friend.invitation_progress when the model starts

Progress == {"None", "OutgoingSync", "OutgoingAsync", "Complete"}

\* Friendships are mutual: both sides hold a transmission row with the keys of
\* the other.  At most one side starts Complete, the one that accepted the
\* other's asynchronous invitation.
ASSUME FriendshipAssumption ==
  /\ InitProgress \in [Daemon -> [Daemon -> Progress]]
  /\ \A u, v \in Daemon :
       /\ InitProgress[u][u] = "None"
       /\ InitProgress[u][v] = "None" <=> InitProgress[v][u] = "None"
       /\ ~ (InitProgress[u][v] = "Complete" /\ InitProgress[v][u] = "Complete")

ASSUME MessageAssumption ==
  /\ Author \in [Message -> Daemon]
  /\ NumChunks \in [Message -> Nat]
  /\ Invitation \notin Message

Friends(u) == {v \in Daemon : InitProgress[u][v] # "None"}

VARIABLES
  progress,           \* friend.invitation_progress
  outgoing_chunk,     \* the rows of outgoing_chunk
  sent_acked_seqnum,  \* transmission.sent_acked_seqnum
  received_seqnum,    \* transmission.received_seqnum
  incoming_chunk,     \* the rows of incoming_chunk
  received,           \* delivered rows of received, in the order of delivered_at
  recipients,         \* the rows of sent_friend: recipients of each message
  delivered,          \* those of them whose row says delivered
  queued              \* history: what was queued on each link, and where

dbvars == <<progress, outgoing_chunk, sent_acked_seqnum, received_seqnum,
            incoming_chunk, received, recipients, delivered, queued>>

-----------------------------------------------------------------------------
(* Chunks.  The content of a chunk is piece seq - start of its message.    *)
(* Sequence number 0 marks the dummies, so real chunks start from 1.       *)

Chunk == [msg : Message \cup {Invitation}, seq : Nat \ {0}, start : Nat \ {0},
          num : Nat]

\* A stretch of sequence numbers given to one message on one link.
Span == [msg : Message, start : Nat \ {0}, num : Nat]

ChunksOf(q) ==
  {[msg |-> q.msg, seq |-> s, start |-> q.start, num |-> q.num] :
     s \in q.start .. q.start + q.num - 1}

InvitationChunk == [msg |-> Invitation, seq |-> 1, start |-> 1, num |-> 1]

\* Inviting someone, in either way, queues one system chunk as the first
\* chunk for them; accepting an invitation queues none.
InitialChunks(u, v) ==
  IF InitProgress[u][v] \in {"OutgoingSync", "OutgoingAsync"}
  THEN {InvitationChunk} ELSE {}

AllChunks(u, v) ==
  InitialChunks(u, v) \cup
  UNION {ChunksOf(queued[u][v][k]) : k \in DOMAIN queued[u][v]}

-----------------------------------------------------------------------------
DbInit ==
  /\ progress = InitProgress
  /\ outgoing_chunk = [u \in Daemon |-> [v \in Daemon |-> InitialChunks(u, v)]]
  /\ sent_acked_seqnum = [u \in Daemon |-> [v \in Daemon |-> 0]]
  /\ received_seqnum = [u \in Daemon |-> [v \in Daemon |-> 0]]
  /\ incoming_chunk = [u \in Daemon |-> [v \in Daemon |-> {}]]
  /\ received = [u \in Daemon |-> [v \in Daemon |-> <<>>]]
  /\ recipients = [m \in Message |-> {}]
  /\ delivered = [m \in Message |-> {}]
  /\ queued = [u \in Daemon |-> [v \in Daemon |-> <<>>]]

-----------------------------------------------------------------------------
(* Mutants: mistakes the definitions of the same purpose below could hold. *)
(* No specification uses them; each property is checked to notice one.     *)

\* The number of the last chunk is given to the next one.
SeqnumNotIncremented(u, v) ==
  IF outgoing_chunk[u][v] = {} THEN sent_acked_seqnum[u][v]
  ELSE (CHOOSE c \in outgoing_chunk[u][v] :
          \A d \in outgoing_chunk[u][v] : d.seq <= c.seq).seq

\* A late ack is taken for a new one.
AnyOtherAck(u, v, ack) == ack # sent_acked_seqnum[u][v]

\* The chunk that was acked stays, or the one after it goes too.
AckedChunksButLast(u, v, ack) == {c \in outgoing_chunk[u][v] : c.seq < ack}
AckedChunksAndNext(u, v, ack) == {c \in outgoing_chunk[u][v] : c.seq <= ack + 1}

\* Rows left in outgoing_chunk are not looked at.
AllUndelivered(u, v, out) ==
  {m \in Message : Author[m] = u /\ v \in recipients[m] \ delivered[m]}

\* Nothing is ever found to be delivered.
NoneDelivered(u, v, out) == {}

\* The last chunk is received again.
IsNewOrLastChunk(u, v, c) == c.seq >= received_seqnum[u][v]

\* The first chunk of a message acknowledges all of it.
UpdateToEndOfMessage(u, v, c) ==
  received_seqnum' = [received_seqnum EXCEPT ![u][v] = c.start + c.num - 1]

\* A message is assembled when all its rows but one are there.
IsAlmostComplete(u, v, c) ==
  Cardinality({d \in incoming_chunk[u][v] : d.start = c.start}) + 2 >= c.num

\* The friend's invitation is acknowledged and not acted upon.
ProgressUnchanged(u, v) == progress[u][v]

-----------------------------------------------------------------------------
(* Sending side.                                                           *)

\* The chunk with the highest sequence number, if there is one, tells the
\* next; otherwise the last acked one does.
SeqnumForNewChunk(u, v) ==
  IF outgoing_chunk[u][v] = {}
  THEN sent_acked_seqnum[u][v] + 1
  ELSE (CHOOSE c \in outgoing_chunk[u][v] :
          \A d \in outgoing_chunk[u][v] : d.seq <= c.seq).seq + 1

NewSpan(u, v, m) ==
  [msg |-> m, start |-> SeqnumForNewChunk(u, v), num |-> NumChunks[m]]

\* The RPC SendMessage.  With more than one recipient the public id of every
\* one is looked up among the complete friends, and the transaction fails when
\* one is missing; the ids become part of the message, which is then not empty.
QueueMessage(m, rs) ==
  LET u == Author[m]
  IN  /\ recipients[m] = {}
      /\ rs # {} /\ rs \subseteq Friends(u)
      /\ Cardinality(rs) > 1 => /\ \A v \in rs : progress[u][v] = "Complete"
                                /\ NumChunks[m] > 0
      /\ recipients' = [recipients EXCEPT ![m] = rs]
      /\ outgoing_chunk' = [outgoing_chunk EXCEPT ![u] =
           [v \in Daemon |-> IF v \in rs
                             THEN @[v] \cup ChunksOf(NewSpan(u, v, m))
                             ELSE @[v]]]
      /\ queued' = [queued EXCEPT ![u] =
           [v \in Daemon |-> IF v \in rs
                             THEN Append(@[v], NewSpan(u, v, m))
                             ELSE @[v]]]
      /\ UNCHANGED <<progress, sent_acked_seqnum, received_seqnum,
                     incoming_chunk, received, delivered>>

\* chunk_to_send offers the first outstanding chunk of a friend.
IsFirstChunk(u, v, c) ==
  /\ c \in outgoing_chunk[u][v]
  /\ \A d \in outgoing_chunk[u][v] : c.seq <= d.seq

IsNewAck(u, v, ack) == ack > sent_acked_seqnum[u][v]

AckedChunks(u, v, ack) == {c \in outgoing_chunk[u][v] : c.seq <= ack}

\* Every sequence number the ack newly covers must have its row.
AckCovered(u, v, ack) ==
  \A s \in sent_acked_seqnum[u][v] + 1 .. ack :
    \E c \in outgoing_chunk[u][v] : c.seq = s

\* The sent_friend rows for v that are not yet delivered and whose message
\* has no row left in outgoing_chunk, for any friend.
NewlyDelivered(u, v, out) ==
  {m \in Message : /\ Author[m] = u
                   /\ v \in recipients[m] \ delivered[m]
                   /\ \A w \in Daemon : \A c \in out[u][w] : c.msg # m}

\* An old ack changes nothing.  A new one is recorded, removes the chunks it
\* covers, and completes the friend if it covers an asynchronous invitation.
ReceiveAck(u, v, ack) ==
  LET acked == AckedChunks(u, v, ack)
      out == [outgoing_chunk EXCEPT ![u][v] = @ \ acked]
      invited == InvitationChunk \in acked /\ progress[u][v] = "OutgoingAsync"
  IN  /\ IsNewAck(u, v, ack)
      /\ AckCovered(u, v, ack)
      /\ sent_acked_seqnum' = [sent_acked_seqnum EXCEPT ![u][v] = ack]
      /\ progress' = [progress EXCEPT ![u][v] = IF invited THEN "Complete" ELSE @]
      /\ outgoing_chunk' = out
      /\ delivered' = [m \in Message |-> IF m \in NewlyDelivered(u, v, out)
                                         THEN delivered[m] \cup {v}
                                         ELSE delivered[m]]
      /\ UNCHANGED <<received_seqnum, incoming_chunk, received, recipients, queued>>

-----------------------------------------------------------------------------
(* Receiving side.                                                         *)

IsNewChunk(u, v, c) == c.seq > received_seqnum[u][v]

\* Only the next chunk in line moves received_seqnum; the caller has already
\* dealt with old ones.
UpdateSequenceNumber(u, v, c) ==
  received_seqnum' =
    [received_seqnum EXCEPT ![u][v] = IF c.seq = @ + 1 THEN c.seq ELSE @]

\* The rows collected under the same first sequence number, with c.
SameMessage(u, v, c) ==
  {d \in incoming_chunk[u][v] : d.start = c.start} \cup {c}

IsComplete(u, v, c) == Cardinality(SameMessage(u, v, c)) = c.num

\* A new chunk: stored, and the message assembled once all its rows are there.
\* A second row under one sequence number would violate the primary key.
ReceiveChunk(u, v, c) ==
  /\ c.msg # Invitation
  /\ IsNewChunk(u, v, c)
  /\ \A d \in incoming_chunk[u][v] : d.seq # c.seq
  /\ UpdateSequenceNumber(u, v, c)
  /\ IF IsComplete(u, v, c)
     THEN /\ received' = [received EXCEPT ![u][v] = Append(@, SameMessage(u, v, c))]
          /\ incoming_chunk' = [incoming_chunk EXCEPT ![u][v] =
                                  {d \in @ : d.start # c.start}]
     ELSE /\ incoming_chunk' = [incoming_chunk EXCEPT ![u][v] = @ \cup {c}]
          /\ UNCHANGED received
  /\ UNCHANGED <<progress, outgoing_chunk, sent_acked_seqnum, recipients,
                 delivered, queued>>

\* An invitation system message from someone this daemon has invited too, in
\* whichever way, makes them a complete friend; who is one already stays one.
ProgressAfterInvitation(u, v) == "Complete"

ReceiveInvitation(u, v, c) ==
  /\ c.msg = Invitation
  /\ IsNewChunk(u, v, c)
  /\ UpdateSequenceNumber(u, v, c)
  /\ progress' = [progress EXCEPT ![u][v] = ProgressAfterInvitation(u, v)]
  /\ UNCHANGED <<outgoing_chunk, sent_acked_seqnum, incoming_chunk, received,
                 recipients, delivered, queued>>

-----------------------------------------------------------------------------
(* The databases over an arbitrary network.                                *)

\* What u may have sent to v so far: only the chunk after the last acked one
\* ever leaves, so nothing further ahead can be out.
SentChunks(u, v) ==
  {c \in AllChunks(u, v) : c.seq <= sent_acked_seqnum[u][v] + 1}

DbNext ==
  \/ \E m \in Message : \E rs \in SUBSET Friends(Author[m]) : QueueMessage(m, rs)
  \/ \E u \in Daemon : \E v \in Friends(u) :
       \/ \E ack \in 0 .. received_seqnum[v][u] : ReceiveAck(u, v, ack)
       \/ \E c \in SentChunks(v, u) :
            ReceiveChunk(u, v, c) \/ ReceiveInvitation(u, v, c)

DbSpec == DbInit /\ [][DbNext]_dbvars
-----------------------------------------------------------------------------
(* Correctness.                                                            *)

\* Every table holds rows of its schema.
DbTypeOK ==
  /\ progress \in [Daemon -> [Daemon -> Progress]]
  /\ outgoing_chunk \in [Daemon -> [Daemon -> SUBSET Chunk]]
  /\ sent_acked_seqnum \in [Daemon -> [Daemon -> Nat]]
  /\ received_seqnum \in [Daemon -> [Daemon -> Nat]]
  /\ incoming_chunk \in [Daemon -> [Daemon -> SUBSET Chunk]]
  /\ received \in [Daemon -> [Daemon -> Seq(SUBSET Chunk)]]
  /\ recipients \in [Message -> SUBSET Daemon]
  /\ delivered \in [Message -> SUBSET Daemon]
  /\ queued \in [Daemon -> [Daemon -> Seq(Span)]]

\* Messages reach a friend whole, each exactly once and in the order in which
\* they were queued for that friend, whatever the network does with chunks.
InOrderExactlyOnce ==
  \A u, v \in Daemon :
    /\ Len(received[v][u]) <= Len(queued[u][v])
    /\ \A k \in DOMAIN received[v][u] : received[v][u][k] = ChunksOf(queued[u][v][k])

\* "Any message with seqnum > sent_acked_seqnum MUST be retried" (up.sql): a
\* chunk stays in outgoing_chunk until it is acked, and no longer.
UnackedIsRetained ==
  \A u, v \in Daemon :
    outgoing_chunk[u][v] = {c \in AllChunks(u, v) : c.seq > sent_acked_seqnum[u][v]}

\* "We guarantee that we have received all sequence numbers up to and including
\* this value" (up.sql): every chunk up to received_seqnum is part of a
\* delivered message or still in incoming_chunk; nothing else is.
ReceivedUpToSeqnum ==
  \A u, v \in Daemon :
    {c \in AllChunks(v, u) \ InitialChunks(v, u) : c.seq <= received_seqnum[u][v]} =
    incoming_chunk[u][v] \cup UNION {received[u][v][k] : k \in DOMAIN received[u][v]}

\* A sent message shown as delivered to a friend is complete in that friend's
\* inbox.
DeliveredWasReceived ==
  \A m \in Message : \A v \in delivered[m] :
    \E k \in DOMAIN received[v][Author[m]] : queued[Author[m]][v][k].msg = m

\* sent_friend.delivered is "true when the entire message has been delivered and
\* acked" (up.sql): once every friend it was for has acknowledged all chunks of a message,
\* it is marked as delivered to each of them.
DeliveredWhenAcked ==
  \A m \in Message :
    (\A v \in Daemon : \A c \in outgoing_chunk[Author[m]][v] : c.msg # m)
      => recipients[m] \subseteq delivered[m]

\* No ack and no chunk that can arrive makes its transaction fail: receive_ack
\* finds the row of every sequence number it covers, and receive_chunk never
\* inserts a second row under one key.
TransactionsSucceed ==
  \A u \in Daemon : \A v \in Friends(u) :
    /\ AckCovered(u, v, received_seqnum[v][u])
    /\ \A c \in SentChunks(v, u) :
         IsNewChunk(u, v, c) => \A d \in incoming_chunk[u][v] : d.seq # c.seq

\* Sequence numbers, and the messages a user has seen delivered, are never
\* taken back.
NothingIsTakenBack ==
  [][\A u, v \in Daemon :
       /\ sent_acked_seqnum'[u][v] >= sent_acked_seqnum[u][v]
       /\ received_seqnum'[u][v] >= received_seqnum[u][v]
       /\ SubSeq(received'[u][v], 1, Len(received[u][v])) = received[u][v]]_dbvars

-----------------------------------------------------------------------------
(* The promise to the users: the databases implement MessageChannel.       *)

\* The message that rows make up.  Anything but all the pieces of one message
\* shows as Invitation, which is no message.
Content(rows) ==
  LET c == CHOOSE c \in rows : TRUE
      whole == [msg |-> c.msg, start |-> c.start, num |-> NumChunks[c.msg]]
  IN  IF c.msg \in Message /\ rows = ChunksOf(whole) THEN c.msg ELSE Invitation

Handed == [u \in Daemon |-> [v \in Daemon |->
             [k \in DOMAIN queued[u][v] |-> queued[u][v][k].msg]]]

Got == [u \in Daemon |-> [v \in Daemon |->
          [k \in DOMAIN received[u][v] |-> Content(received[u][v][k])]]]

Channel == INSTANCE MessageChannel
             WITH queue <- Handed, inbox <- Got, confirmed <- delivered

\* Every transaction of the databases is a step of the channel or invisible.
ImplementsChannel == Channel!Spec

\* With a network and threads that keep going, everything arrives as well.
ImplementsFairChannel == Channel!FairSpec
=============================================================================
