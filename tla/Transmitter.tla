---------------------------- MODULE Transmitter ----------------------------
(***************************************************************************)
(* The transmitter thread of every daemon (client/daemon/transmitter), the *)
(* loop of client/daemon/main.cc that drives it, and the two mailboxes per *)
(* user that the server keeps for PIR (server/src/server_rpc.cc), running  *)
(* over the databases of module ClientDb.                                  *)
(*                                                                         *)
(* A daemon writes only its own mailbox: one encrypted chunk in pir and    *)
(* one row of acks, an entry per friend, in pir_acks.  It reads the        *)
(* mailboxes of its friends.  A round is retrieve, then send.              *)
(***************************************************************************)
EXTENDS ClientDb

CONSTANTS
  ReceiveFriendsPerRound,  \* RECEIVE_FRIENDS_PER_ROUND
  Slot,       \* SendMessage requests a daemon may have under way: bounds how
              \* many of its timed-out requests still wait at the server
  Nobody,     \* std::nullopt, and the holder of the dummy keys
  NoChunk,    \* the content of a dummy
  NoMail,     \* no answer is being prepared for this daemon
  NoRequest   \* a free slot

ASSUME RoundAssumption == ReceiveFriendsPerRound \in Nat \ {0}

\* MAX_FRIENDS; what matters is only that there are finitely many.
ASSUME FriendsAssumption == \A u \in Daemon : IsFiniteSet(Friends(u))

ASSUME NoValueAssumption == Nobody \notin Daemon /\ NoChunk \notin Chunk

VARIABLES
  pc,            \* where the transmitter thread of each daemon is: "sleep" is
                 \* also the wait for SendMessage to return
  todo,          \* receive_addresses not yet queried
  answer,        \* ReceiveMessage at the server: what it has read from pir
  replies,       \* pir_replies not yet processed
  prev_success,  \* previous_success_receive_friend
  just_sent,     \* just_sent_friend
  just_acked,    \* just_acked_friend
  requests,      \* SendMessage requests under way, by slot
  pir,           \* the server's message mailboxes
  pir_acks       \* the server's ack mailboxes

threadvars == <<pc, todo, replies, prev_success, just_sent, just_acked>>
servervars == <<answer, requests, pir, pir_acks>>
vars == <<dbvars, threadvars, servervars>>

-----------------------------------------------------------------------------
(* What travels.  Only the holder of the key can decrypt mail or find the  *)
(* ack meant for it: mail is readable by mail.to, entry v of an ack row by *)
(* v.  A zeroed mailbox, like a dummy, is readable by nobody.              *)

Mail == [to : Daemon \cup {Nobody}, chunk : Chunk \cup {NoChunk}]
Dummy == [to |-> Nobody, chunk |-> NoChunk]
AckRow == [Daemon -> Nat]
NoAcks == [v \in Daemon |-> 0]
Reply == [from : Daemon, mail : Mail, ack : Nat]
Request == [mail : Mail, acks : AckRow, written : BOOLEAN]

Init ==
  /\ DbInit
  /\ pc = [u \in Daemon |-> "sleep"]
  /\ todo = [u \in Daemon |-> <<>>]
  /\ answer = [u \in Daemon |-> NoMail]
  /\ replies = [u \in Daemon |-> <<>>]
  /\ prev_success = [u \in Daemon |-> Nobody]
  /\ just_sent = [u \in Daemon |-> Nobody]
  /\ just_acked = [u \in Daemon |-> Nobody]
  /\ requests = [u \in Daemon |-> [s \in Slot |-> NoRequest]]
  /\ pir = [u \in Daemon |-> Dummy]
  /\ pir_acks = [u \in Daemon |-> NoAcks]

-----------------------------------------------------------------------------
(* Mutants, as in ClientDb.                                                *)

\* One query too many.
IsPastLastQuery(u) == Len(todo[u]) = 0

\* Any chunk for the friend may go out, not only the first.
AnyChunk(u, v, c) == c \in outgoing_chunk[u][v]

\* The ack names the next chunk expected, not the last one received.
NextExpected(u) == [v \in Daemon |-> received_seqnum[u][v] + 1]

-----------------------------------------------------------------------------
(* retrieve(): choose friends, query the server, process the replies.      *)

\* Priority: the friend last sent to, then the one a new chunk came from.
PriorityFriends(u) ==
  IF just_sent[u] = Nobody
  THEN IF prev_success[u] = Nobody THEN <<>> ELSE <<prev_success[u]>>
  ELSE IF prev_success[u] \in {Nobody, just_sent[u]}
       THEN <<just_sent[u]>> ELSE <<just_sent[u], prev_success[u]>>

Smaller(a, b) == IF a <= b THEN a ELSE b

\* The priority friends as far as they fit, then random distinct others; the
\* places no friend is left for are filled with dummies, which are queried
\* like friends and whose replies are skipped.
ReceiveAddresses(u) ==
  LET size == Smaller(ReceiveFriendsPerRound, Cardinality(Friends(u)))
      first == SubSeq(PriorityFriends(u), 1,
                      Smaller(Len(PriorityFriends(u)), ReceiveFriendsPerRound))
  IN  {t \in [1 .. size -> Friends(u)] :
         /\ \A i, j \in 1 .. size : t[i] = t[j] => i = j
         /\ SubSeq(t, 1, Len(first)) = first}

\* The first of the thread's steps; previous_success_receive_friend has been
\* used and is only set again when replies are processed.
StartRound(u) ==
  /\ pc[u] = "sleep"
  /\ \E t \in ReceiveAddresses(u) :
       /\ todo' = [todo EXCEPT ![u] = t]
       /\ pc' = [pc EXCEPT ![u] = IF t = <<>> THEN "ack" ELSE "retrieve"]
  /\ prev_success' = [prev_success EXCEPT ![u] = Nobody]
  /\ UNCHANGED <<dbvars, replies, just_sent, just_acked, servervars>>

\* The server answers ReceiveMessage from pir first and from pir_acks later; a
\* SendMessage of the friend may come in between.
ReadPir(u) ==
  /\ pc[u] = "retrieve" /\ answer[u] = NoMail
  /\ answer' = [answer EXCEPT ![u] = pir[Head(todo[u])]]
  /\ UNCHANGED <<dbvars, threadvars, requests, pir, pir_acks>>

IsLastQuery(u) == Len(todo[u]) = 1

\* The query of the friend at hand is over, the last one ends the retrieval.
NextQuery(u) ==
  /\ todo' = [todo EXCEPT ![u] = Tail(@)]
  /\ pc' = [pc EXCEPT ![u] = IF IsLastQuery(u) THEN "ack" ELSE "retrieve"]
  /\ answer' = [answer EXCEPT ![u] = NoMail]
  /\ UNCHANGED <<dbvars, prev_success, just_sent, just_acked, requests, pir, pir_acks>>

ReadPirAcks(u) ==
  /\ pc[u] = "retrieve" /\ answer[u] # NoMail
  /\ LET v == Head(todo[u])
     IN  replies' = [replies EXCEPT ![u] =
           Append(@, [from |-> v, mail |-> answer[u], ack |-> pir_acks[v][u]])]
  /\ NextQuery(u)

\* The RPC fails or runs into its deadline; this friend is skipped.
RetrieveFails(u) ==
  /\ pc[u] = "retrieve"
  /\ NextQuery(u)
  /\ UNCHANGED replies

\* Step 3(a), one transaction: account for the ack of the first reply.
ProcessAck(u) ==
  /\ pc[u] = "ack" /\ replies[u] # <<>>
  /\ LET r == Head(replies[u])
     IN  \/ /\ ReceiveAck(u, r.from, r.ack)
            /\ just_acked' = [just_acked EXCEPT ![u] = r.from]
         \/ /\ r.ack <= sent_acked_seqnum[u][r.from]
            /\ UNCHANGED <<dbvars, just_acked>>
  /\ pc' = [pc EXCEPT ![u] = "chunk"]
  /\ UNCHANGED <<todo, replies, prev_success, just_sent, servervars>>

\* Step 3(b), one transaction: the chunk of the first reply, if it is for us.
ProcessChunk(u) ==
  /\ pc[u] = "chunk"
  /\ LET r == Head(replies[u])
         c == r.mail.chunk
     IN  \/ /\ r.mail.to = u
            /\ ReceiveChunk(u, r.from, c)
            /\ prev_success' = [prev_success EXCEPT ![u] = r.from]
         \/ /\ r.mail.to = u
            /\ ReceiveInvitation(u, r.from, c)
            /\ UNCHANGED prev_success
         \/ /\ r.mail.to = u => ~ IsNewChunk(u, r.from, c)
            /\ UNCHANGED <<dbvars, prev_success>>
  /\ replies' = [replies EXCEPT ![u] = Tail(@)]
  /\ pc' = [pc EXCEPT ![u] = "ack"]
  /\ UNCHANGED <<todo, just_sent, just_acked, servervars>>

-----------------------------------------------------------------------------
(* send(): one chunk and the acks for all friends.  Of its two reads of    *)
(* the database the first sees the sending side only, the second only      *)
(* received_seqnum, which nobody but this thread changes: one step.        *)

\* Every reply is processed.
ReadyToSend(u) == pc[u] = "ack" /\ replies[u] = <<>>

PriorityHasChunks(u) ==
  just_acked[u] # Nobody /\ outgoing_chunk[u][just_acked[u]] # {}

\* chunk_to_send: the first chunk for the friend whose ack came last, if there
\* is one, otherwise for any friend with chunks.
MayBeSent(u, v, c) ==
  /\ IsFirstChunk(u, v, c)
  /\ PriorityHasChunks(u) => v = just_acked[u]

AcksToSend(u) == received_seqnum[u]

\* acks_to_send, and the request leaves.  SendMessage returns at any time from
\* now on, at the latest after 60 seconds; success and failure are only logged.
SendRequest(u, mail) ==
  /\ \E s \in Slot :
       /\ requests[u][s] = NoRequest
       /\ requests' = [requests EXCEPT ![u][s] =
            [mail |-> mail, acks |-> AcksToSend(u), written |-> FALSE]]
  /\ just_sent' = [just_sent EXCEPT ![u] = mail.to]
  /\ pc' = [pc EXCEPT ![u] = "sleep"]
  /\ UNCHANGED <<dbvars, todo, replies, prev_success, just_acked, answer, pir, pir_acks>>

SendTo(u, v) ==
  /\ ReadyToSend(u)
  /\ \E c \in outgoing_chunk[u][v] :
       MayBeSent(u, v, c) /\ SendRequest(u, [to |-> v, chunk |-> c])

\* chunk_to_send throws, having found no chunk: a dummy goes out instead.
SendNothing(u) ==
  /\ ReadyToSend(u)
  /\ \A v \in Friends(u) : outgoing_chunk[u][v] = {}
  /\ SendRequest(u, Dummy)

-----------------------------------------------------------------------------
(* The server's SendMessage handler: two writes, one after the other.      *)

WritePir(u, s) ==
  /\ requests[u][s] # NoRequest /\ ~ requests[u][s].written
  /\ pir' = [pir EXCEPT ![u] = requests[u][s].mail]
  /\ requests' = [requests EXCEPT ![u][s].written = TRUE]
  /\ UNCHANGED <<dbvars, threadvars, answer, pir_acks>>

WritePirAcks(u, s) ==
  /\ requests[u][s] # NoRequest /\ requests[u][s].written
  /\ pir_acks' = [pir_acks EXCEPT ![u] = requests[u][s].acks]
  /\ requests' = [requests EXCEPT ![u][s] = NoRequest]
  /\ UNCHANGED <<dbvars, threadvars, answer, pir>>

-----------------------------------------------------------------------------
(* Faults.                                                                 *)

\* The request never reaches the handler, or is refused before the writes.
RequestLost(u, s) ==
  /\ requests[u][s] # NoRequest /\ ~ requests[u][s].written
  /\ requests' = [requests EXCEPT ![u][s] = NoRequest]
  /\ UNCHANGED <<dbvars, threadvars, answer, pir, pir_acks>>

\* A database error in retrieve() reaches main's loop: the round is over and the
\* transmitter keeps what it has cached.
RoundFails(u) ==
  /\ pc[u] \in {"ack", "chunk"}
  /\ pc' = [pc EXCEPT ![u] = "sleep"]
  /\ replies' = [replies EXCEPT ![u] = <<>>]
  /\ UNCHANGED <<dbvars, todo, prev_success, just_sent, just_acked, servervars>>

\* A database error on an invitation system message is logged and skipped.
InvitationFails(u) ==
  /\ pc[u] = "chunk"
  /\ Head(replies[u]).mail.to = u
  /\ Head(replies[u]).mail.chunk.msg = Invitation
  /\ replies' = [replies EXCEPT ![u] = Tail(@)]
  /\ pc' = [pc EXCEPT ![u] = "ack"]
  /\ UNCHANGED <<dbvars, todo, prev_success, just_sent, just_acked, servervars>>

\* chunk_to_send fails on a database error: a dummy goes out though there are
\* chunks.
SendFails(u) == ReadyToSend(u) /\ SendRequest(u, Dummy)

\* acks_to_send fails: the chunk is chosen, and nothing goes out.
AcksFail(u) ==
  /\ ReadyToSend(u)
  /\ \E v \in Friends(u) : \E c \in outgoing_chunk[u][v] :
       /\ MayBeSent(u, v, c)
       /\ just_sent' = [just_sent EXCEPT ![u] = v]
  /\ pc' = [pc EXCEPT ![u] = "sleep"]
  /\ UNCHANGED <<dbvars, todo, replies, prev_success, just_acked, servervars>>

\* The daemon stops (a crash, the watchdog, the user) and starts again: only
\* the database survives.  Requests it had sent stay at the server.
Crash(u) ==
  /\ pc' = [pc EXCEPT ![u] = "sleep"]
  /\ todo' = [todo EXCEPT ![u] = <<>>]
  /\ replies' = [replies EXCEPT ![u] = <<>>]
  /\ prev_success' = [prev_success EXCEPT ![u] = Nobody]
  /\ just_sent' = [just_sent EXCEPT ![u] = Nobody]
  /\ just_acked' = [just_acked EXCEPT ![u] = Nobody]
  /\ answer' = [answer EXCEPT ![u] = NoMail]
  /\ UNCHANGED <<dbvars, requests, pir, pir_acks>>

\* Both PIR databases are in memory: a restarted server has zeroed mailboxes
\* and none of the calls it was working on.
ServerRestart ==
  /\ pir' = [u \in Daemon |-> Dummy]
  /\ pir_acks' = [u \in Daemon |-> NoAcks]
  /\ requests' = [u \in Daemon |-> [s \in Slot |-> NoRequest]]
  /\ answer' = [u \in Daemon |-> NoMail]
  /\ UNCHANGED <<dbvars, threadvars>>

-----------------------------------------------------------------------------
\* The daemon's RPC thread.
Submit(m) ==
  /\ \E rs \in SUBSET Friends(Author[m]) : QueueMessage(m, rs)
  /\ UNCHANGED <<threadvars, servervars>>

\* What the transmitter thread does when nothing goes wrong.
Round(u) ==
  \/ StartRound(u) \/ ReadPir(u) \/ ReadPirAcks(u)
  \/ ProcessAck(u) \/ ProcessChunk(u)
  \/ (\E v \in Friends(u) : SendTo(u, v)) \/ SendNothing(u)

Serve(u, s) == WritePir(u, s) \/ WritePirAcks(u, s)

Fault ==
  \/ \E u \in Daemon : \/ RetrieveFails(u) \/ RoundFails(u) \/ InvitationFails(u)
                       \/ SendFails(u) \/ AcksFail(u) \/ Crash(u)
                       \/ \E s \in Slot : RequestLost(u, s)
  \/ ServerRestart

Next ==
  \/ \E m \in Message : Submit(m)
  \/ \E u \in Daemon : Round(u) \/ \E s \in Slot : Serve(u, s)
  \/ Fault

Spec == Init /\ [][Next]_vars

-----------------------------------------------------------------------------
(* Correctness.                                                            *)

\* What a thread has in hand fits the point it is at.
ThreadTypeOK ==
  /\ pc \in [Daemon -> {"sleep", "retrieve", "ack", "chunk"}]
  /\ todo \in [Daemon -> Seq(Daemon)]
  /\ replies \in [Daemon -> Seq(Reply)]
  /\ prev_success \in [Daemon -> Daemon \cup {Nobody}]
  /\ just_sent \in [Daemon -> Daemon \cup {Nobody}]
  /\ just_acked \in [Daemon -> Daemon \cup {Nobody}]
  /\ \A u \in Daemon :
       /\ pc[u] = "sleep" => replies[u] = <<>>
       /\ pc[u] = "retrieve" <=> todo[u] # <<>>
       /\ pc[u] = "chunk" => replies[u] # <<>>
       /\ \A i \in DOMAIN todo[u] : todo[u][i] \in Friends(u)
       /\ \A i \in DOMAIN replies[u] : replies[u][i].from \in Friends(u)
       /\ {prev_success[u], just_sent[u], just_acked[u]} \subseteq Friends(u) \cup {Nobody}

ServerTypeOK ==
  /\ answer \in [Daemon -> Mail \cup {NoMail}]
  /\ requests \in [Daemon -> [Slot -> Request \cup {NoRequest}]]
  /\ pir \in [Daemon -> Mail]
  /\ pir_acks \in [Daemon -> AckRow]
  /\ \A u \in Daemon : answer[u] # NoMail => pc[u] = "retrieve"

TypeOK == DbTypeOK /\ ThreadTypeOK /\ ServerTypeOK

\* Mail of u holds a chunk the database of u has given a place in the stream,
\* and no later one than the first u has no ack for.
GenuineMail(u, mail) ==
  mail.to # Nobody => mail.to \in Friends(u) /\ mail.chunk \in SentChunks(u, mail.to)

\* An ack row of u acknowledges nothing that is not safe in the database of u.
GenuineAcks(u, acks) == \A v \in Daemon : acks[v] <= received_seqnum[u][v]

\* Whatever is on its way, old or new, in a mailbox, in a request that may have
\* timed out long ago or in a reply read before its sender went on, was sent by
\* its sender and is still covered by the sender's database, across crashes.
OnlyGenuineTraffic ==
  \A u \in Daemon :
    /\ GenuineMail(u, pir[u]) /\ GenuineAcks(u, pir_acks[u])
    /\ \A s \in Slot : requests[u][s] # NoRequest =>
         GenuineMail(u, requests[u][s].mail) /\ GenuineAcks(u, requests[u][s].acks)
    /\ answer[u] # NoMail => GenuineMail(Head(todo[u]), answer[u])
    /\ \A i \in DOMAIN replies[u] :
         LET r == replies[u][i]
         IN  GenuineMail(r.from, r.mail) /\ r.ack <= received_seqnum[r.from][u]

\* Threads, server and faults together are no worse a network than the one
\* ClientDb assumes: every step is one transaction or leaves the databases alone.
ImplementsDb == DbSpec

-----------------------------------------------------------------------------
(* Fairness and liveness.                                                  *)

\* The loop of every daemon keeps going, and the server gets to every request.
Fairness ==
  \A u \in Daemon : WF_vars(Round(u)) /\ \A s \in Slot : WF_vars(Serve(u, s))

\* Only some daemons stay online; of those each sends to every friend again and
\* again if it again and again may, the choice being random.
FairOnline(online) ==
  /\ \A u \in Daemon : \A s \in Slot : WF_vars(Serve(u, s))
  /\ \A u \in online : WF_vars(Round(u)) /\ \A v \in Friends(u) : SF_vars(SendTo(u, v))

\* "Any message with seqnum > sent_acked_seqnum MUST be retried" (up.sql): as
\* long as alice holds unacked chunks for a friend, one of them is in her
\* mailbox again and again, whether or not other friends are online.
UnackedIsRetried(u) ==
  \A v \in Friends(u) : []<>(outgoing_chunk[u][v] = {} \/ pir[u].to = v)

\* A queued message reaches each recipient and is shown as delivered.
EventuallyDelivered ==
  \A m \in Message : \A v \in Daemon : v \in recipients[m] ~> v \in delivered[m]

\* Every invitation that was accepted or answered by one of the friend's own
\* makes both sides complete friends.
EventuallyComplete ==
  <>[](\A u \in Daemon : \A v \in Friends(u) : progress[u][v] = "Complete")
=============================================================================
