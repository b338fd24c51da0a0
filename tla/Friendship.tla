----------------------------- MODULE Friendship ------------------------------
(***************************************************************************)
(* How two users become friends.  Each user's database holds invitations and *)
(* friends; his transmitter leaves one invitation in his slot at the server  *)
(* and reads the slots of all others batch by batch; the system chunk of an  *)
(* invitation and its ack travel through the mailboxes (module Transmitter   *)
(* has their transport in full, here they are one value).  The user's calls  *)
(* come at any moment between two transactions of the transmitter.           *)
(***************************************************************************)
EXTENDS Naturals, FiniteSets

CONSTANTS
  User,           \* the users' indices at the server, from 1 on
  Rows,           \* CLIENT_DB_ROWS
  Batch,          \* ASYNC_FRIEND_REQUEST_BATCH_SIZE
  MaxFriends,     \* MAX_FRIENDS
  AsyncPairs,     \* <<u, v>>: u may invite v by v's public id
  SyncPairs,      \* <<u, v>>: u may add v by v's story
  MaxAsking,      \* bound on the calls of AddAsyncFriend of a user at a time
  Writers,        \* users who write to somebody they have just invited
  Removers,       \* users who remove friends
  MaxMishaps      \* bound on cancellations, denials and restarts together

ASSUME FriendshipAssumption ==
  /\ User \subseteq 1..Rows /\ Rows \in Nat /\ Batch \in Nat \ {0}
  /\ MaxFriends \in Nat /\ MaxAsking \in Nat /\ MaxMishaps \in Nat
  /\ AsyncPairs \subseteq User \X User /\ SyncPairs \subseteq User \X User
  /\ \A u \in User : <<u, u>> \notin AsyncPairs \cup SyncPairs

VARIABLES
  progress,     \* invitation_progress of u's friend v, "none" without a row
  chunk,        \* friends to whom u's system chunk is not acked yet
  heard,        \* friends whose system chunk u has received, and acks
  incoming,     \* the public ids in u's incoming_invitation
  referred,     \* friends whose row a message of u refers to
  delivered,    \* friends for whom u shows the invitation's text as delivered
  text,         \* friends of whom u has the invitation's text as a message
  asking,       \* calls of AddAsyncFriend that found space
  told,         \* what u's daemon answered last about v
  at,           \* where u's transmitter is in its round
  next,         \* next_async_invitation_retrieve_index
  found,        \* invitations to u in the batch he has just read
  slot,         \* for whom the invitation in u's slot at the server is, or 0
  mailbox,      \* for whom the system chunk in u's mailbox is, or 0
  withdrawn,    \* <<u, v>>: u has cancelled an invitation to v
  mishaps

base == <<progress, chunk, heard, incoming, referred, delivered, text>>
calls == <<asking, told, withdrawn>>
round == <<at, next, found>>
server == <<slot, mailbox>>
vars == <<base, calls, round, server, mishaps>>

Progress == {"none", "OutgoingAsync", "OutgoingSync", "Complete"}
Phase == {"retrieve", "crawl", "process", "send", "invite"}
Pairs == {p \in User \X User : p[1] # p[2]}
Friends(u) == {v \in User : progress[u][v] # "none"}
get_outgoing_async_invitations(u) == {v \in User : progress[u][v] = "OutgoingAsync"}

Sets == [User -> SUBSET User]

DatabaseOK ==
  /\ progress \in [User -> [User -> Progress]]
  /\ chunk \in Sets /\ heard \in Sets /\ incoming \in Sets /\ referred \in Sets
  /\ delivered \in Sets /\ text \in Sets

CallsOK ==
  /\ asking \in Sets /\ told \in [User -> [User -> {"", "removed", "not cancelled"}]]
  /\ withdrawn \subseteq User \X User /\ mishaps \in 0..MaxMishaps

RoundOK ==
  /\ at \in [User -> Phase] /\ next \in [User -> 0..Rows] /\ found \in Sets
  /\ slot \in [User -> User \cup {0}] /\ mailbox \in [User -> User \cup {0}]

\* What the foreign keys require: chunks, acks and messages belong to a friend's row.
ForeignKeys ==
  \A u, v \in User : v \in chunk[u] \cup heard[u] \cup referred[u] => v \in Friends(u)

\* The transmitter has invitations in hand only while it processes a batch.
InHand == \A u \in User : found[u] # {} => at[u] = "process"

\* The types, the foreign keys, and what the transmitter has in hand.
TypeOK == DatabaseOK /\ CallsOK /\ RoundOK /\ ForeignKeys /\ InHand

Init ==
  /\ progress = [u \in User |-> [v \in User |-> "none"]]
  /\ chunk = [u \in User |-> {}] /\ heard = [u \in User |-> {}]
  /\ incoming = [u \in User |-> {}] /\ referred = [u \in User |-> {}]
  /\ delivered = [u \in User |-> {}] /\ text = [u \in User |-> {}]
  /\ asking = [u \in User |-> {}] /\ found = [u \in User |-> {}]
  /\ told = [u \in User |-> [v \in User |-> ""]]
  /\ at = [u \in User |-> "retrieve"] /\ next = [u \in User |-> 0]
  /\ slot = [u \in User |-> 0] /\ mailbox = [u \in User |-> 0]
  /\ withdrawn = {} /\ mishaps = 0

Plus(f, u, v) == [f EXCEPT ![u] = @ \cup {v}]
Minus(f, u, v) == [f EXCEPT ![u] = @ \ {v}]
SetProgress(u, v, p) == progress' = [progress EXCEPT ![u][v] = p]
Answer(u, v, a) == told' = [told EXCEPT ![u][v] = a]
Mishap == mishaps < MaxMishaps /\ mishaps' = mishaps + 1

-----------------------------------------------------------------------------
\* The user's calls.

\* A row of that key, deleted or not, or too many rows; the names are taken to differ.
can_add_friend(u, v) == v \notin Friends(u) /\ Cardinality(Friends(u)) < MaxFriends

\* A new row and the system chunk that tells the friend.
InsertInvitation(u, v, p) ==
  /\ can_add_friend(u, v)
  /\ SetProgress(u, v, p) /\ chunk' = Plus(chunk, u, v)

add_outgoing_sync_invitation(u, v) ==
  /\ <<u, v>> \in SyncPairs
  /\ InsertInvitation(u, v, "OutgoingSync") /\ Answer(u, v, "")
  /\ UNCHANGED <<heard, incoming, referred, delivered, text, asking, withdrawn, round,
                 server, mishaps>>

\* add_outgoing_async_invitation first looks for space, on a connection of its own ...
has_space_for_async_invitations(u, v) ==
  /\ <<u, v>> \in AsyncPairs /\ v \notin asking[u]
  /\ Cardinality(asking[u]) < MaxAsking
  /\ get_outgoing_async_invitations(u) = {}
  /\ asking' = Plus(asking, u, v)
  /\ UNCHANGED <<base, told, withdrawn, round, server, mishaps>>

\* Mutant: the invitations that came in are not looked at.
Overlooked(u, v) == FALSE

\* Whoever has invited us is to be accepted, not invited.
HasInvited(v, u) == v \in incoming[u]

\* ... and then inserts, or refuses.
add_outgoing_async_invitation(u, v) ==
  /\ v \in asking[u] /\ asking' = Minus(asking, u, v)
  /\ IF can_add_friend(u, v) /\ ~HasInvited(v, u)
     THEN InsertInvitation(u, v, "OutgoingAsync") /\ Answer(u, v, "")
     ELSE UNCHANGED <<progress, chunk, told>>
  /\ UNCHANGED <<heard, incoming, referred, delivered, text, withdrawn, round, server,
                 mishaps>>

\* Mutant: the invitation is deleted before its text is read.
accept_without_text(u, v) ==
  /\ v \in incoming[u] /\ can_add_friend(u, v)
  /\ SetProgress(u, v, "Complete") /\ Answer(u, v, "")
  /\ incoming' = Minus(incoming, u, v)
  /\ UNCHANGED <<chunk, heard, referred, delivered, text, asking, withdrawn, round, server,
                 mishaps>>

\* The user accepts: a friend at once, with the invitation's text as its first message.
accept_incoming_invitation(u, v) ==
  /\ v \in incoming[u] /\ can_add_friend(u, v)
  /\ SetProgress(u, v, "Complete") /\ Answer(u, v, "")
  /\ incoming' = Minus(incoming, u, v) /\ text' = Plus(text, u, v)
  /\ UNCHANGED <<chunk, heard, referred, delivered, asking, withdrawn, round, server,
                 mishaps>>

\* Only the row goes; the server still has the invitation.
deny_incoming_invitation(u, v) ==
  /\ v \in incoming[u] /\ Mishap
  /\ incoming' = Minus(incoming, u, v)
  /\ UNCHANGED <<progress, chunk, heard, referred, delivered, text, calls, round, server>>

\* Mutant: the chunks of the friend stay.
remove_without_chunks(u, v) ==
  /\ progress[u][v] = "OutgoingAsync" /\ Mishap
  /\ v \notin referred[u]
  /\ SetProgress(u, v, "none") /\ Answer(u, v, "")
  /\ heard' = Minus(heard, u, v)
  /\ withdrawn' = withdrawn \cup {<<u, v>>}
  /\ UNCHANGED <<chunk, incoming, referred, delivered, text, asking, round, server>>

\* Everything of the friend goes, or nothing when a message refers to him: the foreign
\* keys undo the transaction.
remove_outgoing_async_invitation(u, v) ==
  /\ progress[u][v] = "OutgoingAsync" /\ Mishap
  /\ IF v \in referred[u]
     THEN Answer(u, v, "not cancelled") /\ UNCHANGED <<progress, chunk, heard, withdrawn>>
     ELSE /\ SetProgress(u, v, "none") /\ Answer(u, v, "")
          /\ chunk' = Minus(chunk, u, v) /\ heard' = Minus(heard, u, v)
          /\ withdrawn' = withdrawn \cup {<<u, v>>}
  /\ UNCHANGED <<incoming, referred, delivered, text, asking, round, server>>

\* RemoveFriend writes deleted = false, which it already is, and answers OK.
delete_friend(u, v) ==
  /\ u \in Removers /\ v \in Friends(u) /\ Answer(u, v, "removed")
  /\ UNCHANGED <<base, asking, withdrawn, round, server, mishaps>>

\* A message may be queued for a friend who has not accepted yet.
queue_message_to_send(u, v) ==
  /\ u \in Writers /\ progress[u][v] = "OutgoingAsync"
  /\ referred' = Plus(referred, u, v)
  /\ UNCHANGED <<progress, chunk, heard, incoming, delivered, text, calls, round, server,
                 mishaps>>

-----------------------------------------------------------------------------
\* The transmitter's round.

\* The invitation becomes a sent message, marked delivered, of a complete friend.
complete_outgoing_async_friend(u, v) ==
  /\ SetProgress(u, v, "Complete")
  /\ delivered' = Plus(delivered, u, v)

complete_outgoing_sync_friend(u, v) ==
  SetProgress(u, v, "Complete") /\ UNCHANGED delivered

\* Mutant: any ack will do.
AnyAck(u, v) == TRUE

\* v acknowledges what he has received from u.
Acked(u, v) == u \in heard[v]

\* The ack of the system chunk completes an asynchronous invitation.
receive_ack(u, v) ==
  /\ at[u] = "retrieve" /\ v \in chunk[u] /\ Acked(u, v)
  /\ chunk' = Minus(chunk, u, v)
  /\ IF progress[u][v] = "OutgoingAsync"
     THEN complete_outgoing_async_friend(u, v)
     ELSE UNCHANGED <<progress, delivered>>
  /\ UNCHANGED <<heard, incoming, referred, text, calls, round, server, mishaps>>

\* Mutant: a chunk that does not decrypt is taken for an invitation.
AnyChunk(v, u) == TRUE

\* The chunk in v's mailbox decrypts with the keys that u and v share.
IsFor(v, u) == mailbox[v] = u

\* v's system chunk: v wants to be a friend too.  An old chunk changes nothing.
receive_invitation_system_message(u, v) ==
  /\ at[u] = "retrieve" /\ v \in Friends(u) /\ IsFor(v, u) /\ v \notin heard[u]
  /\ heard' = Plus(heard, u, v)
  /\ CASE progress[u][v] = "OutgoingSync" -> complete_outgoing_sync_friend(u, v)
       [] progress[u][v] = "OutgoingAsync" -> complete_outgoing_async_friend(u, v)
       [] progress[u][v] = "Complete" -> UNCHANGED <<progress, delivered>>
  /\ UNCHANGED <<chunk, incoming, referred, text, calls, round, server, mishaps>>

Advance(u, phase) == at' = [at EXCEPT ![u] = phase]

\* The round goes on; the replies it did not get, it asks for again in another.
retrieve(u) ==
  /\ at[u] = "retrieve" /\ Advance(u, "crawl")
  /\ UNCHANGED <<base, calls, next, found, server, mishaps>>

LastOf(start) == IF start + Batch < Rows THEN start + Batch ELSE Rows

\* The next batch of slots comes back; those that u can decrypt are meant for him.
GetAsyncInvitations(u) ==
  /\ at[u] = "crawl" /\ Advance(u, "process")
  /\ found' = [found EXCEPT ![u] =
                {v \in User : v - 1 \in next[u]..(LastOf(next[u]) - 1) /\ slot[v] = u}]
  /\ UNCHANGED <<base, calls, next, server, mishaps>>

\* The call fails; the index stays.
CrawlFails(u) ==
  /\ at[u] = "crawl" /\ Advance(u, "send")
  /\ UNCHANGED <<base, calls, next, found, server, mishaps>>

\* One invitation of the batch, in the order of the slots: it completes a friend we have
\* invited ourselves, or waits for the user.
add_incoming_async_invitation(u, v) ==
  /\ at[u] = "process" /\ v \in found[u] /\ \A w \in found[u] : v <= w
  /\ found' = Minus(found, u, v)
  /\ IF v \in incoming[u] \/ progress[u][v] = "Complete"
     THEN UNCHANGED <<progress, delivered, text, incoming>>
     ELSE IF progress[u][v] = "OutgoingAsync"
     THEN /\ complete_outgoing_async_friend(u, v) /\ text' = Plus(text, u, v)
          /\ UNCHANGED incoming
     ELSE incoming' = Plus(incoming, u, v) /\ UNCHANGED <<progress, delivered, text>>
  /\ UNCHANGED <<chunk, heard, referred, calls, at, next, server, mishaps>>

\* Mutant: the crawl does not start again.
IndexStuck(end) == end

\* At the end of the rows the crawl starts again.
IndexAfter(end) == IF end = Rows THEN 0 ELSE end

retrieve_async_invitations(u) ==
  /\ at[u] = "process" /\ found[u] = {} /\ Advance(u, "send")
  /\ next' = [next EXCEPT ![u] = IndexAfter(LastOf(@))]
  /\ UNCHANGED <<base, calls, found, server, mishaps>>

\* Mutant: a chunk is sent once.
SendOnce(u, v) ==
  /\ at[u] = "send" /\ Advance(u, "invite")
  /\ v \in chunk[u] /\ mailbox' = [mailbox EXCEPT ![u] = v]
  /\ chunk' = Minus(chunk, u, v)
  /\ UNCHANGED <<progress, heard, incoming, referred, delivered, text, calls, next, found,
                 slot, mishaps>>

\* The system chunk for v goes into the mailbox ...
SendInvitationChunk(u, v) ==
  /\ at[u] = "send" /\ Advance(u, "invite")
  /\ v \in chunk[u] /\ mailbox' = [mailbox EXCEPT ![u] = v]
  /\ UNCHANGED <<base, calls, next, found, slot, mishaps>>

\* ... or another chunk does when there is none, or the call fails.  That a message to
\* somebody takes the place of a system chunk for a while is left out: the chunk is read
\* later then, as it may be here.
send(u) ==
  /\ at[u] = "send" /\ Advance(u, "invite")
  /\ mailbox' \in {mailbox} \cup
       (IF chunk[u] = {} THEN {[mailbox EXCEPT ![u] = 0]} ELSE {})
  /\ UNCHANGED <<base, calls, next, found, slot, mishaps>>

\* Mutant: the dummy is transmitted in every round.
transmit_dummy(u) ==
  /\ at[u] = "invite" /\ Advance(u, "retrieve")
  /\ slot' = [slot EXCEPT ![u] = 0]
  /\ UNCHANGED <<base, calls, next, found, mailbox, mishaps>>

\* The only outgoing invitation, or the dummy, which is for nobody.
transmit_async_invitation(u) ==
  LET invitations == get_outgoing_async_invitations(u) IN
  /\ at[u] = "invite" /\ Advance(u, "retrieve")
  /\ \E v \in IF invitations = {} THEN {0} ELSE invitations :
       slot' = [slot EXCEPT ![u] = v]
  /\ UNCHANGED <<base, calls, next, found, mailbox, mishaps>>

TransmitFails(u) ==
  /\ at[u] = "invite" /\ Advance(u, "retrieve")
  /\ UNCHANGED <<base, calls, next, found, server, mishaps>>

-----------------------------------------------------------------------------

\* The daemon stops between two transactions and starts again from its database.
RestartDaemon(u) ==
  /\ Mishap
  /\ at' = [at EXCEPT ![u] = "retrieve"] /\ next' = [next EXCEPT ![u] = 0]
  /\ found' = [found EXCEPT ![u] = {}] /\ asking' = [asking EXCEPT ![u] = {}]
  /\ UNCHANGED <<base, told, withdrawn, server>>

\* The server keeps the slots and the mailboxes in memory.
RestartServer ==
  /\ Mishap
  /\ slot' = [u \in User |-> 0] /\ mailbox' = [u \in User |-> 0]
  /\ UNCHANGED <<base, calls, round>>

Calls(u, v) ==
  \/ add_outgoing_sync_invitation(u, v)
  \/ has_space_for_async_invitations(u, v)
  \/ add_outgoing_async_invitation(u, v)
  \/ accept_incoming_invitation(u, v)
  \/ deny_incoming_invitation(u, v)
  \/ remove_outgoing_async_invitation(u, v)
  \/ delete_friend(u, v)
  \/ queue_message_to_send(u, v)

Receive(u, v) == receive_ack(u, v) \/ receive_invitation_system_message(u, v)

Round(u) ==
  \/ \E v \in User : add_incoming_async_invitation(u, v)
  \/ retrieve(u) \/ GetAsyncInvitations(u) \/ CrawlFails(u)
  \/ retrieve_async_invitations(u) \/ send(u)
  \/ transmit_async_invitation(u) \/ TransmitFails(u)

Next ==
  \/ \E u, v \in User : Calls(u, v) \/ Receive(u, v) \/ SendInvitationChunk(u, v)
  \/ \E u \in User : Round(u) \/ RestartDaemon(u)
  \/ RestartServer

\* The rounds go on.  What a round may miss, because a call fails or another friend has
\* his turn, comes through in the end: calls do not fail for ever, and friends are served
\* in random order.
Fairness ==
  /\ \A u \in User : /\ WF_vars(Round(u)) /\ SF_vars(GetAsyncInvitations(u))
                     /\ SF_vars(transmit_async_invitation(u))
  /\ \A p \in Pairs : /\ SF_vars(SendInvitationChunk(p[1], p[2]))
                      /\ SF_vars(Receive(p[1], p[2]))

Spec == Init /\ [][Next]_vars /\ Fairness

-----------------------------------------------------------------------------

\* Whoever shows v as a complete friend is in v's database, in whatever order invitations
\* cross, are accepted, acked and found again, unless v has cancelled an invitation.
FriendsAreMutual ==
  \A u, v \in User :
    progress[u][v] = "Complete" => u \in Friends(v) \/ <<v, u>> \in withdrawn

\* Nobody is asked to accept a friend he has or has invited, except one whom he may add by
\* his story, which looks at no invitation: the crawl may find the invitation between the
\* two steps of AddAsyncFriend (add_outgoing_async_invitation, add_incoming_async_invitation).
IncomingIsNoFriend ==
  \A u \in User : \A v \in incoming[u] \cap Friends(u) : <<u, v>> \in SyncPairs

\* An invitation shown as delivered is one whose text the friend has, once he is a friend
\* and does not look at invitations from us any more (sent_friend.delivered); only if his
\* own invitation crossed ours, or he adds us by our story, may he be without it.
DeliveredIsRead ==
  \A u, v \in User :
    v \in delivered[u] /\ progress[v][u] = "Complete"
      => u \in text[v] \/ u \in delivered[v] \/ <<v, u>> \in SyncPairs

\* An invitation is found by the crawl of the one it is for, wherever its slot is in the
\* rows and whatever restarts, unless it is answered or cancelled before.
InvitationIsFound ==
  \A p \in AsyncPairs :
    progress[p[1]][p[2]] = "OutgoingAsync" ~>
      progress[p[1]][p[2]] # "OutgoingAsync" \/ p[1] \in incoming[p[2]]

\* When both have each other in the database and one of them is complete, the other
\* becomes complete, too, or cancels.
FriendshipSettles ==
  \A p \in Pairs :
    progress[p[1]][p[2]] = "Complete" ~> progress[p[2]][p[1]] \in {"Complete", "none"}

=============================================================================
