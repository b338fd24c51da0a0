-------------------------- MODULE FriendshipProofs ---------------------------
(* Proofs about module Friendship.                                         *)
EXTENDS Friendship, TLAPS

-----------------------------------------------------------------------------
(* The updates of the state.                                               *)

LEMMA Bounds ==
  MaxMishaps \in Nat /\ Rows \in Nat /\ Batch \in Nat \ {0} /\ User \subseteq 1..Rows
BY FriendshipAssumption

LEMMA SetsPlus ==
  ASSUME NEW f \in Sets, NEW u \in User, NEW v \in User
  PROVE  /\ Plus(f, u, v) \in Sets
         /\ \A a, b \in User : b \in Plus(f, u, v)[a] <=> b \in f[a] \/ (a = u /\ b = v)
BY DEF Sets, Plus

LEMMA SetsMinus ==
  ASSUME NEW f \in Sets, NEW u \in User, NEW v \in User
  PROVE  /\ Minus(f, u, v) \in Sets
         /\ \A a, b \in User : b \in Minus(f, u, v)[a] <=> b \in f[a] /\ ~(a = u /\ b = v)
BY DEF Sets, Minus

LEMMA ProgressSet ==
  ASSUME DatabaseOK, NEW u \in User, NEW v \in User, NEW p \in Progress, SetProgress(u, v, p)
  PROVE  /\ progress' \in [User -> [User -> Progress]]
         /\ \A a, b \in User :
              progress'[a][b] = IF a = u /\ b = v THEN p ELSE progress[a][b]
BY DEF DatabaseOK, SetProgress

Told == [User -> [User -> {"", "removed", "not cancelled"}]]

LEMMA ToldSet ==
  ASSUME told \in Told, NEW u \in User, NEW v \in User,
         NEW a \in {"", "removed", "not cancelled"}, Answer(u, v, a)
  PROVE  told' \in Told
BY DEF Told, Answer

LEMMA Progresses ==
  /\ "none" \in Progress /\ "OutgoingAsync" \in Progress
  /\ "OutgoingSync" \in Progress /\ "Complete" \in Progress
BY DEF Progress

LEMMA FriendsAre ==
  ASSUME NEW u \in User, NEW v \in User
  PROVE  /\ v \in Friends(u) <=> progress[u][v] # "none"
         /\ (v \in Friends(u))' <=> progress'[u][v] # "none"
BY DEF Friends

LEMMA KeysAre ==
  /\ ForeignKeys <=> \A a, b \in User :
       b \in chunk[a] \/ b \in heard[a] \/ b \in referred[a] => progress[a][b] # "none"
  /\ ForeignKeys' <=> \A a, b \in User :
       b \in chunk'[a] \/ b \in heard'[a] \/ b \in referred'[a] => progress'[a][b] # "none"
BY DEF ForeignKeys, Friends

\* The row of one friend is written, or stays; chunks and acks are his.
LEMMA RowSet ==
  ASSUME DatabaseOK, ForeignKeys, NEW u \in User, NEW v \in User, NEW p \in Progress,
         p # "none", SetProgress(u, v, p) \/ (progress' = progress /\ progress[u][v] # "none"),
         chunk' \in Sets, \A a, b \in User : b \in chunk'[a] => b \in chunk[a] \/ (a = u /\ b = v),
         heard' \in Sets, \A a, b \in User : b \in heard'[a] => b \in heard[a] \/ (a = u /\ b = v),
         referred' \in Sets,
         \A a, b \in User : b \in referred'[a] => b \in referred[a] \/ (a = u /\ b = v),
         incoming' \in Sets, delivered' \in Sets, text' \in Sets
  PROVE  DatabaseOK' /\ ForeignKeys'
<1>1. /\ progress' \in [User -> [User -> Progress]]
      /\ \A a, b \in User : progress'[a][b] = progress[a][b] \/ (a = u /\ b = v)
      /\ progress'[u][v] # "none"
  <2>1. CASE SetProgress(u, v, p)
    BY <2>1, ProgressSet
  <2>2. CASE progress' = progress /\ progress[u][v] # "none"
    BY <2>2 DEF DatabaseOK
  <2> QED BY <2>1, <2>2
<1>2. \A a, b \in User :
        b \in chunk[a] \/ b \in heard[a] \/ b \in referred[a] => progress[a][b] # "none"
  BY KeysAre
<1>3. ASSUME NEW a \in User, NEW b \in User,
             b \in chunk'[a] \/ b \in heard'[a] \/ b \in referred'[a]
      PROVE  progress'[a][b] # "none"
  <2>1. CASE a = u /\ b = v
    BY <2>1, <1>1
  <2>2. CASE ~(a = u /\ b = v)
    <3>1. b \in chunk[a] \/ b \in heard[a] \/ b \in referred[a]
      BY <2>2, <1>3
    <3> QED BY <3>1, <2>2, <1>1, <1>2
  <2> QED BY <2>1, <2>2
<1>4. DatabaseOK'
  BY <1>1 DEF DatabaseOK
<1>5. ForeignKeys'
  BY <1>3, KeysAre
<1> QED BY <1>4, <1>5

\* The row of a friend to whom no message refers goes.
LEMMA RowGone ==
  ASSUME DatabaseOK, ForeignKeys, NEW u \in User, NEW v \in User,
         SetProgress(u, v, "none"), v \notin referred[u],
         chunk' = Minus(chunk, u, v), heard' = Minus(heard, u, v),
         incoming' = incoming, referred' = referred, delivered' = delivered, text' = text
  PROVE  DatabaseOK' /\ ForeignKeys'
<1>1. /\ progress' \in [User -> [User -> Progress]]
      /\ \A a, b \in User : progress'[a][b] = IF a = u /\ b = v THEN "none" ELSE progress[a][b]
  BY ProgressSet, Progresses
<1>2. \A a, b \in User :
        b \in chunk[a] \/ b \in heard[a] \/ b \in referred[a] => progress[a][b] # "none"
  BY KeysAre
<1>3. /\ chunk' \in Sets /\ \A a, b \in User : b \in chunk'[a] <=> b \in chunk[a] /\ ~(a = u /\ b = v)
      /\ heard' \in Sets /\ \A a, b \in User : b \in heard'[a] <=> b \in heard[a] /\ ~(a = u /\ b = v)
  <2>1. chunk \in Sets /\ heard \in Sets
    BY DEF DatabaseOK
  <2>4. /\ Minus(chunk, u, v) \in Sets
        /\ \A a, b \in User : b \in Minus(chunk, u, v)[a] <=> b \in chunk[a] /\ ~(a = u /\ b = v)
    BY <2>1 DEF Sets, Minus
  <2>5. /\ Minus(heard, u, v) \in Sets
        /\ \A a, b \in User : b \in Minus(heard, u, v)[a] <=> b \in heard[a] /\ ~(a = u /\ b = v)
    BY <2>1 DEF Sets, Minus
  <2>2. chunk' \in Sets /\ \A a, b \in User : b \in chunk'[a] <=> b \in chunk[a] /\ ~(a = u /\ b = v)
    BY <2>4
  <2>3. heard' \in Sets /\ \A a, b \in User : b \in heard'[a] <=> b \in heard[a] /\ ~(a = u /\ b = v)
    BY <2>5
  <2> QED BY <2>2, <2>3
<1>4. DatabaseOK'
  BY <1>1, <1>3 DEF DatabaseOK
<1>5. \A a, b \in User :
        b \in chunk'[a] \/ b \in heard'[a] \/ b \in referred'[a] => progress'[a][b] # "none"
  BY <1>1, <1>2, <1>3
<1>6. ForeignKeys'
  BY <1>5, KeysAre
<1> QED BY <1>4, <1>6

LEMMA DatabaseStays ==
  ASSUME DatabaseOK, ForeignKeys, UNCHANGED base PROVE DatabaseOK' /\ ForeignKeys'
BY DEF DatabaseOK, ForeignKeys, base, Friends

LEMMA CallsStay ==
  ASSUME CallsOK, UNCHANGED <<calls, mishaps>> PROVE CallsOK'
BY DEF CallsOK, calls

LEMMA RoundStays ==
  ASSUME RoundOK, InHand, UNCHANGED <<round, server>> PROVE RoundOK' /\ InHand'
BY DEF RoundOK, InHand, round, server

-----------------------------------------------------------------------------
(* The types and the foreign keys.                                         *)

LEMMA InitTypeOK == Init => TypeOK
<1> SUFFICES ASSUME Init PROVE TypeOK
  OBVIOUS
<1>1. DatabaseOK
  BY DEF Init, DatabaseOK, Progress, Sets
<1>2. CallsOK
  <2>1. asking \in Sets
    BY DEF Init, Sets
  <2>2. told \in [User -> [User -> {"", "removed", "not cancelled"}]]
    BY DEF Init
  <2>3. withdrawn \subseteq User \X User
    BY DEF Init
  <2>4. mishaps = 0
    BY DEF Init
  <2>5. 0 \in 0..MaxMishaps
    BY Bounds
  <2> QED BY <2>1, <2>2, <2>3, <2>4, <2>5 DEF CallsOK
<1>3. RoundOK
  <2>1. at \in [User -> Phase] /\ found \in Sets
    BY DEF Init, Sets, Phase
  <2>2. 0 \in 0..Rows
    BY Bounds
  <2>3. next \in [User -> 0..Rows]
    BY <2>2 DEF Init
  <2>4. slot \in [User -> User \cup {0}] /\ mailbox \in [User -> User \cup {0}]
    BY DEF Init
  <2> QED BY <2>1, <2>3, <2>4 DEF RoundOK
<1>4. ForeignKeys
  BY DEF Init, ForeignKeys
<1>5. InHand
  BY DEF Init, InHand
<1> QED BY <1>1, <1>2, <1>3, <1>4, <1>5 DEF TypeOK

LEMMA CallsTypeOK ==
  ASSUME TypeOK, NEW u \in User, NEW v \in User, Calls(u, v) PROVE TypeOK'
<1>0. DatabaseOK /\ CallsOK /\ RoundOK /\ ForeignKeys /\ InHand
  BY DEF TypeOK
<1>1. /\ chunk \in Sets /\ heard \in Sets /\ incoming \in Sets /\ referred \in Sets
      /\ delivered \in Sets /\ text \in Sets
  BY <1>0 DEF DatabaseOK
<1>2. asking \in Sets /\ told \in Told /\ mishaps \in 0..MaxMishaps /\ withdrawn \subseteq User \X User
  BY <1>0 DEF CallsOK, Told
<1>3. RoundOK' /\ InHand'
  <2>1. UNCHANGED <<round, server>>
    BY DEF Calls, add_outgoing_sync_invitation, has_space_for_async_invitations,
           add_outgoing_async_invitation, accept_incoming_invitation,
           deny_incoming_invitation, remove_outgoing_async_invitation, delete_friend,
           queue_message_to_send
  <2> QED BY <1>0, <2>1, RoundStays
<1>4. CallsOK'
  <2>1. told' = told \/ (\E a \in {"", "removed", "not cancelled"} : Answer(u, v, a))
    BY DEF Calls, add_outgoing_sync_invitation, has_space_for_async_invitations,
           add_outgoing_async_invitation, accept_incoming_invitation,
           deny_incoming_invitation, remove_outgoing_async_invitation, delete_friend,
           queue_message_to_send, calls
  <2>2. asking' \in {asking, Plus(asking, u, v), Minus(asking, u, v)}
    BY DEF Calls, add_outgoing_sync_invitation, has_space_for_async_invitations,
           add_outgoing_async_invitation, accept_incoming_invitation,
           deny_incoming_invitation, remove_outgoing_async_invitation, delete_friend,
           queue_message_to_send, calls
  <2>3. withdrawn' \in {withdrawn, withdrawn \cup {<<u, v>>}} /\ (mishaps' = mishaps \/ Mishap)
    BY DEF Calls, add_outgoing_sync_invitation, has_space_for_async_invitations,
           add_outgoing_async_invitation, accept_incoming_invitation,
           deny_incoming_invitation, remove_outgoing_async_invitation, delete_friend,
           queue_message_to_send, calls
  <2>4. told' \in Told
    BY <1>2, <2>1, ToldSet
  <2>5. asking' \in Sets
    BY <1>2, <2>2, SetsPlus, SetsMinus
  <2>6. mishaps' \in 0..MaxMishaps
    BY <1>2, <2>3, Bounds DEF Mishap
  <2>7. withdrawn' \subseteq User \X User
    BY <1>2, <2>3
  <2> QED BY <2>4, <2>5, <2>6, <2>7 DEF CallsOK, Told
<1>5. DatabaseOK' /\ ForeignKeys'
  <2>1. CASE add_outgoing_sync_invitation(u, v)
    <3>1. SetProgress(u, v, "OutgoingSync") /\ chunk' = Plus(chunk, u, v)
      BY <2>1 DEF add_outgoing_sync_invitation, InsertInvitation
    <3>2. UNCHANGED <<heard, incoming, referred, delivered, text>>
      BY <2>1 DEF add_outgoing_sync_invitation
    <3>3. chunk' \in Sets /\ \A a, b \in User : b \in chunk'[a] <=> b \in chunk[a] \/ (a = u /\ b = v)
      BY <1>1, <3>1, SetsPlus
    <3> QED BY <1>0, <1>1, <3>1, <3>2, <3>3, RowSet, Progresses
  <2>2. CASE has_space_for_async_invitations(u, v) \/ delete_friend(u, v)
    BY <1>0, <2>2, DatabaseStays DEF has_space_for_async_invitations, delete_friend
  <2>3. CASE add_outgoing_async_invitation(u, v)
    <3>1. UNCHANGED <<heard, incoming, referred, delivered, text>>
      BY <2>3 DEF add_outgoing_async_invitation
    <3>2. CASE SetProgress(u, v, "OutgoingAsync") /\ chunk' = Plus(chunk, u, v)
      <4>1. chunk' \in Sets /\ \A a, b \in User : b \in chunk'[a] <=> b \in chunk[a] \/ (a = u /\ b = v)
        BY <1>1, <3>2, SetsPlus
      <4> QED BY <1>0, <1>1, <3>1, <3>2, <4>1, RowSet, Progresses
    <3>3. CASE UNCHANGED <<progress, chunk>>
      BY <1>0, <3>1, <3>3, DatabaseStays DEF base
    <3> QED BY <2>3, <3>2, <3>3 DEF add_outgoing_async_invitation, InsertInvitation
  <2>4. CASE accept_incoming_invitation(u, v)
    <3>1. /\ SetProgress(u, v, "Complete") /\ incoming' = Minus(incoming, u, v)
          /\ text' = Plus(text, u, v) /\ UNCHANGED <<chunk, heard, referred, delivered>>
      BY <2>4 DEF accept_incoming_invitation
    <3> QED BY <1>0, <1>1, <3>1, RowSet, SetsPlus, SetsMinus, Progresses
  <2>5. CASE deny_incoming_invitation(u, v)
    <3>1. /\ incoming' = Minus(incoming, u, v)
          /\ UNCHANGED <<progress, chunk, heard, referred, delivered, text>>
      BY <2>5 DEF deny_incoming_invitation
    <3>2. incoming' \in Sets
      BY <1>1, <3>1, SetsMinus
    <3>3. DatabaseOK'
      BY <1>0, <3>1, <3>2 DEF DatabaseOK
    <3>4. ForeignKeys'
      BY <1>0, <3>1, KeysAre
    <3> QED BY <3>3, <3>4
  <2>6. CASE remove_outgoing_async_invitation(u, v)
    <3>1. CASE v \in referred[u]
      <4>1. UNCHANGED base
        BY <2>6, <3>1 DEF remove_outgoing_async_invitation, base
      <4> QED BY <1>0, <4>1, DatabaseStays
    <3>2. CASE v \notin referred[u]
      <4>1. /\ SetProgress(u, v, "none")
            /\ chunk' = Minus(chunk, u, v) /\ heard' = Minus(heard, u, v)
            /\ UNCHANGED <<incoming, referred, delivered, text>>
        BY <2>6, <3>2 DEF remove_outgoing_async_invitation
      <4> QED BY <1>0, <3>2, <4>1, RowGone
    <3> QED BY <3>1, <3>2
  <2>7. CASE queue_message_to_send(u, v)
    <3>1. /\ progress[u][v] = "OutgoingAsync" /\ referred' = Plus(referred, u, v)
          /\ UNCHANGED <<progress, chunk, heard, incoming, delivered, text>>
      BY <2>7 DEF queue_message_to_send
    <3>2. /\ referred' \in Sets
          /\ \A a, b \in User : b \in referred'[a] <=> b \in referred[a] \/ (a = u /\ b = v)
      BY <1>1, <3>1, SetsPlus
    <3> QED BY <1>0, <1>1, <3>1, <3>2, RowSet, Progresses
  <2> QED BY <2>1, <2>2, <2>3, <2>4, <2>5, <2>6, <2>7 DEF Calls
<1> QED BY <1>3, <1>4, <1>5 DEF TypeOK

LEMMA CompleteAsync ==
  ASSUME NEW u, NEW v, complete_outgoing_async_friend(u, v)
  PROVE  SetProgress(u, v, "Complete") /\ delivered' = Plus(delivered, u, v)
BY DEF complete_outgoing_async_friend

LEMMA CompleteSync ==
  ASSUME NEW u, NEW v, complete_outgoing_sync_friend(u, v)
  PROVE  SetProgress(u, v, "Complete") /\ delivered' = delivered
BY DEF complete_outgoing_sync_friend

LEMMA ReceiveTypeOK ==
  ASSUME TypeOK, NEW u \in User, NEW v \in User, Receive(u, v) PROVE TypeOK'
<1>0. DatabaseOK /\ CallsOK /\ RoundOK /\ ForeignKeys /\ InHand
  BY DEF TypeOK
<1>1. /\ chunk \in Sets /\ heard \in Sets /\ incoming \in Sets /\ referred \in Sets
      /\ delivered \in Sets /\ text \in Sets
  BY <1>0 DEF DatabaseOK
<1>2. RoundOK' /\ InHand' /\ CallsOK'
  <2>1. UNCHANGED <<round, server>> /\ UNCHANGED <<calls, mishaps>>
    BY DEF Receive, receive_ack, receive_invitation_system_message
  <2> QED BY <1>0, <2>1, RoundStays, CallsStay
<1>3. Plus(delivered, u, v) \in Sets
  BY <1>1 DEF Sets, Plus
<1>4. progress[u][v] # "none"
  <2>1. CASE receive_ack(u, v)
    <3>1. v \in chunk[u]
      BY <2>1 DEF receive_ack
    <3> QED BY <3>1, <1>0, KeysAre
  <2>2. CASE receive_invitation_system_message(u, v)
    BY <2>2, FriendsAre DEF receive_invitation_system_message
  <2> QED BY <2>1, <2>2 DEF Receive
<1>5. DatabaseOK' /\ ForeignKeys'
  <2>1. CASE receive_ack(u, v)
    <3>1. chunk' = Minus(chunk, u, v) /\ UNCHANGED <<heard, incoming, referred, text>>
      BY <2>1 DEF receive_ack
    <3>2. \/ SetProgress(u, v, "Complete") /\ delivered' = Plus(delivered, u, v)
          \/ progress' = progress /\ delivered' = delivered
      BY <2>1, CompleteAsync DEF receive_ack
    <3>3. chunk' \in Sets /\ \A a, b \in User : b \in chunk'[a] => b \in chunk[a] \/ (a = u /\ b = v)
      BY <1>1, <3>1 DEF Sets, Minus
    <3>4. delivered' \in Sets
      BY <1>1, <1>3, <3>2
    <3> QED BY <1>0, <1>1, <1>4, <3>1, <3>2, <3>3, <3>4, RowSet, Progresses
  <2>2. CASE receive_invitation_system_message(u, v)
    <3>1. heard' = Plus(heard, u, v) /\ UNCHANGED <<chunk, incoming, referred, text>>
      BY <2>2 DEF receive_invitation_system_message
    <3>2. \/ SetProgress(u, v, "Complete") /\ delivered' = Plus(delivered, u, v)
          \/ SetProgress(u, v, "Complete") /\ delivered' = delivered
          \/ progress' = progress /\ delivered' = delivered
      <4>1. progress[u][v] \in {"OutgoingSync", "OutgoingAsync", "Complete"}
        BY <1>0, <1>4 DEF DatabaseOK, Progress
      <4> QED BY <2>2, <4>1, CompleteAsync, CompleteSync DEF receive_invitation_system_message
    <3>3. heard' \in Sets /\ \A a, b \in User : b \in heard'[a] => b \in heard[a] \/ (a = u /\ b = v)
      BY <1>1, <3>1 DEF Sets, Plus
    <3>4. delivered' \in Sets
      BY <1>1, <1>3, <3>2
    <3> QED BY <1>0, <1>1, <1>4, <3>1, <3>2, <3>3, <3>4, RowSet, Progresses
  <2> QED BY <2>1, <2>2 DEF Receive
<1> QED BY <1>2, <1>5 DEF TypeOK

LEMMA FindTypeOK ==
  ASSUME TypeOK, NEW u \in User, NEW v \in User, add_incoming_async_invitation(u, v)
  PROVE  TypeOK'
<1>0. DatabaseOK /\ CallsOK /\ RoundOK /\ ForeignKeys /\ InHand
  BY DEF TypeOK
<1>1. /\ chunk \in Sets /\ heard \in Sets /\ incoming \in Sets /\ referred \in Sets
      /\ delivered \in Sets /\ text \in Sets
  BY <1>0 DEF DatabaseOK
<1>2. CallsOK'
  <2>1. UNCHANGED <<calls, mishaps>>
    BY DEF add_incoming_async_invitation
  <2> QED BY <1>0, <2>1, CallsStay
<1>3. RoundOK' /\ InHand'
  <2>1. found' = Minus(found, u, v) /\ UNCHANGED <<at, next, slot, mailbox>>
    BY DEF add_incoming_async_invitation, server
  <2>2. found \in Sets
    BY <1>0 DEF RoundOK
  <2>3. found' \in Sets /\ \A a, b \in User : b \in found'[a] => b \in found[a]
    BY <2>1, <2>2 DEF Sets, Minus
  <2>4. \A a \in User : found'[a] # {} => found[a] # {}
    BY <2>2, <2>3 DEF Sets
  <2> QED BY <1>0, <2>1, <2>3, <2>4 DEF RoundOK, InHand
<1>4. UNCHANGED <<chunk, heard, referred>>
  BY DEF add_incoming_async_invitation
<1>5. CASE progress[u][v] = "OutgoingAsync" /\ v \notin incoming[u]
  <2>1. /\ SetProgress(u, v, "Complete") /\ delivered' = Plus(delivered, u, v)
        /\ text' = Plus(text, u, v) /\ incoming' = incoming
    BY <1>5, CompleteAsync DEF add_incoming_async_invitation
  <2>2. delivered' \in Sets /\ text' \in Sets
    BY <1>1, <2>1 DEF Sets, Plus
  <2>3. DatabaseOK' /\ ForeignKeys'
    BY <1>0, <1>1, <1>4, <2>1, <2>2, RowSet, Progresses
  <2> QED BY <1>2, <1>3, <2>3 DEF TypeOK
<1>6. CASE ~(progress[u][v] = "OutgoingAsync" /\ v \notin incoming[u])
  <2>1. /\ incoming' \in {incoming, Plus(incoming, u, v)}
        /\ UNCHANGED <<progress, delivered, text>>
    BY <1>6 DEF add_incoming_async_invitation
  <2>2. incoming' \in Sets
    BY <1>1, <2>1 DEF Sets, Plus
  <2>3. DatabaseOK'
    BY <1>0, <1>4, <2>1, <2>2 DEF DatabaseOK
  <2>4. ForeignKeys'
    BY <1>0, <1>4, <2>1, KeysAre
  <2> QED BY <1>2, <1>3, <2>3, <2>4 DEF TypeOK
<1> QED BY <1>5, <1>6

LEMMA RoundTypeOK ==
  ASSUME TypeOK, NEW u \in User, Round(u) PROVE TypeOK'
<1>0. DatabaseOK /\ CallsOK /\ RoundOK /\ ForeignKeys /\ InHand
  BY DEF TypeOK
<1>1. CASE \E v \in User : add_incoming_async_invitation(u, v)
  BY <1>1, FindTypeOK
<1>2. ASSUME UNCHANGED <<base, calls, mishaps>>, RoundOK', InHand' PROVE TypeOK'
  <2>1. DatabaseOK' /\ ForeignKeys'
    BY <1>0, <1>2, DatabaseStays
  <2>2. CallsOK'
    BY <1>0, <1>2, CallsStay
  <2> QED BY <1>2, <2>1, <2>2 DEF TypeOK
<1>3. /\ at \in [User -> Phase] /\ next \in [User -> 0..Rows] /\ found \in Sets
      /\ slot \in [User -> User \cup {0}] /\ mailbox \in [User -> User \cup {0}]
  BY <1>0 DEF RoundOK
<1>4. \A a \in User : found[a] # {} => at[a] = "process"
  BY <1>0 DEF InHand
<1>5. CASE retrieve(u)
  <2>1. /\ UNCHANGED <<base, calls, mishaps>> /\ at[u] = "retrieve"
        /\ at' = [at EXCEPT ![u] = "crawl"] /\ UNCHANGED <<next, found, slot, mailbox>>
    BY <1>5 DEF retrieve, Advance, server
  <2>2. at' \in [User -> Phase]
    BY <1>3, <2>1 DEF Phase
  <2>3. RoundOK'
    BY <1>3, <2>1, <2>2 DEF RoundOK
  <2>4. InHand'
    BY <1>3, <1>4, <2>1 DEF InHand
  <2> QED BY <1>2, <2>1, <2>3, <2>4
<1>6. CASE GetAsyncInvitations(u)
  <2>1. /\ UNCHANGED <<base, calls, mishaps>> /\ at' = [at EXCEPT ![u] = "process"]
        /\ UNCHANGED <<next, slot, mailbox>>
        /\ \E f \in SUBSET User : found' = [found EXCEPT ![u] = f]
    BY <1>6 DEF GetAsyncInvitations, Advance, server
  <2>2. at' \in [User -> Phase] /\ found' \in Sets
    BY <1>3, <2>1 DEF Phase, Sets
  <2>3. RoundOK'
    BY <1>3, <2>1, <2>2 DEF RoundOK
  <2>4. InHand'
    BY <1>3, <1>4, <2>1 DEF InHand, Sets
  <2> QED BY <1>2, <2>1, <2>3, <2>4
<1>7. CASE CrawlFails(u)
  <2>1. /\ UNCHANGED <<base, calls, mishaps>> /\ at[u] = "crawl"
        /\ at' = [at EXCEPT ![u] = "send"] /\ UNCHANGED <<next, found, slot, mailbox>>
    BY <1>7 DEF CrawlFails, Advance, server
  <2>2. at' \in [User -> Phase]
    BY <1>3, <2>1 DEF Phase
  <2>3. RoundOK'
    BY <1>3, <2>1, <2>2 DEF RoundOK
  <2>4. InHand'
    BY <1>3, <1>4, <2>1 DEF InHand
  <2> QED BY <1>2, <2>1, <2>3, <2>4
<1>8. CASE retrieve_async_invitations(u)
  <2>1. /\ UNCHANGED <<base, calls, mishaps>> /\ found[u] = {}
        /\ at' = [at EXCEPT ![u] = "send"] /\ UNCHANGED <<found, slot, mailbox>>
        /\ next' = [next EXCEPT ![u] = IndexAfter(LastOf(next[u]))]
    BY <1>8 DEF retrieve_async_invitations, Advance, server
  <2>2. at' \in [User -> Phase]
    BY <1>3, <2>1 DEF Phase
  <2>3. IndexAfter(LastOf(next[u])) \in 0..Rows
    <3>1. next[u] \in 0..Rows
      BY <1>3
    <3>2. LastOf(next[u]) \in 0..Rows
      BY <3>1, Bounds DEF LastOf
    <3> QED BY <3>2, Bounds DEF IndexAfter
  <2>4. next' \in [User -> 0..Rows]
    BY <1>3, <2>1, <2>3
  <2>5. RoundOK'
    BY <1>3, <2>1, <2>2, <2>4 DEF RoundOK
  <2>6. InHand'
    BY <1>3, <1>4, <2>1 DEF InHand
  <2> QED BY <1>2, <2>1, <2>5, <2>6
<1>9. CASE send(u)
  <2>1. /\ UNCHANGED <<base, calls, mishaps>> /\ at[u] = "send"
        /\ at' = [at EXCEPT ![u] = "invite"] /\ UNCHANGED <<next, found, slot>>
        /\ mailbox' = mailbox \/ mailbox' = [mailbox EXCEPT ![u] = 0]
    BY <1>9 DEF send, Advance
  <2>2. at' \in [User -> Phase] /\ mailbox' \in [User -> User \cup {0}]
    BY <1>3, <2>1 DEF Phase
  <2>3. RoundOK'
    BY <1>3, <2>1, <2>2 DEF RoundOK
  <2>4. InHand'
    BY <1>3, <1>4, <2>1 DEF InHand
  <2> QED BY <1>2, <2>1, <2>3, <2>4
<1>10. CASE transmit_async_invitation(u)
  <2>1. /\ UNCHANGED <<base, calls, mishaps>> /\ at[u] = "invite"
        /\ at' = [at EXCEPT ![u] = "retrieve"] /\ UNCHANGED <<next, found, mailbox>>
        /\ \E v \in User \cup {0} : slot' = [slot EXCEPT ![u] = v]
    BY <1>10 DEF transmit_async_invitation, Advance, get_outgoing_async_invitations
  <2>2. at' \in [User -> Phase] /\ slot' \in [User -> User \cup {0}]
    BY <1>3, <2>1 DEF Phase
  <2>3. RoundOK'
    BY <1>3, <2>1, <2>2 DEF RoundOK
  <2>4. InHand'
    BY <1>3, <1>4, <2>1 DEF InHand
  <2> QED BY <1>2, <2>1, <2>3, <2>4
<1>11. CASE TransmitFails(u)
  <2>1. /\ UNCHANGED <<base, calls, mishaps>> /\ at[u] = "invite"
        /\ at' = [at EXCEPT ![u] = "retrieve"] /\ UNCHANGED <<next, found, slot, mailbox>>
    BY <1>11 DEF TransmitFails, Advance, server
  <2>2. at' \in [User -> Phase]
    BY <1>3, <2>1 DEF Phase
  <2>3. RoundOK'
    BY <1>3, <2>1, <2>2 DEF RoundOK
  <2>4. InHand'
    BY <1>3, <1>4, <2>1 DEF InHand
  <2> QED BY <1>2, <2>1, <2>3, <2>4
<1> QED BY <1>1, <1>5, <1>6, <1>7, <1>8, <1>9, <1>10, <1>11 DEF Round

LEMMA MishapCounts ==
  ASSUME mishaps \in 0..MaxMishaps, Mishap PROVE mishaps' \in 0..MaxMishaps
BY Bounds DEF Mishap

LEMMA RestTypeOK ==
  ASSUME TypeOK, \/ \E u, v \in User : SendInvitationChunk(u, v)
                 \/ \E u \in User : RestartDaemon(u)
                 \/ RestartServer
  PROVE  TypeOK'
<1>0. DatabaseOK /\ CallsOK /\ RoundOK /\ ForeignKeys /\ InHand
  BY DEF TypeOK
<1>1. /\ at \in [User -> Phase] /\ next \in [User -> 0..Rows] /\ found \in Sets
      /\ slot \in [User -> User \cup {0}] /\ mailbox \in [User -> User \cup {0}]
  BY <1>0 DEF RoundOK
<1>2. \A a \in User : found[a] # {} => at[a] = "process"
  BY <1>0 DEF InHand
<1>3. /\ asking \in Sets /\ mishaps \in 0..MaxMishaps
      /\ told \in [User -> [User -> {"", "removed", "not cancelled"}]]
      /\ withdrawn \subseteq User \X User
  BY <1>0 DEF CallsOK
<1>4. Mishap => mishaps' \in 0..MaxMishaps
  BY <1>3, MishapCounts
<1>5. ASSUME NEW u \in User, NEW v \in User, SendInvitationChunk(u, v) PROVE TypeOK'
  <2>1. /\ UNCHANGED base /\ UNCHANGED <<calls, mishaps>> /\ at[u] = "send"
        /\ at' = [at EXCEPT ![u] = "invite"] /\ UNCHANGED <<next, found, slot>>
        /\ mailbox' = [mailbox EXCEPT ![u] = v]
    BY <1>5 DEF SendInvitationChunk, Advance
  <2>2. at' \in [User -> Phase] /\ mailbox' \in [User -> User \cup {0}]
    BY <1>1, <2>1 DEF Phase
  <2>3. RoundOK'
    BY <1>1, <2>1, <2>2 DEF RoundOK
  <2>4. InHand'
    BY <1>1, <1>2, <2>1 DEF InHand
  <2>5. DatabaseOK' /\ ForeignKeys' /\ CallsOK'
    BY <1>0, <2>1, DatabaseStays, CallsStay
  <2> QED BY <2>3, <2>4, <2>5 DEF TypeOK
<1>6. ASSUME NEW u \in User, RestartDaemon(u) PROVE TypeOK'
  <2>1. /\ UNCHANGED base /\ Mishap /\ UNCHANGED <<told, withdrawn, slot, mailbox>>
        /\ at' = [at EXCEPT ![u] = "retrieve"] /\ next' = [next EXCEPT ![u] = 0]
        /\ found' = [found EXCEPT ![u] = {}] /\ asking' = [asking EXCEPT ![u] = {}]
    BY <1>6 DEF RestartDaemon, server
  <2>2. 0 \in 0..Rows
    BY Bounds
  <2>3. /\ at' \in [User -> Phase] /\ next' \in [User -> 0..Rows]
        /\ found' \in Sets /\ asking' \in Sets
    BY <1>1, <1>3, <2>1, <2>2 DEF Phase, Sets
  <2>4. RoundOK'
    BY <1>1, <2>1, <2>3 DEF RoundOK
  <2>5. InHand'
    BY <1>1, <1>2, <2>1 DEF InHand, Sets
  <2>6. CallsOK'
    BY <1>3, <1>4, <2>1, <2>3 DEF CallsOK
  <2>7. DatabaseOK' /\ ForeignKeys'
    BY <1>0, <2>1, DatabaseStays
  <2> QED BY <2>4, <2>5, <2>6, <2>7 DEF TypeOK
<1>7. ASSUME RestartServer PROVE TypeOK'
  <2>1. /\ UNCHANGED base /\ Mishap /\ UNCHANGED <<asking, told, withdrawn, at, next, found>>
        /\ slot' = [u \in User |-> 0] /\ mailbox' = [u \in User |-> 0]
    BY <1>7 DEF RestartServer, calls, round
  <2>2. slot' \in [User -> User \cup {0}] /\ mailbox' \in [User -> User \cup {0}]
    BY <2>1
  <2>3. RoundOK' /\ InHand'
    BY <1>1, <1>2, <2>1, <2>2 DEF RoundOK, InHand
  <2>4. CallsOK'
    BY <1>3, <1>4, <2>1 DEF CallsOK
  <2>5. DatabaseOK' /\ ForeignKeys'
    BY <1>0, <2>1, DatabaseStays
  <2> QED BY <2>3, <2>4, <2>5 DEF TypeOK
<1> QED BY <1>5, <1>6, <1>7

\* The database's foreign keys hold, and every variable has its type, in every state.
THEOREM FriendshipTypeCorrect == Spec => []TypeOK
<1>1. TypeOK /\ [Next]_vars => TypeOK'
  <2> SUFFICES ASSUME TypeOK, [Next]_vars PROVE TypeOK'
    OBVIOUS
  <2>1. CASE Next
    BY <2>1, CallsTypeOK, ReceiveTypeOK, RoundTypeOK, RestTypeOK DEF Next
  <2>2. CASE UNCHANGED vars
    <3>1. /\ UNCHANGED base /\ UNCHANGED <<calls, mishaps>> /\ UNCHANGED <<round, server>>
      BY <2>2 DEF vars
    <3> QED BY <3>1, DatabaseStays, CallsStay, RoundStays DEF TypeOK
  <2> QED BY <2>1, <2>2
<1> QED BY <1>1, InitTypeOK, PTL DEF Spec

-----------------------------------------------------------------------------
(* Friends are mutual.  What u holds of v - an invitation in v's slot, in u's *)
(* batch or in incoming_invitation, a system chunk in v's mailbox, a complete *)
(* friend - always comes from a row that v has or has cancelled.              *)

\* v has u's row, or has cancelled the invitation.
Knows(v, u) == progress[v][u] # "none" \/ <<v, u>> \in withdrawn

\* u holds, or may still read, that v wants to be a friend.
Links(u, v) ==
  slot[v] = u \/ mailbox[v] = u \/ v \in found[u] \/ v \in incoming[u]
    \/ progress[u][v] = "Complete"

Linked == \A u, v \in User : Links(u, v) => Knows(v, u)

\* What u receives from v completes v, or leaves the rows.
LEMMA ReceiveCompletes ==
  ASSUME TypeOK, NEW u \in User, NEW v \in User, Receive(u, v)
  PROVE  /\ SetProgress(u, v, "Complete") \/ progress' = progress
         /\ UNCHANGED <<withdrawn, found, incoming, slot, mailbox>>
<1>1. CASE receive_ack(u, v)
  BY <1>1, CompleteAsync DEF receive_ack, calls, round, server
<1>2. CASE receive_invitation_system_message(u, v)
  <2>1. progress[u][v] \in Progress /\ progress[u][v] # "none"
    BY <1>2, FriendsAre DEF receive_invitation_system_message, TypeOK, DatabaseOK
  <2>2. progress[u][v] \in {"OutgoingSync", "OutgoingAsync", "Complete"}
    BY <2>1 DEF Progress
  <2>3. SetProgress(u, v, "Complete") \/ progress' = progress
    BY <1>2, <2>2, CompleteAsync, CompleteSync DEF receive_invitation_system_message
  <2> QED BY <1>2, <2>3 DEF receive_invitation_system_message, calls, round, server
<1> QED BY <1>1, <1>2 DEF Receive

\* A row that goes leaves its cancellation.
LEMMA KnowsStays ==
  ASSUME TypeOK, [Next]_vars, NEW v \in User, NEW u \in User, Knows(v, u)
  PROVE  Knows(v, u)'
<1>0. DatabaseOK
  BY DEF TypeOK
<1>1. ASSUME NEW a \in User, NEW b \in User, NEW p \in Progress, p # "none",
             SetProgress(a, b, p), withdrawn' = withdrawn
      PROVE  Knows(v, u)'
  <2>1. progress'[v][u] = IF v = a /\ u = b THEN p ELSE progress[v][u]
    BY <1>0, <1>1, ProgressSet
  <2> QED BY <1>1, <2>1 DEF Knows
<1>2. ASSUME UNCHANGED <<progress, withdrawn>> PROVE Knows(v, u)'
  BY <1>2 DEF Knows
<1>3. ASSUME NEW a \in User, NEW b \in User, remove_outgoing_async_invitation(a, b)
      PROVE  Knows(v, u)'
  <2>1. CASE b \in referred[a]
    <3>1. UNCHANGED <<progress, withdrawn>>
      BY <1>3, <2>1 DEF remove_outgoing_async_invitation
    <3> QED BY <1>2, <3>1
  <2>2. CASE b \notin referred[a]
    <3>1. SetProgress(a, b, "none") /\ withdrawn' = withdrawn \cup {<<a, b>>}
      BY <1>3, <2>2 DEF remove_outgoing_async_invitation
    <3>2. progress'[v][u] = IF v = a /\ u = b THEN "none" ELSE progress[v][u]
      BY <1>0, <3>1, ProgressSet, Progresses
    <3> QED BY <3>1, <3>2 DEF Knows
  <2> QED BY <2>1, <2>2
<1>4. ASSUME NEW a \in User, NEW b \in User, Calls(a, b) PROVE Knows(v, u)'
  <2>1. CASE add_outgoing_sync_invitation(a, b)
    BY <2>1, <1>1, Progresses DEF add_outgoing_sync_invitation, InsertInvitation
  <2>2. CASE has_space_for_async_invitations(a, b)
    BY <2>2, <1>2 DEF has_space_for_async_invitations, base
  <2>3. CASE add_outgoing_async_invitation(a, b)
    BY <2>3, <1>1, <1>2, Progresses DEF add_outgoing_async_invitation, InsertInvitation
  <2>4. CASE accept_incoming_invitation(a, b)
    BY <2>4, <1>1, Progresses DEF accept_incoming_invitation
  <2>5. CASE deny_incoming_invitation(a, b)
    BY <2>5, <1>2 DEF deny_incoming_invitation, calls
  <2>6. CASE delete_friend(a, b)
    BY <2>6, <1>2 DEF delete_friend, base
  <2>7. CASE queue_message_to_send(a, b)
    BY <2>7, <1>2 DEF queue_message_to_send, calls
  <2> QED BY <1>3, <1>4, <2>1, <2>2, <2>3, <2>4, <2>5, <2>6, <2>7 DEF Calls
<1>5. ASSUME NEW a \in User, NEW b \in User, Receive(a, b) PROVE Knows(v, u)'
  <2>1. /\ SetProgress(a, b, "Complete") \/ progress' = progress
        /\ withdrawn' = withdrawn
    BY <1>5, ReceiveCompletes
  <2> QED BY <1>1, <1>2, <2>1, Progresses
<1>6. ASSUME NEW a \in User, NEW b \in User, add_incoming_async_invitation(a, b)
      PROVE  Knows(v, u)'
  <2>1. withdrawn' = withdrawn
    BY <1>6 DEF add_incoming_async_invitation, calls
  <2>2. SetProgress(a, b, "Complete") \/ progress' = progress
    BY <1>6 DEF add_incoming_async_invitation, complete_outgoing_async_friend
  <2> QED BY <1>1, <1>2, <2>1, <2>2, Progresses
<1>7. ASSUME NEW a \in User, Round(a) PROVE Knows(v, u)'
  <2>1. ASSUME \/ retrieve(a) \/ GetAsyncInvitations(a) \/ CrawlFails(a)
               \/ retrieve_async_invitations(a) \/ send(a)
               \/ transmit_async_invitation(a) \/ TransmitFails(a)
        PROVE  UNCHANGED <<progress, withdrawn>>
    BY <2>1 DEF retrieve, GetAsyncInvitations, CrawlFails, retrieve_async_invitations, send,
                transmit_async_invitation, TransmitFails, base, calls
  <2> QED BY <1>2, <1>6, <1>7, <2>1 DEF Round
<1>8. ASSUME \/ \E a, b \in User : SendInvitationChunk(a, b)
             \/ \E a \in User : RestartDaemon(a)
             \/ RestartServer \/ UNCHANGED vars
      PROVE  UNCHANGED <<progress, withdrawn>>
  BY <1>8 DEF SendInvitationChunk, RestartDaemon, RestartServer, vars, base, calls
<1> QED BY <1>2, <1>4, <1>5, <1>7, <1>8 DEF Next

\* Nothing says that v wants to be a friend unless something said so before, or v's row does.
LEMMA LinksComeFromRows ==
  ASSUME TypeOK, Linked, [Next]_vars, NEW u \in User, NEW v \in User, Links(u, v)'
  PROVE  Knows(v, u)
<1>0. DatabaseOK /\ RoundOK /\ ForeignKeys
  BY DEF TypeOK
<1>1. /\ slot[v] = u => Knows(v, u)
      /\ mailbox[v] = u => Knows(v, u)
      /\ v \in found[u] => Knows(v, u)
      /\ v \in incoming[u] => Knows(v, u)
      /\ progress[u][v] = "Complete" => Knows(v, u)
  BY DEF Linked, Links
<1>2. /\ incoming \in Sets /\ found \in Sets
      /\ slot \in [User -> User \cup {0}] /\ mailbox \in [User -> User \cup {0}] /\ u # 0
  BY <1>0, Bounds DEF DatabaseOK, RoundOK
<1>3. /\ u \in chunk[v] => Knows(v, u)
      /\ u \in heard[v] => Knows(v, u)
      /\ progress[v][u] = "OutgoingAsync" => Knows(v, u)
  BY <1>0, KeysAre DEF Knows
<1>4. \/ slot'[v] = u \/ mailbox'[v] = u \/ v \in found'[u] \/ v \in incoming'[u]
      \/ progress'[u][v] = "Complete"
  BY DEF Links
\* The row of a becomes p, and the rest stays or shrinks.
<1>5. ASSUME NEW a \in User, NEW b \in User, NEW p \in Progress,
             SetProgress(a, b, p) \/ progress' = progress,
             p = "Complete" => (a = u /\ b = v => Knows(v, u)),
             v \in incoming'[u] => Knows(v, u), v \in found'[u] => Knows(v, u),
             UNCHANGED <<slot, mailbox>>
      PROVE  Knows(v, u)
  <2>1. SetProgress(a, b, p) =>
          progress'[u][v] = IF u = a /\ v = b THEN p ELSE progress[u][v]
    BY <1>0, ProgressSet
  <2> QED BY <1>1, <1>4, <1>5, <2>1
<1>6. ASSUME UNCHANGED <<progress, incoming>>,
             v \in found'[u] => Knows(v, u), slot'[v] = u => Knows(v, u),
             mailbox'[v] = u => Knows(v, u)
      PROVE  Knows(v, u)
  BY <1>1, <1>4, <1>6
<1>7. ASSUME NEW a \in User, NEW b \in User, Calls(a, b) PROVE Knows(v, u)
  <2>1. CASE add_outgoing_sync_invitation(a, b)
    BY <2>1, <1>1, <1>5, Progresses
       DEF add_outgoing_sync_invitation, InsertInvitation, round, server
  <2>2. CASE has_space_for_async_invitations(a, b)
    BY <2>2, <1>1, <1>6 DEF has_space_for_async_invitations, base, round, server
  <2>3. CASE add_outgoing_async_invitation(a, b)
    <3>1. SetProgress(a, b, "OutgoingAsync") \/ progress' = progress
      BY <2>3 DEF add_outgoing_async_invitation, InsertInvitation
    <3> QED BY <2>3, <3>1, <1>1, <1>5, Progresses
            DEF add_outgoing_async_invitation, round, server
  <2>4. CASE accept_incoming_invitation(a, b)
    <3>1. /\ b \in incoming[a] /\ SetProgress(a, b, "Complete")
          /\ incoming' = Minus(incoming, a, b) /\ UNCHANGED <<slot, mailbox, found>>
      BY <2>4 DEF accept_incoming_invitation, round, server
    <3>2. v \in incoming'[u] => v \in incoming[u]
      BY <1>2, <3>1 DEF Minus, Sets
    <3> QED BY <3>1, <3>2, <1>1, <1>5, Progresses
  <2>5. CASE deny_incoming_invitation(a, b)
    <3>1. progress' = progress /\ incoming' = Minus(incoming, a, b)
          /\ UNCHANGED <<slot, mailbox, found>>
      BY <2>5 DEF deny_incoming_invitation, round, server
    <3>2. v \in incoming'[u] => v \in incoming[u]
      BY <1>2, <3>1 DEF Minus, Sets
    <3> QED BY <3>1, <3>2, <1>1, <1>5, Progresses
  <2>6. CASE remove_outgoing_async_invitation(a, b)
    <3>1. /\ SetProgress(a, b, "none") \/ progress' = progress
          /\ UNCHANGED <<incoming, slot, mailbox, found>>
      BY <2>6 DEF remove_outgoing_async_invitation, round, server
    <3> QED BY <3>1, <1>1, <1>5, Progresses
  <2>7. CASE delete_friend(a, b)
    BY <2>7, <1>1, <1>6 DEF delete_friend, base, round, server
  <2>8. CASE queue_message_to_send(a, b)
    BY <2>8, <1>1, <1>6 DEF queue_message_to_send, round, server
  <2> QED BY <1>7, <2>1, <2>2, <2>3, <2>4, <2>5, <2>6, <2>7, <2>8 DEF Calls
<1>8. ASSUME NEW a \in User, NEW b \in User, Receive(a, b) PROVE Knows(v, u)
  <2>1. /\ SetProgress(a, b, "Complete") \/ progress' = progress
        /\ UNCHANGED <<found, incoming, slot, mailbox>>
    BY <1>8, ReceiveCompletes
  <2>2. a = u /\ b = v => u \in heard[v] \/ mailbox[v] = u
    BY <1>8 DEF Receive, receive_ack, receive_invitation_system_message, Acked, IsFor
  <2> QED BY <2>1, <2>2, <1>1, <1>3, <1>5, Progresses
<1>9. ASSUME NEW a \in User, NEW b \in User, add_incoming_async_invitation(a, b)
      PROVE  Knows(v, u)
  <2>1. /\ b \in found[a] /\ found' = Minus(found, a, b) /\ UNCHANGED <<slot, mailbox>>
        /\ SetProgress(a, b, "Complete") \/ progress' = progress
        /\ incoming' = Plus(incoming, a, b) \/ incoming' = incoming
    BY <1>9, CompleteAsync DEF add_incoming_async_invitation, server
  <2>2. v \in found'[u] => v \in found[u]
    BY <1>2, <2>1 DEF Minus, Sets
  <2>3. v \in incoming'[u] => v \in incoming[u] \/ (a = u /\ b = v)
    BY <1>2, <2>1 DEF Plus, Sets
  <2> QED BY <2>1, <2>2, <2>3, <1>1, <1>5, Progresses
<1>10. ASSUME NEW a \in User, Round(a) PROVE Knows(v, u)
  <2>1. CASE retrieve(a) \/ CrawlFails(a) \/ retrieve_async_invitations(a) \/ TransmitFails(a)
    BY <2>1, <1>1, <1>6
       DEF retrieve, CrawlFails, retrieve_async_invitations, TransmitFails, base, server
  <2>2. CASE GetAsyncInvitations(a)
    <3>1. UNCHANGED <<progress, incoming, slot, mailbox>>
          /\ found' = [found EXCEPT ![a] =
                {w \in User : w - 1 \in next[a]..(LastOf(next[a]) - 1) /\ slot[w] = a}]
      BY <2>2 DEF GetAsyncInvitations, base, server
    <3>2. v \in found'[u] => v \in found[u] \/ slot[v] = u
      BY <1>2, <3>1 DEF Sets
    <3> QED BY <3>1, <3>2, <1>1, <1>6
  <2>3. CASE send(a)
    <3>1. /\ UNCHANGED <<progress, incoming, found, slot>>
          /\ mailbox' = mailbox \/ mailbox' = [mailbox EXCEPT ![a] = 0]
      BY <2>3 DEF send, base
    <3>2. mailbox'[v] = u => mailbox[v] = u
      BY <1>2, <3>1
    <3> QED BY <3>1, <3>2, <1>1, <1>6
  <2>4. CASE transmit_async_invitation(a)
    <3>1. /\ UNCHANGED <<progress, incoming, found, mailbox>>
          /\ \E w \in get_outgoing_async_invitations(a) \cup {0} :
               slot' = [slot EXCEPT ![a] = w]
      BY <2>4 DEF transmit_async_invitation, base
    <3>2. slot'[v] = u => slot[v] = u \/ progress[v][u] = "OutgoingAsync"
      BY <1>2, <3>1 DEF get_outgoing_async_invitations
    <3> QED BY <3>1, <3>2, <1>1, <1>3, <1>6
  <2> QED BY <1>9, <1>10, <2>1, <2>2, <2>3, <2>4 DEF Round
<1>11. ASSUME NEW a \in User, NEW b \in User, SendInvitationChunk(a, b) PROVE Knows(v, u)
  <2>1. /\ UNCHANGED <<progress, incoming, found, slot>>
        /\ b \in chunk[a] /\ mailbox' = [mailbox EXCEPT ![a] = b]
    BY <1>11 DEF SendInvitationChunk, base
  <2>2. mailbox'[v] = u => mailbox[v] = u \/ u \in chunk[v]
    BY <1>2, <2>1
  <2> QED BY <2>1, <2>2, <1>1, <1>3, <1>6
<1>12. ASSUME NEW a \in User, RestartDaemon(a) PROVE Knows(v, u)
  <2>1. /\ UNCHANGED <<progress, incoming, mailbox, slot>>
        /\ found' = [found EXCEPT ![a] = {}]
    BY <1>12 DEF RestartDaemon, base, server
  <2>2. v \in found'[u] => v \in found[u]
    BY <1>2, <2>1 DEF Sets
  <2> QED BY <2>1, <2>2, <1>1, <1>6
<1>13. CASE RestartServer
  <2>1. /\ UNCHANGED <<progress, incoming, found>>
        /\ slot'[v] = 0 /\ mailbox'[v] = 0
    BY <1>13 DEF RestartServer, base, round
  <2> QED BY <2>1, <1>1, <1>2, <1>6
<1>14. CASE UNCHANGED vars
  BY <1>14, <1>1, <1>6 DEF vars, base, round, server
<1> QED BY <1>7, <1>8, <1>10, <1>11, <1>12, <1>13, <1>14 DEF Next

LEMMA LinkedStep == TypeOK /\ Linked /\ [Next]_vars => Linked'
<1> SUFFICES ASSUME TypeOK, Linked, [Next]_vars, NEW u \in User, NEW v \in User, Links(u, v)'
             PROVE  Knows(v, u)'
  BY DEF Linked
<1> QED BY LinksComeFromRows, KnowsStays

\* Whoever shows v as a complete friend is in v's database, unless v has cancelled, in
\* every state of every number of users.
THEOREM FriendsMutual == Spec => []FriendsAreMutual
<1>1. Init => Linked
  <2> SUFFICES ASSUME Init, NEW u \in User, NEW v \in User PROVE ~Links(u, v)
    BY DEF Linked
  <2>0. /\ slot = [a \in User |-> 0] /\ mailbox = [a \in User |-> 0]
        /\ found = [a \in User |-> {}] /\ incoming = [a \in User |-> {}]
        /\ progress = [a \in User |-> [b \in User |-> "none"]]
    BY DEF Init
  <2>1. slot[v] = 0 /\ mailbox[v] = 0 /\ u # 0
    BY <2>0, Bounds
  <2>2. found[u] = {} /\ incoming[u] = {} /\ progress[u][v] = "none"
    BY <2>0
  <2> QED BY <2>1, <2>2 DEF Links
<1>2. Linked => FriendsAreMutual
  BY DEF Linked, Links, Knows, FriendsAreMutual, Friends
<1>3. TypeOK /\ Linked /\ [Next]_vars => Linked'
  BY LinkedStep
<1>4. Spec => []Linked
  BY <1>1, <1>3, FriendshipTypeCorrect, PTL DEF Spec
<1> QED BY <1>2, <1>4, PTL

-----------------------------------------------------------------------------
(* Where friends find each other by public ids, no friend asks again.       *)

\* Whom u may not add by his story has no row by a story, and none while he waits to be
\* accepted.
Separate ==
  \A u, v \in User :
    <<u, v>> \notin SyncPairs =>
      /\ progress[u][v] # "OutgoingSync"
      /\ v \in incoming[u] => progress[u][v] = "none"

LEMMA SeparateStep ==
  ASSUME TypeOK, Separate, [Next]_vars PROVE Separate'
<1>0. DatabaseOK /\ incoming \in Sets
  BY DEF TypeOK, DatabaseOK
<1> SUFFICES ASSUME NEW u \in User, NEW v \in User, <<u, v>> \notin SyncPairs
             PROVE  /\ progress'[u][v] # "OutgoingSync"
                    /\ v \in incoming'[u] => progress'[u][v] = "none"
  BY DEF Separate
<1>1. progress[u][v] # "OutgoingSync" /\ (v \in incoming[u] => progress[u][v] = "none")
  BY Zenon DEF Separate
<1> DEFINE Goal == /\ progress'[u][v] # "OutgoingSync"
                   /\ v \in incoming'[u] => progress'[u][v] = "none"
<1>2. ASSUME progress' = progress, v \in incoming'[u] => v \in incoming[u] PROVE Goal
  BY <1>1, <1>2
\* The row of a becomes p, and nobody else waits.
<1>3. ASSUME NEW a \in User, NEW b \in User, NEW p \in Progress, SetProgress(a, b, p),
             a = u /\ b = v => p # "OutgoingSync", v \in incoming'[u] => v \in incoming[u],
             a = u /\ b = v => p = "none" \/ v \notin incoming'[u]
      PROVE  Goal
  <2>1. progress'[u][v] = IF u = a /\ v = b THEN p ELSE progress[u][v]
    BY <1>0, <1>3, ProgressSet
  <2> QED BY <1>1, <1>3, <2>1
<1>4. ASSUME NEW a \in User, NEW b \in User, Calls(a, b) PROVE Goal
  <2>1. CASE add_outgoing_sync_invitation(a, b)
    <3>1. /\ <<a, b>> \in SyncPairs /\ SetProgress(a, b, "OutgoingSync")
          /\ incoming' = incoming
      BY <2>1 DEF add_outgoing_sync_invitation, InsertInvitation
    <3>2. ~(a = u /\ b = v)
      BY <3>1
    <3> QED BY <3>1, <3>2, <1>3, Progresses
  <2>2. CASE has_space_for_async_invitations(a, b)
    BY <2>2, <1>2 DEF has_space_for_async_invitations, base
  <2>3. CASE add_outgoing_async_invitation(a, b)
    <3>1. incoming' = incoming
      BY <2>3 DEF add_outgoing_async_invitation
    <3>2. \/ progress' = progress
          \/ SetProgress(a, b, "OutgoingAsync") /\ b \notin incoming[a]
      BY <2>3 DEF add_outgoing_async_invitation, InsertInvitation, HasInvited
    <3> QED BY <3>1, <3>2, <1>2, <1>3, Progresses
  <2>4. CASE accept_incoming_invitation(a, b)
    <3>1. SetProgress(a, b, "Complete") /\ incoming' = Minus(incoming, a, b)
      BY <2>4 DEF accept_incoming_invitation
    <3>2. /\ v \in incoming'[u] => v \in incoming[u]
          /\ a = u /\ b = v => v \notin incoming'[u]
      BY <1>0, <3>1 DEF Minus, Sets
    <3> QED BY <3>1, <3>2, <1>3, Progresses
  <2>5. CASE deny_incoming_invitation(a, b)
    <3>1. progress' = progress /\ incoming' = Minus(incoming, a, b)
      BY <2>5 DEF deny_incoming_invitation
    <3>2. v \in incoming'[u] => v \in incoming[u]
      BY <1>0, <3>1 DEF Minus, Sets
    <3> QED BY <3>1, <3>2, <1>2
  <2>6. CASE remove_outgoing_async_invitation(a, b)
    <3>1. /\ SetProgress(a, b, "none") \/ progress' = progress
          /\ incoming' = incoming
      BY <2>6 DEF remove_outgoing_async_invitation
    <3> QED BY <3>1, <1>2, <1>3, Progresses
  <2>7. CASE delete_friend(a, b)
    BY <2>7, <1>2 DEF delete_friend, base
  <2>8. CASE queue_message_to_send(a, b)
    BY <2>8, <1>2 DEF queue_message_to_send
  <2> QED BY <1>4, <2>1, <2>2, <2>3, <2>4, <2>5, <2>6, <2>7, <2>8 DEF Calls
<1>5. ASSUME NEW a \in User, NEW b \in User, Receive(a, b) PROVE Goal
  <2>1. /\ SetProgress(a, b, "Complete") \/ progress' = progress
        /\ incoming' = incoming
    BY <1>5, ReceiveCompletes
  <2>2. progress[a][b] # "none"
    <3>1. CASE receive_ack(a, b)
      BY <3>1, KeysAre DEF receive_ack, TypeOK
    <3>2. CASE receive_invitation_system_message(a, b)
      BY <3>2, FriendsAre DEF receive_invitation_system_message
    <3> QED BY <1>5, <3>1, <3>2 DEF Receive
  <2>3. a = u /\ b = v => v \notin incoming'[u]
    BY <2>1, <2>2, <1>1
  <2> QED BY <2>1, <2>3, <1>2, <1>3, Progresses
<1>6. ASSUME NEW a \in User, NEW b \in User, add_incoming_async_invitation(a, b) PROVE Goal
  <2>1. CASE b \in incoming[a] \/ progress[a][b] = "Complete"
    BY <1>6, <2>1, <1>2 DEF add_incoming_async_invitation
  <2>2. CASE ~(b \in incoming[a] \/ progress[a][b] = "Complete") /\ progress[a][b] = "OutgoingAsync"
    <3>1. SetProgress(a, b, "Complete") /\ incoming' = incoming
      BY <1>6, <2>2, CompleteAsync DEF add_incoming_async_invitation
    <3> QED BY <3>1, <2>2, <1>3, Progresses
  <2>3. CASE progress[a][b] # "Complete" /\ progress[a][b] # "OutgoingAsync" /\ b \notin incoming[a]
    <3>1. progress' = progress /\ incoming' = Plus(incoming, a, b)
      BY <1>6, <2>3 DEF add_incoming_async_invitation
    <3>2. progress[a][b] \in Progress
      BY <1>0 DEF DatabaseOK
    <3>3. a = u /\ b = v => progress[a][b] = "none"
      BY <3>2, <2>3, <1>1 DEF Progress
    <3>4. v \in incoming'[u] => v \in incoming[u] \/ (a = u /\ b = v)
      BY <1>0, <3>1 DEF Plus, Sets
    <3> QED BY <3>1, <3>3, <3>4, <1>1
  <2> QED BY <2>1, <2>2, <2>3
<1>7. ASSUME NEW a \in User, Round(a) PROVE Goal
  <2>1. ASSUME \/ retrieve(a) \/ GetAsyncInvitations(a) \/ CrawlFails(a)
               \/ retrieve_async_invitations(a) \/ send(a)
               \/ transmit_async_invitation(a) \/ TransmitFails(a)
        PROVE  UNCHANGED <<progress, incoming>>
    BY <2>1 DEF retrieve, GetAsyncInvitations, CrawlFails, retrieve_async_invitations, send,
                transmit_async_invitation, TransmitFails, base
  <2> QED BY <1>2, <1>6, <1>7, <2>1 DEF Round
<1>8. ASSUME \/ \E a, b \in User : SendInvitationChunk(a, b)
             \/ \E a \in User : RestartDaemon(a)
             \/ RestartServer \/ UNCHANGED vars
      PROVE  UNCHANGED <<progress, incoming>>
  BY <1>8 DEF SendInvitationChunk, RestartDaemon, RestartServer, vars, base
<1> QED BY <1>2, <1>4, <1>5, <1>7, <1>8 DEF Next

\* Nobody is asked to accept a friend he has or has invited by his public id, whichever way
\* the crawl and the two steps of AddAsyncFriend interleave.
THEOREM IncomingCorrect == Spec => []IncomingIsNoFriend
<1>1. Init => Separate
  <2>1. Init => /\ incoming = [a \in User |-> {}]
                /\ progress = [a \in User |-> [b \in User |-> "none"]]
    BY DEF Init
  <2> QED BY <2>1 DEF Separate
<1>2. Separate => IncomingIsNoFriend
  <2> SUFFICES ASSUME Separate, NEW u \in User, NEW v \in incoming[u] \cap Friends(u)
               PROVE  <<u, v>> \in SyncPairs
    BY DEF IncomingIsNoFriend
  <2>1. v \in User /\ progress[u][v] # "none" /\ v \in incoming[u]
    BY DEF Friends
  <2> QED BY <2>1, Zenon DEF Separate
<1>3. TypeOK /\ Separate /\ [Next]_vars => Separate'
  BY SeparateStep
<1>4. Spec => []Separate
  BY <1>1, <1>3, FriendshipTypeCorrect, PTL DEF Spec
<1> QED BY <1>2, <1>4, PTL

-----------------------------------------------------------------------------
(* What becomes of the invitation's text.                                  *)

\* A complete friend has left us his text, or has read ours, or was added by his story; and
\* only a friend added by his story waits to be completed without either.
Accounted ==
  \A u, v \in User :
    /\ progress[u][v] = "OutgoingSync" => <<u, v>> \in SyncPairs
    /\ progress[u][v] = "Complete" =>
         v \in text[u] \/ v \in delivered[u] \/ <<u, v>> \in SyncPairs

LEMMA AccountedStep ==
  ASSUME TypeOK, Accounted, [Next]_vars PROVE Accounted'
<1>0. DatabaseOK /\ delivered \in Sets /\ text \in Sets
  BY DEF TypeOK, DatabaseOK
<1> SUFFICES ASSUME NEW u \in User, NEW v \in User
             PROVE  /\ progress'[u][v] = "OutgoingSync" => <<u, v>> \in SyncPairs
                    /\ progress'[u][v] = "Complete" =>
                         v \in text'[u] \/ v \in delivered'[u] \/ <<u, v>> \in SyncPairs
  BY DEF Accounted
<1>1. /\ progress[u][v] = "OutgoingSync" => <<u, v>> \in SyncPairs
      /\ progress[u][v] = "Complete" =>
           v \in text[u] \/ v \in delivered[u] \/ <<u, v>> \in SyncPairs
  BY DEF Accounted
<1> DEFINE Goal == /\ progress'[u][v] = "OutgoingSync" => <<u, v>> \in SyncPairs
                   /\ progress'[u][v] = "Complete" =>
                        v \in text'[u] \/ v \in delivered'[u] \/ <<u, v>> \in SyncPairs
           Kept == /\ v \in text[u] => v \in text'[u]
                   /\ v \in delivered[u] => v \in delivered'[u]
<1>2. ASSUME progress' = progress, Kept PROVE Goal
  BY <1>1, <1>2
\* The row of a becomes p, which is accounted for.
<1>3. ASSUME NEW a \in User, NEW b \in User, NEW p \in Progress, SetProgress(a, b, p), Kept,
             a = u /\ b = v =>
               /\ p = "OutgoingSync" => <<u, v>> \in SyncPairs
               /\ p = "Complete" => v \in text'[u] \/ v \in delivered'[u] \/ <<u, v>> \in SyncPairs
      PROVE  Goal
  <2>1. progress'[u][v] = IF u = a /\ v = b THEN p ELSE progress[u][v]
    BY <1>0, <1>3, ProgressSet
  <2> QED BY <1>1, <1>3, <2>1
<1> HIDE DEF Goal
\* An asynchronous invitation is completed: its text has been read.
<1>4. ASSUME NEW a \in User, NEW b \in User, complete_outgoing_async_friend(a, b),
             v \in text[u] => v \in text'[u]
      PROVE  Goal
  <2>1. SetProgress(a, b, "Complete") /\ delivered' = Plus(delivered, a, b)
    BY <1>4, CompleteAsync
  <2>2. v \in delivered'[u] <=> v \in delivered[u] \/ (u = a /\ v = b)
    BY <1>0, <2>1, SetsPlus
  <2> QED BY <1>3, <1>4, <2>1, <2>2, Progresses
<1>5. ASSUME NEW a \in User, NEW b \in User, Calls(a, b) PROVE Goal
  <2>1. CASE add_outgoing_sync_invitation(a, b)
    <3>1. /\ <<a, b>> \in SyncPairs /\ SetProgress(a, b, "OutgoingSync")
          /\ UNCHANGED <<delivered, text>>
      BY <2>1 DEF add_outgoing_sync_invitation, InsertInvitation
    <3> QED BY <3>1, <1>3, Progresses
  <2>2. CASE has_space_for_async_invitations(a, b)
    BY <2>2, <1>2 DEF has_space_for_async_invitations, base
  <2>3. CASE add_outgoing_async_invitation(a, b)
    <3>1. /\ SetProgress(a, b, "OutgoingAsync") \/ progress' = progress
          /\ UNCHANGED <<delivered, text>>
      BY <2>3 DEF add_outgoing_async_invitation, InsertInvitation
    <3> QED BY <3>1, <1>2, <1>3, Progresses
  <2>4. CASE accept_incoming_invitation(a, b)
    <3>1. /\ SetProgress(a, b, "Complete") /\ text' = Plus(text, a, b)
          /\ delivered' = delivered
      BY <2>4 DEF accept_incoming_invitation
    <3>2. v \in text'[u] <=> v \in text[u] \/ (u = a /\ v = b)
      BY <1>0, <3>1, SetsPlus
    <3> QED BY <3>1, <3>2, <1>3, Progresses
  <2>5. CASE deny_incoming_invitation(a, b)
    BY <2>5, <1>2 DEF deny_incoming_invitation
  <2>6. CASE remove_outgoing_async_invitation(a, b)
    <3>1. /\ SetProgress(a, b, "none") \/ progress' = progress
          /\ UNCHANGED <<delivered, text>>
      BY <2>6 DEF remove_outgoing_async_invitation
    <3> QED BY <3>1, <1>2, <1>3, Progresses
  <2>7. CASE delete_friend(a, b)
    BY <2>7, <1>2 DEF delete_friend, base
  <2>8. CASE queue_message_to_send(a, b)
    BY <2>8, <1>2 DEF queue_message_to_send
  <2> QED BY <1>5, <2>1, <2>2, <2>3, <2>4, <2>5, <2>6, <2>7, <2>8 DEF Calls
<1>6. ASSUME NEW a \in User, NEW b \in User, receive_ack(a, b) PROVE Goal
  <2>1. text' = text
    BY <1>6 DEF receive_ack
  <2>2. complete_outgoing_async_friend(a, b) \/ UNCHANGED <<progress, delivered>>
    BY <1>6 DEF receive_ack
  <2> QED BY <2>1, <2>2, <1>2, <1>4
<1>7. ASSUME NEW a \in User, NEW b \in User, receive_invitation_system_message(a, b) PROVE Goal
  <2>1. text' = text
    BY <1>7 DEF receive_invitation_system_message
  <2>2. progress[a][b] \in {"OutgoingSync", "OutgoingAsync", "Complete"}
    <3>1. progress[a][b] \in Progress /\ progress[a][b] # "none"
      BY <1>0, <1>7, FriendsAre DEF receive_invitation_system_message, DatabaseOK
    <3> QED BY <3>1 DEF Progress
  <2>3. CASE progress[a][b] = "OutgoingSync"
    <3>1. SetProgress(a, b, "Complete") /\ delivered' = delivered
      BY <1>7, <2>3, CompleteSync DEF receive_invitation_system_message
    <3>2. a = u /\ b = v => <<u, v>> \in SyncPairs
      BY <2>3, <1>1
    <3> QED BY <3>1, <3>2, <2>1, <1>3, Progresses
  <2>4. CASE progress[a][b] = "OutgoingAsync"
    <3>1. complete_outgoing_async_friend(a, b)
      BY <1>7, <2>4 DEF receive_invitation_system_message
    <3> QED BY <3>1, <2>1, <1>4
  <2>5. CASE progress[a][b] = "Complete"
    <3>1. UNCHANGED <<progress, delivered>>
      BY <1>7, <2>5 DEF receive_invitation_system_message
    <3> QED BY <3>1, <2>1, <1>2
  <2> QED BY <2>2, <2>3, <2>4, <2>5
<1>8. ASSUME NEW a \in User, NEW b \in User, add_incoming_async_invitation(a, b) PROVE Goal
  <2>1. \/ UNCHANGED <<progress, delivered, text>>
        \/ complete_outgoing_async_friend(a, b) /\ text' = Plus(text, a, b)
    BY <1>8 DEF add_incoming_async_invitation
  <2>2. text' = Plus(text, a, b) => (v \in text[u] => v \in text'[u])
    BY <1>0, SetsPlus
  <2> QED BY <2>1, <2>2, <1>2, <1>4
<1>9. ASSUME NEW a \in User, Round(a) PROVE Goal
  <2>1. ASSUME \/ retrieve(a) \/ GetAsyncInvitations(a) \/ CrawlFails(a)
               \/ retrieve_async_invitations(a) \/ send(a)
               \/ transmit_async_invitation(a) \/ TransmitFails(a)
        PROVE  UNCHANGED <<progress, delivered, text>>
    BY <2>1 DEF retrieve, GetAsyncInvitations, CrawlFails, retrieve_async_invitations, send,
                transmit_async_invitation, TransmitFails, base
  <2> QED BY <1>2, <1>8, <1>9, <2>1 DEF Round
<1>10. ASSUME \/ \E a, b \in User : SendInvitationChunk(a, b)
              \/ \E a \in User : RestartDaemon(a)
              \/ RestartServer \/ UNCHANGED vars
       PROVE  UNCHANGED <<progress, delivered, text>>
  BY <1>10 DEF SendInvitationChunk, RestartDaemon, RestartServer, vars, base
<1>11. Goal
  BY <1>2, <1>5, <1>6, <1>7, <1>9, <1>10 DEF Next, Receive
<1> QED BY <1>11 DEF Goal

\* An invitation shown as delivered is one whose text the friend has as soon as he is a
\* friend, unless his own invitation crossed it or he may add us by our story: for any
\* number of users, however calls, acks, system chunks, the crawl and restarts interleave.
THEOREM TextIsRead == Spec => []DeliveredIsRead
<1>1. Init => Accounted
  <2>1. Init => progress = [a \in User |-> [b \in User |-> "none"]]
    BY DEF Init
  <2> QED BY <2>1 DEF Accounted
<1>2. Accounted => DeliveredIsRead
  BY DEF Accounted, DeliveredIsRead
<1>3. TypeOK /\ Accounted /\ [Next]_vars => Accounted'
  BY AccountedStep
<1>4. Spec => []Accounted
  BY <1>1, <1>3, FriendshipTypeCorrect, PTL DEF Spec
<1> QED BY <1>2, <1>4, PTL

=============================================================================
