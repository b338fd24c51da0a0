# Verification of Anysphere Messaging

Anysphere is a messenger that hides who talks to whom. Every user runs a
**daemon**; a single **server** keeps one mailbox per user. In every round a daemon
writes one encrypted chunk and one row of acknowledgements to its own mailbox,
real or dummy, and reads the mailboxes of some friends by private information
retrieval (PIR), so that the server learns neither who is written to nor who is
read. Delivery rests on a small stop-and-wait protocol between the databases
of two daemons, run over these mailboxes.

This directory holds TLA+ modules for that system, the TLC configurations that
check them, and proofs checked by TLAPS.

Messages, from one database to the other:

    ClientDb        the transport tables of one SQLite database per daemon and
                    every transaction that changes them, over any network
    MessageChannel  what the messenger promises its users (abstract)
    Transmitter     the transmitter threads, the server's mailboxes, faults and
                    restarts, over the databases of ClientDb

`Transmitter` implements `ClientDb` (property `ImplementsDb`), and `ClientDb`
implements `MessageChannel` (property `ImplementsChannel`). TLC checks both on
small instances and TLAPS proves both for all.

Around them, each on its own:

    Friendship      two users become friends: invitations, stories, the crawl
    Registration    accounts and mailboxes at the server
    FastPir         the memory of the mailboxes under unlocked threads
    Watchdog        the thread that kills a stuck daemon
    MessageStream   from the database to the screen: streams and notifications
    MessageFeed     what the screen promises its user (abstract)
    GuiRpc          the calls of the graphical client, with Protobuf (types of
                    messages), Codec (what the generated classes do), DaemonStub
                    and DaemonProto (the client's and the daemon's messages)
    MainWindow      tabs and messages being composed, with Tabs
    Dialogs         dialogs, command bar and status line
    AddFriend       two people who sit together add each other
    StoryAnimation  the clock of the animation they compare
    Parts           all of this list but Friendship and MessageFeed, side by side

`MessageStream` implements `MessageFeed` (part of `ScreenKeepsPromise`).

Proofs are in `ClientDbProofs`, `DeliveryProofs`, `TransmitterProofs` and
`FriendshipProofs`, and about the other parts in `DaemonProofs` (registration,
watchdog, codec, calls), `FastPirProofs`, `MessageStreamProofs` and `GuiProofs` (tabs, the
dialog of two people, the animation, the dialogs, all parts together); `MC...` are the
instances for TLC. `Parts` has all nine parts, which is why their names differ (`PirInit`,
`StreamInit`, ...): they share no variable, and in `MCParts` one of them moves in each
behaviour.

## 1. The system

Paths are relative to the root of the repository.

### Components

| component | where | state it keeps | operations that change it |
|---|---|---|---|
| client database, transport | `client/daemon/db/db.rs`, `migrations/*/up.sql` | `outgoing_chunk`, `incoming_chunk`, `sent`, `sent_friend`, `received`, `received_chunks`, `transmission` | `queue_message_to_send`, `receive_ack`, `receive_chunk`, `receive_invitation_system_message` |
| client database, friends | the same | `friend`, `complete_friend`, `outgoing_*_invitation`, `incoming_invitation`, `transmission` | add, accept, deny, cancel, delete; completion by ack or by crawl |
| client database, the rest | the same | `config`, `registration`, `draft` | single-row updates, listings |
| transmitter | `client/daemon/transmitter/` | three cached friend names, the replies of a round | `retrieve`, `send`, and the async-invitation halves of both |
| main loop, watchdogs | `client/daemon/main.cc`, `global.*` | latency, kill flag, time of last transmission | start, sleep, kill the process |
| daemon RPC | `client/daemon/rpc/daemon_rpc.cc` | none of its own; streams keep a cursor | send, invite, list, stream |
| server mailboxes | `server/src/server_rpc.cc` | two PIR databases in memory | `SendMessage`, `ReceiveMessage`, restart |
| server registration | the same, `account_manager.hpp`, `beta_key_auth.hpp` | accounts in PostgreSQL, allocated rows | `Register`, restart |
| server async invitations | `async_invitation_database.*` | table of encrypted invitations | add, get in batches |
| PIR | `server/pir/fast_pir/`, `asphr/pir/fast_pir/` | row store and its encoded copy | `allocate`, `set_value`, `update_seal_db`, `get_value_privately` |
| cryptography | `client/daemon/crypto/` | none | encrypt, decrypt, pad, derive |
| chunk handler | `client/daemon/chunk_handler/` | none | split and join a message |
| identifiers | `client/daemon/identifier/` | none | base58, public ids, stories |
| client library, CLI | `client/client_lib`, `client/cli` | none | front ends of the RPCs |
| graphical client | `client/gui/src` | tabs, dialogs, lists, forms; whether it was told of a registration | calls and streams of the RPCs, timers, keys |

### How they interact

* The transmitter thread, the RPC threads and the watchdogs of one daemon share
  the SQLite database; each database call is one transaction. Between two
  transactions of a round the RPC threads may queue messages.
* A daemon talks to the server by four RPCs. `SendMessage` writes the row of the
  caller in two databases, one after the other; `ReceiveMessage` reads two
  rows the same way. The handlers run in parallel.
* Two daemons never talk to each other except through the mailboxes and the
  invitations. An ack row has one entry per friend, each encrypted for that friend.
* Every daemon leaves one asynchronous invitation, real or dummy, in its slot at
  the server, and reads the slots of all users batch by batch.
* The handlers of the server share its databases in memory without locks.
* The graphical client calls the daemon's RPCs. Two of its calls are streams: the
  list of messages and the notifications, whose threads in the daemon sleep on a
  condition variable that the transmitter notifies.

### What is hard

* A mailbox holds **one** chunk. It is overwritten in every round, by a chunk
  for whichever friend was chosen; the reader may see it many times or never.
* Replies are old: chunk and ack of one reply are read at two moments, are
  processed after all queries of the round are over, and the request that wrote them
  may have been given up by its client long before the server executed it.
* Any process may stop between any two transactions. The daemon keeps its
  database, the server keeps no mailbox.
* Sequence numbers are computed from whichever of two tables has the answer.
* Whom to write to and whom to read is steered by three cached names that
  survive failed rounds but not restarts.
* Two invitations may cross, and each side may complete by an ack, a system chunk,
  the crawl, or its user, in any order.
* Handlers of the server read and write memory side by side.
* Timestamps from a wall clock are used as an order and as a cursor.
* Answers and timers come when the window has gone elsewhere; callbacks keep the
  state of the render in which they were made.

### What makes each component correct

* *Client database*: messages arrive whole, exactly once, in the order of
  queueing; what is outstanding is exactly what is not acked; a message is shown as
  delivered only if it was; no transaction fails on what the network can hand
  to it; every invitation completes.
* *Transmitter and mailboxes*: whatever is under way is covered by its sender's
  database; nothing acked is ever lost; every unacked chunk is retried.
* *Friends*: nobody is a complete friend of someone who does not know it; nobody
  is asked to accept a friend; an invitation is found; both sides settle.
* *Registration, PIR*: no two users share a row, before and after restarts; a
  stored message is what is read; nobody reads another mailbox.
* *Message stream*: every message reaches the list, once, in order; every new one
  is notified once, no old one is; no wakeup is lost; threads end.
* *Watchdog*: a stuck daemon is killed, a healthy one never.
* *Graphical client*: what arrives at the daemon is what the window passed; an
  answer changes what it is about and nothing else; the selected tab exists; an
  animation ends as the user wanted; who is added is who told the story.

## 2. The modules

### ClientDb

One database per daemon; `table[u][v]` is what the database of `u` holds about
friend `v`. Rows are records reduced to what the protocol looks at: a chunk is
its message, its sequence number and the `chunks_start_sequence_number` and
`num_chunks` of its message, its content being determined by those.

| in the model | in the code |
|---|---|
| `progress` | `friend.invitation_progress` |
| `outgoing_chunk`, `incoming_chunk` | the tables of that name |
| `sent_acked_seqnum`, `received_seqnum` | columns of `transmission` |
| `received[u][v]` | `received` rows with `delivered`, by `delivered_at`, each with its `received_chunks` |
| `recipients`, `delivered` | `sent_friend` rows and their flag |
| `queued` | history: the stretch of sequence numbers given to each message |
| `QueueMessage` | `queue_message_to_send`, with `get_seqnum_for_new_chunk` |
| `ReceiveAck` | `receive_ack`, from its early return to the invitation it may complete |
| `ReceiveChunk` | `receive_chunk`, with `update_sequence_number` and the assembly |
| `ReceiveInvitation` | `receive_invitation_system_message` for someone already invited |
| `MayBeSent`, `AcksToSend` (in `Transmitter`) | `chunk_to_send`, `acks_to_send` |

The friends are those of `InitProgress`: one daemon invites another
synchronously or asynchronously and queues the invitation as its first system
chunk, or accepts the other's asynchronous invitation and queues nothing. That is
why the two directions of a link may start at different numbers.

`DbNext` is the network at its worst: in any step a transaction may get any ack
the friend may have published so far and any chunk the friend may have sent so far.
`SentChunks` is what `chunk_to_send` can have let out: the first outstanding
chunk, at any time in the past.

Left out: the row of `sent` that completing an asynchronous friend inserts and
the undelivered row of `received` before assembly (both are functions of other
state); timestamps, except that `delivered_at` orders `received`; the return on
`sequence_number == 0`, which honest peers never cause because dummies are
encrypted under keys nobody holds.

### MessageChannel

What users may rely on: `Submit` hands a message over for some friends,
`Deliver` appends the next one to the friend's inbox, `Confirm` shows it as
delivered to a friend who has it. `ClientDb` maps to it by `Handed` (the
messages of `queued`), `Got` (the message each inbox entry is made of, provided
its rows are exactly the pieces of one) and `delivered`.

### Transmitter

The threads and the server as state machines over the same databases.

| in the model | in the code |
|---|---|
| `pc` = sleep, retrieve, ack, chunk | where the thread is in `main`'s loop, `retrieve()` and `send()` |
| `StartRound`, `ReceiveAddresses` | choice of friends at the top of `retrieve()` |
| `ReadPir`, `ReadPirAcks`, `RetrieveFails` | `batch_retrieve_pir` on one side and the two halves of `ReceiveMessage` on the other |
| `ProcessAck`, `ProcessChunk`, `InvitationFails`, `RoundFails` | steps 3(a) and 3(b) of `retrieve()` and their error paths |
| `SendTo`, `SendNothing`, `SendFails`, `AcksFail` | `send()` and its error paths |
| `requests`, `WritePir`, `WritePirAcks`, `RequestLost` | `SendMessage` under way, and its two writes |
| `Crash`, `ServerRestart` | the process ends and starts again |
| `Submit` | the RPC `SendMessage` of the daemon |

Decisions worth knowing:

* **Encryption** is who can read: mail names its reader, entry `v` of an ack row
  is for `v`, a dummy and a zeroed row are readable by nobody.
* **Time-outs.** The client's 60-second deadline ends its wait, not the server's
  work. So the thread may start its next round with a request still in a `Slot`;
  with two slots a late request is written after its successor.
* **Dummies** are queried like friends and their replies skipped, so they only
  shorten `todo`.
* `send()` reads the database twice. The first read sees the sending side only,
  the second only `received_seqnum`, which no other thread changes, so they
  are one step.
* A database error leaves `retrieve()` at once and `send()` is not called;
  an error on an invitation system message is logged and skipped.

Left to other modules: `transmit_async_invitation` and
`retrieve_async_invitations` at the ends of `send()` and `retrieve()`
(`Friendship`); the unlocked memory below a mailbox write, which is atomic here
(`FastPir`).

### Friendship

One database per user, reduced to the progress of each friend, plus the
transmitter's round in phases and the server's slots.

| in the model | in the code |
|---|---|
| `progress` | `friend.invitation_progress`, "none" without a row |
| `chunk`, `heard` | the system chunk in `outgoing_chunk`, and its receipt, which is acked |
| `incoming` | `incoming_invitation` |
| `referred` | rows that refer to the friend by foreign key |
| `delivered`, `text` | the invitation's text as a sent and as a received message |
| `asking` | calls of `add_outgoing_async_invitation` between the look for space and the insert |
| `told` | answers of `RemoveFriend` and `CancelAsyncInvitation` |
| `at`, `next`, `found` | the transmitter's phase, `next_async_invitation_retrieve_index`, the batch in hand |
| `slot`, `mailbox` | the server's invitation slot and mailbox of each user |
| the actions | the transactions of `db.rs` and the steps of `transmitter.cc` of the same names |

The transport of the system chunk, which `Transmitter` has in full, is one value
that is read or not. An invitation is for whom it decrypts, so `slot[u]` names a
user. A call may come between any two transactions of the round. Denying,
cancelling and restarting are bounded together by `MaxMishaps`.

### Registration

`RegisterUser` of a daemon starts a call of `Register`, whose steps are the two
unlocked allocations (each a load and a store), the insert into the accounts
(which may fail), the key of the invitations, and the answer. Handlers run side by side:
another daemon's call may come between any two of these steps, or the same daemon's, when it
gave up and asked again. `Restart` takes the server back to its accounts, from which
`allocate_to_max` gives out the rows again. `Publish` is the invitation that ends
every round and brings the key back. `collided` and `interleaved` are history: whether two
calls were ever inside `allocate` of one database, and whether one allocated between the two
allocations of another since the server started.

### FastPir

`db` is the matrix, `seal_db` its encoding in blocks of `seal_slot_count` rows and
`SEAL_DB_COLUMNS` columns. `set_value` copies its row part by part and then encodes every
column of its block, for which `get_submatrix_as_uint64s` lengthens the matrix by
four bytes and shortens it again: `LoadSize`, `Pad`, `Read`, `LoadSize`, `Pop`, each
a step, since nothing is locked. A load and a store of the size are two steps, which
is what a data race on `std::vector`'s end can produce; `excess` is how far it has
gone astray. `alone` and `raced` are history: which threads write with no other beside
them, and whether two ever wrote at a time. A part is whose it is and which of its values, the homomorphic
encoding a copy.

### Watchdog

Time passes in minutes. `main` waits for the ping of the transmitter and then for that of the
thread that calls the daemon's own RPC server. Its timeout is computed once, when the
iteration begins, and serves for both waits (`AwaitNext`); the transmitter and the other
thread read the latency for themselves, before each sleep, and keep what they read
(`Sleeps`; it is also the deadline of `CallServer`). After an error of the database the
transmitter pauses, and so does one that cannot read the latency (`EndPause`). `read` is
history: the latency the main thread took its timeout from. `MinutePasses` waits for whatever
is due. An error of the database in the main thread or in the one that calls the server ends
the process at once, as the exception is not caught there, and is left out.

### MessageStream

`stream` is one thread of `GetMessagesStreamed` each, from `opened` over the wait on the
condition variable (`top`, `asleep`, `woken`) to the query and the write.
`notifying` is the moment between the transmitter's commit and its `notify_all`.
`list` and `notifier` are the two callers in the graphical client. `delivered_at` is a
tick of a wall clock that `SetBack` may take back.

### MessageFeed

What of this the user sees: when each message arrived (`at`), the messages `listed` and those
`notified`. A list that is opened is empty, and takes on top only what is newer than all it
shows; while the clock is `steady` a list of all messages takes everything up to the
newest it takes. The notifications take what they have not had. Streams, threads, responses and
restarts do not occur. `MessageStream` maps to it by the messages in `list` and in `shown`,
and by whether `SetBack` ever happened.

### GuiRpc, Protobuf, Codec, DaemonStub, DaemonProto

The type of a message is the sequence of its fields (`Protobuf`), and `Codec` is what the
generated classes do with it: `serializeBinary`, `deserializeBinary`, `toObject`, with
proto3's rule that a default is not written. The generated code of a message calls that of
the messages in it; they nest twice at most, so `Codec` has it at three levels, each with the
level below as a parameter. `IsMessage` says what a message is that the window or the daemon
fills in; which of them occur is the constant `MessageOf`, for TLC the samples
of `MCParts`. `DaemonStub` has the types as `daemon_pb.js` and `daemon_grpc_pb.js` have
them, which are checked in and not regenerated; `DaemonProto` as `daemon.proto` has
them. `GuiRpc` sends every method of `DaemonImpl` from the one to the other and the
answer back, with refusals, restarts and the two checks of a registration.

### Tabs, MainWindow, Dialogs

`Tabs` is `useTabs`, operation by operation, with JavaScript's `findIndex` and remainder.
`MainWindow` is what the user does with them in `Main` and `Write`: a callback made at
an earlier render carries that render's state (`sends[i].previous`, the first
render's tabs in `NextTabCommand`), and `Mounted` is React's rule of when an editor
is kept. `Dialogs` has the dialog, the command bar with its animation timer, and the
status line with its timers; calls under way are counted by how far they are. An event and the effects that follow it are one step; timers
and answers are steps of their own.

### AddFriend, StoryAnimation

`AddFriend` is `AddFriendInPerson` in two windows and what the two people tell each
other. A line of the form is blank, what the other told, or something else; a digest
is under way until it comes, in any order. That someone types
a whole story into the one line of a form whose own story has not come yet is not represented: a
line holds one sentence at most. `StoryAnimation` is the timer in it that sets the frame from the
clock, on a computer that may be busy or asleep for any number of frames. `late` and `missed`
are history: for how many frames no timer has run, up to a whole period, and whether one
ran that late.

## 3. What TLC checks

| run | instance | states | what it shows |
|---|---|---|---|
| `client_db` | three daemons, friends in three different ways; three messages, one of two chunks, group messages among complete friends | 304,305 | the type invariant and every safety property of the databases, and that they implement `MessageChannel` |
| `transmitter` | two daemons, one message of two chunks, one fault of any kind | 353,252 | the threads and the server only carry genuine traffic, and are a network as `ClientDb` assumes it |
| `late_requests` | two daemons, two requests of each under way, no other fault | 548,874 | requests written after their successors lose, repeat and reorder nothing |
| `several_friends` | three daemons, alice with two friends, a message to one or both | 497,130 | one mailbox for several friends, with the choice of friend |
| `liveness` | as `transmitter`, one thread in a round at a time | 67,363 | every message is delivered and shown so, invitations complete, and the databases implement the fair channel |
| `friends_safe` | two users; both may invite each other, with two mishaps, or one invites, writes and removes, with three | 2,699,454 | friendships are mutual, nobody is asked to accept a friend, in every order of calls, acks, chunks, crawls and restarts; what is shown as delivered was read, if invitations do not cross |
| `friends_live` | two users in the first and the last of three rows, crawled in batches of two; crossing invitations, one invitation with at most one mishap, or stories with one | 23,310 | an invitation is found wherever its slot is; both users end as complete friends |
| `parts_safe` | every module of the second list by itself, in the settings below | 955,823 | its safety properties |
| `parts_live` | those that promise something to happen, by themselves | 116,579 | its liveness properties |

`starvation`, `delivered_flag` and `empty_message` expect a violation (section 4).

The behaviours of `parts_safe` and `parts_live` start with a choice of the part that moves;
the others stay in an initial state. Since the parts share no variable, what holds of a part
while the others stand still holds whatever they do. The settings of one part:

| setting | instance |
|---|---|
| `registration` | two daemons, three calls of which two run side by side, one restart of the server (for liveness two calls, one at a time) |
| `pir` | two threads that write and, one at a time, read; three rows in two blocks, two columns |
| `stream` | three messages (for liveness two), of which one may be seen, a list and the notifications; no restart |
| `stream, clock set back` | two messages, of which the later may be seen, the clock set back once or one restart |
| `stream, no hour passes` | one message, and no sleeper waits out his hour |
| `rpc, any method` | one call of each method, every field empty and full |
| `rpc, registration` | two calls side by side around the registration, again and again, with one argument |
| `window` | four tabs, a message sent once, no search for a recipient |
| `window, sent twice` | three tabs, none of the outbox or of a message, a message sent twice before the first answer |
| `add friend` | two people, stories of two sentences |
| `animation` | the 90 frames of the code, timers late by any number of frames |
| `watchdog` | latencies of 1 and 3 minutes, for liveness 1 and 2, rounds of a minute; everything may go wrong |
| `watchdog, far apart` | latencies of 1 and 19 minutes, and nothing goes wrong but that they are changed |
| `dialogs` | two calls and two timers of each kind (for liveness one registration) |

### Properties

* Databases: `InOrderExactlyOnce`, `UnackedIsRetained`, `ReceivedUpToSeqnum`,
  `DeliveredWasReceived`, `TransactionsSucceed`, `NothingIsTakenBack`,
  `ImplementsChannel`.
* Everything in flight against the databases: `OnlyGenuineTraffic`, `ImplementsDb`.
  Liveness: `EventuallyDelivered`, `EventuallyComplete`, `ImplementsFairChannel`.
* Friends: `FriendsAreMutual`, `IncomingIsNoFriend`, `DeliveredIsRead`; liveness
  `InvitationIsFound`, `FriendshipSettles`.
* Server: `MailboxesAreSound` (`DistinctMailboxes`, `MailboxesAllocated`,
  `AllocationsAgree`), `KeyComesBack`; `NoForeignParts`, `LoneWritesHold`
  (`ReturnedIsRead` and `SizeKept` until two writers meet), `LoneWriteRepairs`.
* Watchdog: `KillsTheStuckOnly` (`HealthyIsNotKilled`, `StuckIsKilled`).
* Stream: `ScreenKeepsPromise` (`ListIsNewestFirst`, `ListHasNoGaps`, `NotifiedOnce` and, as a
  refinement, `ImplementsFeed`);
  liveness `StreamsKeepUp` (`EachMessageIsStreamed`, `NewIsNotified`,
  `CancelledCallsEnd`, `OldNeverNotified`, `StreamedSoonAfterNotify`).
* Graphical client: `CallsAreTrue` (`RequestsArrive`, `RepliesArrive`,
  `RegistrationIsRemembered`, `RegisteredOnce`); `TabsAreSound`
  (`SelectedTabIsOpen`, `BlankOnlyWithoutTabs`, `OneTabEach`), `AnswerClosesItsTab`;
  `DialogsSettle` (`BarEndsAsWanted`, `BarSettles`, `StatusGoesAway`,
  `UnregisteredIsAsked`); `PeopleMeet` (`AddedIsTheOther`, `RightStoriesAgree`);
  `KeepsTime` (`InStep`, `TimersDoNotPile`, `TimersLast`).

A name in parentheses is a conjunct of the one before it: each part has one safety
property that says what makes it correct, in named pieces.

Each module has one type invariant, whose name ends in `TypeOK`; `PartsTypeOK` is those of
all parts. Every property of a passing run has a mutant in `PROJECT.json`, a
plausible mistake in the code that makes it fail, and a conjunction has one for
each of its state conjuncts. The mutated definitions stand before the original; their
comments say what is wrong with them.

### Bounds

* *Daemons and messages.* A link is independent of other links except through
  the choice of friend, the one mailbox, and `sent_friend`; three daemons and a
  message to two of them reach all three. Two chunks distinguish the first, the
  last and a middle state of assembly; a second message on the same link
  distinguishes the boundary between messages.
* `MaxFaults`: faults of all kinds together. One suffices for each to meet
  every state of the round; without a bound the threads restart for ever. It is
  zero where the question is another one: a late request (`late_requests`) or
  the choice of friend (`several_friends`).
* `Slot`: requests one daemon may have under way; two are the least with which
  a late request overtakes a newer one.
* `RoundsAtOnce`: how many threads are outside "sleep" together. Two is no bound
  for two daemons; `several_friends` and `liveness` set it to one, since rounds of
  different daemons are interleaved in the other runs.
* `Offline`: daemons that never start a round.
* `ReceiveFriendsPerRound` is the code's 2.
* `Friendship`: `friends_safe` crawls two rows in batches of one, `friends_live` three rows in
  batches of two: one user's slot is in the first batch, the other's, who invites alone in
  the one-way scenario, in a last one that is shorter, and the index moves, wraps and is lost
  in a restart between them. The run follows users until both are complete, which no step takes
  back (`Settled`), and lets rounds overlap in the crossing scenario only (`Alternate`);
  `friends_safe` has every overlap.
  `MaxAsking` is how many calls of `AddAsyncFriend` of a user run at a time: one, because two
  break the limit of one invitation (section 4). `Mishaps` bounds cancellations, denials and
  restarts together for each scenario: two of them can meet, in the one-way scenario three.
* `Registration`: three calls for two daemons allow a retry beside the first try and another
  daemon's call; `MaxHandlers` is two, so that handlers overlap in every step and
  everything section 4 says of an overlap happens in the run; a restart may come at any step.
* `FastPir`: three rows in blocks of two, so that two rows share a block and the last is
  alone in one; two columns; two values of a row (`MaxVersion`). `raced` tells the states before
  two writers met from those after. What is left out has its like among the rest: two queries
  at a time (a query changes nothing), the second thread before the first, and queries for the
  second of two rows that are alike.
* `Watchdog`: 19 minutes and one are just far enough apart that a daemon in order exits in
  the run (section 4). There nothing else goes wrong, so that the exit has this cause only; with
  the other latencies everything may.
* `MessageStream`: `MaxClock` is one tick per message, `MaxResponses` is one response
  under way to each caller, `MaxSetBack` and `MaxStops` are one.
  Two calls are the list's and the notifier's; reopening the list needs a free one. Of three
  messages the first arrives first and the last one last, since they are all alike.
* `GuiRpc`: a field is empty or not, a list has none, one or two elements.
* `MainWindow`: `MaxTabs` is four, the two first, one to read or the outbox, and one
  to compose; two sends, so that the first answer may come after the second call.
* `Dialogs`: two of each, so that one may overtake the other; for liveness one
  registration at a time.
* `AddFriend`: two sentences tell a complete form from a half one; all screens are reached.
* `StoryAnimation` has the code's 90 frames and no bound on how late a timer is: `late`
  stops counting at a whole period, where nothing changes any more.

### Fairness

`Fairness` is weak fairness of each daemon's thread (`main`'s loop does nothing
but run rounds, and the operating system schedules it) and of the server's
handler for each request under way. Choices inside a round are left open, except
in `starvation`: there `SendTo` to each friend is strongly fair, which stands for
the random choice among friends. Liveness is claimed only for runs in
which faults stop, as `MaxFaults` makes them: nothing arrives while a process
crashes again and again. `liveness` checks two daemons; with more, which friend
is served next depends on the choice that finding 1 is about.

* `MessageStream`: threads that do not sleep run, the client handles its events, and
  (in the setting `stream`) the hour of `wait_for` passes for a sleeper.
* `Friendship`: each round goes on (weak). What a round may miss, because a call
  fails or another friend has his turn, comes through in the end (strong, for the
  crawl, the invitation, and each friend's chunk and replies): calls do not fail for
  ever, and friends are served in random order. Nothing makes a user call anything.
* `Registration`: a registered daemon comes to the end of a round again and again.
* `Watchdog`: time goes on and a thread does what is due; that a round ends is
  promised only up to its time, after which it ends, fails or stalls.
* `Dialogs`: timers fire, and calls are answered or fail.

Deadlock is not checked where the system may really stop: when everything is
acknowledged the databases have nothing left to do, a window may be closed or
blank, a daemon that exited stays so, an exhausted bound ends a model.

## 4. Findings

Each is a run that expects a violation; the line is where the code does it, the quotation
is in `PROJECT.json`.

1. **Starvation** (`starvation`, `transmitter.cc:275`). `just_acked_friend` is set by each new
   ack and never reset, and `chunk_to_send` takes the prioritized friend's chunk
   whenever there is one. A friend who acked once and then stays offline
   with chunks outstanding is the only one ever sent to. `up.sql:95` says that
   unacked messages MUST be retried.
2. **Delivered flag** (`delivered_flag`, `db.rs:1622`). Delivery is looked at only for the friend
   whose ack arrived, and over the chunks of all recipients. The recipient who
   acks first stays "not delivered" until a later, unrelated ack. The run goes on until both have
   acked the whole message and no chunk of it is outstanding for anyone.
   `up.sql:119` says the flag is true when the message has been delivered and acked.
3. **Empty message** (`empty_message`, `db.rs:2344`). A message to one friend with an empty body
   serializes to nothing, is cut into no chunk, and is marked as delivered by
   the next ack, without ever reaching the friend.

### Where the properties end

The other runs state what the code keeps, and under which conditions. Beyond them the modules
behave as the code does, which is not always what one would wish; nothing here is a run:

* *Crossing invitations* (`db.rs:3384`). The text of one of them may be marked as delivered and
  taken from the server before its reader has found it: `DeliveredIsRead` leaves out whoever
  has an invitation of his own marked as delivered. One who adds a friend by his story
  never reads that friend's invitation either.
* *Two calls of `AddAsyncFriend` at once* (`db.rs:3154`) both find space for the one invitation
  the transmitter supports (`MaxAsking` above one).
* *Stories after invitations* (`db.rs:1601`). Who cancels an invitation and adds the friend by
  his story stays incomplete when the friend accepts the old invitation.
* *`delete_friend`* (`db.rs:1439`) sets `deleted` to false, which it is; an invitation *cannot be
  cancelled* once a message is queued for the friend (`db.rs:3275`, a foreign key).
* *Two registrations at once* (`server_rpc.cc:32`, `fastpir.cc:82`). Two that meet inside one
  `allocate` may be given one mailbox, and an account's row may be missing in the acks until
  the next restart. Two of which one allocates between the allocations of the other may get
  different indices in the two databases, which breaks the assertion of `Register`; only the
  first index is used, but an account may be given out before its row in the acks is there. `MailboxesAreSound` says so: each of its conjuncts names the overlap
  (`collided`, `interleaved`) after which it does not hold.
* *Two writers in a block* (`fastpir.cc:113`, `utils.cc:27`). The encoding of one write may be lost, and
  the size of the matrix be wrong for good: `LoneWritesHold` ends when two have met.
* *The watchdog* (`main.cc:176`) kills a healthy daemon when the latency is raised from a minute to
  an hour while it waits: `HealthyIsNotKilled` has this as `FarApart`, the one case in which a
  daemon in order exits, and the setting `watchdog, far apart` goes through it.
* *Streams* (`daemon_rpc.cc:765`). One of new messages whose newest was seen never sleeps and writes
  empty responses; a response has the newest message first (`db.rs:2463`); a message
  delivered after the clock was set back is not streamed (`db.rs:1835`): `ListHasNoGaps` and
  `EachMessageIsStreamed` are about a clock that is not.
* *The window.* Cmd-W closes the unclosable tabs (`Tabs.tsx:93`), a message read twice has two tabs
  (`Main.tsx:79`), the command Next Tab knows the first render's tabs (`Main.tsx:408`), two
  compose tabs share an editor (`Main.tsx:223`), and a click outside closes the
  registration dialog while the command bar is open (`Main.tsx:539`).
* *The animation* (`AddFriendInPerson.tsx:277`) stops when the last timer runs a whole period
  late, to the frame, since it finds the frame unchanged and sets no other: `TimersLast` holds
  until `missed`. What is shown with a timer waiting is right also after that.

## 5. What TLAPS proves

For every set of daemons and messages, every pattern of friendships and every
number of chunks per message; the theorems about `DbSpec` for every network (any
sequence of `DbNext` steps), those about `Spec` for every number of requests
under way and any number of faults:

| module | theorem | statement |
|---|---|---|
| `ClientDbProofs` | `DbTypeCorrect` | `DbSpec => []DbTypeOK` |
| | `UnackedRetained` | `DbSpec => []UnackedIsRetained` |
| | `TransactionsNeverFail` | `DbSpec => []TransactionsSucceed` |
| | `NothingTakenBack` | `DbSpec => NothingIsTakenBack` |
| `DeliveryProofs` | `InOrder` | `NoEmptyMessage`: `DbSpec => []InOrderExactlyOnce` |
| | `ReceivedUpTo` | `NoEmptyMessage`: `DbSpec => []ReceivedUpToSeqnum` |
| | `DeliveredReceived` | `NoEmptyMessage`: `DbSpec => []DeliveredWasReceived` |
| | `ImplementsMessageChannel` | `NoEmptyMessage`: `DbSpec => ImplementsChannel` |
| `TransmitterProofs` | `TypeCorrect` | `Spec => []TypeOK` |
| | `GenuineTraffic` | `Spec => []OnlyGenuineTraffic` |
| | `TransmitterImplementsDb` | `Spec => ImplementsDb` |
| | `EndToEnd` | `NoEmptyMessage`: `Spec => ImplementsChannel` |
| `FriendshipProofs` | `FriendshipTypeCorrect` | `Spec => []TypeOK` |
| | `FriendsMutual` | `Spec => []FriendsAreMutual` |
| | `IncomingCorrect` | `Spec => []IncomingIsNoFriend` |
| | `TextIsRead` | `Spec => []DeliveredIsRead` |
| `DaemonProofs` | `MailboxesSound` | `RegisterSpec => []MailboxesAreSound` |
| | `RegisterTypeCorrect` | `RegisterSpec => []RegisterTypeOK` |
| | `HealthyStays` | `WatchdogSpec => []HealthyIsNotKilled` |
| | `WatchdogTypeCorrect` | `WatchdogSpec => []WatchdogTypeOK` |
| | `StubDoesAgree` | `StubAgrees` |
| | `CallsStayTrue` | `RpcSpec => []CallsAreTrue` |
| | `RpcTypeCorrect` | `RpcSpec => []RpcTypeOK` |
| `FastPirProofs` | `PirTypeCorrect` | `PirSpec => []PirTypeOK` |
| | `NothingForeign` | `PirSpec => []NoForeignParts` |
| | `LoneRepairs` | `PirSpec => LoneWriteRepairs` |
| | `LoneWritesAreHeld` | `PirSpec => []LoneWritesHold` |
| `MessageStreamProofs` | `StreamTypeCorrect` | `StreamSpec => []StreamTypeOK` |
| | `ScreenStaysTrue` | `StreamSpec => []ScreenIsTrue` |
| | `StreamImplementsFeed` | `StreamSpec => ImplementsFeed` |
| | `PromiseKept` | `StreamSpec => ScreenKeepsPromise` |
| | `OldStaysSilent` | `StreamSpec => OldNeverNotified` |
| `GuiProofs` | `WindowTypeCorrect` | `WindowSpec => []WindowTypeOK` |
| | `TabsStaySound` | `WindowSpec => []TabsAreSound` |
| | `AnswersCloseTheirTabs` | `WindowSpec => AnswerClosesItsTab` |
| | `AddFriendTypeCorrect` | `AddFriendSpec => []AddFriendTypeOK` |
| | `PeopleDoMeet` | `AddFriendSpec => []PeopleMeet` |
| | `AnimationKeepsTime` | `AnimationSpec => []KeepsTime` |
| | `AnimationTypeCorrect` | `AnimationSpec => []AnimationTypeOK` |
| | `BarRestsAsWanted` | `DialogsSpec => []BarEndsAsWanted` |
| | `DialogsTypeCorrect` | `DialogsSpec => []DialogsTypeOK` |
| | `PartsTypeCorrect` | `PartsSpec => []PartsTypeOK` |

The assumptions are `FriendshipAssumption` and `MessageAssumption` of
`ClientDb`; the proofs about `Transmitter` also use `RoundAssumption`,
`FriendsAssumption` (finitely many friends, of which `MAX_FRIENDS` is the
code's bound) and `NoValueAssumption`. The parts around the
transport assume that constants which are sizes are numbers, and not 0 where the code has
none of 0 (`PirAssumption`, `StreamAssumption`, `WindowAssumption`, ...); that there is a
longest latency, which is a number of 32 bits (`WatchdogAssumption`); and that what the window and
the daemon fill in are messages of their types (`RpcAssumption`).

One hypothesis is left, `NoEmptyMessage`: every message has at least one chunk. An empty message
to one friend has none and is shown as delivered without arriving (finding 3). Where the code
stops keeping some other property, the property itself says when (section 4).

*Databases.*

1. `TypeInv` adds to the types that a non-empty `outgoing_chunk` has a last row.
   Without it the number `get_seqnum_for_new_chunk` computes has no type.
2. `EveryStepOnLink` reduces every step of the whole system to what it does to
   one link: nothing, `LinkQueues`, `LinkAcks`, `LinkReceives` or
   `LinkIsInvited`. All later arguments are about one link.
3. `RetainedInv`: with `UnackedIsRetained` itself, a new chunk is numbered above
   the last ack, whichever table the number came from.
4. `WindowInv` adds that the ack of the sender is at most what the receiver has,
   that no stored row is above `received_seqnum`, and that there is a chunk for
   every number up to it. It makes a new chunk that can arrive the very next
   one (`NewChunkIsNext`), which is what both halves of `TransactionsSucceed` need.

*Delivery.*

5. `Spans`: the stretches of numbers given to messages follow one another
   without a gap, because `get_seqnum_for_new_chunk` finds the number after the
   last one in use from either table (`SeqnumIsNext`).
6. `Inbox`: the assembled messages are the first stretches, `incoming_chunk` is
   the part of the next one up to `received_seqnum`, and that one is not
   finished. A chunk that arrives belongs to it (`ChunkBelongs`), and since the
   pieces up to a number are as many as the numbers (`PiecesUpTo`), the count in
   `receive_chunk` is right exactly when the last piece comes.
7. `Books`: the rows of `sent_friend` and what was queued agree, and what is
   marked as delivered has arrived. When no chunk of a message is outstanding its last
   one is acked, hence received, hence the message is assembled (`NothingOutstanding`).

*The channel.* `GotIs`: by `Inbox`, what the friend has is what was handed over
first (`Content` recognises each message). Hence `QueueMessage` is `Submit`,
`ReceiveChunk` lengthens the inbox by nothing or by the next message, and
`ReceiveAck` confirms only what has arrived.

*The transmitter.*

8. `Consecutive`: the numbers of a link have no gap, so the first outstanding
   chunk, the only one `chunk_to_send` returns, is the one after the last ack
   (`FirstIsSent`). That is why nothing further ahead is ever under way.
9. `TrafficInv` joins this, the types of threads and server, and
   `OnlyGenuineTraffic`. It is inductive because what counts as sent only grows
   (`SentStays`): mail and acks that were genuine when they were read, or when
   their request left, stay so however late they are used.
10. With it every step that touches a database gets a chunk in `SentChunks` or an ack up
   to the friend's `received_seqnum` (`EveryStepOfDb`), which is the
   guard of `DbNext`. `EndToEnd` chains the two refinements.

*Friends.* From `FriendshipAssumption` of `Friendship`.

11. The foreign keys (`ForeignKeys`) and what the transmitter has in hand
    (`InHand`) are part of the type invariant, since cancelling and restarting
    are what could break them.
12. `FriendsAreMutual` is not inductive: a friend becomes complete by something that was
    sent. `Links(u, v)` collects everything that may still complete `v` with `u`, a
    chunk, a slot, an invitation found or waiting, an ack, and `Linked` says that each
    comes from a user who has the other in his database or has cancelled (`Knows`).
    Links come from rows only (`LinksComeFromRows`), and rows do not go unless
    cancelled (`KnowsStays`).
13. `IncomingIsNoFriend` leaves out the friends one may add by their story:
    `add_outgoing_sync_invitation` does not look at `incoming_invitation`, so that one who
    has already written would stay there. For every other pair, `Separate` is what the
    crawl keeps: it inserts only what is not a friend, and the insert looks again.
14. For `DeliveredIsRead` the flag at one user depends on the text at another, but each row
    accounts for itself (`Accounted`): a friend becomes complete by accepting, which stores
    his text, by an invitation of ours that is marked as delivered, or by a story. The
    first mark may come from an ack, a system chunk or the crawl; none of them loses a text.

*Registration.* From `RegistrationAssumption`, for any number of handlers side by side.

15. Until two calls meet inside one `allocate`, each stores the number of rows it read
    (`StoresTheNext`), so an index is handed out once. `Serial` keeps that: what a call holds
    between its allocation and its account is allocated and nobody else's (`Held`), also when
    others allocate, fail or are given accounts meanwhile; and since every call allocates in
    both databases, the acks lack exactly the rows of the calls that are on their second
    allocation (`Seconds`). That count is what gives every account its rows at any
    moment when there are none of those.
16. Until one allocates between the two allocations of another, `Paired` says more: at most one
    call is between its two, and the databases differ by its row only; what waits for its
    account has the same index twice. A restart begins anew: it cuts off whoever is between, and
    allocates both databases up to `MaxIndex`. A lost index is handed out again, and nobody has
    it. `Serial` does not begin anew, since accounts that share a mailbox stay.
17. The types bound indices by the number of calls, which nothing in a state says. `CountInv` does,
    for any number of handlers: the rows of a database are at most the calls that have stored
    one (`Stored`), the accounts at most the calls that have one (`Accounted`), and an index that a
    call has read is at most what was stored by then (`IndexBound`). Handlers may store the same
    index twice, a restart ends calls and never reduces what is counted, and a call that
    has not stored yet leaves room for itself (`Grows`). After a restart the rows are one more
    than the highest index of an account: that a bounded set of numbers has a highest
    (`GreatestOf`) comes from the minimum principle of well-founded relations.

*The watchdog.*

18. Each wait is bounded by a latency that was read when it began, not by the one that is set
    now (`RestInTime`): the main thread's by `read`, the others' by their own. `PingInTime` compares
    the two waits that matter: the ping of the thread that is awaited comes before the main
    thread's time is up, if that thread is in order, or else the latencies the two have read
    are `FarApart`. Both change only when a thread begins to sleep or an iteration begins, and then
    the comparison is made anew from what was read.

*The calls of the graphical client.*

19. What is written is read, level by level of nesting (`LeafReads`, `ItemReads`, `MessageReads`),
    because a field that is not written is read as its default, which it had, and a list is
    one field per element. Of a type this needs only that its fields have different names
    (`MessageType`), of a message that no optional field is left unset: that one would be shown
    as the empty string.
20. For each entry of the service (`Entries`): the types are such types, the setters called on each
    request fill in all its fields (`AllFilledIn`), and the checked-in stub has the types of
    `daemon.proto` (`SameService`). Hence `StubDoesAgree`, which TLC
    computes for samples only.
21. `RpcIInv` follows each call through its states: what the request carries is the encoding of
    the argument, what the answer carries that of the reply, and a refusal for want of a
    registration was sent by a daemon that had none. With `StubDoesAgree` this gives what is
    read at both ends.
22. `RegistersOnce`: a registration that is written but not reported yet is the only one, and none
    has been reported before; the second check, in `do_register`, is what keeps it so.

*The memory of PIR.*

23. `NoForeignParts` says where parts end up, and nothing of it follows from the order of the
    threads. `OwnRows` states it of every place: the matrix, the encoded
    blocks, the copy a writer holds from a read until it writes it back, and the answer a reader
    has so far. Any thread then moves a part from its place to the same place elsewhere,
    with whatever version, and that is all an interleaving can disturb.
24. `LoneWriteRepairs` holds after any races: `AloneInv` says of a thread without another
    writer that what it holds is what the matrix has, and that the columns behind it are
    encoded as they are. The last row is left out because a race may have left the size
    wrong, and with it where the matrix ends.
25. `LoneInv` is for the time before two writers met: the size is off by exactly what the one
    writer has added (`Size`), nothing in the matrix or its encoding is older than what has
    been returned (`RowsKept`), the writer brings nothing older (`Brings`), and a reader
    has found nothing older than when it began (`RowFound`).

*The stream.*

26. All of `StreamIInv` is about the order of timestamps. Those of messages are unique, as the
    column is. A response under way is sorted and has nothing as old as the one before it
    (`ResponsesInOrder`), because the next query asks for what is newer than the newest of
    the last one; what a client has taken is older than all that is still to come
    (`TakenInOrder`). So what is merged on top of the list is newer than the list.
27. `NothingMissed` is true while the clock was never set back: what the list does not show
    and the thread has passed is in a response under way.
28. `OldStaysSilent` follows one message from the moment the notifications begin: it is in
    the first response, which the client does not show, and never in a later one (`Old`).
    Sorting a set by time (`InOrder`) is proved from the finite sets of the library.
29. `StreamImplementsFeed` takes each step with `StreamIInv` before and after it. What is merged
    on top is newer than the list by `TakenInOrder` (`FeedShows`); that it leaves nothing out is
    `ListHasNoGaps` of the state after: what is older than the newest of it is in the list
    then, and was not before. Nothing is notified twice for the same reason: `NotifiedOnce` is true
    afterwards (`FeedNotifies`). A message arrives later than all others because
    `NothingMissed` keeps arrivals below the clock while it was never set back.

*The window.*

30. `TabsInv` has the properties themselves and the types. What is behind it are the lemmas about
    `findIndex` and `filter` (`Finds`, `Leaves`): closing keeps every other tab, and what is
    selected then is a tab that is left or the default, which `unclosable` promises. The
    state of an earlier render, which an answer to `sendMessage` carries, can only name a tab that was
    there, so it is looked for again.

*The dialog of two people.*

31. Two digests may be under way at once, and the one that comes last is shown. But while the
    animation is shown the form changes only when the own story comes late, and is blank then: when
    the form is complete there, its digest is the only one, under way or shown
    (`UserInv`). `SameSeed` is why equal animations mean the right stories: a seed is the set of
    both, and nobody can take his own for the other's.

*The animation.* From `StoryAnimationAssumption`.

32. `Ahead`: short of a whole period the clock is as many frames ahead of the one shown as
    `late` says. So a timer that runs earlier than that finds a change and sets the next, or
    another is waiting (`SomeTimerCounts`); after a whole period the two are equal again, no timer
    may follow, and `missed` says so. A timer waits only while no frame has passed since one
    ran, which is why the frame is right then, however late that one was.

*The command bar.*

33. `BarInv`: there is one timer at most, it ends the animation that runs, and the animation goes
    where the user wants the bar to be.

*The dialogs, and all parts.*

34. Calls are counted by how far they are; the sums that bound them stay, since an answer moves
    one call on and only a new one adds to them (`AsksKeep`, `RegistrationsKeep`).
35. `PartsTypeCorrect` needs no argument of its own: the types of each part hold of its own steps,
    whatever the others do, because no part changes the variables of another.

Checked by TLC only: all liveness, which is out of the prover's reach, and with it the rest of
`KillsTheStuckOnly`, `StreamsKeepUp` and `DialogsSettle`, of which the theorems above
have the safety. Every invariant of the runs is a theorem. Induction over data, which the prover
does not have either, is not needed: `Codec` and the sums of `Dialogs` are written without
recursion, and where numbers are counted down (`LeastOf`) or sets counted, the facts about
well-founded relations and finite sets of the library are enough.

## 6. Plan

Done: the transport with its proofs, friends with theirs, registration, the memory of
PIR, the watchdog, the stream, the graphical client's calls, window, dialogs and the
dialog of two people, with the proofs of their types and safety, and the refinement of what
the screen promises. What is left, in this order:

1. A liveness run of `Transmitter` with three daemons for the rule of `constants.hpp` that
   at least two friends are queried per round.
2. `Friendship` over the mailboxes of `Transmitter`, instead of one value per chunk.
3. The remote dialog (`AddFriendRemote`), once it is clear what it should do with
   answers that come late.

## 7. Not modelled

* The homomorphic arithmetic, libsodium, and the byte level of protobuf and gRPC: pure
  computations, represented by what they give.
* The allocation of a mailbox while others are read and written, which moves the
  matrix in memory; `FastPir` has a fixed number of rows.
* Base 58 and the stories of `identifier.cc`: changes of base of numbers of hundreds of bits,
  of which bounded inputs say nothing.
* The command line and the client library, which keep no state.
* Configuration, drafts and the listings of the database that are single statements.
* In `Friendship`: a message that takes the place of a system chunk for a while (the
  chunk is then read later, as it may be anyway); unique names and the limit of
  ack slots, which `can_add_friend` stands for.
* That a denied invitation comes back with the next crawl is in `Friendship`; the
  repository promises nothing about it, so no property is stated.
* The launcher of the daemon in `main.ts`, the lists of sent messages and invitations, the
  search of the command bar, the remote and the incoming dialog, and all layout.

Each part is listed in `PROJECT.json` with its reason.
