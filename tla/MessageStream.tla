--------------------------- MODULE MessageStream ---------------------------
(***************************************************************************)
(* How a message that is complete in the database reaches the screen: the  *)
(* handler GetMessagesStreamed of the daemon, one thread per call, which   *)
(* sleeps on the condition variable message_notification_cv; the three     *)
(* transactions that make a message visible; and the two callers in the    *)
(* graphical client, the list of incoming messages and the notifications.  *)
(* A timestamp is a tick of the daemon's wall clock, which the operating   *)
(* system may set back.  A response under way is a sequence of messages.   *)
(***************************************************************************)
EXTENDS Integers, Sequences, FiniteSets

CONSTANTS Message,       \* the messages the daemon comes to have
          Stream,        \* the calls of GetMessagesStreamed
          MaxClock,      \* bound on the clock
          MaxSetBack,    \* how often the clock is set back
          MaxStops,      \* how often the daemon is stopped and started again
          MaxResponses,  \* bound on the responses under way of one call
          Registered0    \* whether the user has registered when it all begins

NoCall == "none"

ASSUME StreamAssumption ==
  /\ NoCall \notin Stream /\ Stream # {}
  /\ MaxClock \in Nat \ {0} /\ MaxSetBack \in Nat /\ MaxStops \in Nat
  /\ MaxResponses \in Nat \ {0} /\ Registered0 \in BOOLEAN

VARIABLES
  clock,           \* unix_micros_now()
  userRegistered,  \* whether the daemon has a registration
  delivered_at,    \* per message: its column, 0 while it is not delivered
  seen,            \* the messages with received.seen
  notifying,       \* the transmitter has yet to call notify_all
  stream,          \* per call: the state of its thread in the daemon
  response,        \* per call: the responses under way to the client
  list,            \* IncomingMessageList: its type, its call and its messages
  notifier,        \* registerForNotifications: its call and firstTime
  shown,           \* the messages notified, in order
  setbacks, stops

dbvars == <<delivered_at, seen, userRegistered>>
guivars == <<list, notifier, shown>>
streamVars == <<clock, dbvars, notifying, stream, response, guivars, setbacks, stops>>

Filter == {"NEW", "ALL"}
Pc == {"free", "opened", "top", "asleep", "woken", "query"}

NoThread == [pc |-> "free", filter |-> "ALL", last |-> 0, cancelled |-> FALSE]

Opened(filter) == [pc |-> "opened", filter |-> filter, last |-> 0, cancelled |-> FALSE]

StreamTypeOK ==
  /\ clock \in 1 .. MaxClock /\ userRegistered \in BOOLEAN
  /\ delivered_at \in [Message -> 0 .. MaxClock] /\ seen \subseteq Message
  /\ notifying \in BOOLEAN
  /\ stream \in [Stream -> [pc : Pc, filter : Filter, last : 0 .. MaxClock,
                            cancelled : BOOLEAN]]
  /\ response \in [Stream -> Seq(Seq(Message))]
  /\ \A c \in Stream : Len(response[c]) <= MaxResponses
  /\ list \in [type : Filter, call : Stream \cup {NoCall}, messages : Seq(Message)]
  /\ notifier \in [call : Stream \cup {NoCall}, firstTime : BOOLEAN]
  /\ shown \in Seq(Message)
  /\ setbacks \in 0 .. MaxSetBack /\ stops \in 0 .. MaxStops

\* registerForNotifications runs once, when the application is ready and before
\* the window has a list; the daemon may not be up yet, as nobody waits for it.
RegisterForNotifications ==
  LET first == CHOOSE c \in Stream : TRUE
  IN  \/ /\ stream = [c \in Stream |-> IF c = first THEN Opened("NEW") ELSE NoThread]
         /\ notifier = [call |-> first, firstTime |-> TRUE]
      \/ /\ stream = [c \in Stream |-> NoThread]
         /\ notifier = [call |-> NoCall, firstTime |-> TRUE]

StreamInit ==
  /\ clock = 1 /\ userRegistered = Registered0
  /\ delivered_at = [m \in Message |-> 0] /\ seen = {}
  /\ notifying = FALSE
  /\ RegisterForNotifications
  /\ response = [c \in Stream |-> <<>>]
  /\ list = [type |-> "NEW", call |-> NoCall, messages |-> <<>>]
  /\ shown = <<>> /\ setbacks = 0 /\ stops = 0

-----------------------------------------------------------------------------
(* The database.                                                           *)

Delivered == {m \in Message : delivered_at[m] # 0}

MostRecentDeliveredAt ==
  IF Delivered = {} THEN 0
  ELSE CHOOSE t \in 1 .. MaxClock : /\ \E m \in Delivered : delivered_at[m] = t
                                    /\ \A m \in Delivered : delivered_at[m] <= t

NewestFirst(S) ==
  CHOOSE msgs \in [1 .. Cardinality(S) -> S] :
    /\ \A m \in S : \E i \in DOMAIN msgs : msgs[i] = m
    /\ \A i, j \in DOMAIN msgs : i < j => delivered_at[msgs[i]] > delivered_at[msgs[j]]

\* Mutants: the query takes the last one again; or only what was seen.
ReceivedMessagesAgain(filter, after) ==
  NewestFirst({m \in Delivered : /\ delivered_at[m] >= after
                                 /\ filter = "NEW" => m \notin seen})

ReceivedMessagesSeen(filter, after) ==
  NewestFirst({m \in Delivered : /\ delivered_at[m] > after
                                 /\ filter = "NEW" => m \in seen})

\* get_received_messages, sorted by delivered_at.desc().
ReceivedMessages(filter, after) ==
  NewestFirst({m \in Delivered : /\ delivered_at[m] > after
                                 /\ filter = "NEW" => m \notin seen})

\* A message becomes visible; the column is UNIQUE.
MadeVisible(m) ==
  /\ userRegistered /\ delivered_at[m] = 0
  /\ \A n \in Message : delivered_at[n] # clock
  /\ delivered_at' = [delivered_at EXCEPT ![m] = clock]

\* receive_chunk with the last chunk of a message; notify_all comes after it.
ReceiveMessage(m) ==
  /\ ~ notifying
  /\ MadeVisible(m)
  /\ notifying' = TRUE
  /\ UNCHANGED <<clock, userRegistered, seen, stream, response, guivars, setbacks, stops>>

\* accept_incoming_invitation and the crossing case of
\* add_incoming_async_invitation: nobody is notified.
ReceiveInvitationText(m) ==
  /\ MadeVisible(m)
  /\ UNCHANGED <<clock, userRegistered, seen, notifying, stream, response, guivars, setbacks,
                 stops>>

UserRegisters ==
  /\ ~ userRegistered
  /\ userRegistered' = TRUE
  /\ UNCHANGED <<clock, delivered_at, seen, notifying, stream, response, guivars, setbacks,
                 stops>>

\* The user opens a message of the list, which marks it as seen.
MessageSeen(m) ==
  /\ \E i \in DOMAIN list.messages : list.messages[i] = m
  /\ m \notin seen
  /\ seen' = seen \cup {m}
  /\ UNCHANGED <<clock, userRegistered, delivered_at, notifying, stream, response, guivars,
                 setbacks, stops>>

-----------------------------------------------------------------------------
(* A thread in GetMessagesStreamed.                                        *)

\* Mutant: the query is taken to include its bound.
LaterPlusOne(last, msgs) ==
  IF msgs = <<>> THEN last ELSE delivered_at[msgs[1]] + 1

LaterOf(last, msgs) ==
  IF msgs = <<>> \/ delivered_at[msgs[1]] <= last THEN last ELSE delivered_at[msgs[1]]

Write(c, msgs) ==
  IF stream[c].cancelled THEN response' = response
  ELSE /\ Len(response[c]) < MaxResponses
       /\ response' = [response EXCEPT ![c] = Append(@, msgs)]

\* The first query, with after = 0; the response is written even if empty.
FirstResponse(c) ==
  LET msgs == ReceivedMessages(stream[c].filter, 0)
  IN  /\ stream[c].pc = "opened" /\ userRegistered
      /\ Write(c, msgs)
      /\ stream' = [stream EXCEPT ![c].pc = "top", ![c].last = LaterOf(0, msgs)]
      /\ UNCHANGED <<clock, dbvars, notifying, guivars, setbacks, stops>>

SomethingNew(c) == MostRecentDeliveredAt # stream[c].last

\* Mutant: while (true).
WaitUncancelled(c) ==
  /\ stream[c].pc = "top"
  /\ stream' = [stream EXCEPT ![c].pc = IF SomethingNew(c) THEN "query" ELSE "asleep"]
  /\ UNCHANGED <<clock, dbvars, notifying, response, guivars, setbacks, stops>>

\* The loop condition, then the predicate of wait_for under the mutex.
WaitForNew(c) ==
  /\ stream[c].pc = "top"
  /\ stream' = IF stream[c].cancelled THEN [stream EXCEPT ![c] = NoThread]
             ELSE [stream EXCEPT ![c].pc = IF SomethingNew(c) THEN "query" ELSE "asleep"]
  /\ UNCHANGED <<clock, dbvars, notifying, response, guivars, setbacks, stops>>

\* Mutant: nobody is woken.
NotifyNone ==
  /\ notifying
  /\ notifying' = FALSE
  /\ UNCHANGED <<clock, dbvars, stream, response, guivars, setbacks, stops>>

\* transmitter.cc takes the mutex, so no thread is between its predicate and
\* its sleep when all are woken.
NotifyAll ==
  /\ notifying
  /\ notifying' = FALSE
  /\ stream' = [c \in Stream |->
                  IF stream[c].pc = "asleep" THEN [stream[c] EXCEPT !.pc = "woken"]
                  ELSE stream[c]]
  /\ UNCHANGED <<clock, dbvars, response, guivars, setbacks, stops>>

\* A woken thread evaluates the predicate again and may go back to sleep.
Wake(c) ==
  /\ stream[c].pc = "woken"
  /\ stream' = [stream EXCEPT ![c].pc = IF SomethingNew(c) THEN "query" ELSE "asleep"]
  /\ UNCHANGED <<clock, dbvars, notifying, response, guivars, setbacks, stops>>

\* The hour is over.
AnHourPasses(c) ==
  /\ stream[c].pc = "asleep"
  /\ stream' = [stream EXCEPT ![c].pc = IF SomethingNew(c) THEN "query" ELSE "top"]
  /\ UNCHANGED <<clock, dbvars, notifying, response, guivars, setbacks, stops>>

NextResponse(c) ==
  LET msgs == ReceivedMessages(stream[c].filter, stream[c].last)
  IN  /\ stream[c].pc = "query"
      /\ Write(c, msgs)
      /\ stream' = [stream EXCEPT ![c].pc = "top", ![c].last = LaterOf(@, msgs)]
      /\ UNCHANGED <<clock, dbvars, notifying, guivars, setbacks, stops>>

-----------------------------------------------------------------------------
(* The graphical client.                                                   *)

\* A caller's stream was refused or broke: the error is logged, no more.
CloseClient(cs) ==
  /\ list' = IF list.call \in cs THEN [list EXCEPT !.call = NoCall] ELSE list
  /\ notifier' = IF notifier.call \in cs THEN [notifier EXCEPT !.call = NoCall] ELSE notifier

\* UNAUTHENTICATED.
Refuse(c) ==
  /\ stream[c].pc = "opened" /\ ~ userRegistered
  /\ stream' = [stream EXCEPT ![c] = NoThread]
  /\ CloseClient({c})
  /\ UNCHANGED <<clock, dbvars, notifying, response, shown, setbacks, stops>>

Cancelled(c, cs) == IF c \in Stream THEN [cs EXCEPT ![c].cancelled = TRUE] ELSE cs

\* The effect of IncomingMessageList when it is mounted or its type changes.
OpenList(type, c) ==
  /\ stream[c].pc = "free"
  /\ stream' = [Cancelled(list.call, stream) EXCEPT ![c] = Opened(type)]
  /\ response' = [d \in Stream |-> IF d \in {c, list.call} THEN <<>> ELSE response[d]]
  /\ list' = [type |-> type, call |-> c, messages |-> <<>>]
  /\ UNCHANGED <<clock, dbvars, notifying, notifier, shown, setbacks, stops>>

\* Mutant: what comes is put behind what is there.
MergeBehind(msgs, old) == old \o msgs

\* The handler of "data" for the list.  The comparison of two timestamp objects
\* with > and < is always false, so the sort leaves the list as it is.
Merge(msgs, old) == msgs \o old

ListData ==
  LET c == list.call
  IN  /\ c \in Stream /\ response[c] # <<>>
      /\ list' = [list EXCEPT !.messages = Merge(Head(response[c]), @)]
      /\ response' = [response EXCEPT ![c] = Tail(@)]
      /\ UNCHANGED <<clock, dbvars, notifying, stream, notifier, shown, setbacks, stops>>

\* Mutant: all of them are.
AllNotified(msgs) == msgs

\* The first response holds what was there before and is not notified.
Notified(msgs) == IF notifier.firstTime THEN <<>> ELSE msgs

NotifierData ==
  LET c == notifier.call
  IN  /\ c \in Stream /\ response[c] # <<>>
      /\ shown' = shown \o Notified(Head(response[c]))
      /\ notifier' = [notifier EXCEPT !.firstTime = FALSE]
      /\ response' = [response EXCEPT ![c] = Tail(@)]
      /\ UNCHANGED <<clock, dbvars, notifying, stream, list, setbacks, stops>>

\* The daemon is stopped or killed, and started again.
DaemonStops ==
  /\ stops < MaxStops
  /\ stops' = stops + 1
  /\ notifying' = FALSE
  /\ stream' = [c \in Stream |-> NoThread] /\ response' = [c \in Stream |-> <<>>]
  /\ CloseClient(Stream)
  /\ UNCHANGED <<clock, dbvars, shown, setbacks>>

ClockTicks ==
  /\ clock < MaxClock
  /\ clock' = clock + 1
  /\ UNCHANGED <<dbvars, notifying, stream, response, guivars, setbacks, stops>>

SetBack ==
  /\ setbacks < MaxSetBack
  /\ setbacks' = setbacks + 1
  /\ clock' \in 1 .. clock - 1
  /\ UNCHANGED <<dbvars, notifying, stream, response, guivars, stops>>

-----------------------------------------------------------------------------

Runnable(c) ==
  FirstResponse(c) \/ WaitForNew(c) \/ Wake(c) \/ NextResponse(c) \/ Refuse(c)

HandlerStep(c) == Runnable(c) \/ AnHourPasses(c)

Client == ListData \/ NotifierData

StreamNext ==
  \/ \E m \in Message : ReceiveMessage(m) \/ ReceiveInvitationText(m) \/ MessageSeen(m)
  \/ \E c \in Stream : \/ HandlerStep(c)
                       \/ \E type \in Filter : OpenList(type, c)
  \/ NotifyAll \/ Client \/ DaemonStops \/ ClockTicks \/ SetBack \/ UserRegisters

\* The threads that do not sleep run, and the client handles its events.
PromptFairness == /\ \A c \in Stream : WF_streamVars(Runnable(c))
                  /\ WF_streamVars(NotifyAll)
                  /\ WF_streamVars(ListData) /\ WF_streamVars(NotifierData)

\* Nobody waits for the hour to pass.
PromptSpec == StreamInit /\ [][StreamNext]_streamVars /\ PromptFairness

\* The hour passes for a thread that sleeps.
StreamSpec == PromptSpec /\ \A c \in Stream : WF_streamVars(AnHourPasses(c))

-----------------------------------------------------------------------------
(* Properties.                                                             *)

InList(m) == \E i \in DOMAIN list.messages : list.messages[i] = m
WasShown(m) == \E i \in DOMAIN shown : shown[i] = m

\* The list shows every message once and the newest on top, over any number of
\* responses, though the list's own sort compares nothing (daemon_rpc.cc,
\* MessageList.tsx).
ListIsNewestFirst ==
  \A i, j \in DOMAIN list.messages :
    i < j => delivered_at[list.messages[i]] > delivered_at[list.messages[j]]

\* As long as the clock is never set back, a list of all messages that shows a
\* message shows all the older ones too: no message falls between two responses.
ListHasNoGaps ==
  setbacks = 0 /\ list.type = "ALL" =>
    \A m, n \in Message :
      InList(m) /\ 0 < delivered_at[n] /\ delivered_at[n] < delivered_at[m] => InList(n)

\* No message is notified twice (main.ts, over any interleaving of responses).
NotifiedOnce == \A i, j \in DOMAIN shown : shown[i] = shown[j] => i = j

\* What is on the screen: the list and the notifications, over any number of responses,
\* restarts of the daemon and a clock that is set back.
ScreenIsTrue == ListIsNewestFirst /\ ListHasNoGaps /\ NotifiedOnce

\* The feed that threads, responses and both clients come to.
Feed == INSTANCE MessageFeed WITH
  Time <- 1 .. MaxClock, at <- delivered_at, steady <- setbacks = 0, type <- list.type,
  listed <- {m \in Message : InList(m)}, notified <- {m \in Message : WasShown(m)}

\* Whatever a response holds, however many of them are under way and whenever they are
\* taken, the list takes on top of it what is newer, in one piece while the clock is
\* steady, and the notifications what is new to them (GetMessagesStreamed,
\* IncomingMessageList, registerForNotifications).
ImplementsFeed == Feed!Spec

\* What is on the screen is right in each state and changes only as the feed does.
ScreenKeepsPromise == [](ListIsNewestFirst /\ ListHasNoGaps /\ NotifiedOnce) /\ ImplementsFeed

\* A message that was there before the stream of notifications began is never
\* notified.
OldNeverNotified ==
  \A m \in Message, c \in Stream :
    [](m \in Delivered /\ notifier.call = c /\ stream[c].pc = "opened" => [](~ WasShown(m)))

\* No wakeup is lost: a message that is there when the transmitter is about to
\* notify is in the list soon, even if no thread ever sleeps for its whole hour.
StreamedSoonAfterNotify ==
  \A m \in Message, c \in Stream :
    (m \in Delivered /\ notifying /\ list.call = c /\ list.type = "ALL")
      ~> (InList(m) \/ list.call # c)

\* A stream of all messages brings every message, unless the list goes away: also
\* the text of an invitation, which nobody is notified of, within the hour.
EachMessageIsStreamed ==
  \A m \in Message, c \in Stream :
    (m \in Delivered /\ list.call = c /\ list.type = "ALL") ~> (InList(m) \/ list.call # c)

\* A message that arrives after the first response is notified, unless it is
\* seen before or the stream breaks.
NewIsNotified ==
  \A m \in Message, c \in Stream :
    (/\ notifier.call = c /\ stream[c].pc \in {"top", "asleep", "woken"}
     /\ delivered_at[m] > stream[c].last /\ m \notin seen)
      ~> (WasShown(m) \/ m \in seen \/ notifier.call # c)

\* The thread of a call whose list is gone ends: each mount of a list takes one.
CancelledCallsEnd == \A c \in Stream : stream[c].cancelled ~> ~ stream[c].cancelled

=============================================================================
