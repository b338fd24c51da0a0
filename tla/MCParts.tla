------------------------------- MODULE MCParts -------------------------------
(***************************************************************************)
(* The parts around the transport for TLC.  They share no variable, so a    *)
(* property of one of them holds whatever the others do if it holds while    *)
(* they stand still: in each behaviour one part moves.                       *)
(***************************************************************************)
EXTENDS Parts

CONSTANTS Moving,  \* the parts of this run
          m1, m2, m3, w1, c1, c2, f1

VARIABLE part

vars == <<part, registerVars, pirVars, streamVars, watchdogVars, rpcVars, windowVars,
          dialogsVars, addFriendVars, animationVars>>

TwoMessages == {m1, m2}
ThreeMessages == {m1, m2, m3}
OneMessage == {w1}
OneFriend == {f1}
TwoCalls == {c1, c2}
Outbox == {"outbox"}
AllMethods == DaemonImpl

\* Some parts move in more than one setting.
Streams == {"stream", "stream, clock set back", "stream, no hour passes"}
Windows == {"window", "window, sent twice"}
Rpcs == {"rpc, any method", "rpc, registration"}
Watchdogs == {"watchdog", "watchdog, far apart"}

Shortest == CHOOSE l \in Latency : \A m \in Latency : l <= m

\* Latencies with which no sleep and round outlast a timeout.
Moderate == {l \in Latency : \A m \in Latency : l + Grace + MaxRound < Timeout(m)}

\* A part that stands still does so in one of its initial states.
Still ==
  /\ part \notin Streams => notifier.call = NoCall
  /\ part \notin Watchdogs => latency = Longest
  /\ part \notin Rpcs => registered
  /\ part # "dialogs" => isRegistered /\ modal = "none"
  /\ part # "animation" => now = 0

MCInit ==
  /\ part \in Moving
  /\ RegisterInit /\ PirInit /\ StreamInit /\ WatchdogInit /\ RpcInit /\ WindowInit
  /\ DialogsInit /\ AddFriendInit /\ AnimationInit
  /\ Still
  /\ part \in Watchdogs =>
       latency \in IF part = "watchdog" THEN Moderate ELSE {Shortest, Longest}

(* Samples of a message as the daemon and the window fill it in: a value   *)
(* other than the default tells its field by its name or number, and a list*)
(* is empty, has one element, or has the plainest one and the fullest one. *)

RECURSIVE Samples(_), SamplesUpTo(_, _)
Samples(type) == SamplesUpTo(type, Len(type))

SampleValues(type, i) ==
  LET f == type[i]
  IN  CASE f.kind \in {"string", "optional"} -> {"", f.name}
        [] f.kind = "bool" -> BOOLEAN
        [] f.kind = "int" -> {0, 10 + i}
        [] f.kind = "enum" -> {0, f.type - 1}
        [] f.kind = "time" -> {f.name}
        [] f.kind = "strings" -> {<<>>, <<"a">>, <<"a", "">>}
        [] f.kind = "list" ->
             LET S == Samples(f.type)
                 Size(s) == LET w == serializeBinary(f.type, s)
                            IN  Cardinality(UNION {{n} \X DOMAIN w[n] : n \in DOMAIN w})
                 Sizes == {Size(s) : s \in S}
                 Plain == CHOOSE s \in S : \A n \in Sizes : Size(s) <= n
                 Full == CHOOSE s \in S : \A n \in Sizes : Size(s) >= n
             IN  {<<>>, <<Plain, Full>>} \cup {<<s>> : s \in S}

SamplesUpTo(type, i) ==
  IF i = 0 THEN {<<>>}
  ELSE {msg @@ (type[i].name :> v) : msg \in SamplesUpTo(type, i - 1), v \in SampleValues(type, i)}

-----------------------------------------------------------------------------

\* Around the registration the arguments do not matter.
Argument == [method \in {hasRegistered, registerUser, getMyPublicID} |->
               CHOOSE arg \in MessageOf(Stub!Service[method.rpc].request) : TRUE]

(* What a setting leaves out.  Nothing tells messages apart but when they   *)
(* arrive, so three of them do in one order.  Threads and daemons are alike,*)
(* so the first one begins; rows are but for the last, so no query is for   *)
(* another than these two; and a query changes nothing, so there is one at  *)
(* a time.                                                                 *)

StreamSetting ==
  /\ Message = ThreeMessages => Delivered' \in {{}, {m1}, {m1, m2}, ThreeMessages}
  /\ seen' \subseteq (IF Message = ThreeMessages THEN {m2} ELSE {m1})
  /\ IF part = "stream, clock set back"
     THEN clock' < MaxClock /\ Cardinality(Delivered') <= 2 /\ setbacks' + stops' <= 1
     ELSE setbacks' = 0 /\ stops' = 0
  /\ part = "stream, no hour passes" => Delivered' \subseteq {m1}

RegisterSetting ==
  LET first == CHOOSE d \in Daemon : TRUE
  IN  call[1] = Unused /\ call'[1] # Unused => call'[1].daemon = first

PirSetting ==
  /\ LET Queries == {h \in Handler : handler'[h].does = "answer"}
     IN  Cardinality(Queries) <= 1 /\ \A h \in Queries : handler'[h].row \in {0, LastRow}
  /\ LET first == CHOOSE h \in Handler : TRUE
     IN  handler[first] = Idle =>
           \A h \in Handler \ {first} : handler[h] = Idle => handler'[h] = Idle

WindowSetting ==
  IF part = "window"
  THEN /\ Len(sends') <= 1
       /\ \A i \in DOMAIN tabs' : tabs'[i].type = "write" => ~ tabs'[i].data.searching
  ELSE Len(tabs') <= 3 /\ \A i \in DOMAIN tabs' : tabs'[i].type \notin {"outbox", "read"}

\* Either anything goes wrong, or the latencies are out of all proportion.
WatchdogSetting ==
  IF part = "watchdog" THEN latency' \in Moderate
  ELSE /\ latency' \in {Shortest, Longest}
       /\ ~ failed' /\ transmitter'.does # "stalled" /\ server' = "up"

Setting ==
  /\ part \in Streams => StreamSetting
  /\ part = "registration" => RegisterSetting
  /\ part = "pir" => PirSetting
  /\ part \in Windows => WindowSetting
  /\ part \in Watchdogs => WatchdogSetting

MCNext ==
  /\ UNCHANGED part
  /\ IF part = "registration" THEN RegisterNext ELSE UNCHANGED registerVars
  /\ IF part = "pir" THEN PirNext ELSE UNCHANGED pirVars
  /\ IF part \in Streams THEN StreamNext ELSE UNCHANGED streamVars
  /\ IF part \in Watchdogs THEN WatchdogNext ELSE UNCHANGED watchdogVars
  /\ CASE part = "rpc, any method" ->
            \/ rpcCall[c1].at \notin Settled /\ CallStep(c1, Method)
            \/ DaemonUnavailable
       [] part = "rpc, registration" ->
            \/ \E c \in RpcCall : \/ CallStep(c, {})
                                 \/ \E method \in DOMAIN Argument :
                                      Invoke(c, method, Argument[method])
            \/ DaemonUnavailable
       [] OTHER -> UNCHANGED rpcVars
  /\ IF part \in Windows THEN WindowNext ELSE UNCHANGED windowVars
  /\ IF part = "dialogs" THEN DialogsNext ELSE UNCHANGED dialogsVars
  /\ IF part = "add friend" THEN AddFriendNext ELSE UNCHANGED addFriendVars
  /\ IF part = "animation" THEN AnimationNext ELSE UNCHANGED animationVars
  /\ Setting

MCSpec == MCInit /\ [][MCNext]_vars

\* The fairness of the part that moves.
MCFairSpec ==
  /\ MCSpec
  /\ \A d \in Daemon : WF_registerVars(part = "registration" /\ Publish(d))
  /\ \A c \in Stream : /\ WF_streamVars(part \in Streams /\ Runnable(c))
                       /\ WF_streamVars(part = "stream" /\ AnHourPasses(c))
  /\ WF_streamVars(part \in Streams /\ NotifyAll)
  /\ WF_streamVars(part \in Streams /\ ListData)
  /\ WF_streamVars(part \in Streams /\ NotifierData)
  /\ WF_watchdogVars(part \in Watchdogs /\ (MinutePasses \/ BeginRound \/ EndPause
                                                 \/ CallServer \/ CallFails \/ Exit))
  /\ WF_watchdogVars(part \in Watchdogs /\ transmitter.left = 0
                     /\ (EndRound \/ FailRound \/ Stall))
  /\ WF_dialogsVars(part = "dialogs" /\ StatusTimer)
  /\ WF_dialogsVars(part = "dialogs" /\ AnimationEnds)
  /\ WF_dialogsVars(part = "dialogs" /\ DaemonAnswers)
  /\ \A answer \in {"yes", "no", "error"} :
       WF_dialogsVars(part = "dialogs" /\ HasRegistered(answer))

-----------------------------------------------------------------------------

\* A stream of all messages brings every message, a message that is new is notified, and
\* the thread of a list that is gone ends, within the hour.  No old message is notified.
\* Once the transmitter notifies, nobody needs the hour (GetMessagesStreamed, main.ts).
StreamsKeepUp ==
  /\ part = "stream" => EachMessageIsStreamed /\ NewIsNotified /\ CancelledCallsEnd
  /\ OldNeverNotified /\ StreamedSoonAfterNotify

=============================================================================
