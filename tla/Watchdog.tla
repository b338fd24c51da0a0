------------------------------ MODULE Watchdog -------------------------------
(***************************************************************************)
(* The watchdog of the daemon.  The transmitter thread pings after each     *)
(* round, another thread calls the daemon's own RPC server and pings when   *)
(* it answers, and the main thread waits for one and the other in turn and  *)
(* exits when a ping is late.  Time passes in steps of a minute, the length *)
(* of grace; the latency is not overridden on the command line.             *)
(***************************************************************************)
EXTENDS Integers

CONSTANTS
  Latency,    \* latencies the user chooses from, in minutes
  MaxRound    \* how long retrieve and send take at most

\* A latency is a number of 32 bits.
ASSUME WatchdogAssumption ==
  /\ Latency \subseteq Nat \ {0} /\ MaxRound \in Nat
  /\ \E longest \in Latency : \A l \in Latency : l <= longest

VARIABLES
  latency,      \* in the database
  transmitter,  \* what the thread does, how long it may still take, and its latency
  grpc,         \* the same for the thread that calls the RPC server
  failed,       \* whether there was an error of the database since the last round
  server,       \* whether the RPC server answers
  main,         \* which ping the main thread waits for, how long, and its timeout
  exited,
  read          \* what the main thread read when its iteration began, for the properties

watchdogVars == <<latency, transmitter, failed, grpc, server, main, exited, read>>

Grace == 1
Factor == 10
Longest == CHOOSE l \in Latency : \A m \in Latency : m <= l

\* Mutant: ten minutes of grace, ten times.
TimeoutOff(l) == Factor * (l + Factor * Grace)

\* The main thread is patient.
Timeout(l) == Factor * (l + Grace)

\* A thread keeps the latency it read, and sleeps for it.
Sleeps(l) == [does |-> "sleep", left |-> l, latency |-> l]

WatchdogTypeOK ==
  /\ latency \in Latency
  /\ transmitter.does \in {"sleep", "round", "pause", "stalled"}
  /\ transmitter.left \in 0..(Longest + Grace + MaxRound) /\ transmitter.latency \in Latency
  /\ grpc.does \in {"sleep", "call"} /\ grpc.left \in 0..grpc.latency
  /\ grpc.latency \in {l + Grace : l \in Latency}
  /\ failed \in BOOLEAN /\ server \in {"up", "dead"}
  /\ main.waits \in {"transmitter", "grpc"} /\ main.left \in 0..main.timeout
  /\ main.timeout \in 0..(Factor * (Longest + Grace))
  /\ exited \in BOOLEAN /\ read \in Latency

WatchdogInit ==
  /\ latency \in Latency
  /\ transmitter = Sleeps(latency) /\ grpc = Sleeps(latency + Grace)
  /\ failed = FALSE /\ server = "up" /\ exited = FALSE /\ read = latency
  /\ main = [waits |-> "transmitter", left |-> Timeout(latency), timeout |-> Timeout(latency)]

-----------------------------------------------------------------------------

\* Mutant: the timeout is the latency itself.
WaitTight(thread, timeout) == main' = [waits |-> thread, left |-> latency, timeout |-> timeout]

\* The main thread begins to wait for the ping of a thread.
Wait(thread, timeout) == main' = [waits |-> thread, left |-> timeout, timeout |-> timeout]

\* Mutant: the timeout is computed once for all iterations.
AwaitOther(thread) ==
  Wait(IF thread = "grpc" THEN "transmitter" ELSE "grpc", main.timeout)

\* The two threads in turn; the timeout is computed before the first wait and serves for both.
AwaitNext(thread) ==
  IF thread = "transmitter" THEN Wait("grpc", main.timeout)
  ELSE Wait("transmitter", Timeout(latency))

\* Mutant: every ping is taken for the one that is waited for.
AnyPing(thread) == AwaitNext(main.waits)

\* Only the ping that the main thread waits for wakes it.
Ping(thread) ==
  IF main.waits = thread THEN AwaitNext(thread) ELSE UNCHANGED main

\* An iteration of the main thread ends with the second ping.
NoteRead ==
  read' = IF main.waits = "grpc" /\ main'.waits = "transmitter" THEN latency ELSE read

\* wait_for ran out.
Exit ==
  /\ ~ exited /\ main.left = 0
  /\ exited' = TRUE
  /\ UNCHANGED <<latency, transmitter, failed, grpc, server, main, read>>

-----------------------------------------------------------------------------

\* retrieve and send.
BeginRound ==
  /\ ~ exited /\ transmitter.does = "sleep" /\ transmitter.left = 0
  /\ transmitter' = [transmitter EXCEPT !.does = "round", !.left = MaxRound]
  /\ UNCHANGED <<latency, failed, grpc, server, main, exited, read>>

\* After an error of the database half a minute passes, here a whole one.
Pauses ==
  /\ transmitter' = [transmitter EXCEPT !.does = "pause", !.left = Grace]
  /\ failed' = TRUE

\* A round ends well before its time is up, and the thread sleeps again, if it can read
\* the latency.
EndRound ==
  /\ ~ exited /\ transmitter.does = "round"
  /\ Ping("transmitter") /\ NoteRead
  /\ \/ transmitter' = Sleeps(latency) /\ failed' = FALSE
     \/ Pauses
  /\ UNCHANGED <<latency, grpc, server, exited>>

\* An error ends the round without a ping.
FailRound ==
  /\ ~ exited /\ transmitter.does = "round"
  /\ Pauses
  /\ UNCHANGED <<latency, grpc, server, main, exited, read>>

\* The latency is read again.
EndPause ==
  /\ ~ exited /\ transmitter.does = "pause" /\ transmitter.left = 0
  /\ \/ transmitter' = Sleeps(latency) /\ UNCHANGED failed
     \/ Pauses
  /\ UNCHANGED <<latency, grpc, server, main, exited, read>>

\* A round does not come to its end: no database, or a call without a deadline.
Stall ==
  /\ ~ exited /\ transmitter.does = "round"
  /\ transmitter' = [transmitter EXCEPT !.does = "stalled", !.left = 0]
  /\ UNCHANGED <<latency, failed, grpc, server, main, exited, read>>

\* The server's threads are all taken, or gone.
ServerDies ==
  /\ ~ exited /\ server = "up"
  /\ server' = "dead"
  /\ UNCHANGED <<latency, transmitter, failed, grpc, main, exited, read>>

\* GetStatus, with the deadline the thread has slept for.
CallServer ==
  /\ ~ exited /\ grpc.does = "sleep" /\ grpc.left = 0
  /\ IF server = "up"
     THEN Ping("grpc") /\ grpc' = Sleeps(latency + Grace)
     ELSE UNCHANGED main /\ grpc' = [grpc EXCEPT !.does = "call", !.left = grpc.latency]
  /\ NoteRead
  /\ UNCHANGED <<latency, transmitter, failed, server, exited>>

CallFails ==
  /\ ~ exited /\ grpc.does = "call" /\ grpc.left = 0
  /\ grpc' = Sleeps(latency + Grace)
  /\ UNCHANGED <<latency, transmitter, failed, server, main, exited, read>>

\* The RPC ChangeLatency, which needs the server.
ChangeLatency(l) ==
  /\ ~ exited /\ server = "up"
  /\ l # latency
  /\ latency' = l
  /\ UNCHANGED <<transmitter, failed, grpc, server, main, exited, read>>

-----------------------------------------------------------------------------

\* A minute passes, unless something is due.
MinutePasses ==
  LET Less(t) == [t EXCEPT !.left = @ - 1] IN
  /\ ~ exited /\ main.left > 0 /\ grpc.left > 0
  /\ transmitter.does = "stalled" \/ transmitter.left > 0
  /\ transmitter' = IF transmitter.does = "stalled" THEN transmitter ELSE Less(transmitter)
  /\ grpc' = Less(grpc) /\ main' = Less(main)
  /\ UNCHANGED <<latency, failed, server, exited, read>>

WatchdogNext ==
  \/ BeginRound \/ EndRound \/ FailRound \/ EndPause \/ Stall \/ ServerDies
  \/ CallServer \/ CallFails \/ Exit
  \/ \E l \in Latency : ChangeLatency(l)
  \/ MinutePasses

\* Time goes on, and a thread does what is due.
WatchdogFairness ==
  WF_watchdogVars(MinutePasses \/ BeginRound \/ EndPause \/ CallServer \/ CallFails \/ Exit)
  /\ WF_watchdogVars(transmitter.left = 0 /\ (EndRound \/ FailRound \/ Stall))

WatchdogSpec == WatchdogInit /\ [][WatchdogNext]_watchdogVars /\ WatchdogFairness

-----------------------------------------------------------------------------

\* The thread that is waited for read a latency so much longer than the main thread did
\* that its sleep, and a round after it, outlast ten times the other.
FarApart ==
  Timeout(read) <=
    IF main.waits = "grpc" THEN grpc.latency ELSE transmitter.latency + MaxRound

\* The daemon exits only when a thread has "stalled or died" (main.cc), or no round has
\* ended since an error of the database, or the latency was changed more than tenfold
\* between the main thread's reading of it and the other thread's.
HealthyIsNotKilled ==
  exited => transmitter.does = "stalled" \/ failed \/ server = "dead" \/ FarApart

\* A daemon one of whose threads is stuck exits, so that it is started again.
StuckIsKilled == transmitter.does = "stalled" \/ server = "dead" ~> exited

\* The daemon is killed if a thread is stuck, and only if something is wrong or the latency
\* was changed more than tenfold (main.cc).
KillsTheStuckOnly == []HealthyIsNotKilled /\ StuckIsKilled

=============================================================================
