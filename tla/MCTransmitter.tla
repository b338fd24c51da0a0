--------------------------- MODULE MCTransmitter ---------------------------
(* Small instances of Transmitter for TLC.  The number of faults is bounded *)
(* by MaxFaults; without that bound the threads restart forever.            *)
EXTENDS Transmitter, TLC

CONSTANTS alice, bob, carol, m1, m2, m3, MaxFaults, RoundsAtOnce, Offline, s1, s2

VARIABLE faults

\* alice writes m1 and m2, bob m3.
AuthorTwoWay == [m \in Message |-> IF m = m3 THEN bob ELSE alice]

\* m1 takes two chunks, every other message one.
TwoChunksFirst == [m \in Message |-> IF m = m1 THEN 2 ELSE 1]

\* alice and bob have invited each other synchronously; carol has accepted
\* alice's asynchronous invitation; bob and carol are no friends.
FriendsOfAlice ==
  [u \in Daemon |-> [v \in Daemon |->
     CASE {u, v} = {alice, bob} -> "OutgoingSync"
       [] u = alice /\ v = carol -> "OutgoingAsync"
       [] u = carol /\ v = alice -> "Complete"
       [] OTHER -> "None"]]

SlotSymmetry == Permutations(Slot)

MCInit == Init /\ faults = 0

MCNext ==
  /\ \/ /\ \/ \E m \in Message : Submit(m)
           \/ \E u \in Daemon : Round(u) \/ \E s \in Slot : Serve(u, s)
        /\ UNCHANGED faults
     \/ /\ Fault
        /\ faults < MaxFaults
        /\ faults' = faults + 1
  /\ Cardinality({u \in Daemon : pc'[u] # "sleep"}) <= RoundsAtOnce
  /\ \A u \in Offline : pc'[u] = "sleep"

MCSpec == MCInit /\ [][MCNext]_<<vars, faults>>

MCFairSpec == MCSpec /\ Fairness

\* bob may go offline for good at any time.
MCAliceOnline == MCSpec /\ FairOnline({alice})
AliceRetries == UnackedIsRetried(alice)
=============================================================================
