---------------------------- MODULE MCClientDb ----------------------------
(* Small instances of ClientDb for TLC: who may queue what, and for whom.  *)
EXTENDS ClientDb

CONSTANTS alice, bob, carol, m1, m2, m3

\* alice writes m1 and m2, bob m3.
AuthorTwoWay == [m \in Message |-> IF m = m3 THEN bob ELSE alice]

\* m1 takes two chunks, every other message one.
TwoChunksFirst == [m \in Message |-> IF m = m1 THEN 2 ELSE 1]

\* m1 is the empty message to a single friend.
EmptyFirst == [m \in Message |-> IF m = m1 THEN 0 ELSE 1]

\* Every way two daemons become friends: alice and bob have invited each other
\* synchronously; alice has accepted carol's asynchronous invitation; bob has
\* invited carol asynchronously while she invited him synchronously.
Triangle ==
  [u \in Daemon |-> [v \in Daemon |->
     CASE {u, v} = {alice, bob} -> "OutgoingSync"
       [] u = carol /\ v = alice -> "OutgoingAsync"
       [] u = alice /\ v = carol -> "Complete"
       [] u = bob /\ v = carol -> "OutgoingAsync"
       [] u = carol /\ v = bob -> "OutgoingSync"
       [] OTHER -> "None"]]
=============================================================================
