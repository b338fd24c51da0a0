--------------------------- MODULE MessageChannel ---------------------------
(***************************************************************************)
(* What the messenger promises its users, with nothing of how it does it:  *)
(* a message is handed over once for some friends, each of them gets it    *)
(* exactly once and in the order of handing over, and the sender sees it   *)
(* as delivered to a friend only when that friend has it.                  *)
(***************************************************************************)
EXTENDS Integers, Sequences

CONSTANTS Daemon, Message, Author

VARIABLES
  queue,      \* queue[u][v]: what u has handed over for v
  inbox,      \* inbox[v][u]: what v has got from u
  confirmed   \* confirmed[m]: the friends m is shown as delivered to

chvars == <<queue, inbox, confirmed>>

Init ==
  /\ queue = [u \in Daemon |-> [v \in Daemon |-> <<>>]]
  /\ inbox = [u \in Daemon |-> [v \in Daemon |-> <<>>]]
  /\ confirmed = [m \in Message |-> {}]

Submit(m, rs) ==
  /\ rs # {}
  /\ \A v \in Daemon : \A k \in DOMAIN queue[Author[m]][v] : queue[Author[m]][v][k] # m
  /\ queue' = [queue EXCEPT ![Author[m]] =
                 [v \in Daemon |-> IF v \in rs THEN Append(@[v], m) ELSE @[v]]]
  /\ UNCHANGED <<inbox, confirmed>>

Deliver(u, v) ==
  /\ Len(inbox[v][u]) < Len(queue[u][v])
  /\ inbox' = [inbox EXCEPT ![v][u] = Append(@, queue[u][v][Len(@) + 1])]
  /\ UNCHANGED <<queue, confirmed>>

\* Several messages may be confirmed together, or none.
Confirm(v, ms) ==
  /\ \A m \in ms : /\ v \notin confirmed[m]
                   /\ \E k \in DOMAIN inbox[v][Author[m]] : inbox[v][Author[m]][k] = m
  /\ confirmed' = [m \in Message |-> IF m \in ms THEN confirmed[m] \cup {v}
                                                 ELSE confirmed[m]]
  /\ UNCHANGED <<queue, inbox>>

Next ==
  \/ \E v \in Daemon : \E ms \in SUBSET Message : Confirm(v, ms)
  \/ \E u, v \in Daemon : Deliver(u, v)
  \/ \E m \in Message : \E rs \in SUBSET Daemon : Submit(m, rs)

Spec == Init /\ [][Next]_chvars

\* Whatever has been handed over arrives.
FairSpec == Spec /\ \A u, v \in Daemon : WF_chvars(Deliver(u, v))
=============================================================================
