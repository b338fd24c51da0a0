----------------------------- MODULE MessageFeed -----------------------------
(***************************************************************************)
(* What the daemon promises whoever looks at the screen, with nothing of    *)
(* streams, threads and responses: messages arrive, each at a time of its   *)
(* own; a list that is opened fills from the old to the new and misses      *)
(* nothing while the clock is steady; and nobody is notified twice.         *)
(***************************************************************************)
EXTENDS Integers

CONSTANTS Message, Time

VARIABLES
  at,       \* when each message arrived, 0 if it has not
  steady,   \* the clock was never set back
  type,     \* whether the list is of "ALL" messages or of "NEW" ones
  listed,   \* the messages of the list, shown newest first
  notified

feedVars == <<at, steady, type, listed, notified>>

Init ==
  /\ at = [m \in Message |-> 0] /\ steady = TRUE
  /\ type = "NEW" /\ listed = {} /\ notified = {}

Arrived == {m \in Message : at[m] # 0}

Arrive(m) ==
  /\ at[m] = 0
  /\ \E t \in Time :
       /\ \A n \in Message : IF steady THEN at[n] < t ELSE at[n] # t
       /\ at' = [at EXCEPT ![m] = t]
  /\ UNCHANGED <<steady, type, listed, notified>>

SetClockBack ==
  /\ steady' = FALSE
  /\ UNCHANGED <<at, type, listed, notified>>

Open(t) ==
  /\ type' = t /\ listed' = {}
  /\ UNCHANGED <<at, steady, notified>>

NewerThanListed == {m \in Arrived : \A n \in listed : at[n] < at[m]}

\* Messages come on top of the list.
Show(ms) ==
  /\ steady /\ type = "ALL" =>
       \A m \in ms, n \in NewerThanListed : at[n] < at[m] => n \in ms
  /\ listed' = listed \cup ms
  /\ UNCHANGED <<at, steady, type, notified>>

Notify(ms) ==
  /\ notified' = notified \cup ms
  /\ UNCHANGED <<at, steady, type, listed>>

Next ==
  \/ \E ms \in SUBSET (Arrived \ notified) : Notify(ms)
  \/ \E ms \in SUBSET NewerThanListed : Show(ms)
  \/ \E t \in {"NEW", "ALL"} : Open(t)
  \/ \E m \in Message : Arrive(m)
  \/ SetClockBack

Spec == Init /\ [][Next]_feedVars

=============================================================================
