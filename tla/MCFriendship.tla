---------------------------- MODULE MCFriendship -----------------------------
(* Two users for TLC.  Each behaviour is one scenario: both invite each other; *)
(* only one invites, writes before the other has accepted, and removes him;     *)
(* both add each other by their stories.                                       *)
EXTENDS Friendship

CONSTANTS Scenarios,  \* those of this run
          Inviter,    \* who invites in the one-way scenario
          Mishaps     \* a bound on mishaps for each

VARIABLE scenario

Both == Pairs
MishapsInSafety == [crossing |-> 2, oneway |-> 3]
MishapsInLiveness == [crossing |-> 0, oneway |-> 1, story |-> 1]

\* The calls users do not make in a scenario.
Silent(u) ==
  /\ scenario = "story" \/ (scenario = "oneway" /\ u # Inviter) => asking'[u] = {}
  /\ scenario # "story" => \A v \in User : progress'[u][v] # "OutgoingSync"
  /\ scenario # "oneway" => referred'[u] = {} /\ \A v \in User : told'[u][v] # "removed"

MCInit == Init /\ scenario \in Scenarios

MCNext ==
  /\ Next /\ UNCHANGED scenario
  /\ mishaps' <= Mishaps[scenario]
  /\ \A u \in User : Silent(u)

MCSpec == MCInit /\ [][MCNext]_<<vars, scenario>>

\* Both are complete friends, which no step ever takes back.
Settled == \A p \in Pairs : progress[p[1]][p[2]] = "Complete"

\* Only in the crossing scenario rounds overlap.
Alternate ==
  scenario # "crossing" => Cardinality({u \in User : at'[u] # "retrieve"}) <= 1

\* Round follows round, so none of the steps that are fair is left out before that.
MCFairSpec ==
  /\ MCInit
  /\ [][IF Settled THEN UNCHANGED <<vars, scenario>> ELSE MCNext /\ Alternate]_<<vars, scenario>>
  /\ Fairness

=============================================================================
