---------------------------- MODULE Registration -----------------------------
(***************************************************************************)
(* Registration at the server: a row in each of the two PIR databases, an   *)
(* account in PostgreSQL, the invitation key in a table in memory, and the  *)
(* answer to the daemon.  Handlers run side by side, daemons give up, and   *)
(* the server restarts from its accounts.                                   *)
(***************************************************************************)
EXTENDS Naturals, FiniteSets, Sequences

CONSTANTS
  Daemon,
  MaxCalls,     \* bound on the calls of Register ever made
  MaxHandlers,  \* bound on those that run at a time
  MaxRestarts   \* bound on the restarts of the server

ASSUME RegistrationAssumption ==
  MaxCalls \in Nat /\ MaxHandlers \in Nat /\ MaxRestarts \in Nat

Call == 1..MaxCalls
Pir == {"pir", "pir_acks"}

VARIABLES
  rows,          \* db_rows of both databases
  accounts,      \* the indices in the accounts table; the place is the token
  published,     \* indices with a key in the table of invitations
  call,          \* what each call of Register is doing
  waiting,       \* the call whose answer the daemon waits for, or 0
  registration,  \* the token in the daemon's database, or 0
  restarts,
  (* For the properties: what no lock prevents. *)
  collided,      \* whether two calls were ever inside allocate of one database
  interleaved    \* whether one allocated between the allocations of another since the start

serverVars == <<rows, accounts, published>>
daemonVars == <<waiting, registration>>
overlapVars == <<collided, interleaved>>
registerVars == <<serverVars, call, daemonVars, restarts, overlapVars>>

Unused == [at |-> "unused"]
Steps == {"load", "store", "account", "publish"}
Results == {"ok", "failed"}
Running == {k \in Call : call[k].at \in Steps}
IndexRange == 0..MaxCalls
Allocated(index) == \A p \in Pir : index < rows[p]

\* Inside allocate of p; on the second allocation; between the first and the last of both.
Storing(k, p) == call[k].at = "store" /\ call[k].pir = p
OnSecond(k) == call[k].at \in {"load", "store"} /\ call[k].pir = "pir_acks"
InPair(k) == Storing(k, "pir") \/ OnSecond(k)

RegisterTypeOK ==
  /\ rows \in [Pir -> 0..(MaxCalls + 1)]
  /\ accounts \in Seq(IndexRange) /\ Len(accounts) <= MaxCalls
  /\ published \subseteq IndexRange
  /\ \A k \in Call :
       \/ call[k].at \in {"unused", "over"}
       \/ /\ call[k].at \in Steps \cup Results /\ call[k].daemon \in Daemon
          /\ \A p \in Pir : call[k].index[p] \in IndexRange
  /\ \A d \in Daemon : waiting[d] # 0 =>
       /\ waiting[d] \in Running \cup {k \in Call : call[k].at \in Results}
       /\ call[waiting[d]].daemon = d
  /\ registration \in [Daemon -> 0..Len(accounts)]
  /\ restarts \in 0..MaxRestarts
  /\ collided \in BOOLEAN /\ interleaved \in BOOLEAN

RegisterInit ==
  /\ rows = [p \in Pir |-> 0] /\ accounts = <<>> /\ published = {}
  /\ call = [k \in Call |-> Unused]
  /\ waiting = [d \in Daemon |-> 0] /\ registration = [d \in Daemon |-> 0]
  /\ restarts = 0 /\ collided = FALSE /\ interleaved = FALSE

-----------------------------------------------------------------------------

\* The daemon has no registration and asks for one.
RegisterUser(d) ==
  /\ registration[d] = 0 /\ waiting[d] = 0
  /\ Cardinality(Running) < MaxHandlers
  /\ \E k \in Call :
       /\ call[k] = Unused /\ \A j \in 1..(k - 1) : call[j] # Unused
       /\ call' = [call EXCEPT ![k] = [at |-> "load", daemon |-> d, pir |-> "pir",
                                       index |-> [p \in Pir |-> 0], token |-> 0]]
       /\ waiting' = [waiting EXCEPT ![d] = k]
  /\ UNCHANGED <<serverVars, registration, restarts, overlapVars>>

\* allocate reads the number of rows ...
AllocateLoad(k) ==
  /\ call[k].at = "load"
  /\ call' = [call EXCEPT ![k].at = "store", ![k].index[call[k].pir] = rows[call[k].pir]]
  /\ collided' = (collided \/ \E j \in Call : Storing(j, call[k].pir))
  /\ interleaved' = (interleaved \/ \E j \in Call \ {k} : InPair(j))
  /\ UNCHANGED <<serverVars, daemonVars, restarts>>

\* ... and stores the next one; first for the messages, then for the acks.
AllocateStore(k) ==
  LET p == call[k].pir IN
  /\ call[k].at = "store"
  /\ rows' = [rows EXCEPT ![p] = call[k].index[p] + 1]
  /\ call' = [call EXCEPT ![k].at = IF p = "pir" THEN "load" ELSE "account",
                          ![k].pir = "pir_acks"]
  /\ UNCHANGED <<accounts, published, daemonVars, restarts, overlapVars>>

\* The account belongs to the index that the first database gave.
generate_account(k) ==
  /\ call[k].at = "account"
  /\ \/ /\ accounts' = Append(accounts, call[k].index["pir"])
        /\ call' = [call EXCEPT ![k].at = "publish", ![k].token = Len(accounts')]
     \/ /\ call' = [call EXCEPT ![k].at = "failed"]
        /\ UNCHANGED accounts
  /\ UNCHANGED <<rows, published, daemonVars, restarts, overlapVars>>

register_user(k) ==
  /\ call[k].at = "publish"
  /\ published' = published \cup {call[k].index["pir"]}
  /\ call' = [call EXCEPT ![k].at = "ok"]
  /\ UNCHANGED <<rows, accounts, daemonVars, restarts, overlapVars>>

\* The answer reaches a daemon that waits for it; do_register may fail.
Answer(k) ==
  LET d == call[k].daemon IN
  /\ call[k].at \in Results
  /\ call' = [call EXCEPT ![k] = [at |-> "over"]]
  /\ waiting' = [waiting EXCEPT ![d] = IF @ = k THEN 0 ELSE @]
  /\ registration' \in {registration} \cup
       (IF waiting[d] = k /\ call[k].at = "ok"
        THEN {[registration EXCEPT ![d] = call[k].token]} ELSE {})
  /\ UNCHANGED <<serverVars, restarts, overlapVars>>

\* The deadline of 60 seconds; the server goes on.
GiveUp(d) ==
  /\ waiting[d] # 0 /\ waiting' = [waiting EXCEPT ![d] = 0]
  /\ UNCHANGED <<serverVars, call, registration, restarts, overlapVars>>

-----------------------------------------------------------------------------

\* Mutant: the key is registered by Register only.
PublishNothing(d) ==
  /\ registration[d] # 0 /\ UNCHANGED registerVars

\* In every round a daemon sends an invitation, real or dummy, and its key with it,
\* if its token is good for its index.
Publish(d) ==
  /\ registration[d] # 0
  /\ published' = published \cup {accounts[registration[d]]}
  /\ UNCHANGED <<rows, accounts, call, daemonVars, restarts, overlapVars>>

MaxIndex == CHOOSE m \in {accounts[a] : a \in DOMAIN accounts} :
              \A a \in DOMAIN accounts : accounts[a] <= m

\* Mutant: as many rows as accounts.
allocate_to_count(p) == Len(accounts)

\* Mutant: the acks are left empty.
allocate_one(p) == IF p = "pir" /\ accounts # <<>> THEN MaxIndex + 1 ELSE 0

\* Mutant: the highest index is taken for the number of rows.
allocate_below_max(p) == IF accounts = <<>> THEN 0 ELSE MaxIndex

\* As many rows as the highest index in use needs.
allocate_to_max(p) == IF accounts = <<>> THEN 0 ELSE MaxIndex + 1

\* Mutant: daemons go on waiting.
RestartUnnoticed ==
  /\ restarts < MaxRestarts /\ restarts' = restarts + 1
  /\ rows' = [p \in Pir |-> allocate_to_max(p)]
  /\ published' = {}
  /\ call' = [k \in Call |-> IF k \in Running THEN [at |-> "over"] ELSE call[k]]
  /\ UNCHANGED <<accounts, daemonVars, overlapVars>>

\* The server stops, with the calls that run in it, and starts again from the accounts.
Restart ==
  /\ restarts < MaxRestarts /\ restarts' = restarts + 1
  /\ rows' = [p \in Pir |-> allocate_to_max(p)]
  /\ published' = {}
  /\ call' = [k \in Call |-> IF k \in Running THEN [at |-> "over"] ELSE call[k]]
  /\ waiting' = [d \in Daemon |-> IF waiting[d] \in Running THEN 0 ELSE waiting[d]]
  /\ interleaved' = FALSE
  /\ UNCHANGED <<accounts, registration, collided>>

RegisterNext ==
  \/ \E d \in Daemon : RegisterUser(d) \/ GiveUp(d) \/ Publish(d)
  \/ \E k \in Call : \/ AllocateLoad(k) \/ AllocateStore(k) \/ generate_account(k)
                     \/ register_user(k) \/ Answer(k)
  \/ Restart

\* The transmitter comes to the end of a round again and again.
RegisterFairness == \A d \in Daemon : WF_registerVars(Publish(d))

RegisterSpec == RegisterInit /\ [][RegisterNext]_registerVars /\ RegisterFairness

-----------------------------------------------------------------------------

\* No two accounts share a mailbox, also when an index that was handed out before a
\* restart is handed out again (ServerRpc, FastPIR::allocate).
DistinctMailboxes ==
  \A a, b \in DOMAIN accounts : accounts[a] = accounts[b] => a = b

\* Every account has a row in both databases.
MailboxesAllocated == \A a \in DOMAIN accounts : Allocated(accounts[a])

\* Register: assert(allocation == acks_allocation).
AllocationsAgree ==
  \A k \in Call : call[k].at = "account" => call[k].index["pir"] = call[k].index["pir_acks"]

\* What registrations side by side, failed inserts, retries and restarts leave of the
\* mailboxes (ServerRpc::Register).  Unless two calls meet inside one allocate, which has no
\* lock, no two accounts share a mailbox, and each has its rows whenever no call is on its
\* second allocation.  Unless one allocates between the two allocations of another, every
\* account has its rows all the time and the assertion holds; a restart mends what went
\* wrong of that before.
MailboxesAreSound ==
  /\ ~ collided => DistinctMailboxes
  /\ ~ collided /\ (\A k \in Call : ~ OnSecond(k)) => MailboxesAllocated
  /\ ~ interleaved => MailboxesAllocated /\ AllocationsAgree

\* The key of a registered daemon is known to the server again after a restart, which
\* forgets all keys.
KeyComesBack ==
  \A d \in Daemon : registration[d] # 0 ~> /\ registration[d] # 0
                                           /\ accounts[registration[d]] \in published

=============================================================================
