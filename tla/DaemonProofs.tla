---------------------------- MODULE DaemonProofs -----------------------------
(***************************************************************************)
(* Proofs about the daemon's surroundings: the registration at the server,  *)
(* its bounds and its mailboxes with any number of handlers side by side,   *)
(* the watchdog, the codec of both ends, and the calls of the graphical     *)
(* client.                                                                 *)
(***************************************************************************)
EXTENDS Registration, Watchdog, GuiRpc, FiniteSetTheorems, WellFoundedInduction, TLAPS

-----------------------------------------------------------------------------
(* Registration.                                                           *)

Over == [at |-> "over"]
CallRecord == [at : Steps \cup Results, daemon : Daemon, pir : Pir,
               index : [Pir -> Nat], token : Nat]

RegisterTypes ==
  /\ rows \in [Pir -> Nat] /\ accounts \in Seq(Nat)
  /\ call \in [Call -> CallRecord \cup {Unused, Over}]

LEMMA Pirs == "pir" \in Pir /\ "pir_acks" \in Pir /\ \A p \in Pir : p \in {"pir", "pir_acks"}
BY DEF Pir

-----------------------------------------------------------------------------
(* The types of the registration, with any number of handlers: what is       *)
(* handed out is bounded by the calls that have asked for it.               *)

\* A call has stored a row in p, or has come to its end.
HasStored(c, p) ==
  \/ c.at \in {"account", "publish", "over"} \cup Results
  \/ c.at \in {"load", "store"} /\ p = "pir" /\ c.pir = "pir_acks"

\* A call has been given an account, or has come to its end.
HasAccount(c) == c.at \in {"publish", "over"} \cup Results

Stored(p) == {k \in Call : HasStored(call[k], p)}
Accounted == {k \in Call : HasAccount(call[k])}

\* An index that was read is not above the rows that calls have stored, and below them
\* once it has been handed out.
IndexBound(c) ==
  \A p \in Pir : /\ c.index[p] <= Cardinality(Stored(p))
                 /\ HasStored(c, p) => c.index[p] < Cardinality(Stored(p))

\* No more rows and accounts than calls.
Counted ==
  /\ \A p \in Pir : rows[p] <= Cardinality(Stored(p))
  /\ \A a \in DOMAIN accounts : accounts[a] < Cardinality(Stored("pir"))
  /\ Len(accounts) <= Cardinality(Accounted)
  /\ \A k \in Call : call[k].at \in Steps \cup Results =>
       IndexBound(call[k]) /\ call[k].token <= Len(accounts)

\* A daemon waits for a call of its own that is not over.
Links ==
  /\ waiting = [d \in Daemon |-> waiting[d]]
  /\ \A d \in Daemon : waiting[d] # 0 =>
       /\ waiting[d] \in Call /\ call[waiting[d]].at \in Steps \cup Results
       /\ call[waiting[d]].daemon = d
  /\ registration \in [Daemon -> Nat] /\ \A d \in Daemon : registration[d] <= Len(accounts)
  /\ published \subseteq IndexRange /\ restarts \in 0..MaxRestarts

CountInv == RegisterTypes /\ Counted /\ Links

\* A nonempty set of naturals has a least element, and a greatest if it is bounded.
LEMMA LeastOf ==
  ASSUME NEW T, T \subseteq Nat, T # {} PROVE \E m \in T : \A n \in T : m <= n
<1> DEFINE R == OpToRel(<, Nat)
<1>1. \A x, y \in Nat : <<y, x>> \in R <=> y < x
  BY DEF OpToRel
<1>2. IsWellFoundedOn(R, Nat)
  BY NatLessThanWellFounded
<1> HIDE DEF R
<1>3. PICK m \in T : \A n \in T : ~ (<<n, m>> \in R)
  BY <1>2, WFMin
<1>4. ASSUME NEW n \in T PROVE m <= n
  <2>1. m \in Nat /\ n \in Nat /\ ~ (<<n, m>> \in R)
    BY <1>3
  <2> QED BY <2>1, <1>1
<1> QED BY <1>4

LEMMA GreatestOf ==
  ASSUME NEW T, T \subseteq Nat, T # {}, NEW bound \in Nat, \A n \in T : n <= bound
  PROVE  \E m \in T : \A n \in T : n <= m
<1> DEFINE D == {d \in 0..bound : bound - d \in T}
<1>1. D \subseteq Nat
  OBVIOUS
<1>2. \A n \in T : bound - n \in D
  <2> SUFFICES ASSUME NEW n \in T PROVE bound - n \in D
    OBVIOUS
  <2>1. n \in Nat /\ n <= bound
    OBVIOUS
  <2>2. bound - n \in 0..bound /\ bound - (bound - n) = n
    BY <2>1
  <2> QED BY <2>2
<1>3. \A d \in D : d \in 0..bound /\ bound - d \in T
  OBVIOUS
<1> HIDE DEF D
<1>4. D # {}
  BY <1>2
<1>5. PICK d \in D : \A e \in D : d <= e
  BY <1>1, <1>4, LeastOf
<1>6. bound - d \in T
  BY <1>3
<1>7. ASSUME NEW n \in T PROVE n <= bound - d
  <2>1. d <= bound - n /\ n \in Nat /\ d \in Nat
    BY <1>1, <1>2, <1>5
  <2> QED BY <2>1
<1> QED BY <1>6, <1>7

LEMMA CallsFinite ==
  ASSUME NEW S, S \subseteq Call
  PROVE  IsFiniteSet(S) /\ Cardinality(S) \in 0..MaxCalls
<1>1. MaxCalls \in Nat
  BY RegistrationAssumption
<1>2. IsFiniteSet(Call) /\ Cardinality(Call) = MaxCalls
  BY <1>1, FS_Interval DEF Call
<1>3. IsFiniteSet(S) /\ Cardinality(S) <= Cardinality(Call)
  BY <1>2, FS_Subset
<1> QED BY <1>1, <1>2, <1>3, FS_CardinalityType

LEMMA CountsAre ==
  /\ \A p : Cardinality(Stored(p)) \in 0..MaxCalls
  /\ Cardinality(Accounted) \in 0..MaxCalls
BY CallsFinite DEF Stored, Accounted

\* A set of calls grows.
LEMMA Grows ==
  ASSUME NEW S, NEW T, S \subseteq T, T \subseteq Call
  PROVE  /\ Cardinality(S) <= Cardinality(T)
         /\ \A k \in T : k \notin S => Cardinality(S) < Cardinality(T)
<1>1. IsFiniteSet(T) /\ IsFiniteSet(S)
  BY CallsFinite
<1>2. Cardinality(S) \in Nat /\ Cardinality(T) \in Nat
  BY <1>1, FS_CardinalityType
<1>3. Cardinality(S) <= Cardinality(T)
  BY <1>1, FS_Subset
<1>4. ASSUME NEW k \in T, k \notin S PROVE Cardinality(S) < Cardinality(T)
  <2>1. S # T
    BY <1>4
  <2>2. Cardinality(S) # Cardinality(T)
    BY <1>1, <2>1, FS_Subset
  <2> QED BY <1>2, <1>3, <2>2
<1> QED BY <1>3, <1>4

\* Calls go forward.
Forward ==
  \A j \in Call : /\ \A p \in Pir : HasStored(call[j], p) => HasStored(call[j], p)'
                  /\ HasAccount(call[j]) => HasAccount(call[j])'

LEMMA CountsGrow ==
  ASSUME Forward
  PROVE  /\ \A p \in Pir : /\ Cardinality(Stored(p)) <= Cardinality(Stored(p))'
                           /\ \A k \in Stored(p)' : k \notin Stored(p) =>
                                Cardinality(Stored(p)) < Cardinality(Stored(p))'
         /\ Cardinality(Accounted) <= Cardinality(Accounted)'
         /\ \A k \in Accounted' : k \notin Accounted =>
              Cardinality(Accounted) < Cardinality(Accounted)'
<1>1. \A p \in Pir : Stored(p) \subseteq Stored(p)' /\ Stored(p)' \subseteq Call
  BY DEF Forward, Stored
<1>2. Accounted \subseteq Accounted' /\ Accounted' \subseteq Call
  BY DEF Forward, Accounted
<1> QED BY <1>1, <1>2, Grows

\* The record of one call is written, by which it goes forward.
LEMMA OneCallOn ==
  ASSUME CountInv, NEW k \in Call, NEW c \in CallRecord \cup {Over},
         call' = [call EXCEPT ![k] = c],
         \A p \in Pir : HasStored(call[k], p) => HasStored(c, p),
         HasAccount(call[k]) => HasAccount(c)
  PROVE  /\ call' \in [Call -> CallRecord \cup {Unused, Over}]
         /\ call'[k] = c /\ \A j \in Call \ {k} : call'[j] = call[j]
         /\ Forward
<1>1. /\ call' \in [Call -> CallRecord \cup {Unused, Over}]
      /\ call'[k] = c /\ \A j \in Call \ {k} : call'[j] = call[j]
  BY DEF CountInv, RegisterTypes
<1>2. ASSUME NEW j \in Call
      PROVE  /\ \A p \in Pir : HasStored(call[j], p) => HasStored(call'[j], p)
             /\ HasAccount(call[j]) => HasAccount(call'[j])
  BY <1>1
<1>3. Forward
  BY <1>2 DEF Forward, HasStored, HasAccount
<1> QED BY <1>1, <1>3

\* What was in bounds stays there.
LEMMA StaysCounted ==
  ASSUME CountInv, Forward, NEW c \in CallRecord, IndexBound(c)
  PROVE  IndexBound(c)'
<1> SUFFICES ASSUME NEW p \in Pir
             PROVE  /\ c.index[p] <= Cardinality(Stored(p))'
                    /\ HasStored(c, p) => c.index[p] < Cardinality(Stored(p))'
  BY DEF IndexBound, HasStored
<1>1. /\ Cardinality(Stored(p)) <= Cardinality(Stored(p))'
      /\ Cardinality(Stored(p)) \in Nat /\ Cardinality(Stored(p))' \in Nat
  BY CountsGrow, CountsAre, CallsFinite, RegistrationAssumption DEF Stored
<1>2. c.index[p] \in Nat
  BY DEF CallRecord
<1> QED BY <1>1, <1>2 DEF IndexBound

LEMMA CountedOn ==
  ASSUME CountInv, Forward, call' \in [Call -> CallRecord \cup {Unused, Over}],
         rows' \in [Pir -> Nat], accounts' \in Seq(Nat), Len(accounts) <= Len(accounts'),
         \A p \in Pir : rows'[p] <= Cardinality(Stored(p))',
         \A a \in DOMAIN accounts' : accounts'[a] < Cardinality(Stored("pir"))',
         Len(accounts') <= Cardinality(Accounted)',
         \A k \in Call : call'[k].at \in Steps \cup Results =>
           \/ call'[k] = call[k]
           \/ IndexBound(call[k])' /\ call'[k].token <= Len(accounts')
  PROVE  (RegisterTypes /\ Counted)'
<1>1. ASSUME NEW k \in Call, call'[k].at \in Steps \cup Results
      PROVE  IndexBound(call[k])' /\ call'[k].token <= Len(accounts')
  <2>1. CASE call'[k] = call[k]
    <3>1. IndexBound(call[k]) /\ call[k].token <= Len(accounts)
      BY <1>1, <2>1 DEF CountInv, Counted
    <3>2. call[k] \in CallRecord /\ call[k].token \in Nat
      BY <1>1, <2>1 DEF CountInv, RegisterTypes, Unused, Over, Steps, Results, CallRecord
    <3>3. PICK c \in CallRecord : c = call[k]
      BY <3>2
    <3>4. IndexBound(c)'
      BY <3>1, <3>3, StaysCounted
    <3>5. IndexBound(call[k])'
      BY <2>1, <3>3, <3>4 DEF IndexBound
    <3>6. Len(accounts) \in Nat /\ Len(accounts') \in Nat
      BY DEF CountInv, RegisterTypes
    <3> QED BY <2>1, <3>1, <3>2, <3>5, <3>6
  <2> QED BY <1>1, <2>1
<1>2. Counted'
  BY <1>1 DEF Counted
<1> QED BY <1>2 DEF RegisterTypes

\* A call takes a step, for the same daemon; who waits goes on waiting.
LEMMA LinksOn ==
  ASSUME CountInv, NEW k \in Call, call[k].at \in Steps \cup Results,
         call'[k].at \in Steps \cup Results, call'[k].daemon = call[k].daemon,
         \A j \in Call \ {k} : call'[j] = call[j],
         UNCHANGED <<waiting, registration, restarts>>,
         accounts' \in Seq(Nat), Len(accounts) <= Len(accounts'),
         published' \subseteq IndexRange
  PROVE  Links'
<1>1. ASSUME NEW d \in Daemon, waiting[d] # 0
      PROVE  /\ waiting[d] \in Call /\ call'[waiting[d]].at \in Steps \cup Results
             /\ call'[waiting[d]].daemon = d
  <2>1. /\ waiting[d] \in Call /\ call[waiting[d]].at \in Steps \cup Results
        /\ call[waiting[d]].daemon = d
    BY <1>1 DEF CountInv, Links
  <2> QED BY <2>1
<1>2. \A d \in Daemon : registration[d] <= Len(accounts')
  BY DEF CountInv, Links, RegisterTypes
<1> QED BY <1>1, <1>2 DEF CountInv, Links

\* What a step leaves of rows and accounts stays counted.
LEMMA ServerOn ==
  ASSUME CountInv, Forward
  PROVE  /\ rows' = rows =>
              rows' \in [Pir -> Nat] /\ \A p \in Pir : rows'[p] <= Cardinality(Stored(p))'
         /\ accounts' = accounts =>
              /\ accounts' \in Seq(Nat) /\ Len(accounts) <= Len(accounts')
              /\ \A a \in DOMAIN accounts' : accounts'[a] < Cardinality(Stored("pir"))'
              /\ Len(accounts') <= Cardinality(Accounted)'
<1>0. rows \in [Pir -> Nat] /\ accounts \in Seq(Nat) /\ Len(accounts) \in Nat
  BY DEF CountInv, RegisterTypes
<1>1. ASSUME NEW p \in Pir
      PROVE  /\ Cardinality(Stored(p)) <= Cardinality(Stored(p))'
             /\ Cardinality(Stored(p)) \in Nat /\ Cardinality(Stored(p))' \in Nat
  BY CountsGrow, CallsFinite, RegistrationAssumption DEF Stored
<1>2. /\ Cardinality(Accounted) <= Cardinality(Accounted)'
      /\ Cardinality(Accounted) \in Nat /\ Cardinality(Accounted)' \in Nat
  BY CountsGrow, CallsFinite, RegistrationAssumption DEF Accounted
<1>3. ASSUME rows' = rows, NEW p \in Pir PROVE rows'[p] <= Cardinality(Stored(p))'
  <2>1. rows[p] \in Nat /\ rows[p] <= Cardinality(Stored(p))
    BY <1>0 DEF CountInv, Counted
  <2> QED BY <1>1, <1>3, <2>1
<1>4. ASSUME accounts' = accounts, NEW a \in DOMAIN accounts'
      PROVE  accounts'[a] < Cardinality(Stored("pir"))'
  <2>1. accounts[a] \in Nat /\ accounts[a] < Cardinality(Stored("pir"))
    BY <1>0, <1>4 DEF CountInv, Counted
  <2> QED BY <1>1, <1>4, <2>1, Pirs
<1>5. ASSUME accounts' = accounts PROVE Len(accounts') <= Cardinality(Accounted)'
  <2>1. Len(accounts) <= Cardinality(Accounted)
    BY DEF CountInv, Counted
  <2> QED BY <1>0, <1>2, <1>5, <2>1
<1> QED BY <1>0, <1>3, <1>4, <1>5

\* A running call takes a step.
LEMMA StepCounts ==
  ASSUME CountInv, NEW k \in Call, call[k].at \in Steps \cup Results, NEW c \in CallRecord,
         call' = [call EXCEPT ![k] = c], c.daemon = call[k].daemon, Forward,
         UNCHANGED <<waiting, registration, restarts>>, published' \subseteq IndexRange,
         rows' \in [Pir -> Nat], accounts' \in Seq(Nat), Len(accounts) <= Len(accounts'),
         \A p \in Pir : rows'[p] <= Cardinality(Stored(p))',
         \A a \in DOMAIN accounts' : accounts'[a] < Cardinality(Stored("pir"))',
         Len(accounts') <= Cardinality(Accounted)',
         IndexBound(c)', c.token <= Len(accounts')
  PROVE  CountInv'
<1>1. /\ call' \in [Call -> CallRecord \cup {Unused, Over}]
      /\ call'[k] = c /\ \A j \in Call \ {k} : call'[j] = call[j]
  BY DEF CountInv, RegisterTypes
<1>2. IndexBound(call[k])'
  BY <1>1 DEF IndexBound
<1>3. \A j \in Call : call'[j].at \in Steps \cup Results =>
        \/ call'[j] = call[j]
        \/ IndexBound(call[j])' /\ call'[j].token <= Len(accounts')
  BY <1>1, <1>2
<1>4. (RegisterTypes /\ Counted)'
  BY <1>1, <1>3, CountedOn
<1>5. call'[k].at \in Steps \cup Results
  BY <1>1 DEF CallRecord
<1> QED BY <1>1, <1>4, <1>5, LinksOn DEF CountInv

LEMMA RecordIs ==
  ASSUME CountInv, NEW k \in Call, call[k].at \in Steps \cup Results
  PROVE  /\ call[k] \in CallRecord /\ IndexBound(call[k]) /\ call[k].token <= Len(accounts)
         /\ call[k].index \in [Pir -> Nat] /\ call[k].pir \in Pir /\ call[k].token \in Nat
         /\ call[k].daemon \in Daemon
<1>1. call[k] \in CallRecord
  BY DEF CountInv, RegisterTypes, Unused, Over, Steps, Results
<1> QED BY <1>1 DEF CountInv, Counted, CallRecord

LEMMA LoadCounts ==
  ASSUME CountInv, NEW k \in Call, AllocateLoad(k) PROVE CountInv'
<1> DEFINE next == [call[k] EXCEPT !.at = "store", !.index[call[k].pir] = rows[call[k].pir]]
<1>1. call[k].at = "load" /\ call[k].at \in Steps \cup Results
  BY DEF AllocateLoad, Steps
<1>2. /\ call[k] \in CallRecord /\ IndexBound(call[k]) /\ call[k].token <= Len(accounts)
      /\ call[k].index \in [Pir -> Nat] /\ call[k].pir \in Pir
  BY <1>1, RecordIs
<1>3. call' = [call EXCEPT ![k] = next]
  BY DEF AllocateLoad, CountInv, RegisterTypes
<1>4. rows \in [Pir -> Nat] /\ \A p \in Pir : rows[p] <= Cardinality(Stored(p))
  BY DEF CountInv, RegisterTypes, Counted
<1>5. /\ next \in CallRecord /\ next.at = "store" /\ next.pir = call[k].pir
      /\ next.token = call[k].token /\ next.daemon = call[k].daemon
      /\ next.index = [call[k].index EXCEPT ![call[k].pir] = rows[call[k].pir]]
  BY <1>2, <1>4 DEF CallRecord, Steps
<1> HIDE DEF next
<1>0. PICK c \in CallRecord : c = next
  BY <1>5
<1>6. /\ \A p \in Pir : HasStored(call[k], p) <=> HasStored(c, p)
      /\ HasAccount(call[k]) <=> HasAccount(c)
  BY <1>0, <1>1, <1>5 DEF HasStored, HasAccount, Results
<1>7. Forward
  BY <1>0, <1>3, <1>6, OneCallOn
<1>8. IndexBound(c)
  <2> SUFFICES ASSUME NEW p \in Pir
               PROVE  /\ c.index[p] <= Cardinality(Stored(p))
                      /\ HasStored(c, p) => c.index[p] < Cardinality(Stored(p))
    BY DEF IndexBound
  <2>1. CASE p = call[k].pir
    <3>1. ~ HasStored(c, p)
      BY <1>0, <1>5, <2>1 DEF HasStored, Results
    <3> QED BY <1>0, <1>2, <1>4, <1>5, <2>1, <3>1
  <2>2. CASE p # call[k].pir
    <3>1. c.index[p] = call[k].index[p]
      BY <1>0, <1>2, <1>5, <2>2
    <3> QED BY <1>2, <1>6, <3>1 DEF IndexBound
  <2> QED BY <2>1, <2>2
<1>9. IndexBound(c)'
  BY <1>7, <1>8, StaysCounted
<1>10. UNCHANGED <<rows, accounts, published, waiting, registration, restarts>>
  BY DEF AllocateLoad, serverVars, daemonVars
<1>11. published' \subseteq IndexRange /\ c.token <= Len(accounts')
  BY <1>0, <1>2, <1>5, <1>10 DEF CountInv, Links
<1> QED BY <1>0, <1>1, <1>3, <1>5, <1>7, <1>9, <1>10, <1>11, ServerOn, StepCounts

LEMMA StoreCounts ==
  ASSUME CountInv, NEW k \in Call, AllocateStore(k) PROVE CountInv'
<1> DEFINE next == [call[k] EXCEPT !.at = IF call[k].pir = "pir" THEN "load" ELSE "account",
                                   !.pir = "pir_acks"]
<1>q. PICK q : q = call[k].pir
  OBVIOUS
<1>1. call[k].at = "store" /\ call[k].at \in Steps \cup Results
  BY DEF AllocateStore, Steps
<1>2. /\ call[k] \in CallRecord /\ IndexBound(call[k]) /\ call[k].token <= Len(accounts)
      /\ call[k].index \in [Pir -> Nat] /\ q \in Pir
  BY <1>q, <1>1, RecordIs
<1>3. /\ call' = [call EXCEPT ![k] = next]
      /\ rows' = [rows EXCEPT ![q] = call[k].index[q] + 1]
  BY <1>q DEF AllocateStore, CountInv, RegisterTypes
<1>4. rows \in [Pir -> Nat]
  BY DEF CountInv, RegisterTypes
<1>5. /\ next \in CallRecord /\ next.at = (IF q = "pir" THEN "load" ELSE "account")
      /\ next.pir = "pir_acks" /\ next.token = call[k].token
      /\ next.daemon = call[k].daemon /\ next.index = call[k].index
  BY <1>q, <1>2, Pirs DEF CallRecord, Steps
<1>7. q = "pir" \/ q = "pir_acks"
  BY <1>2, Pirs
<1> HIDE DEF next
<1>0. PICK c \in CallRecord : c = next
  BY <1>5
<1>8. /\ \A p \in Pir : HasStored(call[k], p) => HasStored(c, p)
      /\ HasAccount(call[k]) => HasAccount(c)
      /\ ~ HasStored(call[k], q) /\ HasStored(c, q)
      /\ \A p \in Pir \ {q} : HasStored(c, p) => HasStored(call[k], p)
  BY <1>0, <1>q, <1>1, <1>5, <1>7, Pirs DEF HasStored, HasAccount, Results
<1>9. Forward /\ call'[k] = c
  BY <1>0, <1>3, <1>8, OneCallOn
<1>10. k \in Stored(q)' /\ k \notin Stored(q)
  <2>1. call'[k] = c /\ HasStored(c, q) /\ ~ HasStored(call[k], q)
    BY <1>8, <1>9
  <2> QED BY <2>1 DEF Stored, HasStored
<1>11. Cardinality(Stored(q)) < Cardinality(Stored(q))'
  BY <1>2, <1>9, <1>10, CountsGrow
<1>12. ASSUME NEW p \in Pir
       PROVE  /\ Cardinality(Stored(p)) <= Cardinality(Stored(p))'
              /\ Cardinality(Stored(p)) \in Nat /\ Cardinality(Stored(p))' \in Nat
  BY <1>9, CountsGrow, CallsFinite, RegistrationAssumption DEF Stored
<1>13. /\ rows' \in [Pir -> Nat]
       /\ \A p \in Pir : rows'[p] <= Cardinality(Stored(p))'
  <2>1. call[k].index[q] \in Nat /\ call[k].index[q] <= Cardinality(Stored(q))
    BY <1>2 DEF IndexBound
  <2>2. \A p \in Pir : rows[p] <= Cardinality(Stored(p)) /\ rows[p] \in Nat
    BY <1>4 DEF CountInv, Counted
  <2>3. ASSUME NEW p \in Pir PROVE rows'[p] <= Cardinality(Stored(p))'
    <3>1. CASE p = q
      BY <1>2, <1>3, <1>4, <1>11, <1>12, <2>1, <3>1
    <3>2. CASE p # q
      BY <1>3, <1>4, <1>12, <2>2, <3>2
    <3> QED BY <3>1, <3>2
  <2> QED BY <1>2, <1>3, <1>4, <2>1, <2>3
<1>14. IndexBound(c)'
  <2> SUFFICES ASSUME NEW p \in Pir
               PROVE  /\ c.index[p] <= Cardinality(Stored(p))'
                      /\ HasStored(c, p) => c.index[p] < Cardinality(Stored(p))'
    BY DEF IndexBound, HasStored
  <2>1. /\ c.index[p] \in Nat /\ c.index[p] <= Cardinality(Stored(p))
        /\ HasStored(call[k], p) => c.index[p] < Cardinality(Stored(p))
    BY <1>0, <1>2, <1>5 DEF IndexBound
  <2>2. CASE p = q
    BY <1>11, <1>12, <2>1, <2>2
  <2>3. CASE p # q
    BY <1>8, <1>12, <2>1, <2>3
  <2> QED BY <2>2, <2>3
<1>15. UNCHANGED <<accounts, published, waiting, registration, restarts>>
  BY DEF AllocateStore, daemonVars
<1>16. published' \subseteq IndexRange /\ c.token <= Len(accounts')
  BY <1>0, <1>2, <1>5, <1>15 DEF CountInv, Links
<1> QED BY <1>0, <1>1, <1>3, <1>5, <1>9, <1>13, <1>14, <1>15, <1>16, ServerOn, StepCounts

LEMMA BeginCounts ==
  ASSUME CountInv, NEW d \in Daemon, RegisterUser(d) PROVE CountInv'
<1> DEFINE first == [at |-> "load", daemon |-> d, pir |-> "pir",
                     index |-> [p \in Pir |-> 0], token |-> 0]
<1>1. PICK k \in Call : /\ call[k] = Unused /\ call' = [call EXCEPT ![k] = first]
                        /\ waiting' = [waiting EXCEPT ![d] = k]
  BY DEF RegisterUser
<1>2. UNCHANGED <<rows, accounts, published, registration, restarts>>
  BY DEF RegisterUser, serverVars
<1>3. /\ first \in CallRecord /\ first.at = "load" /\ first.daemon = d
      /\ first.token = 0 /\ \A p \in Pir : first.index[p] = 0 /\ ~ HasStored(first, p)
  BY Pirs DEF CallRecord, Steps, HasStored, Results
<1>4. ~ HasAccount(Unused) /\ \A p \in Pir : ~ HasStored(Unused, p)
  BY DEF Unused, HasAccount, HasStored, Results
<1> HIDE DEF first
<1>5. /\ call' \in [Call -> CallRecord \cup {Unused, Over}]
      /\ call'[k] = first /\ \A j \in Call \ {k} : call'[j] = call[j] /\ Forward
  BY <1>1, <1>3, <1>4, OneCallOn
<1>6. IndexBound(call[k])'
  BY <1>3, <1>5, CallsFinite DEF IndexBound, Stored
<1>7. Forward
  BY <1>1, <1>3, <1>4, OneCallOn
<1>8. (RegisterTypes /\ Counted)'
  <2>1. \A j \in Call : call'[j].at \in Steps \cup Results =>
          \/ call'[j] = call[j]
          \/ IndexBound(call[j])' /\ call'[j].token <= Len(accounts')
    <3>1. IndexBound(call[k])' /\ call'[k].token = 0 /\ Len(accounts') \in Nat
      BY <1>2, <1>3, <1>5, <1>6 DEF CountInv, RegisterTypes
    <3> QED BY <1>5, <3>1
  <2> QED BY <1>2, <1>5, <1>7, <2>1, ServerOn, CountedOn
<1>9. Links'
  <2>1. waiting' = [waiting EXCEPT ![d] = k] /\ waiting = [e \in Daemon |-> waiting[e]]
    BY <1>1 DEF CountInv, Links
  <2>2. ASSUME NEW e \in Daemon, waiting'[e] # 0
        PROVE  /\ waiting'[e] \in Call /\ call'[waiting'[e]].at \in Steps \cup Results
               /\ call'[waiting'[e]].daemon = e
    <3>1. CASE e = d
      BY <1>3, <1>5, <2>1, <3>1 DEF Steps
    <3>2. CASE e # d
      <4>1. waiting'[e] = waiting[e]
        BY <2>1, <3>2
      <4>2. /\ waiting[e] \in Call /\ call[waiting[e]].at \in Steps \cup Results
            /\ call[waiting[e]].daemon = e
        BY <2>2, <4>1 DEF CountInv, Links
      <4>3. waiting[e] # k
        BY <1>1, <4>2 DEF Unused, Steps, Results
      <4> QED BY <1>5, <4>1, <4>2, <4>3
    <3> QED BY <3>1, <3>2
  <2>3. waiting' = [e \in Daemon |-> waiting'[e]]
    BY <2>1
  <2> QED BY <1>2, <2>2, <2>3 DEF CountInv, Links
<1> QED BY <1>8, <1>9 DEF CountInv

LEMMA AccountCounts ==
  ASSUME CountInv, NEW k \in Call, generate_account(k) PROVE CountInv'
<1>1. call[k].at = "account" /\ call[k].at \in Steps \cup Results
  BY DEF generate_account, Steps
<1>2. /\ call[k] \in CallRecord /\ IndexBound(call[k]) /\ call[k].token <= Len(accounts)
      /\ call[k].index \in [Pir -> Nat] /\ call[k].token \in Nat
  BY <1>1, RecordIs
<1>3. PICK i \in Nat : i = call[k].index["pir"]
  BY <1>2, Pirs
<1>4. UNCHANGED <<rows, published, waiting, registration, restarts>>
  BY DEF generate_account, daemonVars
<1>5. accounts \in Seq(Nat) /\ published \subseteq IndexRange
  BY DEF CountInv, RegisterTypes, Links
<1>6. CASE accounts' = accounts /\ call' = [call EXCEPT ![k].at = "failed"]
  <2>1. PICK c \in CallRecord : c = [call[k] EXCEPT !.at = "failed"]
    BY <1>2 DEF CallRecord, Results
  <2>2. /\ c.at = "failed" /\ c.pir = call[k].pir /\ c.token = call[k].token
        /\ c.daemon = call[k].daemon /\ c.index = call[k].index
    BY <1>2, <2>1 DEF CallRecord
  <2>3. call' = [call EXCEPT ![k] = c]
    BY <1>6, <2>1 DEF CountInv, RegisterTypes
  <2>4. /\ \A p \in Pir : HasStored(call[k], p) /\ HasStored(c, p)
        /\ HasAccount(c)
    BY <1>1, <2>2 DEF HasStored, HasAccount, Results
  <2>5. Forward
    BY <2>3, <2>4, OneCallOn
  <2>6. IndexBound(c)
    BY <1>2, <2>2, <2>4 DEF IndexBound
  <2>7. IndexBound(c)' /\ c.token <= Len(accounts')
    BY <1>2, <1>6, <2>2, <2>5, <2>6, StaysCounted
  <2> QED BY <1>1, <1>4, <1>5, <1>6, <2>2, <2>3, <2>5, <2>7, ServerOn, StepCounts
<1>7. CASE /\ accounts' = Append(accounts, call[k].index["pir"])
           /\ call' = [call EXCEPT ![k].at = "publish", ![k].token = Len(accounts')]
  <2>1. /\ accounts' = Append(accounts, i) /\ accounts' \in Seq(Nat)
        /\ Len(accounts') = Len(accounts) + 1 /\ Len(accounts) \in Nat
        /\ \A a \in DOMAIN accounts' :
             \/ accounts'[a] = i
             \/ a \in DOMAIN accounts /\ accounts'[a] = accounts[a]
    BY <1>3, <1>5, <1>7
  <2>n. PICK n \in Nat : n = Len(accounts')
    BY <2>1
  <2>r. [call[k] EXCEPT !.at = "publish", !.token = n] \in CallRecord
    BY <1>2 DEF CallRecord, Steps
  <2>2. PICK c \in CallRecord : c = [call[k] EXCEPT !.at = "publish", !.token = n]
    BY <2>r
  <2>3. /\ c.at = "publish" /\ c.pir = call[k].pir /\ c.token = Len(accounts')
        /\ c.daemon = call[k].daemon /\ c.index = call[k].index
    BY <1>2, <2>n, <2>2 DEF CallRecord
  <2>4. call' = [call EXCEPT ![k] = c]
    BY <1>7, <2>n, <2>2 DEF CountInv, RegisterTypes
  <2>5. /\ \A p \in Pir : HasStored(call[k], p) /\ HasStored(c, p)
        /\ HasAccount(c) /\ ~ HasAccount(call[k])
    BY <1>1, <2>3 DEF HasStored, HasAccount, Results
  <2>6. Forward /\ call'[k] = c
    BY <2>4, <2>5, OneCallOn
  <2>7. IndexBound(c)
    BY <1>2, <2>3, <2>5 DEF IndexBound
  <2>8. IndexBound(c)'
    BY <2>6, <2>7, StaysCounted
  <2>9. Cardinality(Accounted) < Cardinality(Accounted)'
    <3>1. k \in Accounted' /\ k \notin Accounted
      BY <2>5, <2>6 DEF Accounted, HasAccount
    <3> QED BY <2>6, <3>1, CountsGrow
  <2>10. Len(accounts') <= Cardinality(Accounted)'
    <3>1. Cardinality(Accounted) \in Nat /\ Cardinality(Accounted)' \in Nat
      BY CallsFinite, RegistrationAssumption DEF Accounted
    <3>2. Len(accounts) <= Cardinality(Accounted)
      BY DEF CountInv, Counted
    <3> QED BY <2>1, <2>9, <3>1, <3>2
  <2>11. ASSUME NEW a \in DOMAIN accounts' PROVE accounts'[a] < Cardinality(Stored("pir"))'
    <3>1. /\ Cardinality(Stored("pir")) <= Cardinality(Stored("pir"))'
          /\ Cardinality(Stored("pir")) \in Nat /\ Cardinality(Stored("pir"))' \in Nat
      BY <2>6, Pirs, CountsGrow, CallsFinite, RegistrationAssumption DEF Stored
    <3>2. i < Cardinality(Stored("pir"))
      BY <1>2, <1>3, <2>5, Pirs DEF IndexBound
    <3>3. \A b \in DOMAIN accounts : accounts[b] < Cardinality(Stored("pir")) /\ accounts[b] \in Nat
      BY <1>5 DEF CountInv, Counted
    <3> QED BY <2>1, <3>1, <3>2, <3>3
  <2>12. c.token <= Len(accounts')
    BY <2>1, <2>3
  <2>13. Len(accounts) <= Len(accounts')
    BY <2>1
  <2> QED
    BY <1>1, <1>4, <1>5, <2>1, <2>3, <2>4, <2>6, <2>8, <2>10, <2>11, <2>12, <2>13,
       ServerOn, StepCounts
<1> QED BY <1>6, <1>7 DEF generate_account

LEMMA PublishCounts ==
  ASSUME CountInv, NEW k \in Call, register_user(k) PROVE CountInv'
<1>1. call[k].at = "publish" /\ call[k].at \in Steps \cup Results
  BY DEF register_user, Steps
<1>2. /\ call[k] \in CallRecord /\ IndexBound(call[k]) /\ call[k].token <= Len(accounts)
      /\ call[k].index \in [Pir -> Nat] /\ call[k].token \in Nat
  BY <1>1, RecordIs
<1>3. /\ UNCHANGED <<rows, accounts, waiting, registration, restarts>>
      /\ published' = published \cup {call[k].index["pir"]}
  BY DEF register_user, daemonVars
<1>4. PICK c \in CallRecord : c = [call[k] EXCEPT !.at = "ok"]
  BY <1>2 DEF CallRecord, Results
<1>5. /\ c.at = "ok" /\ c.pir = call[k].pir /\ c.token = call[k].token
      /\ c.daemon = call[k].daemon /\ c.index = call[k].index
  BY <1>2, <1>4 DEF CallRecord
<1>6. call' = [call EXCEPT ![k] = c]
  BY <1>4 DEF register_user, CountInv, RegisterTypes
<1>7. /\ \A p \in Pir : HasStored(call[k], p) /\ HasStored(c, p)
      /\ HasAccount(c)
  BY <1>1, <1>5 DEF HasStored, HasAccount, Results
<1>8. Forward
  BY <1>6, <1>7, OneCallOn
<1>9. IndexBound(c)
  BY <1>2, <1>5, <1>7 DEF IndexBound
<1>10. IndexBound(c)' /\ c.token <= Len(accounts')
  BY <1>2, <1>3, <1>5, <1>8, <1>9, StaysCounted
<1>11. published' \subseteq IndexRange
  <2>1. call[k].index["pir"] \in Nat /\ call[k].index["pir"] <= Cardinality(Stored("pir"))
    BY <1>2, Pirs DEF IndexBound
  <2>2. Cardinality(Stored("pir")) \in 0..MaxCalls
    BY CountsAre
  <2>3. call[k].index["pir"] \in IndexRange
    BY <2>1, <2>2, RegistrationAssumption DEF IndexRange
  <2> QED BY <1>3, <2>3 DEF CountInv, Links
<1> QED BY <1>1, <1>3, <1>5, <1>6, <1>8, <1>10, <1>11, ServerOn, StepCounts

\* Calls come to their end, or stay as they are.
LEMMA EndingCounts ==
  ASSUME CountInv, call' \in [Call -> CallRecord \cup {Unused, Over}],
         \A k \in Call : call'[k] = call[k] \/ call'[k] = Over,
         UNCHANGED accounts, rows' \in [Pir -> Nat],
         Forward => \A p \in Pir : rows'[p] <= Cardinality(Stored(p))'
  PROVE  Forward /\ (RegisterTypes /\ Counted)'
<1>1. ASSUME NEW k \in Call
      PROVE  /\ \A p \in Pir : HasStored(call[k], p) => HasStored(call'[k], p)
             /\ HasAccount(call[k]) => HasAccount(call'[k])
  <2>1. HasAccount(Over) /\ \A p \in Pir : HasStored(Over, p)
    BY DEF Over, HasAccount, HasStored
  <2> QED BY <2>1
<1>2. Forward
  BY <1>1 DEF Forward, HasStored, HasAccount
<1>3. \A k \in Call : call'[k].at \in Steps \cup Results => call'[k] = call[k]
  BY DEF Over, Steps, Results
<1> QED BY <1>2, <1>3, ServerOn, CountedOn

LEMMA AnswerCounts ==
  ASSUME CountInv, NEW k \in Call, Answer(k) PROVE CountInv'
<1>1. PICK d : d = call[k].daemon
  OBVIOUS
<1>2. /\ call[k].at \in Steps \cup Results /\ call' = [call EXCEPT ![k] = Over]
      /\ waiting' = [waiting EXCEPT ![d] = IF @ = k THEN 0 ELSE @]
      /\ UNCHANGED <<rows, accounts, published, restarts>>
      /\ \/ registration' = registration
         \/ registration' = [registration EXCEPT ![d] = call[k].token]
  BY <1>1 DEF Answer, Over, serverVars
<1>3. /\ call' \in [Call -> CallRecord \cup {Unused, Over}]
      /\ \A j \in Call : call'[j] = call[j] \/ call'[j] = Over
      /\ \A j \in Call \ {k} : call'[j] = call[j]
      /\ rows' \in [Pir -> Nat]
  BY <1>2 DEF CountInv, RegisterTypes
<1>4. (RegisterTypes /\ Counted)'
  BY <1>2, <1>3, EndingCounts, ServerOn
<1>5. registration' \in [Daemon -> Nat] /\ \A e \in Daemon : registration'[e] <= Len(accounts')
  <2>1. call[k].token \in Nat /\ call[k].token <= Len(accounts) /\ d \in Daemon
    BY <1>1, <1>2, RecordIs
  <2>2. registration \in [Daemon -> Nat] /\ \A e \in Daemon : registration[e] <= Len(accounts)
    BY DEF CountInv, Links
  <2> QED BY <1>2, <2>1, <2>2
<1>6. waiting = [e \in Daemon |-> waiting[e]]
  BY DEF CountInv, Links
<1>7. ASSUME NEW e \in Daemon, waiting'[e] # 0
      PROVE  /\ waiting'[e] \in Call /\ call'[waiting'[e]].at \in Steps \cup Results
             /\ call'[waiting'[e]].daemon = e
  <2>1. waiting'[e] = waiting[e] /\ (e = d => waiting[e] # k)
    BY <1>2, <1>6, <1>7
  <2>2. /\ waiting[e] \in Call /\ call[waiting[e]].at \in Steps \cup Results
        /\ call[waiting[e]].daemon = e
    BY <1>7, <2>1 DEF CountInv, Links
  <2>3. waiting[e] # k
    BY <1>1, <2>1, <2>2
  <2> QED BY <1>3, <2>1, <2>2, <2>3
<1>8. waiting' = [e \in Daemon |-> waiting'[e]]
  BY <1>2, <1>6
<1> QED BY <1>2, <1>4, <1>5, <1>7, <1>8 DEF CountInv, Links

\* A step that touches no row, no account and no call keeps the counts.
LEMMA CountsRest ==
  ASSUME CountInv, UNCHANGED <<rows, accounts, call>> PROVE RegisterTypes' /\ Counted'
<1>1. RegisterTypes'
  BY DEF CountInv, RegisterTypes
<1>2. Accounted' = Accounted /\ Stored("pir")' = Stored("pir")
  BY DEF Accounted, Stored
<1>3. \A p \in Pir : Stored(p)' = Stored(p)
  BY DEF Stored
<1>4. \A k \in Call : IndexBound(call[k])' <=> IndexBound(call[k])
  BY <1>3 DEF IndexBound
<1>5. Counted'
  BY <1>2, <1>3, <1>4 DEF CountInv, Counted
<1> QED BY <1>1, <1>5

LEMMA GiveUpCounts ==
  ASSUME CountInv, NEW d \in Daemon, GiveUp(d) PROVE CountInv'
<1>1. /\ waiting' = [waiting EXCEPT ![d] = 0]
      /\ UNCHANGED <<rows, accounts, published, call, registration, restarts>>
  BY DEF GiveUp, serverVars
<1>2. waiting = [e \in Daemon |-> waiting[e]]
  BY DEF CountInv, Links
<1>3. /\ waiting' = [e \in Daemon |-> waiting'[e]]
      /\ \A e \in Daemon : waiting'[e] = waiting[e] \/ waiting'[e] = 0
  BY <1>1, <1>2
<1>4. Links'
  BY <1>1, <1>3 DEF CountInv, Links
<1> QED BY <1>1, <1>4, CountsRest DEF CountInv

LEMMA InviteCounts ==
  ASSUME CountInv, NEW d \in Daemon, Publish(d) PROVE CountInv'
<1>1. /\ registration[d] # 0 /\ published' = published \cup {accounts[registration[d]]}
      /\ UNCHANGED <<rows, accounts, call, waiting, registration, restarts>>
  BY DEF Publish, daemonVars
<1>2. accounts[registration[d]] \in IndexRange
  <2>1. registration[d] \in Nat /\ registration[d] <= Len(accounts) /\ accounts \in Seq(Nat)
    BY DEF CountInv, Links, RegisterTypes
  <2>2. registration[d] \in DOMAIN accounts /\ accounts[registration[d]] \in Nat
    BY <1>1, <2>1
  <2>3. accounts[registration[d]] < Cardinality(Stored("pir"))
    BY <2>2 DEF CountInv, Counted
  <2> QED BY <2>2, <2>3, CountsAre, RegistrationAssumption DEF IndexRange
<1>3. Links'
  BY <1>1, <1>2 DEF CountInv, Links
<1> QED BY <1>1, <1>3, CountsRest DEF CountInv

\* The highest index in use exists.
LEMMA HighestIndex ==
  ASSUME CountInv, accounts # <<>>
  PROVE  /\ MaxIndex \in Nat /\ \E a \in DOMAIN accounts : accounts[a] = MaxIndex
         /\ \A a \in DOMAIN accounts : accounts[a] <= MaxIndex
<1> DEFINE Indices == {accounts[a] : a \in DOMAIN accounts}
           Highest(m) == \A a \in DOMAIN accounts : accounts[a] <= m
<1>1. /\ accounts \in Seq(Nat) /\ 1 \in DOMAIN accounts
      /\ \A a \in DOMAIN accounts : accounts[a] \in Nat
  BY DEF CountInv, RegisterTypes
<1>2. Cardinality(Stored("pir")) \in Nat
  BY CountsAre, RegistrationAssumption
<1>3. \A n \in Indices : n <= Cardinality(Stored("pir"))
  BY <1>1, <1>2 DEF CountInv, Counted
<1>4. PICK m \in Indices : \A n \in Indices : n <= m
  <2>1. Indices \subseteq Nat /\ Indices # {}
    BY <1>1
  <2> HIDE DEF Indices
  <2> QED BY <1>2, <1>3, <2>1, GreatestOf
<1>5. Highest(m)
  BY <1>4
<1>6. MaxIndex \in Indices /\ Highest(MaxIndex)
  <2>1. MaxIndex = CHOOSE i \in Indices : Highest(i)
    BY DEF MaxIndex
  <2> HIDE DEF Indices, Highest
  <2> QED BY <1>4, <1>5, <2>1
<1> QED BY <1>1, <1>6

LEMMA RestartCounts ==
  ASSUME CountInv, Restart PROVE CountInv'
<1>1. /\ restarts' = restarts + 1 /\ restarts < MaxRestarts
      /\ rows' = [p \in Pir |-> allocate_to_max(p)] /\ published' = {}
      /\ call' = [k \in Call |-> IF k \in Running THEN Over ELSE call[k]]
      /\ waiting' = [d \in Daemon |-> IF waiting[d] \in Running THEN 0 ELSE waiting[d]]
      /\ UNCHANGED <<accounts, registration>>
  BY DEF Restart, Over
<1>2. /\ accounts \in Seq(Nat)
      /\ call \in [Call -> CallRecord \cup {Unused, Over}]
  BY DEF CountInv, RegisterTypes
<1>3. /\ call' \in [Call -> CallRecord \cup {Unused, Over}]
      /\ \A k \in Call : call'[k] = call[k] \/ call'[k] = Over
      /\ \A k \in Call : call[k].at \notin Steps => call'[k] = call[k]
      /\ \A k \in Call : call[k].at \in Steps => call'[k] = Over
  BY <1>1, <1>2 DEF Running
<1>4. Cardinality(Stored("pir")) \in Nat
  BY CountsAre, RegistrationAssumption
<1>5. \A a \in DOMAIN accounts : accounts[a] \in Nat /\ accounts[a] < Cardinality(Stored("pir"))
  BY <1>2 DEF CountInv, Counted
<1>6. \A p \in Pir : rows'[p] \in Nat /\ rows'[p] <= Cardinality(Stored("pir"))
  <2>1. CASE accounts = <<>>
    BY <1>1, <1>4, <2>1 DEF allocate_to_max
  <2>2. CASE accounts # <<>>
    <3>1. MaxIndex \in Nat /\ MaxIndex < Cardinality(Stored("pir"))
      BY <1>5, <2>2, HighestIndex
    <3>2. \A p \in Pir : rows'[p] = MaxIndex + 1
      BY <1>1, <2>2 DEF allocate_to_max
    <3> QED BY <1>4, <3>1, <3>2
  <2> QED BY <2>1, <2>2
<1>7. ASSUME Forward, NEW p \in Pir PROVE rows'[p] <= Cardinality(Stored(p))'
  <2>1. Stored("pir") \subseteq Stored(p)' /\ Stored(p)' \subseteq Call
    <3>1. ASSUME NEW k \in Call, HasStored(call[k], "pir") PROVE HasStored(call'[k], p)
      <4>1. CASE call[k].at \in Steps
        BY <1>3, <4>1 DEF Over, HasStored
      <4>2. CASE call[k].at \notin Steps
        <5>1. call'[k] = call[k] /\ call[k].at \in {"over"} \cup Results
          BY <1>3, <3>1, <4>2 DEF HasStored, Steps
        <5> QED BY <5>1 DEF HasStored
      <4> QED BY <4>1, <4>2
    <3> QED BY <3>1 DEF Stored, HasStored
  <2>2. Cardinality(Stored("pir")) <= Cardinality(Stored(p))'
    BY <2>1, Grows
  <2>3. Cardinality(Stored(p))' \in Nat
    BY <2>1, CallsFinite, RegistrationAssumption
  <2> QED BY <1>4, <1>6, <2>2, <2>3
<1>8. rows' \in [Pir -> Nat]
  BY <1>1, <1>6
<1>9. (RegisterTypes /\ Counted)'
  BY <1>1, <1>3, <1>7, <1>8, EndingCounts
<1>10. ASSUME NEW d \in Daemon, waiting'[d] # 0
       PROVE  /\ waiting'[d] \in Call /\ call'[waiting'[d]].at \in Steps \cup Results
              /\ call'[waiting'[d]].daemon = d
  <2>1. waiting'[d] = waiting[d] /\ waiting[d] \notin Running
    BY <1>1, <1>10
  <2>2. /\ waiting[d] \in Call /\ call[waiting[d]].at \in Steps \cup Results
        /\ call[waiting[d]].daemon = d
    BY <1>10, <2>1 DEF CountInv, Links
  <2> QED BY <1>3, <2>1, <2>2 DEF Running
<1>11. waiting' = [d \in Daemon |-> waiting'[d]]
  BY <1>1
<1>12. restarts' \in 0..MaxRestarts
  BY <1>1, RegistrationAssumption DEF CountInv, Links
<1> QED BY <1>1, <1>9, <1>10, <1>11, <1>12 DEF CountInv, Links

LEMMA CountsInductive == RegisterSpec => []CountInv
<1>1. RegisterInit => CountInv
  <2> SUFFICES ASSUME RegisterInit PROVE CountInv
    OBVIOUS
  <2>1. /\ rows = [p \in Pir |-> 0] /\ accounts = <<>> /\ published = {}
        /\ call = [k \in Call |-> Unused] /\ waiting = [d \in Daemon |-> 0]
        /\ registration = [d \in Daemon |-> 0] /\ restarts = 0
    BY DEF RegisterInit
  <2>2. RegisterTypes
    BY <2>1 DEF RegisterTypes
  <2>3. Counted
    <3>1. \A p \in Pir : Cardinality(Stored(p)) \in Nat
      BY CountsAre, RegistrationAssumption
    <3>2. Cardinality(Accounted) \in Nat
      BY CountsAre, RegistrationAssumption
    <3>3. \A k \in Call : call[k].at \notin Steps \cup Results
      BY <2>1 DEF Unused, Steps, Results
    <3> QED BY <2>1, <3>1, <3>2, <3>3 DEF Counted
  <2>4. Links
    BY <2>1, RegistrationAssumption DEF Links
  <2> QED BY <2>2, <2>3, <2>4 DEF CountInv
<1>2. CountInv /\ [RegisterNext]_registerVars => CountInv'
  <2> SUFFICES ASSUME CountInv, [RegisterNext]_registerVars PROVE CountInv'
    OBVIOUS
  <2>1. CASE UNCHANGED registerVars
    <3>1. UNCHANGED <<rows, accounts, published, call, waiting, registration, restarts>>
      BY <2>1 DEF registerVars, serverVars, daemonVars
    <3>2. Links'
      BY <3>1 DEF CountInv, Links
    <3> QED
      BY <3>1, <3>2, CountsRest DEF CountInv
  <2>2. ASSUME NEW d \in Daemon, RegisterUser(d) \/ GiveUp(d) \/ Publish(d) PROVE CountInv'
    BY <2>2, BeginCounts, GiveUpCounts, InviteCounts
  <2>3. ASSUME NEW k \in Call, \/ AllocateLoad(k) \/ AllocateStore(k) \/ generate_account(k)
                               \/ register_user(k) \/ Answer(k)
        PROVE  CountInv'
    BY <2>3, LoadCounts, StoreCounts, AccountCounts, PublishCounts, AnswerCounts
  <2>4. CASE Restart
    BY <2>4, RestartCounts
  <2> QED BY <2>1, <2>2, <2>3, <2>4 DEF RegisterNext
<1> QED BY <1>1, <1>2, PTL DEF RegisterSpec

LEMMA OverlapTypes == RegisterSpec => [](collided \in BOOLEAN /\ interleaved \in BOOLEAN)
<1> DEFINE Types == collided \in BOOLEAN /\ interleaved \in BOOLEAN
<1>1. RegisterInit => Types
  BY DEF RegisterInit
<1>2. Types /\ [RegisterNext]_registerVars => Types'
  BY DEF RegisterNext, registerVars, overlapVars, RegisterUser, GiveUp, Publish, AllocateLoad,
         AllocateStore, generate_account, register_user, Answer, Restart
<1> QED BY <1>1, <1>2, PTL DEF RegisterSpec

\* The rows, the indices and the accounts stay below the number of calls ever made,
\* however many handlers run at a time, and a daemon waits only for a call of its own
\* that has not come to its end (ServerRpc::Register, do_register).
THEOREM RegisterTypeCorrect == RegisterSpec => []RegisterTypeOK
<1>1. CountInv /\ collided \in BOOLEAN /\ interleaved \in BOOLEAN => RegisterTypeOK
  <2> SUFFICES ASSUME CountInv, collided \in BOOLEAN, interleaved \in BOOLEAN
               PROVE  RegisterTypeOK
    OBVIOUS
  <2>0. /\ MaxCalls \in Nat /\ \A p : Cardinality(Stored(p)) \in 0..MaxCalls
        /\ Cardinality(Accounted) \in 0..MaxCalls
    BY CountsAre, RegistrationAssumption
  <2>1. rows \in [Pir -> 0..(MaxCalls + 1)]
    <3>1. rows \in [Pir -> Nat] /\ \A p \in Pir : rows[p] <= Cardinality(Stored(p))
      BY DEF CountInv, RegisterTypes, Counted
    <3>2. ASSUME NEW p \in Pir PROVE rows[p] \in 0..(MaxCalls + 1)
      <4>1. /\ rows[p] \in Nat /\ rows[p] <= Cardinality(Stored(p))
            /\ Cardinality(Stored(p)) \in 0..MaxCalls
        BY <2>0, <3>1
      <4> QED BY <2>0, <4>1
    <3> QED BY <3>1, <3>2
  <2>2. accounts \in Seq(IndexRange) /\ Len(accounts) <= MaxCalls
    <3>1. accounts \in Seq(Nat) /\ Len(accounts) \in Nat /\ Len(accounts) <= Cardinality(Accounted)
      BY DEF CountInv, RegisterTypes, Counted
    <3>2. ASSUME NEW a \in DOMAIN accounts PROVE accounts[a] \in IndexRange
      <4>1. accounts[a] \in Nat /\ accounts[a] < Cardinality(Stored("pir"))
        BY <3>1 DEF CountInv, Counted
      <4>2. Cardinality(Stored("pir")) \in 0..MaxCalls
        BY <2>0
      <4> QED BY <2>0, <4>1, <4>2 DEF IndexRange
    <3> QED BY <2>0, <3>1, <3>2
  <2>3. ASSUME NEW k \in Call
        PROVE  \/ call[k].at \in {"unused", "over"}
               \/ /\ call[k].at \in Steps \cup Results /\ call[k].daemon \in Daemon
                  /\ \A p \in Pir : call[k].index[p] \in IndexRange
    <3>1. CASE call[k].at \in Steps \cup Results
      <4>1. /\ call[k].index \in [Pir -> Nat] /\ call[k].daemon \in Daemon
            /\ IndexBound(call[k])
        BY <3>1, RecordIs
      <4>2. ASSUME NEW p \in Pir PROVE call[k].index[p] \in IndexRange
        <5>1. call[k].index[p] \in Nat /\ call[k].index[p] <= Cardinality(Stored(p))
          BY <4>1 DEF IndexBound
        <5>2. Cardinality(Stored(p)) \in 0..MaxCalls
          BY <2>0
        <5> QED BY <2>0, <5>1, <5>2 DEF IndexRange
      <4> QED BY <3>1, <4>1, <4>2
    <3>2. CASE call[k].at \notin Steps \cup Results
      BY <3>2 DEF CountInv, RegisterTypes, CallRecord, Unused, Over
    <3> QED BY <3>1, <3>2
  <2>4. ASSUME NEW d \in Daemon, waiting[d] # 0
        PROVE  /\ waiting[d] \in Running \cup {k \in Call : call[k].at \in Results}
               /\ call[waiting[d]].daemon = d
    <3>1. /\ waiting[d] \in Call /\ call[waiting[d]].at \in Steps \cup Results
          /\ call[waiting[d]].daemon = d
      BY <2>4 DEF CountInv, Links
    <3> QED BY <3>1 DEF Running
  <2>5. registration \in [Daemon -> 0..Len(accounts)]
    <3>1. Len(accounts) \in Nat /\ registration \in [Daemon -> Nat]
          /\ \A d \in Daemon : registration[d] <= Len(accounts)
      BY DEF CountInv, RegisterTypes, Links
    <3> QED BY <3>1
  <2>6. published \subseteq IndexRange /\ restarts \in 0..MaxRestarts
    BY DEF CountInv, Links
  <2> QED BY <2>1, <2>2, <2>3, <2>4, <2>5, <2>6 DEF RegisterTypeOK
<1> QED BY <1>1, CountsInductive, OverlapTypes, PTL

-----------------------------------------------------------------------------
(* What registrations side by side leave of the mailboxes.  Nothing is        *)
(* assumed of the handlers: the invariant says what holds as long as no two   *)
(* calls have met inside allocate, and what holds as long as none has come    *)
(* between the two allocations of another.                                   *)

Holding(k) == OnSecond(k) \/ call[k].at = "account"
Seconds == {k \in Call : OnSecond(k)}

StoresTheNext == \A k \in Call, p \in Pir : Storing(k, p) => call[k].index[p] = rows[p]

\* What a call holds is allocated, and nobody else's.
Held(k) ==
  /\ call[k].index["pir"] < rows["pir"]
  /\ \A a \in DOMAIN accounts : accounts[a] # call[k].index["pir"]
  /\ \A j \in Call : Holding(j) /\ call[j].index["pir"] = call[k].index["pir"] => j = k

\* No two were ever inside allocate of the same database: an index is handed out once,
\* and the acks lack the rows of the calls that are on their second allocation.
Serial ==
  /\ \A j, k \in Call, p \in Pir : Storing(j, p) /\ Storing(k, p) => j = k
  /\ StoresTheNext
  /\ rows["pir_acks"] + Cardinality(Seconds) = rows["pir"]
  /\ DistinctMailboxes
  /\ \A a \in DOMAIN accounts : accounts[a] < rows["pir"]
  /\ \A k \in Call : Holding(k) => Held(k)

\* None has come between the two of another: the databases differ by the one row of the
\* call that is between them, if there is one.
Paired ==
  /\ \A j, k \in Call : InPair(j) /\ InPair(k) => j = k
  /\ StoresTheNext
  /\ \A a \in DOMAIN accounts : accounts[a] < rows["pir_acks"]
  /\ (\A k \in Call : ~ OnSecond(k)) => rows["pir"] = rows["pir_acks"]
  /\ \A k \in Call : OnSecond(k) => /\ rows["pir"] = rows["pir_acks"] + 1
                                    /\ call[k].index["pir"] = rows["pir_acks"]
  /\ \A k \in Call : call[k].at = "account" =>
       /\ call[k].index["pir"] = call[k].index["pir_acks"]
       /\ call[k].index["pir"] < rows["pir_acks"]

Overlap == (~ collided => Serial) /\ (~ interleaved => Paired)

LEMMA RegisterFacts ==
  ASSUME CountInv
  PROVE  /\ rows["pir"] \in Nat /\ rows["pir_acks"] \in Nat /\ accounts \in Seq(Nat)
         /\ \A a \in DOMAIN accounts : accounts[a] \in Nat
         /\ IsFiniteSet(Seconds) /\ Cardinality(Seconds) \in Nat
<1>1. Seconds \subseteq Call
  BY DEF Seconds
<1>2. IsFiniteSet(Seconds) /\ Cardinality(Seconds) \in Nat
  BY <1>1, CallsFinite, RegistrationAssumption
<1> QED BY <1>2, Pirs DEF CountInv, RegisterTypes

\* Calls begin, go on after their account or end; the databases stay as they are.
LEMMA CallsGoOn ==
  ASSUME CountInv, Overlap, UNCHANGED <<rows, accounts, collided, interleaved>>,
         \A k \in Call : \/ call'[k] = call[k]
                         \/ /\ ~ OnSecond(k) /\ ~ OnSecond(k)'
                            /\ call'[k].at \notin {"store", "account"}
  PROVE  Overlap'
<1>1. ASSUME NEW k \in Call
      PROVE  /\ OnSecond(k)' <=> OnSecond(k)
             /\ Holding(k)' => Holding(k) /\ call'[k] = call[k]
             /\ InPair(k)' => InPair(k)
             /\ \A p \in Pir : Storing(k, p)' => Storing(k, p) /\ call'[k] = call[k]
             /\ call'[k].at = "account" => call'[k] = call[k]
  BY DEF OnSecond, Holding, InPair, Storing
<1>2. Seconds' = Seconds
  BY <1>1 DEF Seconds
<1>3. StoresTheNext => StoresTheNext'
  BY <1>1 DEF StoresTheNext
<1>4. Serial => Serial'
  <2> SUFFICES ASSUME Serial PROVE Serial'
    OBVIOUS
  <2>1. \A j, k \in Call, p \in Pir : Storing(j, p)' /\ Storing(k, p)' => j = k
    BY <1>1 DEF Serial
  <2>2. ASSUME NEW k \in Call, Holding(k)' PROVE Held(k)'
    BY <1>1, <2>2 DEF Serial, Held
  <2>3. DistinctMailboxes' /\ \A a \in DOMAIN accounts' : accounts'[a] < rows'["pir"]
    BY DEF Serial, DistinctMailboxes
  <2>4. rows'["pir_acks"] + Cardinality(Seconds') = rows'["pir"]
    BY <1>2 DEF Serial
  <2> QED BY <1>3, <2>1, <2>2, <2>3, <2>4 DEF Serial
<1>5. Paired => Paired'
  BY <1>1, <1>3 DEF Paired
<1> QED BY <1>4, <1>5 DEF Overlap

\* One call goes on as c.
LEMMA OneOn ==
  ASSUME CountInv, NEW k \in Call, NEW c \in CallRecord, call' = [call EXCEPT ![k] = c]
  PROVE  call'[k] = c /\ \A j \in Call : j # k => call'[j] = call[j]
BY DEF CountInv, RegisterTypes

LEMMA LoadOverlaps ==
  ASSUME CountInv, Overlap, NEW k \in Call, AllocateLoad(k) PROVE Overlap'
<1>q. PICK q : q = call[k].pir
  OBVIOUS
<1>0. PICK c : c = [call[k] EXCEPT !.at = "store", !.index = [@ EXCEPT ![q] = rows[q]]]
  OBVIOUS
<1>1. call[k].at = "load" /\ call[k].at \in Steps \cup Results
  BY DEF AllocateLoad, Steps
<1>2. call[k] \in CallRecord /\ call[k].index \in [Pir -> Nat] /\ q \in Pir
  BY <1>q, <1>1, RecordIs
<1>3. rows \in [Pir -> Nat] /\ UNCHANGED <<rows, accounts>>
  BY DEF AllocateLoad, serverVars, CountInv, RegisterTypes
<1>4. /\ c \in CallRecord /\ c.at = "store" /\ c.pir = q
      /\ \A p \in Pir : c.index[p] = IF p = q THEN rows[p] ELSE call[k].index[p]
  BY <1>0, <1>q, <1>2, <1>3 DEF CallRecord, Steps
<1>5. call' = [call EXCEPT ![k] = c]
  BY <1>0, <1>q DEF AllocateLoad
<1>6. call'[k] = c /\ \A j \in Call : j # k => call'[j] = call[j]
  BY <1>4, <1>5, OneOn
<1>7. /\ ~ collided' => ~ collided /\ \A j \in Call : ~ Storing(j, q)
      /\ ~ interleaved' => ~ interleaved /\ \A j \in Call \ {k} : ~ InPair(j)
  BY <1>q DEF AllocateLoad
<1>8. ASSUME NEW j \in Call
      PROVE  /\ OnSecond(j)' <=> OnSecond(j)
             /\ Holding(j)' <=> Holding(j)
             /\ Holding(j) => call'[j].index["pir"] = call[j].index["pir"]
             /\ j # k => (InPair(j)' <=> InPair(j))
             /\ \A p \in Pir : Storing(j, p)' <=> (Storing(j, p) \/ (j = k /\ p = q))
             /\ call'[j].at = "account" => j # k
  BY <1>q, <1>1, <1>4, <1>6, Pirs DEF OnSecond, Holding, InPair, Storing
<1>9. Seconds' = Seconds
  BY <1>8 DEF Seconds
<1>10. StoresTheNext => StoresTheNext'
  <2> SUFFICES ASSUME StoresTheNext, NEW j \in Call, NEW p \in Pir, Storing(j, p)'
               PROVE  call'[j].index[p] = rows'[p]
    BY DEF StoresTheNext
  <2>1. CASE j = k
    BY <1>3, <1>4, <1>6, <2>1 DEF Storing
  <2>2. CASE j # k
    BY <1>3, <1>6, <1>8, <2>2 DEF StoresTheNext
  <2> QED BY <2>1, <2>2
<1>11. ASSUME ~ collided' PROVE Serial'
  <2>0. Serial
    BY <1>7, <1>11 DEF Overlap
  <2>1. ASSUME NEW i \in Call, NEW j \in Call, NEW p \in Pir, Storing(i, p)', Storing(j, p)'
        PROVE  i = j
    BY <1>7, <1>8, <1>11, <2>0, <2>1 DEF Serial
  <2>2. ASSUME NEW j \in Call, Holding(j)' PROVE Held(j)'
    BY <1>3, <1>8, <2>0, <2>2 DEF Serial, Held
  <2>3. DistinctMailboxes' /\ \A a \in DOMAIN accounts' : accounts'[a] < rows'["pir"]
    BY <1>3, <2>0 DEF Serial, DistinctMailboxes
  <2>4. rows'["pir_acks"] + Cardinality(Seconds') = rows'["pir"]
    BY <1>3, <1>9, <2>0 DEF Serial
  <2> QED BY <1>10, <2>0, <2>1, <2>2, <2>3, <2>4 DEF Serial
<1>12. ASSUME ~ interleaved' PROVE Paired'
  <2>0. Paired
    BY <1>7, <1>12 DEF Overlap
  <2>1. \A i, j \in Call : InPair(i)' /\ InPair(j)' => i = j
    BY <1>7, <1>8, <1>12
  <2>2. ASSUME NEW j \in Call, OnSecond(j)'
        PROVE  /\ rows'["pir"] = rows'["pir_acks"] + 1
               /\ call'[j].index["pir"] = rows'["pir_acks"]
    BY <1>3, <1>8, <2>0, <2>2 DEF Paired, Holding
  <2>3. ASSUME NEW j \in Call, call'[j].at = "account"
        PROVE  /\ call'[j].index["pir"] = call'[j].index["pir_acks"]
               /\ call'[j].index["pir"] < rows'["pir_acks"]
    BY <1>3, <1>6, <1>8, <2>0, <2>3 DEF Paired
  <2>4. (\A j \in Call : ~ OnSecond(j)') => rows'["pir"] = rows'["pir_acks"]
    BY <1>3, <1>8, <2>0 DEF Paired
  <2>5. StoresTheNext' /\ \A a \in DOMAIN accounts' : accounts'[a] < rows'["pir_acks"]
    BY <1>3, <1>10, <2>0 DEF Paired
  <2> QED BY <2>1, <2>2, <2>3, <2>4, <2>5 DEF Paired
<1> QED BY <1>11, <1>12 DEF Overlap

LEMMA StoreOverlaps ==
  ASSUME CountInv, Overlap, NEW k \in Call, AllocateStore(k) PROVE Overlap'
<1>q. PICK q : q = call[k].pir
  OBVIOUS
<1>c. PICK c : c = [call[k] EXCEPT !.at = IF q = "pir" THEN "load" ELSE "account",
                                   !.pir = "pir_acks"]
  OBVIOUS
<1>1. call[k].at = "store" /\ call[k].at \in Steps \cup Results
  BY DEF AllocateStore, Steps
<1>2. /\ call[k] \in CallRecord /\ call[k].index \in [Pir -> Nat] /\ q \in Pir
      /\ rows \in [Pir -> Nat]
  BY <1>q, <1>1, RecordIs DEF CountInv, RegisterTypes
<1>3. /\ call' = [call EXCEPT ![k] = c] /\ UNCHANGED <<accounts, collided, interleaved>>
      /\ rows' = [rows EXCEPT ![q] = call[k].index[q] + 1]
  BY <1>q, <1>c DEF AllocateStore, overlapVars
<1>4. /\ c \in CallRecord /\ c.at = (IF q = "pir" THEN "load" ELSE "account")
      /\ c.pir = "pir_acks" /\ c.index = call[k].index
  BY <1>c, <1>2, Pirs DEF CallRecord, Steps
<1>5. call'[k] = c /\ \A j \in Call : j # k => call'[j] = call[j]
  BY <1>3, <1>4, OneOn
<1>6. Storing(k, q) /\ InPair(k) /\ (q = "pir" \/ q = "pir_acks")
  BY <1>q, <1>1, <1>2, Pirs DEF Storing, InPair, OnSecond
<1>7. StoresTheNext => \A p \in Pir : rows'[p] = IF p = q THEN rows[q] + 1 ELSE rows[p]
  BY <1>2, <1>3, <1>6 DEF StoresTheNext
<1>8. /\ \A j \in Call : j # k => /\ OnSecond(j)' <=> OnSecond(j)
                                  /\ Holding(j)' <=> Holding(j)
                                  /\ InPair(j)' <=> InPair(j)
                                  /\ \A p \in Pir : Storing(j, p)' <=> Storing(j, p)
      /\ \A p \in Pir : ~ Storing(k, p)'
      /\ call'[k].index = call[k].index
  BY <1>4, <1>5 DEF OnSecond, Holding, InPair, Storing
<1>9. CASE q = "pir"
  <2>1. ~ OnSecond(k) /\ OnSecond(k)' /\ Holding(k)' /\ call'[k].at = "load"
    BY <1>q, <1>1, <1>4, <1>5, <1>9 DEF OnSecond, Holding
  <2>2. Seconds' = Seconds \cup {k} /\ k \notin Seconds
    BY <1>8, <2>1 DEF Seconds
  <2>3. Cardinality(Seconds') = Cardinality(Seconds) + 1
    BY <2>2, RegisterFacts, FS_AddElement
  <2>4. ASSUME Serial PROVE Serial'
    <3>1. /\ rows'["pir"] = rows["pir"] + 1 /\ rows'["pir_acks"] = rows["pir_acks"]
          /\ call[k].index["pir"] = rows["pir"]
      BY <1>6, <1>7, <1>9, <2>4, Pirs DEF Serial, StoresTheNext
    <3>2. ASSUME NEW j \in Call, NEW p \in Pir, Storing(j, p)'
          PROVE  call'[j].index[p] = rows'[p]
      <4>1. j # k /\ Storing(j, p)
        BY <1>8, <3>2
      <4>2. p # q
        BY <1>6, <2>4, <4>1 DEF Serial
      <4> QED BY <1>5, <1>7, <2>4, <4>1, <4>2 DEF Serial, StoresTheNext
    <3>3. ASSUME NEW j \in Call, Holding(j)' PROVE Held(j)'
      <4>1. ASSUME NEW i \in Call, Holding(i)'
            PROVE  IF i = k THEN call'[i].index["pir"] = rows["pir"]
                   ELSE /\ Holding(i) /\ call'[i] = call[i]
                        /\ call[i].index["pir"] < rows["pir"]
        BY <1>5, <1>8, <2>4, <3>1, <4>1 DEF Serial, Held
      <4>2. \A a \in DOMAIN accounts' : accounts'[a] # call'[j].index["pir"]
        <5>1. CASE j = k
          BY <1>3, <2>4, <3>1, <3>3, <4>1, <5>1, RegisterFacts DEF Serial
        <5>2. CASE j # k
          BY <1>3, <2>4, <3>3, <4>1, <5>2 DEF Serial, Held
        <5> QED BY <5>1, <5>2
      <4>3. ASSUME NEW i \in Call, Holding(i)', call'[i].index["pir"] = call'[j].index["pir"]
            PROVE  i = j
        <5>1. CASE i = k \/ j = k
          BY <3>3, <4>1, <4>3, <5>1, RegisterFacts
        <5>2. CASE i # k /\ j # k
          BY <2>4, <3>3, <4>1, <4>3, <5>2 DEF Serial, Held
        <5> QED BY <5>1, <5>2
      <4>4. call'[j].index["pir"] < rows'["pir"]
        <5>1. call'[j].index["pir"] \in Nat
          BY <1>2, <1>5, <1>8, <3>3, <4>1, Pirs, RecordIs DEF Holding, OnSecond, Steps
        <5> QED BY <3>1, <3>3, <4>1, <5>1, RegisterFacts
      <4> QED BY <4>2, <4>3, <4>4 DEF Held
    <3>4. \A i, j \in Call, p \in Pir : Storing(i, p)' /\ Storing(j, p)' => i = j
      BY <1>8, <2>4 DEF Serial
    <3>5. rows'["pir_acks"] + Cardinality(Seconds') = rows'["pir"]
      BY <2>3, <2>4, <3>1, RegisterFacts DEF Serial
    <3>6. DistinctMailboxes' /\ \A a \in DOMAIN accounts' : accounts'[a] < rows'["pir"]
      BY <1>3, <2>4, <3>1, RegisterFacts DEF Serial, DistinctMailboxes
    <3> QED BY <3>2, <3>3, <3>4, <3>5, <3>6 DEF Serial, StoresTheNext
  <2>5. ASSUME Paired PROVE Paired'
    <3>0. \A j \in Call : j # k => ~ InPair(j) /\ ~ OnSecond(j) /\ \A p \in Pir : ~ Storing(j, p)
      <4>1. \A j \in Call : j # k => ~ InPair(j)
        BY <1>6, <2>5 DEF Paired
      <4> QED BY <4>1, Pirs DEF InPair, OnSecond, Storing
    <3>1. /\ rows'["pir"] = rows["pir"] + 1 /\ rows'["pir_acks"] = rows["pir_acks"]
          /\ call[k].index["pir"] = rows["pir"] /\ rows["pir"] = rows["pir_acks"]
      BY <1>6, <1>7, <1>9, <2>1, <2>5, <3>0, Pirs DEF Paired, StoresTheNext
    <3>2. \A i, j \in Call : InPair(i)' /\ InPair(j)' => i = j
      BY <1>8, <3>0
    <3>3. \A j \in Call, p \in Pir : ~ Storing(j, p)'
      BY <1>8, <3>0
    <3>4. ASSUME NEW j \in Call, OnSecond(j)'
          PROVE  /\ rows'["pir"] = rows'["pir_acks"] + 1
                 /\ call'[j].index["pir"] = rows'["pir_acks"]
      BY <1>8, <3>0, <3>1, <3>4
    <3>5. ASSUME NEW j \in Call, call'[j].at = "account"
          PROVE  /\ call'[j].index["pir"] = call'[j].index["pir_acks"]
                 /\ call'[j].index["pir"] < rows'["pir_acks"]
      BY <1>5, <2>1, <2>5, <3>1, <3>5 DEF Paired
    <3>6. \A a \in DOMAIN accounts' : accounts'[a] < rows'["pir_acks"]
      BY <1>3, <2>5, <3>1 DEF Paired
    <3> QED BY <2>1, <3>2, <3>3, <3>4, <3>5, <3>6 DEF Paired, StoresTheNext
  <2> QED BY <1>3, <2>4, <2>5 DEF Overlap
<1>10. CASE q = "pir_acks"
  <2>1. /\ OnSecond(k) /\ ~ OnSecond(k)' /\ Holding(k) /\ Holding(k)'
        /\ ~ InPair(k)' /\ call'[k].at = "account"
    BY <1>q, <1>1, <1>4, <1>5, <1>10 DEF OnSecond, Holding, InPair, Storing
  <2>2. Seconds = Seconds' \cup {k} /\ Seconds' = Seconds \ {k} /\ k \in Seconds
    BY <1>8, <2>1 DEF Seconds
  <2>3. Cardinality(Seconds') = Cardinality(Seconds) - 1
    BY <2>2, RegisterFacts, FS_RemoveElement
  <2>h. \A j \in Call : Holding(j)' => Holding(j) /\ call'[j].index = call[j].index
    BY <1>5, <1>8, <2>1
  <2>4. ASSUME Serial PROVE Serial'
    <3>1. rows'["pir_acks"] = rows["pir_acks"] + 1 /\ rows'["pir"] = rows["pir"]
      BY <1>7, <1>10, <2>4, Pirs DEF Serial
    <3>2. ASSUME NEW j \in Call, NEW p \in Pir, Storing(j, p)'
          PROVE  call'[j].index[p] = rows'[p]
      <4>1. j # k /\ Storing(j, p)
        BY <1>8, <3>2
      <4>2. p # q
        BY <1>6, <2>4, <4>1 DEF Serial
      <4> QED BY <1>5, <1>7, <2>4, <4>1, <4>2 DEF Serial, StoresTheNext
    <3>3. ASSUME NEW j \in Call, Holding(j)' PROVE Held(j)'
      <4>1. Holding(j) /\ call'[j].index["pir"] = call[j].index["pir"] /\ Held(j)
        BY <2>h, <2>4, <3>3 DEF Serial
      <4>2. \A i \in Call : Holding(i)' =>
              Holding(i) /\ call'[i].index["pir"] = call[i].index["pir"]
        BY <2>h
      <4>3. call'[j].index["pir"] < rows'["pir"]
        BY <3>1, <4>1 DEF Held
      <4>4. \A a \in DOMAIN accounts' : accounts'[a] # call'[j].index["pir"]
        BY <1>3, <4>1 DEF Held
      <4>5. \A i \in Call :
              Holding(i)' /\ call'[i].index["pir"] = call'[j].index["pir"] => i = j
        BY <4>1, <4>2 DEF Held
      <4> QED BY <4>3, <4>4, <4>5 DEF Held
    <3>4. \A i, j \in Call, p \in Pir : Storing(i, p)' /\ Storing(j, p)' => i = j
      BY <1>8, <2>4 DEF Serial
    <3>5. rows'["pir_acks"] + Cardinality(Seconds') = rows'["pir"]
      <4>1. rows["pir_acks"] + Cardinality(Seconds) = rows["pir"]
        BY <2>4 DEF Serial
      <4>2. rows["pir_acks"] \in Nat /\ rows["pir"] \in Nat /\ Cardinality(Seconds) \in Nat
        BY RegisterFacts
      <4> QED BY <2>3, <3>1, <4>1, <4>2
    <3>6. DistinctMailboxes' /\ \A a \in DOMAIN accounts' : accounts'[a] < rows'["pir"]
      BY <1>3, <2>4, <3>1 DEF Serial, DistinctMailboxes
    <3> QED BY <3>2, <3>3, <3>4, <3>5, <3>6 DEF Serial, StoresTheNext
  <2>5. ASSUME Paired PROVE Paired'
    <3>0. \A j \in Call : j # k => ~ InPair(j) /\ ~ OnSecond(j) /\ \A p \in Pir : ~ Storing(j, p)
      <4>1. \A j \in Call : j # k => ~ InPair(j)
        BY <1>6, <2>5 DEF Paired
      <4> QED BY <4>1, Pirs DEF InPair, OnSecond, Storing
    <3>1. /\ rows'["pir_acks"] = rows["pir_acks"] + 1 /\ rows'["pir"] = rows["pir"]
          /\ rows["pir"] = rows["pir_acks"] + 1 /\ call[k].index["pir"] = rows["pir_acks"]
          /\ call[k].index["pir_acks"] = rows["pir_acks"]
      BY <1>6, <1>7, <1>10, <2>1, <2>5, Pirs DEF Paired, StoresTheNext
    <3>2. \A j \in Call : ~ InPair(j)' /\ ~ OnSecond(j)' /\ \A p \in Pir : ~ Storing(j, p)'
      BY <1>8, <2>1, <3>0
    <3>3. ASSUME NEW j \in Call, call'[j].at = "account"
          PROVE  /\ call'[j].index["pir"] = call'[j].index["pir_acks"]
                 /\ call'[j].index["pir"] < rows'["pir_acks"]
      <4>1. CASE j = k
        BY <1>8, <3>1, <4>1, RegisterFacts
      <4>2. CASE j # k
        <5>1. /\ call[j].index["pir"] = call[j].index["pir_acks"]
              /\ call[j].index["pir"] < rows["pir_acks"] /\ call'[j] = call[j]
          BY <1>5, <2>5, <3>3, <4>2 DEF Paired
        <5>2. call[j].index["pir"] \in Nat
          BY <1>5, <3>3, <4>2, Pirs, RecordIs DEF Steps
        <5> QED BY <3>1, <5>1, <5>2, RegisterFacts
      <4> QED BY <4>1, <4>2
    <3>4. \A a \in DOMAIN accounts' : accounts'[a] < rows'["pir_acks"]
      BY <1>3, <2>5, <3>1, RegisterFacts DEF Paired
    <3> QED BY <3>1, <3>2, <3>3, <3>4 DEF Paired, StoresTheNext
  <2> QED BY <1>3, <2>4, <2>5 DEF Overlap
<1> QED BY <1>6, <1>9, <1>10

LEMMA AccountOverlaps ==
  ASSUME CountInv, Overlap, NEW k \in Call, generate_account(k) PROVE Overlap'
<1>1. call[k].at = "account" /\ call[k].at \in Steps \cup Results
  BY DEF generate_account, Steps
<1>2. /\ call \in [Call -> CallRecord \cup {Unused, Over}]
      /\ call[k] \in CallRecord /\ accounts \in Seq(Nat) /\ rows \in [Pir -> Nat]
  BY <1>1, RecordIs DEF CountInv, RegisterTypes
<1>3. UNCHANGED <<rows, collided, interleaved>>
  BY DEF generate_account, overlapVars
<1>4. CASE accounts' = accounts /\ call' = [call EXCEPT ![k].at = "failed"]
  <2>1. /\ call'[k].at = "failed" /\ \A j \in Call : j # k => call'[j] = call[j]
    BY <1>2, <1>4 DEF CallRecord
  <2>2. ~ OnSecond(k) /\ ~ OnSecond(k)'
    BY <1>1, <2>1 DEF OnSecond
  <2> QED BY <1>3, <1>4, <2>1, <2>2, CallsGoOn
<1>5. CASE /\ accounts' = Append(accounts, call[k].index["pir"])
           /\ call' = [call EXCEPT ![k].at = "publish", ![k].token = Len(accounts')]
  <2>n. PICK n \in Nat : n = call[k].index["pir"]
    BY <1>1, Pirs, RecordIs
  <2>1. /\ call'[k].at = "publish" /\ \A j \in Call : j # k => call'[j] = call[j]
    BY <1>2, <1>5 DEF CallRecord
  <2>2. /\ Len(accounts) \in Nat /\ DOMAIN accounts = 1..Len(accounts)
        /\ DOMAIN accounts' = 1..(Len(accounts) + 1) /\ accounts'[Len(accounts) + 1] = n
        /\ \A a \in DOMAIN accounts : accounts'[a] = accounts[a] /\ accounts[a] \in Nat
    BY <2>n, <1>2, <1>5
  <2>3. \A a \in DOMAIN accounts' : a \in DOMAIN accounts \/ a = Len(accounts) + 1
    BY <2>2
  <2>4. ASSUME NEW j \in Call
        PROVE  /\ OnSecond(j)' <=> OnSecond(j)
               /\ Holding(j)' => Holding(j) /\ j # k /\ call'[j] = call[j]
               /\ InPair(j)' <=> InPair(j)
               /\ \A p \in Pir : /\ Storing(j, p)' <=> Storing(j, p)
                                 /\ Storing(j, p) => call'[j] = call[j]
               /\ call'[j].at = "account" => call'[j] = call[j] /\ call[j].at = "account"
    BY <1>1, <2>1 DEF OnSecond, Holding, InPair, Storing
  <2>5. Holding(k)
    BY <1>1 DEF Holding
  <2>6. Seconds' = Seconds /\ (StoresTheNext => StoresTheNext')
    BY <1>3, <2>4 DEF Seconds, StoresTheNext
  <2>7. ASSUME Serial PROVE Serial'
    <3>1. /\ n < rows["pir"] /\ \A a \in DOMAIN accounts : accounts[a] # n
          /\ \A j \in Call : Holding(j) /\ call[j].index["pir"] = n => j = k
      BY <2>n, <2>5, <2>7 DEF Serial, Held
    <3>2. DistinctMailboxes'
      <4>1. ASSUME NEW a \in DOMAIN accounts', NEW b \in DOMAIN accounts',
                   accounts'[a] = accounts'[b]
            PROVE  a = b
        BY <2>2, <2>3, <2>7, <3>1, <4>1 DEF Serial, DistinctMailboxes
      <4> QED BY <4>1 DEF DistinctMailboxes
    <3>3. \A a \in DOMAIN accounts' : accounts'[a] < rows'["pir"]
      BY <1>3, <2>2, <2>3, <2>7, <3>1 DEF Serial
    <3>4. ASSUME NEW j \in Call, Holding(j)' PROVE Held(j)'
      <4>1. Holding(j) /\ j # k /\ call'[j] = call[j] /\ Held(j)
        BY <2>4, <2>7, <3>4 DEF Serial
      <4>2. call'[j].index["pir"] < rows'["pir"]
        BY <1>3, <4>1 DEF Held
      <4>3. \A a \in DOMAIN accounts' : accounts'[a] # call'[j].index["pir"]
        <5>1. /\ call[j].index["pir"] # n
              /\ \A a \in DOMAIN accounts : accounts[a] # call[j].index["pir"]
          BY <3>1, <4>1 DEF Held
        <5>2. ASSUME NEW a \in DOMAIN accounts' PROVE accounts'[a] # call[j].index["pir"]
          BY <2>2, <2>3, <5>1
        <5> QED BY <4>1, <5>2
      <4>4. \A i \in Call :
              Holding(i)' /\ call'[i].index["pir"] = call'[j].index["pir"] => i = j
        BY <2>4, <4>1 DEF Held
      <4> QED BY <4>2, <4>3, <4>4 DEF Held
    <3>5. \A i, j \in Call, p \in Pir : Storing(i, p)' /\ Storing(j, p)' => i = j
      BY <2>4, <2>7 DEF Serial
    <3>6. rows'["pir_acks"] + Cardinality(Seconds') = rows'["pir"]
      BY <1>3, <2>6, <2>7 DEF Serial
    <3>7. StoresTheNext'
      BY <2>6, <2>7 DEF Serial
    <3> QED BY <3>2, <3>3, <3>4, <3>5, <3>6, <3>7 DEF Serial
  <2>8. ASSUME Paired PROVE Paired'
    <3>1. n < rows["pir_acks"]
      BY <2>n, <1>1, <2>8 DEF Paired
    <3>2. \A a \in DOMAIN accounts' : accounts'[a] < rows'["pir_acks"]
      BY <1>3, <2>2, <2>3, <2>8, <3>1 DEF Paired
    <3>3. \A i, j \in Call : InPair(i)' /\ InPair(j)' => i = j
      BY <2>4, <2>8 DEF Paired
    <3>4. ASSUME NEW j \in Call, OnSecond(j)'
          PROVE  /\ rows'["pir"] = rows'["pir_acks"] + 1
                 /\ call'[j].index["pir"] = rows'["pir_acks"]
      BY <1>3, <2>4, <2>8, <3>4 DEF Paired, Holding
    <3>5. ASSUME NEW j \in Call, call'[j].at = "account"
          PROVE  /\ call'[j].index["pir"] = call'[j].index["pir_acks"]
                 /\ call'[j].index["pir"] < rows'["pir_acks"]
      BY <1>3, <2>4, <2>8, <3>5 DEF Paired
    <3>6. (\A j \in Call : ~ OnSecond(j)') => rows'["pir"] = rows'["pir_acks"]
      BY <1>3, <2>4, <2>8 DEF Paired
    <3>7. StoresTheNext'
      BY <2>6, <2>8 DEF Paired
    <3> QED BY <3>2, <3>3, <3>4, <3>5, <3>6, <3>7 DEF Paired
  <2> QED BY <1>3, <2>7, <2>8 DEF Overlap
<1> QED BY <1>4, <1>5 DEF generate_account

LEMMA BeginOverlaps ==
  ASSUME CountInv, Overlap, NEW d \in Daemon, RegisterUser(d) PROVE Overlap'
<1>1. PICK k \in Call : /\ call[k] = Unused
                       /\ call' = [call EXCEPT ![k] = [at |-> "load", daemon |-> d, pir |-> "pir",
                                                       index |-> [p \in Pir |-> 0], token |-> 0]]
  BY DEF RegisterUser
<1>2. UNCHANGED <<rows, accounts, collided, interleaved>>
  BY DEF RegisterUser, serverVars, overlapVars
<1>3. /\ call'[k].at = "load" /\ call'[k].pir = "pir"
      /\ \A j \in Call : j # k => call'[j] = call[j]
  BY <1>1 DEF CountInv, RegisterTypes
<1>4. ~ OnSecond(k) /\ ~ OnSecond(k)'
  BY <1>1, <1>3 DEF OnSecond, Unused
<1> QED BY <1>2, <1>3, <1>4, CallsGoOn

LEMMA PublishOverlaps ==
  ASSUME CountInv, Overlap, NEW k \in Call, register_user(k) PROVE Overlap'
<1>1. /\ call[k].at = "publish" /\ call' = [call EXCEPT ![k].at = "ok"]
      /\ UNCHANGED <<rows, accounts, collided, interleaved>>
  BY DEF register_user, overlapVars
<1>2. call[k] \in CallRecord /\ call \in [Call -> CallRecord \cup {Unused, Over}]
  BY <1>1, RecordIs DEF Steps, CountInv, RegisterTypes
<1>3. call'[k].at = "ok" /\ \A j \in Call : j # k => call'[j] = call[j]
  BY <1>1, <1>2 DEF CallRecord
<1>4. ~ OnSecond(k) /\ ~ OnSecond(k)'
  BY <1>1, <1>3 DEF OnSecond
<1> QED BY <1>1, <1>3, <1>4, CallsGoOn

LEMMA AnswerOverlaps ==
  ASSUME CountInv, Overlap, NEW k \in Call, Answer(k) PROVE Overlap'
<1>1. /\ call[k].at \in Results /\ call' = [call EXCEPT ![k] = Over]
      /\ UNCHANGED <<rows, accounts, collided, interleaved>>
  BY DEF Answer, Over, serverVars, overlapVars
<1>2. call'[k].at = "over" /\ \A j \in Call : j # k => call'[j] = call[j]
  BY <1>1 DEF Over, CountInv, RegisterTypes
<1>3. ~ OnSecond(k) /\ ~ OnSecond(k)'
  BY <1>1, <1>2 DEF OnSecond, Results
<1> QED BY <1>1, <1>2, <1>3, CallsGoOn

LEMMA RestOverlaps ==
  ASSUME CountInv, Overlap, UNCHANGED <<rows, accounts, call, collided, interleaved>>
  PROVE  Overlap'
BY CallsGoOn

\* The restart ends all calls and gives every account its row in both databases again.
LEMMA RestartOverlaps ==
  ASSUME CountInv, Overlap, Restart PROVE Overlap'
<1>1. /\ rows' = [p \in Pir |-> allocate_to_max(p)] /\ UNCHANGED <<accounts, collided>>
      /\ call' = [k \in Call |-> IF k \in Running THEN Over ELSE call[k]]
  BY DEF Restart, Over
<1>2. accounts \in Seq(Nat) /\ \A a \in DOMAIN accounts : accounts[a] \in Nat
  BY RegisterFacts
<1>3. \A k \in Call : call'[k].at \notin {"load", "store", "account"}
  BY <1>1 DEF Over, Running, Steps
<1>4. \A k \in Call : /\ ~ OnSecond(k)' /\ ~ Holding(k)' /\ ~ InPair(k)'
                      /\ \A p \in Pir : ~ Storing(k, p)'
  BY <1>3 DEF OnSecond, Holding, InPair, Storing
<1>5. Cardinality(Seconds') = 0
  <2>1. Seconds' = {}
    BY <1>4 DEF Seconds
  <2> QED BY <2>1, FS_EmptySet
<1>6. /\ rows'["pir"] = rows'["pir_acks"] /\ rows'["pir"] \in Nat
      /\ \A a \in DOMAIN accounts' : accounts'[a] < rows'["pir"]
  <2>1. CASE accounts = <<>>
    BY <1>1, <2>1, Pirs DEF allocate_to_max
  <2>2. CASE accounts # <<>>
    <3>1. MaxIndex \in Nat /\ \A a \in DOMAIN accounts : accounts[a] <= MaxIndex
      BY <2>2, HighestIndex
    <3>2. rows'["pir"] = MaxIndex + 1 /\ rows'["pir_acks"] = MaxIndex + 1
      BY <1>1, <2>2, Pirs DEF allocate_to_max
    <3>3. ASSUME NEW a \in DOMAIN accounts' PROVE accounts'[a] < MaxIndex + 1
      BY <1>1, <1>2, <3>1
    <3> QED BY <3>1, <3>2, <3>3
  <2> QED BY <2>1, <2>2
<1>7. StoresTheNext'
  BY <1>4 DEF StoresTheNext
<1>8. Paired'
  BY <1>3, <1>4, <1>6, <1>7 DEF Paired
<1>9. ASSUME ~ collided' PROVE Serial'
  <2>1. DistinctMailboxes'
    BY <1>1, <1>9 DEF Overlap, Serial, DistinctMailboxes
  <2>2. rows'["pir_acks"] + Cardinality(Seconds') = rows'["pir"]
    BY <1>5, <1>6
  <2> QED BY <1>4, <1>6, <1>7, <2>1, <2>2 DEF Serial
<1> QED BY <1>8, <1>9 DEF Overlap

LEMMA OverlapInductive == RegisterSpec => []Overlap
<1>1. RegisterInit => Overlap
  <2> SUFFICES ASSUME RegisterInit PROVE Overlap
    OBVIOUS
  <2>1. /\ rows["pir"] = 0 /\ rows["pir_acks"] = 0 /\ DOMAIN accounts = {}
        /\ \A k \in Call : call[k].at = "unused"
    BY Pirs DEF RegisterInit, Unused
  <2>2. \A k \in Call : /\ ~ OnSecond(k) /\ ~ Holding(k) /\ ~ InPair(k)
                        /\ \A p \in Pir : ~ Storing(k, p)
    BY <2>1 DEF OnSecond, Holding, InPair, Storing
  <2>3. Cardinality(Seconds) = 0
    <3>1. Seconds = {}
      BY <2>2 DEF Seconds
    <3> QED BY <3>1, FS_EmptySet
  <2>4. StoresTheNext /\ DistinctMailboxes
    BY <2>1, <2>2 DEF StoresTheNext, DistinctMailboxes
  <2>5. Serial
    BY <2>1, <2>2, <2>3, <2>4 DEF Serial
  <2>6. Paired
    BY <2>1, <2>2, <2>4 DEF Paired
  <2> QED BY <2>5, <2>6 DEF Overlap
<1>2. CountInv /\ Overlap /\ [RegisterNext]_registerVars => Overlap'
  <2> SUFFICES ASSUME CountInv, Overlap, [RegisterNext]_registerVars PROVE Overlap'
    OBVIOUS
  <2>1. CASE UNCHANGED registerVars
    BY <2>1, RestOverlaps DEF registerVars, serverVars, overlapVars
  <2>2. ASSUME NEW d \in Daemon, RegisterUser(d) \/ GiveUp(d) \/ Publish(d) PROVE Overlap'
    BY <2>2, BeginOverlaps, RestOverlaps DEF GiveUp, Publish, serverVars, overlapVars
  <2>3. ASSUME NEW k \in Call, \/ AllocateLoad(k) \/ AllocateStore(k) \/ generate_account(k)
                               \/ register_user(k) \/ Answer(k)
        PROVE  Overlap'
    BY <2>3, LoadOverlaps, StoreOverlaps, AccountOverlaps, PublishOverlaps, AnswerOverlaps
  <2>4. CASE Restart
    BY <2>4, RestartOverlaps
  <2> QED BY <2>1, <2>2, <2>3, <2>4 DEF RegisterNext
<1> QED BY <1>1, <1>2, CountsInductive, PTL DEF RegisterSpec

\* For any number of daemons, calls, handlers side by side, failures and restarts: unless
\* two calls meet inside one allocate, no two accounts share a mailbox, and all are
\* allocated whenever nobody is on its second allocation; unless one allocates between the
\* two allocations of another, all are allocated all the time and Register's assertion
\* holds.  Nothing is assumed: what fails under an overlap is in the formula, and the run
\* goes through the overlaps.
THEOREM MailboxesSound == RegisterSpec => []MailboxesAreSound
<1>1. CountInv /\ Overlap => MailboxesAreSound
  <2> SUFFICES ASSUME CountInv, Overlap PROVE MailboxesAreSound
    OBVIOUS
  <2>1. ASSUME ~ collided PROVE DistinctMailboxes
    BY <2>1 DEF Overlap, Serial
  <2>2. ASSUME ~ collided, \A k \in Call : ~ OnSecond(k) PROVE MailboxesAllocated
    <3>1. Cardinality(Seconds) = 0
      <4>1. Seconds = {}
        BY <2>2 DEF Seconds
      <4> QED BY <4>1, FS_EmptySet
    <3>2. rows["pir_acks"] = rows["pir"] /\ \A a \in DOMAIN accounts : accounts[a] < rows["pir"]
      BY <2>2, <3>1, RegisterFacts DEF Overlap, Serial
    <3> QED BY <3>2, Pirs DEF MailboxesAllocated, Allocated
  <2>3. ASSUME ~ interleaved PROVE MailboxesAllocated /\ AllocationsAgree
    <3>0. Paired
      BY <2>3 DEF Overlap
    <3>1. \A a \in DOMAIN accounts : accounts[a] < rows["pir_acks"]
      BY <3>0 DEF Paired
    <3>2. rows["pir"] = rows["pir_acks"] \/ rows["pir"] = rows["pir_acks"] + 1
      BY <3>0 DEF Paired
    <3>3. \A a \in DOMAIN accounts : accounts[a] < rows["pir"]
      BY <3>1, <3>2, RegisterFacts
    <3>4. MailboxesAllocated
      BY <3>1, <3>3, Pirs DEF MailboxesAllocated, Allocated
    <3>5. AllocationsAgree
      BY <3>0 DEF Paired, AllocationsAgree
    <3> QED BY <3>4, <3>5
  <2> QED BY <2>1, <2>2, <2>3 DEF MailboxesAreSound
<1> QED BY <1>1, CountsInductive, OverlapInductive, PTL

-----------------------------------------------------------------------------
(* The watchdog.  A thread that is awaited and in order answers before the  *)
(* main thread's patience ends, unless the latency was changed so far        *)
(* between the readings of the two that FarApart holds.                     *)

Does == {"sleep", "round", "pause", "stalled"}
Deadline == {l + Grace : l \in Latency}

WatchdogTypes ==
  /\ latency \in Latency /\ read \in Latency
  /\ failed \in BOOLEAN /\ exited \in BOOLEAN /\ server \in {"up", "dead"}
  /\ transmitter \in [does : Does, left : Nat, latency : Latency]
  /\ grpc \in [does : {"sleep", "call"}, left : Nat, latency : Deadline]
  /\ main \in [waits : {"transmitter", "grpc"}, left : Nat, timeout : Nat]

\* Nobody rests longer than the latency he read makes him, and only a server that is dead
\* lets a call wait.
RestInTime ==
  /\ transmitter.does = "sleep" => transmitter.left <= transmitter.latency
  /\ transmitter.does = "round" => transmitter.left <= MaxRound
  /\ transmitter.does = "pause" => transmitter.left <= Grace /\ failed
  /\ transmitter.does = "stalled" => transmitter.left = 0
  /\ grpc.left <= grpc.latency
  /\ server = "up" => grpc.does = "sleep"
  /\ main.left <= main.timeout /\ main.timeout = Timeout(read)

\* The ping of the thread that is awaited, if it is in order, comes first.
PingInTime ==
  /\ main.waits = "transmitter" /\ ~ failed /\ transmitter.does # "stalled" =>
       \/ transmitter.left + (IF transmitter.does = "sleep" THEN MaxRound ELSE 0) < main.left
       \/ FarApart
  /\ main.waits = "grpc" /\ server = "up" => grpc.left < main.left \/ FarApart

WatchdogRest == WatchdogTypes /\ RestInTime
WatchdogIInv == WatchdogRest /\ PingInTime /\ HealthyIsNotKilled

LEMMA Latencies ==
  /\ MaxRound \in Nat /\ Grace = 1
  /\ \A l \in Latency : l \in Nat \ {0} /\ Timeout(l) \in Nat /\ l + Grace \in Deadline
  /\ \A l \in Deadline : l \in Nat
<1>1. MaxRound \in Nat /\ Grace = 1 /\ Latency \subseteq Nat \ {0}
  BY WatchdogAssumption DEF Grace
<1>2. ASSUME NEW l \in Latency
      PROVE  /\ l \in Nat \ {0} /\ Timeout(l) \in Nat
             /\ l + Grace \in Nat /\ l + Grace \in Deadline
  <2>1. l \in Nat \ {0}
    BY <1>1
  <2>2. Timeout(l) = 10 * (l + 1) /\ l + Grace = l + 1
    BY <1>1 DEF Timeout, Factor
  <2>3. l + Grace \in Deadline
    BY DEF Deadline
  <2> QED BY <2>1, <2>2, <2>3
<1>3. \A d \in Deadline : d \in Nat
  BY <1>2 DEF Deadline
<1> QED BY <1>1, <1>2, <1>3

\* What a ping does: nothing, or the next wait; an iteration ends with the second.
LEMMA PingWakes ==
  ASSUME WatchdogTypes, NEW thread \in {"transmitter", "grpc"}, Ping(thread), NoteRead
  PROVE  \/ main.waits # thread /\ main' = main /\ read' = read
         \/ /\ main.waits = thread /\ thread = "transmitter" /\ read' = read
            /\ main' = [waits |-> "grpc", left |-> main.timeout, timeout |-> main.timeout]
         \/ /\ main.waits = thread /\ thread = "grpc" /\ read' = latency
            /\ main' = [waits |-> "transmitter", left |-> Timeout(latency),
                        timeout |-> Timeout(latency)]
BY DEF Ping, AwaitNext, Wait, NoteRead

\* The transmitter reads the latency and sleeps, or pauses.
LEMMA RestsAgain ==
  ASSUME WatchdogTypes, transmitter' = Sleeps(latency) \/ Pauses
  PROVE  /\ transmitter' \in [does : Does, left : Nat, latency : Latency]
         /\ \/ /\ transmitter'.does = "sleep" /\ transmitter'.left = latency
               /\ transmitter'.latency = latency
            \/ /\ transmitter'.does = "pause" /\ transmitter'.left = Grace /\ failed' = TRUE
               /\ transmitter'.latency = transmitter.latency
<1>1. latency \in Latency /\ latency \in Nat /\ Grace \in Nat
  BY Latencies DEF WatchdogTypes
<1>2. CASE transmitter' = Sleeps(latency)
  BY <1>1, <1>2 DEF Sleeps, Does
<1>3. CASE Pauses
  <2>1. /\ transmitter' = [transmitter EXCEPT !.does = "pause", !.left = Grace]
        /\ failed' = TRUE /\ transmitter \in [does : Does, left : Nat, latency : Latency]
    BY <1>3 DEF Pauses, WatchdogTypes
  <2> QED BY <1>1, <2>1 DEF Does
<1> QED BY <1>2, <1>3

LEMMA SleepsOn ==
  ASSUME WatchdogTypes, grpc' = Sleeps(latency + Grace)
  PROVE  /\ grpc' \in [does : {"sleep", "call"}, left : Nat, latency : Deadline]
         /\ grpc'.does = "sleep" /\ grpc'.left = grpc'.latency /\ grpc'.latency = latency + Grace
BY Latencies DEF WatchdogTypes, Sleeps

LEMMA RoundSteps ==
  ASSUME WatchdogIInv, BeginRound \/ FailRound \/ Stall \/ EndPause
  PROVE  WatchdogIInv'
<1> USE Latencies DEF WatchdogIInv, WatchdogRest
<1>1. UNCHANGED <<latency, grpc, server, main, exited, read>> /\ ~ exited
  BY DEF BeginRound, FailRound, Stall, EndPause, Pauses
<1>2. HealthyIsNotKilled'
  BY <1>1 DEF HealthyIsNotKilled
<1>3. CASE BeginRound
  <2>1. /\ transmitter' \in [does : Does, left : Nat, latency : Latency]
        /\ transmitter'.does = "round" /\ transmitter'.left = MaxRound
        /\ transmitter'.latency = transmitter.latency
        /\ transmitter.does = "sleep" /\ transmitter.left = 0 /\ failed' = failed
    BY <1>3 DEF BeginRound, WatchdogTypes, Does
  <2>2. WatchdogTypes' /\ RestInTime'
    BY <1>1, <2>1 DEF WatchdogTypes, RestInTime
  <2>3. FarApart => FarApart'
    BY <1>1, <2>1 DEF FarApart
  <2>4. PingInTime'
    BY <1>1, <2>1, <2>3 DEF WatchdogTypes, PingInTime
  <2> QED BY <1>2, <2>2, <2>4
<1>4. CASE FailRound \/ EndPause
  <2>1. /\ transmitter' \in [does : Does, left : Nat, latency : Latency]
        /\ \/ /\ transmitter'.does = "sleep" /\ transmitter'.left = latency
              /\ transmitter'.latency = latency
           \/ /\ transmitter'.does = "pause" /\ transmitter'.left = Grace /\ failed' = TRUE
              /\ transmitter'.latency = transmitter.latency
    BY <1>4, RestsAgain DEF FailRound, EndPause
  <2>2. failed' = TRUE
    BY <1>4 DEF FailRound, EndPause, Pauses, RestInTime, WatchdogTypes
  <2>3. WatchdogTypes' /\ RestInTime'
    BY <1>1, <2>1, <2>2 DEF WatchdogTypes, RestInTime
  <2>4. main.waits = "grpc" /\ FarApart => FarApart'
    BY <1>1 DEF FarApart
  <2>5. PingInTime'
    BY <1>1, <2>2, <2>4 DEF PingInTime
  <2> QED BY <1>2, <2>3, <2>5
<1>5. CASE Stall
  <2>1. /\ transmitter' \in [does : Does, left : Nat, latency : Latency]
        /\ transmitter'.does = "stalled" /\ transmitter'.left = 0 /\ failed' = failed
    BY <1>5 DEF Stall, WatchdogTypes, Does
  <2>2. WatchdogTypes' /\ RestInTime'
    BY <1>1, <2>1 DEF WatchdogTypes, RestInTime
  <2>3. main.waits = "grpc" /\ FarApart => FarApart'
    BY <1>1 DEF FarApart
  <2>4. PingInTime'
    BY <1>1, <2>1, <2>3 DEF PingInTime
  <2> QED BY <1>2, <2>2, <2>4
<1> QED BY <1>3, <1>4, <1>5

\* A ping in time: the next thread that is awaited has its time before it, unless the
\* latencies are far apart.
LEMMA EndRoundStep ==
  ASSUME WatchdogIInv, EndRound PROVE WatchdogIInv'
<1> USE Latencies DEF WatchdogIInv, WatchdogRest
<1>1. UNCHANGED <<latency, grpc, server, exited>> /\ ~ exited
  BY DEF EndRound
<1>2. \/ main.waits # "transmitter" /\ main' = main /\ read' = read
      \/ /\ main.waits = "transmitter" /\ read' = read
         /\ main' = [waits |-> "grpc", left |-> main.timeout, timeout |-> main.timeout]
  BY PingWakes DEF EndRound
<1>3. /\ transmitter' \in [does : Does, left : Nat, latency : Latency]
      /\ \/ /\ transmitter'.does = "sleep" /\ transmitter'.left = latency
            /\ transmitter'.latency = latency
         \/ /\ transmitter'.does = "pause" /\ transmitter'.left = Grace /\ failed' = TRUE
            /\ transmitter'.latency = transmitter.latency
      /\ failed' \in BOOLEAN
  BY RestsAgain DEF EndRound, Pauses
<1>4. WatchdogTypes'
  BY <1>1, <1>2, <1>3 DEF WatchdogTypes
<1>5. RestInTime'
  BY <1>1, <1>2, <1>3 DEF WatchdogTypes, RestInTime
<1>6. PingInTime'
  <2>1. CASE main.waits # "transmitter" /\ main' = main /\ read' = read
    <3>1. main.waits = "grpc" /\ (FarApart => FarApart')
      BY <1>1, <2>1 DEF WatchdogTypes, FarApart
    <3> QED BY <1>1, <2>1, <3>1 DEF PingInTime
  <2>2. CASE /\ main.waits = "transmitter" /\ read' = read
             /\ main' = [waits |-> "grpc", left |-> main.timeout, timeout |-> main.timeout]
    <3>1. main'.waits = "grpc" /\ main'.left = Timeout(read)
      BY <2>2 DEF RestInTime
    <3>2. grpc.left <= grpc.latency /\ grpc.left \in Nat /\ grpc.latency \in Nat
          /\ Timeout(read) \in Nat
      BY DEF WatchdogTypes, RestInTime
    <3>3. FarApart' <=> Timeout(read) <= grpc.latency
      BY <1>1, <2>2, <3>1 DEF FarApart, Timeout
    <3> QED BY <1>1, <3>1, <3>2, <3>3 DEF PingInTime
  <2> QED BY <1>2, <2>1, <2>2
<1> QED BY <1>1, <1>4, <1>5, <1>6 DEF HealthyIsNotKilled

LEMMA ServerSteps ==
  ASSUME WatchdogIInv, ServerDies \/ CallServer \/ CallFails PROVE WatchdogIInv'
<1> USE Latencies DEF WatchdogIInv, WatchdogRest
<1>1. UNCHANGED <<latency, transmitter, failed, exited>> /\ ~ exited
  BY DEF ServerDies, CallServer, CallFails
<1>2. HealthyIsNotKilled'
  BY <1>1 DEF HealthyIsNotKilled
<1>3. CASE ServerDies
  <2>1. UNCHANGED <<grpc, main, read>> /\ server' = "dead" /\ (FarApart => FarApart')
    BY <1>1, <1>3 DEF ServerDies, FarApart
  <2> QED BY <1>1, <1>2, <2>1 DEF WatchdogTypes, RestInTime, PingInTime
<1>4. CASE CallServer /\ server = "up"
  <2>1. /\ \/ main.waits # "grpc" /\ main' = main /\ read' = read
           \/ /\ main.waits = "grpc" /\ read' = latency
              /\ main' = [waits |-> "transmitter", left |-> Timeout(latency),
                          timeout |-> Timeout(latency)]
        /\ grpc' \in [does : {"sleep", "call"}, left : Nat, latency : Deadline]
        /\ grpc'.does = "sleep" /\ grpc'.left = grpc'.latency
        /\ server' = "up"
    BY <1>4, PingWakes, SleepsOn DEF CallServer
  <2>2. WatchdogTypes'
    BY <1>1, <2>1 DEF WatchdogTypes
  <2>3. RestInTime'
    BY <1>1, <2>1 DEF WatchdogTypes, RestInTime
  <2>4. PingInTime'
    <3>1. CASE main.waits # "grpc" /\ main' = main /\ read' = read
      <4>1. main.waits = "transmitter" /\ (FarApart => FarApart')
        BY <1>1, <3>1 DEF WatchdogTypes, FarApart
      <4> QED BY <1>1, <3>1, <4>1 DEF PingInTime
    <3>2. CASE /\ main.waits = "grpc" /\ read' = latency
               /\ main' = [waits |-> "transmitter", left |-> Timeout(latency),
                           timeout |-> Timeout(latency)]
      <4>1. main'.waits = "transmitter" /\ main'.left = Timeout(latency)
        BY <3>2
      <4>2. FarApart' <=> Timeout(latency) <= transmitter.latency + MaxRound
        BY <1>1, <3>2, <4>1 DEF FarApart, Timeout
      <4>3. transmitter.left \in Nat /\ transmitter.latency \in Nat /\ Timeout(latency) \in Nat
        BY DEF WatchdogTypes
      <4>4. ~ failed /\ transmitter.does # "stalled" =>
              transmitter.left + (IF transmitter.does = "sleep" THEN MaxRound ELSE 0)
                <= transmitter.latency + MaxRound
        BY <4>3 DEF RestInTime, WatchdogTypes, Does
      <4> QED BY <1>1, <4>1, <4>2, <4>3, <4>4 DEF PingInTime
    <3> QED BY <2>1, <3>1, <3>2
  <2> QED BY <1>2, <2>2, <2>3, <2>4
<1>5. CASE (CallServer /\ server # "up") \/ CallFails
  <2>1. /\ server = "dead" /\ server' = server /\ UNCHANGED <<main, read>>
        /\ grpc' \in [does : {"sleep", "call"}, left : Nat, latency : Deadline]
        /\ grpc'.left <= grpc'.latency
    <3>1. CASE CallServer /\ server # "up"
      <4>1. /\ server = "dead" /\ server' = server /\ main' = main /\ read' = read
            /\ grpc' = [grpc EXCEPT !.does = "call", !.left = grpc.latency]
        BY <3>1 DEF CallServer, NoteRead, WatchdogTypes
      <4>2. /\ grpc \in [does : {"sleep", "call"}, left : Nat, latency : Deadline]
            /\ grpc.latency \in Nat /\ grpc.latency \in Deadline
        BY DEF WatchdogTypes
      <4>3. grpc'.left = grpc.latency /\ grpc'.latency = grpc.latency
        BY <4>1, <4>2
      <4>4. grpc' \in [does : {"sleep", "call"}, left : Nat, latency : Deadline]
        BY <4>1, <4>2
      <4>5. grpc'.left <= grpc'.latency
        BY <4>2, <4>3
      <4> QED BY <4>1, <4>4, <4>5
    <3>2. CASE CallFails
      BY <3>2, SleepsOn DEF CallFails, WatchdogTypes, RestInTime
    <3> QED BY <1>5, <3>1, <3>2
  <2>2. main.waits = "transmitter" /\ FarApart => FarApart'
    BY <1>1, <2>1 DEF FarApart
  <2>3. WatchdogTypes' /\ RestInTime'
    BY <1>1, <2>1 DEF WatchdogTypes, RestInTime
  <2>4. PingInTime'
    BY <1>1, <2>1, <2>2 DEF PingInTime
  <2> QED BY <1>2, <2>3, <2>4
<1> QED BY <1>3, <1>4, <1>5

LEMMA TimeSteps ==
  ASSUME WatchdogIInv, Exit \/ MinutePasses \/ \E l \in Latency : ChangeLatency(l)
  PROVE  WatchdogIInv'
<1> USE Latencies DEF WatchdogIInv, WatchdogRest
<1>1. CASE Exit
  <2>1. /\ UNCHANGED <<latency, transmitter, failed, grpc, server, main, read>>
        /\ exited' = TRUE /\ main.left = 0
    BY <1>1 DEF Exit
  <2>2. FarApart' <=> FarApart
    BY <2>1 DEF FarApart
  <2>3. HealthyIsNotKilled'
    BY <2>1, <2>2 DEF PingInTime, HealthyIsNotKilled, WatchdogTypes
  <2> QED BY <2>1, <2>2, <2>3 DEF WatchdogTypes, RestInTime, PingInTime
<1>2. CASE MinutePasses
  <2>1. /\ UNCHANGED <<latency, failed, server, exited, read>> /\ ~ exited
        /\ main.left > 0 /\ grpc.left > 0
        /\ transmitter.does = "stalled" \/ transmitter.left > 0
        /\ transmitter' = IF transmitter.does = "stalled" THEN transmitter
                          ELSE [transmitter EXCEPT !.left = @ - 1]
        /\ grpc' = [grpc EXCEPT !.left = @ - 1] /\ main' = [main EXCEPT !.left = @ - 1]
    BY <1>2 DEF MinutePasses
  <2>2. WatchdogTypes'
    BY <2>1 DEF WatchdogTypes
  <2>3. /\ transmitter'.does = transmitter.does /\ transmitter'.latency = transmitter.latency
        /\ transmitter.does # "stalled" => transmitter'.left = transmitter.left - 1
        /\ transmitter.does = "stalled" => transmitter'.left = transmitter.left
        /\ grpc'.does = grpc.does /\ grpc'.latency = grpc.latency /\ grpc'.left = grpc.left - 1
        /\ main'.waits = main.waits /\ main'.timeout = main.timeout
        /\ main'.left = main.left - 1
    BY <2>1 DEF WatchdogTypes
  <2>4. FarApart' <=> FarApart
    BY <2>1, <2>3 DEF FarApart
  <2>5. RestInTime'
    BY <2>1, <2>3 DEF WatchdogTypes, RestInTime
  <2>6. PingInTime'
    BY <2>1, <2>3, <2>4 DEF WatchdogTypes, PingInTime
  <2> QED BY <2>1, <2>2, <2>5, <2>6 DEF HealthyIsNotKilled
<1>3. CASE \E l \in Latency : ChangeLatency(l)
  <2>1. /\ UNCHANGED <<transmitter, failed, grpc, server, main, exited, read>> /\ ~ exited
        /\ latency' \in Latency
    BY <1>3 DEF ChangeLatency
  <2>2. FarApart' <=> FarApart
    BY <2>1 DEF FarApart
  <2> QED BY <2>1, <2>2 DEF WatchdogTypes, RestInTime, PingInTime, HealthyIsNotKilled
<1> QED BY <1>1, <1>2, <1>3

LEMMA WatchdogInductive == WatchdogSpec => []WatchdogIInv
<1>1. WatchdogInit => WatchdogIInv
  <2> SUFFICES ASSUME WatchdogInit PROVE WatchdogIInv
    OBVIOUS
  <2>1. /\ latency \in Latency /\ latency \in Nat /\ failed = FALSE /\ exited = FALSE
        /\ transmitter = [does |-> "sleep", left |-> latency, latency |-> latency]
        /\ grpc = [does |-> "sleep", left |-> latency + 1, latency |-> latency + 1]
        /\ main = [waits |-> "transmitter", left |-> Timeout(latency),
                   timeout |-> Timeout(latency)]
        /\ server = "up" /\ read = latency
        /\ Timeout(latency) \in Nat /\ latency + 1 \in Deadline
    BY Latencies DEF WatchdogInit, Sleeps
  <2>2. WatchdogTypes
    <3>1. transmitter \in [does : Does, left : Nat, latency : Latency]
      BY <2>1 DEF Does
    <3>2. grpc \in [does : {"sleep", "call"}, left : Nat, latency : Deadline]
      BY <2>1
    <3>3. main \in [waits : {"transmitter", "grpc"}, left : Nat, timeout : Nat]
      BY <2>1
    <3>4. failed \in BOOLEAN /\ exited \in BOOLEAN
      BY <2>1, Zenon
    <3> QED BY <2>1, <3>1, <3>2, <3>3, <3>4, Zenon DEF WatchdogTypes
  <2>3. RestInTime
    BY <2>1, Latencies DEF RestInTime
  <2>4. PingInTime
    <3>1. FarApart <=> Timeout(latency) <= latency + MaxRound
      BY <2>1 DEF FarApart
    <3> QED BY <2>1, <3>1, Latencies DEF PingInTime
  <2> QED BY <2>1, <2>2, <2>3, <2>4 DEF WatchdogIInv, WatchdogRest, HealthyIsNotKilled
<1>2. WatchdogIInv /\ [WatchdogNext]_watchdogVars => WatchdogIInv'
  <2> SUFFICES ASSUME WatchdogIInv, [WatchdogNext]_watchdogVars PROVE WatchdogIInv'
    OBVIOUS
  <2>1. CASE WatchdogNext
    BY <2>1, RoundSteps, EndRoundStep, ServerSteps, TimeSteps DEF WatchdogNext
  <2>2. CASE UNCHANGED watchdogVars
    <3>1. FarApart' <=> FarApart
      BY <2>2 DEF watchdogVars, FarApart
    <3> QED BY <2>2, <3>1 DEF watchdogVars, WatchdogIInv, WatchdogRest, WatchdogTypes,
                              RestInTime, PingInTime, HealthyIsNotKilled
  <2> QED BY <2>1, <2>2
<1> QED BY <1>1, <1>2, PTL DEF WatchdogSpec

\* Whatever latencies are chosen, changed in any order and at any time, and whatever the
\* longest round: if the daemon exits, a thread is stuck, or there was an error of the
\* database, or the thread that was awaited had read a latency that is out of all proportion
\* to the one the main thread computed its timeout from (main.cc).
THEOREM HealthyStays == WatchdogSpec => []HealthyIsNotKilled
<1>1. WatchdogIInv => HealthyIsNotKilled
  BY DEF WatchdogIInv
<1> QED BY <1>1, WatchdogInductive, PTL

\* The waits stay within the longest latency, whichever latencies there are.
THEOREM WatchdogTypeCorrect == WatchdogSpec => []WatchdogTypeOK
<1>1. Longest \in Latency /\ \A m \in Latency : m <= Longest
  BY WatchdogAssumption DEF Longest
<1>2. WatchdogIInv => WatchdogTypeOK
  <2> HIDE DEF Longest
  <2> SUFFICES ASSUME WatchdogRest PROVE WatchdogTypeOK
    BY DEF WatchdogIInv
  <2>1. Longest \in Nat /\ MaxRound \in Nat /\ Grace = 1
    BY <1>1, Latencies
  <2>2. transmitter.left \in 0..(Longest + Grace + MaxRound)
    <3>1. /\ transmitter.latency \in Nat /\ transmitter.latency <= Longest
          /\ transmitter.left \in Nat /\ transmitter.does \in Does
      BY <1>1, Latencies DEF WatchdogRest, WatchdogTypes
    <3>2. transmitter.left <= Longest + Grace + MaxRound
      BY <2>1, <3>1 DEF WatchdogRest, RestInTime, Does
    <3> QED BY <2>1, <3>1, <3>2
  <2>3. grpc.left \in 0..grpc.latency
    BY Latencies DEF WatchdogRest, WatchdogTypes, RestInTime
  <2>4. main.left \in 0..main.timeout /\ main.timeout \in 0..(Factor * (Longest + Grace))
    <3>1. main.timeout = Factor * (read + Grace) /\ read \in Nat /\ read <= Longest
      BY <1>1, Latencies DEF WatchdogRest, WatchdogTypes, RestInTime, Timeout
    <3>2. main.timeout \in 0..(Factor * (Longest + Grace))
      BY <2>1, <3>1 DEF Factor
    <3> QED BY <3>2 DEF WatchdogRest, WatchdogTypes, RestInTime
  <2> QED BY <2>2, <2>3, <2>4
          DEF WatchdogRest, WatchdogTypes, WatchdogTypeOK, Does, Deadline
<1> QED BY <1>2, WatchdogInductive, PTL

-----------------------------------------------------------------------------
(* Codec: a message that is written and read again is the same, and so is    *)
(* the plain object made of it.                                             *)

\* No two fields of a type have one name.
Distinct(type) == \A i, j \in DOMAIN type : type[i].name = type[j].name => i = j

LEMMA NumberOf ==
  ASSUME NEW type, Distinct(type), NEW i \in DOMAIN type
  PROVE  type[i].name \in Names(type) /\ Number(type, type[i].name) = i
BY DEF Distinct, Names, Number

\* Messages with the same fields are the same.
LEMMA SameFields ==
  ASSUME NEW type, NEW msg, NEW out,
         msg = [n \in Names(type) |-> msg[n]], out = [n \in Names(type) |-> out[n]],
         \A i \in DOMAIN type : out[type[i].name] = msg[type[i].name]
  PROVE  out = msg
<1>1. \A n \in Names(type) : out[n] = msg[n]
  BY DEF Names
<1> QED BY <1>1

\* A plain field is read as it was written, and shown as it is.
LEMMA PlainField ==
  ASSUME NEW f, NEW v, f.kind \notin {"strings", "list"}
  PROVE  LET vs == IF IsWritten(f, v) THEN <<v>> ELSE <<>>
         IN  (IF vs = <<>> THEN Default(f) ELSE vs[Len(vs)]) = v
BY DEF IsWritten

\* What is written is read again, and shown, at each of the levels of nesting.
LEMMA LeafReads ==
  ASSUME NEW type, Distinct(type), NEW msg, IsLeaf(type, msg)
  PROVE  /\ deserializeLeaf(type, serializeLeaf(type, msg)) = msg
         /\ objectOfLeaf(type, msg) = msg
<1> DEFINE wire == serializeLeaf(type, msg)
           out == deserializeLeaf(type, wire)
           object == objectOfLeaf(type, msg)
<1>1. msg = [n \in Names(type) |-> msg[n]]
  BY DEF IsLeaf, HasFields
<1>2. ASSUME NEW i \in DOMAIN type
      PROVE  out[type[i].name] = msg[type[i].name] /\ object[type[i].name] = msg[type[i].name]
  <2> DEFINE v == msg[type[i].name]
  <2>1. /\ type[i].kind = "optional" => v # Absent
        /\ type[i].kind = "list" => v = [k \in DOMAIN v |-> v[k]]
    BY DEF IsLeaf, HasFields
  <2>2. i \in DOMAIN wire /\ wire[i] = FieldWritten(type[i], v, Leaf)
    BY DEF serializeLeaf, ToWriter
  <2>3. out[type[i].name] = FieldRead(type[i], FieldWritten(type[i], v, Leaf), Leaf)
    BY <2>2, NumberOf DEF deserializeLeaf, FromReader
  <2>4. object[type[i].name] = FieldShown(type[i], v, Leaf)
    BY NumberOf DEF objectOfLeaf, AsObject
  <2>5. FieldRead(type[i], FieldWritten(type[i], v, Leaf), Leaf) = v
    BY <2>1, PlainField DEF FieldRead, FieldWritten, Leaf
  <2>6. FieldShown(type[i], v, Leaf) = v
    BY <2>1 DEF FieldShown, Leaf
  <2> QED BY <2>3, <2>4, <2>5, <2>6
<1>3. out = [n \in Names(type) |-> out[n]] /\ object = [n \in Names(type) |-> object[n]]
  BY DEF deserializeLeaf, FromReader, objectOfLeaf, AsObject
<1> QED BY <1>1, <1>2, <1>3, SameFields

\* So do the fields of the types of lists.
ItemType(type) ==
  Distinct(type) /\ \A i \in DOMAIN type : type[i].kind = "list" => Distinct(type[i].type)

LEMMA ItemReads ==
  ASSUME NEW type, ItemType(type), NEW msg, IsItem(type, msg)
  PROVE  /\ deserializeItem(type, serializeItem(type, msg)) = msg
         /\ objectOfItem(type, msg) = msg
<1> DEFINE wire == serializeItem(type, msg)
           out == deserializeItem(type, wire)
           object == objectOfItem(type, msg)
<1>1. msg = [n \in Names(type) |-> msg[n]]
  BY DEF IsItem, HasFields
<1>2. ASSUME NEW i \in DOMAIN type
      PROVE  out[type[i].name] = msg[type[i].name] /\ object[type[i].name] = msg[type[i].name]
  <2> DEFINE f == type[i]
             v == msg[f.name]
  <2>1. /\ f.kind = "optional" => v # Absent
        /\ f.kind = "list" => v = [k \in DOMAIN v |-> v[k]]
        /\ f.kind = "list" => \A k \in DOMAIN v :
             /\ deserializeLeaf(f.type, serializeLeaf(f.type, v[k])) = v[k]
             /\ objectOfLeaf(f.type, v[k]) = v[k]
    BY LeafReads DEF IsItem, HasFields, ItemType
  <2>2. i \in DOMAIN wire /\ wire[i] = FieldWritten(f, v, serializeLeaf)
    BY DEF serializeItem, ToWriter
  <2>3. out[f.name] = FieldRead(f, FieldWritten(f, v, serializeLeaf), deserializeLeaf)
    BY <2>2, NumberOf DEF deserializeItem, FromReader, ItemType
  <2>4. object[f.name] = FieldShown(f, v, objectOfLeaf)
    BY NumberOf DEF objectOfItem, AsObject, ItemType
  <2>5. FieldRead(f, FieldWritten(f, v, serializeLeaf), deserializeLeaf) = v
    BY <2>1, PlainField DEF FieldRead, FieldWritten
  <2>6. FieldShown(f, v, objectOfLeaf) = v
    BY <2>1 DEF FieldShown
  <2> QED BY <2>3, <2>4, <2>5, <2>6
<1>3. out = [n \in Names(type) |-> out[n]] /\ object = [n \in Names(type) |-> object[n]]
  BY DEF deserializeItem, FromReader, objectOfItem, AsObject
<1> QED BY <1>1, <1>2, <1>3, SameFields DEF ItemType

\* ... and of lists in lists.
MessageType(type) ==
  Distinct(type) /\ \A i \in DOMAIN type : type[i].kind = "list" => ItemType(type[i].type)

LEMMA MessageReads ==
  ASSUME NEW type, MessageType(type), NEW msg, IsMessage(type, msg)
  PROVE  /\ deserializeBinary(type, serializeBinary(type, msg)) = msg
         /\ toObject(type, msg) = msg
<1> DEFINE wire == serializeBinary(type, msg)
           out == deserializeBinary(type, wire)
           object == toObject(type, msg)
<1>1. msg = [n \in Names(type) |-> msg[n]]
  BY DEF IsMessage, HasFields
<1>2. ASSUME NEW i \in DOMAIN type
      PROVE  out[type[i].name] = msg[type[i].name] /\ object[type[i].name] = msg[type[i].name]
  <2> DEFINE f == type[i]
             v == msg[f.name]
  <2>1. /\ f.kind = "optional" => v # Absent
        /\ f.kind = "list" => v = [k \in DOMAIN v |-> v[k]]
        /\ f.kind = "list" => \A k \in DOMAIN v :
             /\ deserializeItem(f.type, serializeItem(f.type, v[k])) = v[k]
             /\ objectOfItem(f.type, v[k]) = v[k]
    BY ItemReads DEF IsMessage, HasFields, MessageType
  <2>2. i \in DOMAIN wire /\ wire[i] = FieldWritten(f, v, serializeItem)
    BY DEF serializeBinary, ToWriter
  <2>3. out[f.name] = FieldRead(f, FieldWritten(f, v, serializeItem), deserializeItem)
    BY <2>2, NumberOf DEF deserializeBinary, FromReader, MessageType
  <2>4. object[f.name] = FieldShown(f, v, objectOfItem)
    BY NumberOf DEF toObject, AsObject, MessageType
  <2>5. FieldRead(f, FieldWritten(f, v, serializeItem), deserializeItem) = v
    BY <2>1, PlainField DEF FieldRead, FieldWritten
  <2>6. FieldShown(f, v, objectOfItem) = v
    BY <2>1 DEF FieldShown
  <2> QED BY <2>3, <2>4, <2>5, <2>6
<1>3. out = [n \in Names(type) |-> out[n]] /\ object = [n \in Names(type) |-> object[n]]
  BY DEF deserializeBinary, FromReader, toObject, AsObject
<1> QED BY <1>1, <1>2, <1>3, SameFields DEF MessageType

-----------------------------------------------------------------------------
(* The messages of the daemon: the fields of a type differ in their names,  *)
(* every request is filled in, and the stub has the types of daemon.proto.  *)

LEMMA NestedTypes ==
  /\ ItemType(Stub!FriendInfo)
  /\ ItemType(Stub!OutgoingSyncInvitationInfo)
  /\ ItemType(Stub!OutgoingAsyncInvitationInfo)
  /\ ItemType(Stub!IncomingAsyncInvitationInfo)
  /\ ItemType(Stub!IncomingMaybeFriend)
  /\ ItemType(Stub!OutgoingFriend)
  /\ ItemType(Stub!IncomingMessage)
  /\ ItemType(Stub!OutgoingMessage)
<1> USE DEF ItemType, Distinct, Stub!F
<1>1. ItemType(Stub!FriendInfo)
  BY DEF Stub!FriendInfo, Stub!Enum, Stub!Str
<1>2. ItemType(Stub!OutgoingSyncInvitationInfo)
  BY DEF Stub!OutgoingSyncInvitationInfo, Stub!Str, Stub!Time
<1>3. ItemType(Stub!OutgoingAsyncInvitationInfo)
  BY DEF Stub!OutgoingAsyncInvitationInfo, Stub!Str, Stub!Time
<1>4. ItemType(Stub!IncomingAsyncInvitationInfo)
  BY DEF Stub!IncomingAsyncInvitationInfo, Stub!Str, Stub!Time
<1>5. ItemType(Stub!IncomingMaybeFriend)
  BY DEF Stub!IncomingMaybeFriend, Stub!Opt, Stub!Str
<1>6. ItemType(Stub!OutgoingFriend)
  BY DEF Stub!OutgoingFriend, Stub!Bool, Stub!Str, Stub!Time
<1>7. ItemType(Stub!IncomingMessage)
  <2>1. Distinct(Stub!IncomingMaybeFriend)
    BY <1>5
  <2>2. /\ Distinct(Stub!IncomingMessage)
        /\ \A i \in DOMAIN Stub!IncomingMessage :
             Stub!IncomingMessage[i].kind = "list" =>
               Stub!IncomingMessage[i].type = Stub!IncomingMaybeFriend
    BY DEF Stub!IncomingMessage, Stub!Bool, Stub!List, Stub!Num, Stub!Str, Stub!Time
  <2> HIDE DEF Distinct
  <2> QED BY <2>1, <2>2
<1>8. ItemType(Stub!OutgoingMessage)
  <2>1. Distinct(Stub!OutgoingFriend)
    BY <1>6
  <2>2. /\ Distinct(Stub!OutgoingMessage)
        /\ \A i \in DOMAIN Stub!OutgoingMessage :
             Stub!OutgoingMessage[i].kind = "list" =>
               Stub!OutgoingMessage[i].type = Stub!OutgoingFriend
    BY DEF Stub!OutgoingMessage, Stub!List, Stub!Num, Stub!Str, Stub!Time
  <2> HIDE DEF Distinct
  <2> QED BY <2>1, <2>2
<1> QED BY <1>1, <1>2, <1>3, <1>4, <1>5, <1>6, <1>7, <1>8

LEMMA EmptyType == MessageType(<<>>) /\ Names(<<>>) = {}
BY DEF MessageType, Distinct, Names

LEMMA RequestTypes ==
  /\ MessageType(Stub!RegisterUserRequest)
  /\ Names(Stub!RegisterUserRequest) = {"name", "betaKey"}
  /\ MessageType(Stub!IsValidPublicIDRequest)
  /\ Names(Stub!IsValidPublicIDRequest) = {"publicId"}
  /\ MessageType(Stub!RemoveFriendRequest) /\ Names(Stub!RemoveFriendRequest) = {"uniqueName"}
  /\ MessageType(Stub!AddSyncFriendRequest)
  /\ Names(Stub!AddSyncFriendRequest) = {"uniqueName", "displayName", "story"}
  /\ MessageType(Stub!AddAsyncFriendRequest)
  /\ Names(Stub!AddAsyncFriendRequest) = {"uniqueName", "displayName", "publicId", "message"}
  /\ MessageType(Stub!AcceptAsyncInvitationRequest)
  /\ Names(Stub!AcceptAsyncInvitationRequest) = {"publicId", "uniqueName", "displayName"}
  /\ MessageType(Stub!RejectAsyncInvitationRequest)
  /\ Names(Stub!RejectAsyncInvitationRequest) = {"publicId"}
  /\ MessageType(Stub!CancelAsyncInvitationRequest)
  /\ Names(Stub!CancelAsyncInvitationRequest) = {"publicId"}
  /\ MessageType(Stub!SendMessageRequest)
  /\ Names(Stub!SendMessageRequest) = {"uniqueNameList", "message"}
  /\ MessageType(Stub!GetMessagesRequest) /\ Names(Stub!GetMessagesRequest) = {"filter"}
  /\ MessageType(Stub!MessageSeenRequest) /\ Names(Stub!MessageSeenRequest) = {"id"}
<1> USE DEF MessageType, Distinct, Names, Stub!F
<1>1. /\ MessageType(Stub!RegisterUserRequest)
       /\ Names(Stub!RegisterUserRequest) = {"name", "betaKey"}
  BY DEF Stub!RegisterUserRequest, Stub!Str
<1>2. /\ MessageType(Stub!IsValidPublicIDRequest)
       /\ Names(Stub!IsValidPublicIDRequest) = {"publicId"}
  BY DEF Stub!IsValidPublicIDRequest, Stub!Str
<1>3. MessageType(Stub!RemoveFriendRequest) /\ Names(Stub!RemoveFriendRequest) = {"uniqueName"}
  BY DEF Stub!RemoveFriendRequest, Stub!Str
<1>4. /\ MessageType(Stub!AddSyncFriendRequest)
       /\ Names(Stub!AddSyncFriendRequest) = {"uniqueName", "displayName", "story"}
  BY DEF Stub!AddSyncFriendRequest, Stub!Str
<1>5. /\ MessageType(Stub!AddAsyncFriendRequest)
       /\ Names(Stub!AddAsyncFriendRequest) = {"uniqueName", "displayName", "publicId", "message"}
  BY DEF Stub!AddAsyncFriendRequest, Stub!Str
<1>6. /\ MessageType(Stub!AcceptAsyncInvitationRequest)
       /\ Names(Stub!AcceptAsyncInvitationRequest) = {"publicId", "uniqueName", "displayName"}
  BY DEF Stub!AcceptAsyncInvitationRequest, Stub!Str
<1>7. /\ MessageType(Stub!RejectAsyncInvitationRequest)
       /\ Names(Stub!RejectAsyncInvitationRequest) = {"publicId"}
  BY DEF Stub!RejectAsyncInvitationRequest, Stub!Str
<1>8. /\ MessageType(Stub!CancelAsyncInvitationRequest)
       /\ Names(Stub!CancelAsyncInvitationRequest) = {"publicId"}
  BY DEF Stub!CancelAsyncInvitationRequest, Stub!Str
<1>9. /\ MessageType(Stub!SendMessageRequest)
       /\ Names(Stub!SendMessageRequest) = {"uniqueNameList", "message"}
  BY DEF Stub!SendMessageRequest, Stub!Str, Stub!Strs
<1>10. MessageType(Stub!GetMessagesRequest) /\ Names(Stub!GetMessagesRequest) = {"filter"}
  BY DEF Stub!GetMessagesRequest, Stub!Enum
<1>11. MessageType(Stub!MessageSeenRequest) /\ Names(Stub!MessageSeenRequest) = {"id"}
  BY DEF Stub!MessageSeenRequest, Stub!Num
<1> QED BY <1>1, <1>2, <1>3, <1>4, <1>5, <1>6, <1>7, <1>8, <1>9, <1>10, <1>11

LEMMA ResponseTypes ==
  /\ MessageType(Stub!GetMyPublicIDResponse)
  /\ MessageType(Stub!IsValidPublicIDResponse)
  /\ MessageType(Stub!GetFriendListResponse)
  /\ MessageType(Stub!GetOutgoingSyncInvitationsResponse)
  /\ MessageType(Stub!GetOutgoingAsyncInvitationsResponse)
  /\ MessageType(Stub!GetIncomingAsyncInvitationsResponse)
  /\ MessageType(Stub!GetMessagesResponse)
  /\ MessageType(Stub!GetOutboxMessagesResponse)
  /\ MessageType(Stub!GetSentMessagesResponse)
  /\ MessageType(Stub!GetStatusResponse)
<1> USE DEF MessageType, Distinct, Stub!F
<1>1. MessageType(Stub!GetMyPublicIDResponse)
  BY DEF Stub!GetMyPublicIDResponse, Stub!Str
<1>2. MessageType(Stub!IsValidPublicIDResponse)
  BY DEF Stub!IsValidPublicIDResponse, Stub!Bool
<1>3. MessageType(Stub!GetFriendListResponse)
  BY NestedTypes DEF Stub!GetFriendListResponse, Stub!List
<1>4. MessageType(Stub!GetOutgoingSyncInvitationsResponse)
  BY NestedTypes DEF Stub!GetOutgoingSyncInvitationsResponse, Stub!List
<1>5. MessageType(Stub!GetOutgoingAsyncInvitationsResponse)
  BY NestedTypes DEF Stub!GetOutgoingAsyncInvitationsResponse, Stub!List
<1>6. MessageType(Stub!GetIncomingAsyncInvitationsResponse)
  BY NestedTypes DEF Stub!GetIncomingAsyncInvitationsResponse, Stub!List
<1>7. MessageType(Stub!GetMessagesResponse)
  BY NestedTypes DEF Stub!GetMessagesResponse, Stub!List
<1>8. MessageType(Stub!GetOutboxMessagesResponse)
  BY NestedTypes DEF Stub!GetOutboxMessagesResponse, Stub!List
<1>9. MessageType(Stub!GetSentMessagesResponse)
  BY NestedTypes DEF Stub!GetSentMessagesResponse, Stub!List
<1>10. MessageType(Stub!GetStatusResponse)
  BY DEF Stub!GetStatusResponse, Stub!Bool, Stub!Num, Stub!Str
<1> QED BY <1>1, <1>2, <1>3, <1>4, <1>5, <1>6, <1>7, <1>8, <1>9, <1>10

LEMMA Entries ==
  /\ Stub!Service["RegisterUser"] =
       Stub!Rpc(Stub!RegisterUserRequest, Stub!RegisterUserResponse)
  /\ Stub!Service["GetMyPublicID"] =
       Stub!Rpc(Stub!GetMyPublicIDRequest, Stub!GetMyPublicIDResponse)
  /\ Stub!Service["IsValidPublicID"] =
       Stub!Rpc(Stub!IsValidPublicIDRequest, Stub!IsValidPublicIDResponse)
  /\ Stub!Service["GetFriendList"] =
       Stub!Rpc(Stub!GetFriendListRequest, Stub!GetFriendListResponse)
  /\ Stub!Service["RemoveFriend"] =
       Stub!Rpc(Stub!RemoveFriendRequest, Stub!RemoveFriendResponse)
  /\ Stub!Service["AddSyncFriend"] =
       Stub!Rpc(Stub!AddSyncFriendRequest, Stub!AddSyncFriendResponse)
  /\ Stub!Service["AddAsyncFriend"] =
       Stub!Rpc(Stub!AddAsyncFriendRequest, Stub!AddAsyncFriendResponse)
  /\ Stub!Service["GetOutgoingSyncInvitations"] =
       Stub!Rpc(Stub!GetOutgoingSyncInvitationsRequest, Stub!GetOutgoingSyncInvitationsResponse)
  /\ Stub!Service["GetOutgoingAsyncInvitations"] =
       Stub!Rpc(Stub!GetOutgoingAsyncInvitationsRequest, Stub!GetOutgoingAsyncInvitationsResponse)
  /\ Stub!Service["GetIncomingAsyncInvitations"] =
       Stub!Rpc(Stub!GetIncomingAsyncInvitationsRequest, Stub!GetIncomingAsyncInvitationsResponse)
  /\ Stub!Service["AcceptAsyncInvitation"] =
       Stub!Rpc(Stub!AcceptAsyncInvitationRequest, Stub!AcceptAsyncInvitationResponse)
  /\ Stub!Service["RejectAsyncInvitation"] =
       Stub!Rpc(Stub!RejectAsyncInvitationRequest, Stub!RejectAsyncInvitationResponse)
  /\ Stub!Service["CancelAsyncInvitation"] =
       Stub!Rpc(Stub!CancelAsyncInvitationRequest, Stub!CancelAsyncInvitationResponse)
  /\ Stub!Service["SendMessage"] = Stub!Rpc(Stub!SendMessageRequest, Stub!SendMessageResponse)
  /\ Stub!Service["GetMessages"] = Stub!Rpc(Stub!GetMessagesRequest, Stub!GetMessagesResponse)
  /\ Stub!Service["GetMessagesStreamed"] =
       Stub!Rpc(Stub!GetMessagesRequest, Stub!GetMessagesResponse)
  /\ Stub!Service["GetOutboxMessages"] =
       Stub!Rpc(Stub!GetOutboxMessagesRequest, Stub!GetOutboxMessagesResponse)
  /\ Stub!Service["GetSentMessages"] =
       Stub!Rpc(Stub!GetSentMessagesRequest, Stub!GetSentMessagesResponse)
  /\ Stub!Service["MessageSeen"] = Stub!Rpc(Stub!MessageSeenRequest, Stub!MessageSeenResponse)
  /\ Stub!Service["GetStatus"] = Stub!Rpc(Stub!GetStatusRequest, Stub!GetStatusResponse)
BY DEF Stub!Service, Stub!AccountService, Stub!InvitationService, Stub!MessageService,
       Stub!With

\* A method fills in all fields of its request.
FilledIn(method) ==
  LET entry == Stub!Service[method.rpc]
  IN  /\ MessageType(entry.request) /\ MessageType(entry.response)
      /\ method.sets = Names(entry.request)

LEMMA AllFilledIn == \A method \in DaemonImpl : FilledIn(method)
<1> USE DEF FilledIn, Impl, Stub!Rpc
<1>1. FilledIn(sendMessage)
  BY Entries, RequestTypes, EmptyType DEF sendMessage, Stub!SendMessageResponse
<1>2. FilledIn(getStatus)
  BY Entries, ResponseTypes, EmptyType DEF getStatus, Stub!GetStatusRequest
<1>3. FilledIn(getMessages)
  BY Entries, RequestTypes, ResponseTypes DEF getMessages
<1>4. FilledIn(getMessagesStreamed)
  BY Entries, RequestTypes, ResponseTypes DEF getMessagesStreamed
<1>5. FilledIn(getOutboxMessages)
  BY Entries, ResponseTypes, EmptyType DEF getOutboxMessages, Stub!GetOutboxMessagesRequest
<1>6. FilledIn(getSentMessages)
  BY Entries, ResponseTypes, EmptyType DEF getSentMessages, Stub!GetSentMessagesRequest
<1>7. FilledIn(messageSeen)
  BY Entries, RequestTypes, EmptyType DEF messageSeen, Stub!MessageSeenResponse
<1>8. FilledIn(hasRegistered)
  BY Entries, ResponseTypes, EmptyType DEF hasRegistered, Stub!GetStatusRequest
<1>9. FilledIn(registerUser)
  BY Entries, RequestTypes, EmptyType DEF registerUser, Stub!RegisterUserResponse
<1>10. FilledIn(getFriendList)
  BY Entries, ResponseTypes, EmptyType DEF getFriendList, Stub!GetFriendListRequest
<1>11. FilledIn(removeFriend)
  BY Entries, RequestTypes, EmptyType DEF removeFriend, Stub!RemoveFriendResponse
<1>12. FilledIn(addAsyncFriend)
  BY Entries, RequestTypes, EmptyType DEF addAsyncFriend, Stub!AddAsyncFriendResponse
<1>13. FilledIn(addSyncFriend)
  BY Entries, RequestTypes, EmptyType DEF addSyncFriend, Stub!AddSyncFriendResponse
<1>14. FilledIn(getOutgoingSyncInvitations)
  BY Entries, ResponseTypes, EmptyType DEF getOutgoingSyncInvitations,
       Stub!GetOutgoingSyncInvitationsRequest
<1>15. FilledIn(getOutgoingAsyncInvitations)
  BY Entries, ResponseTypes, EmptyType DEF getOutgoingAsyncInvitations,
       Stub!GetOutgoingAsyncInvitationsRequest
<1>16. FilledIn(getIncomingAsyncInvitations)
  BY Entries, ResponseTypes, EmptyType DEF getIncomingAsyncInvitations,
       Stub!GetIncomingAsyncInvitationsRequest
<1>17. FilledIn(acceptAsyncInvitation)
  BY Entries, RequestTypes, EmptyType DEF acceptAsyncInvitation,
       Stub!AcceptAsyncInvitationResponse
<1>18. FilledIn(rejectAsyncInvitation)
  BY Entries, RequestTypes, EmptyType DEF rejectAsyncInvitation,
       Stub!RejectAsyncInvitationResponse
<1>19. FilledIn(cancelAsyncInvitation)
  BY Entries, RequestTypes, EmptyType DEF cancelAsyncInvitation,
       Stub!CancelAsyncInvitationResponse
<1>20. FilledIn(isValidPublicID)
  BY Entries, RequestTypes, ResponseTypes DEF isValidPublicID
<1>21. FilledIn(getMyPublicID)
  BY Entries, ResponseTypes, EmptyType DEF getMyPublicID, Stub!GetMyPublicIDRequest
<1> HIDE DEF FilledIn, Impl, Stub!Rpc
<1> QED BY <1>1, <1>2, <1>3, <1>4, <1>5, <1>6, <1>7, <1>8, <1>9, <1>10, <1>11, <1>12, <1>13,
           <1>14, <1>15, <1>16, <1>17, <1>18, <1>19, <1>20, <1>21 DEF DaemonImpl

LEMMA SameAccount == Stub!AccountService = Proto!AccountService
BY DEF Stub!AccountService, Proto!AccountService, Stub!Rpc, Proto!Rpc, Stub!F, Proto!F,
       Stub!Bool, Proto!Bool, Stub!Enum, Proto!Enum, Stub!List, Proto!List, Stub!Str,
       Proto!Str, Stub!RegisterUserRequest, Proto!RegisterUserRequest,
       Stub!RegisterUserResponse, Proto!RegisterUserResponse, Stub!GetMyPublicIDRequest,
       Proto!GetMyPublicIDRequest, Stub!GetMyPublicIDResponse, Proto!GetMyPublicIDResponse,
       Stub!IsValidPublicIDRequest, Proto!IsValidPublicIDRequest,
       Stub!IsValidPublicIDResponse, Proto!IsValidPublicIDResponse,
       Stub!GetFriendListRequest, Proto!GetFriendListRequest, Stub!FriendInfo,
       Proto!FriendInfo, Stub!GetFriendListResponse, Proto!GetFriendListResponse,
       Stub!RemoveFriendRequest, Proto!RemoveFriendRequest, Stub!RemoveFriendResponse,
       Proto!RemoveFriendResponse

LEMMA SameInvitation == Stub!InvitationService = Proto!InvitationService
BY DEF Stub!InvitationService, Proto!InvitationService, Stub!Rpc, Proto!Rpc, Stub!F,
       Proto!F, Stub!List, Proto!List, Stub!Str, Proto!Str, Stub!Time, Proto!Time,
       Stub!AddSyncFriendRequest, Proto!AddSyncFriendRequest, Stub!AddSyncFriendResponse,
       Proto!AddSyncFriendResponse, Stub!AddAsyncFriendRequest, Proto!AddAsyncFriendRequest,
       Stub!AddAsyncFriendResponse, Proto!AddAsyncFriendResponse,
       Stub!GetOutgoingSyncInvitationsRequest, Proto!GetOutgoingSyncInvitationsRequest,
       Stub!OutgoingSyncInvitationInfo, Proto!OutgoingSyncInvitationInfo,
       Stub!GetOutgoingSyncInvitationsResponse, Proto!GetOutgoingSyncInvitationsResponse,
       Stub!GetOutgoingAsyncInvitationsRequest, Proto!GetOutgoingAsyncInvitationsRequest,
       Stub!OutgoingAsyncInvitationInfo, Proto!OutgoingAsyncInvitationInfo,
       Stub!GetOutgoingAsyncInvitationsResponse, Proto!GetOutgoingAsyncInvitationsResponse,
       Stub!GetIncomingAsyncInvitationsRequest, Proto!GetIncomingAsyncInvitationsRequest,
       Stub!IncomingAsyncInvitationInfo, Proto!IncomingAsyncInvitationInfo,
       Stub!GetIncomingAsyncInvitationsResponse, Proto!GetIncomingAsyncInvitationsResponse,
       Stub!AcceptAsyncInvitationRequest, Proto!AcceptAsyncInvitationRequest,
       Stub!AcceptAsyncInvitationResponse, Proto!AcceptAsyncInvitationResponse,
       Stub!RejectAsyncInvitationRequest, Proto!RejectAsyncInvitationRequest,
       Stub!RejectAsyncInvitationResponse, Proto!RejectAsyncInvitationResponse,
       Stub!CancelAsyncInvitationRequest, Proto!CancelAsyncInvitationRequest,
       Stub!CancelAsyncInvitationResponse, Proto!CancelAsyncInvitationResponse

LEMMA SameMessage == Stub!MessageService = Proto!MessageService
BY DEF Stub!MessageService, Proto!MessageService, Stub!Rpc, Proto!Rpc, Stub!F, Proto!F,
       Stub!Bool, Proto!Bool, Stub!Enum, Proto!Enum, Stub!List, Proto!List, Stub!Num,
       Proto!Num, Stub!Opt, Proto!Opt, Stub!Str, Proto!Str, Stub!Strs, Proto!Strs,
       Stub!Time, Proto!Time, Stub!SendMessageRequest, Proto!SendMessageRequest,
       Stub!SendMessageResponse, Proto!SendMessageResponse, Stub!GetMessagesRequest,
       Proto!GetMessagesRequest, Stub!IncomingMaybeFriend, Proto!IncomingMaybeFriend,
       Stub!IncomingMessage, Proto!IncomingMessage, Stub!GetMessagesResponse,
       Proto!GetMessagesResponse, Stub!GetOutboxMessagesRequest,
       Proto!GetOutboxMessagesRequest, Stub!OutgoingFriend, Proto!OutgoingFriend,
       Stub!OutgoingMessage, Proto!OutgoingMessage, Stub!GetOutboxMessagesResponse,
       Proto!GetOutboxMessagesResponse, Stub!GetSentMessagesRequest,
       Proto!GetSentMessagesRequest, Stub!GetSentMessagesResponse,
       Proto!GetSentMessagesResponse, Stub!MessageSeenRequest, Proto!MessageSeenRequest,
       Stub!MessageSeenResponse, Proto!MessageSeenResponse, Stub!GetStatusRequest,
       Proto!GetStatusRequest, Stub!GetStatusResponse, Proto!GetStatusResponse

LEMMA SameService == Stub!Service = Proto!Service
BY SameAccount, SameInvitation, SameMessage, Zenon
   DEF Stub!Service, Proto!Service, Stub!With, Proto!With

\* The stub as it is checked in and daemon.proto agree on every method of DaemonImpl: what
\* the window fills in the daemon reads, and what the daemon answers the window gets, for
\* all messages that have the fields of their type (daemon_pb.js, daemon.proto, daemon.ts).
THEOREM StubDoesAgree == StubAgrees
<1> SUFFICES ASSUME NEW method \in DaemonImpl
             PROVE  LET stub == Stub!Service[method.rpc]
                        proto == Proto!Service[method.rpc]
                    IN  /\ \A arg \in MessageOf(stub.request) :
                             deserializeBinary(proto.request, Request(method, arg)) = arg
                        /\ \A reply \in MessageOf(proto.response) :
                             LET wire == serializeBinary(proto.response, reply)
                                 object == toObject(stub.response,
                                                    deserializeBinary(stub.response, wire))
                             IN  Result(method, object) = Result(method, reply)
  BY Zenon DEF StubAgrees
<1> DEFINE entry == Stub!Service[method.rpc]
<1>1. /\ Proto!Service[method.rpc] = entry
      /\ MessageType(entry.request) /\ MessageType(entry.response)
      /\ method.sets = Names(entry.request)
  BY AllFilledIn, SameService, Zenon DEF FilledIn
<1>2. ASSUME NEW arg \in MessageOf(entry.request)
      PROVE  deserializeBinary(entry.request, Request(method, arg)) = arg
  <2>1. IsMessage(entry.request, arg)
    BY RpcAssumption
  <2>2. arg = [n \in Names(entry.request) |-> arg[n]]
    BY <2>1 DEF IsMessage, HasFields
  <2>3. Request(method, arg) = serializeBinary(entry.request, arg)
    <3> DEFINE filled == [n \in Names(entry.request) |->
                            IF n \in method.sets THEN arg[n]
                            ELSE Default(entry.request[Number(entry.request, n)])]
    <3>1. filled = arg
      BY <1>1, <2>2
    <3>2. Request(method, arg) = serializeBinary(entry.request, filled)
      BY DEF Request
    <3> QED BY <3>1, <3>2
  <2> QED BY <1>1, <2>1, <2>3, MessageReads
<1>3. ASSUME NEW reply \in MessageOf(entry.response)
      PROVE  toObject(entry.response, deserializeBinary(entry.response,
               serializeBinary(entry.response, reply))) = reply
  <2>1. IsMessage(entry.response, reply)
    BY <1>1, RpcAssumption
  <2> QED BY <1>1, <2>1, MessageReads
<1> QED BY <1>1, <1>2, <1>3

-----------------------------------------------------------------------------
(* GuiRpc: what the record of a call holds, by how far the call is, in a    *)
(* daemon where the user has registered (reg) or not.                       *)

Reply(r) == MessageOf(Proto!Service[r.method.rpc].response)

\* A request under way, and what the handler made of it.
RequestOK(r, reg) ==
  /\ {"method", "arg", "knew", "wire"} \subseteq DOMAIN r
  /\ r.method \in Method /\ r.knew \in BOOLEAN /\ (r.knew = TRUE => reg = TRUE)
  /\ r.at \in {"sent", "registering"} =>
       /\ r.arg \in MessageOf(Stub!Service[r.method.rpc].request)
       /\ r.wire = Request(r.method, r.arg)
  /\ r.at = "registering" => r.method.rpc = "RegisterUser"

\* The answer of a handler, and what the promise makes of it.
AnswerOK(r, reg) ==
  /\ {"reply", "seen"} \subseteq DOMAIN r
  /\ r.at = "answered" =>
       /\ r.reply \in Reply(r)
       /\ r.wire = serializeBinary(Proto!Service[r.method.rpc].response, r.reply)
       /\ r.method.rpc = "RegisterUser" => reg = TRUE
       /\ r.method.rpc = "GetStatus" =>
            r.reply.registered \in BOOLEAN /\ (r.reply.registered = TRUE => reg = TRUE)

CallOK(r, reg) ==
  /\ r.at \in States /\ "at" \in DOMAIN r
  /\ r.at # "free" => RequestOK(r, reg)
  /\ r.at \in {"answered", "resolved"} => AnswerOK(r, reg)
  /\ "seen" \in DOMAIN r => "arg" \in DOMAIN r /\ r.seen = r.arg
  /\ "error" \in DOMAIN r <=> r.at \in {"refused", "rejected"}
  /\ "error" \in DOMAIN r => r.error \in Error /\ (r.error = "UNAUTHENTICATED" => r.knew = FALSE)
  /\ "result" \in DOMAIN r <=> r.at = "resolved"
  /\ r.at = "resolved" => r.result = Result(r.method, r.reply)

\* The registrations that have been written but not been reported.
Reporting(c) == rpcCall[c].at = "answered" /\ rpcCall[c].method = registerUser

RegistersOnce ==
  /\ successes \in {0, 1} /\ (successes = 1 => registered = TRUE)
  /\ \A c \in RpcCall : Reporting(c) => successes = 0
  /\ \A c, d \in RpcCall : Reporting(c) /\ Reporting(d) => c = d

RpcIInv ==
  /\ registered \in BOOLEAN /\ known \in BOOLEAN /\ (known = TRUE => registered = TRUE)
  /\ rpcCall = [c \in RpcCall |-> rpcCall[c]]
  /\ \A c \in RpcCall : CallOK(rpcCall[c], registered)
  /\ RegistersOnce

LEMMA Methods ==
  /\ \A m \in Method : m \in DaemonImpl
  /\ \A m \in DaemonImpl : m.rpc = "RegisterUser" => m = registerUser
  /\ registerUser.rpc = "RegisterUser"
  /\ hasRegistered.rpc = "GetStatus" /\ hasRegistered # registerUser
  /\ \A object : Result(hasRegistered, object) = object.registered
<1>1. \A m \in Method : m \in DaemonImpl
  BY RpcAssumption
<1>2. \A m \in DaemonImpl : m.rpc = "RegisterUser" => m = registerUser
  BY DEF DaemonImpl, Impl, sendMessage, getStatus, getMessages, getMessagesStreamed,
         getOutboxMessages, getSentMessages, messageSeen, hasRegistered, registerUser,
         getFriendList, removeFriend, addAsyncFriend, addSyncFriend,
         getOutgoingSyncInvitations, getOutgoingAsyncInvitations,
         getIncomingAsyncInvitations, acceptAsyncInvitation, rejectAsyncInvitation,
         cancelAsyncInvitation, isValidPublicID, getMyPublicID
<1>3. registerUser.rpc = "RegisterUser" /\ hasRegistered.rpc = "GetStatus"
  BY DEF registerUser, hasRegistered, Impl
<1>4. hasRegistered # registerUser
  BY <1>3
<1>5. \A object : Result(hasRegistered, object) = object.registered
  BY DEF Result, hasRegistered, Impl, Whole
<1> QED BY <1>1, <1>2, <1>3, <1>4, <1>5

\* What a record holds when some fields have been written over.
LEMMA Overlaid ==
  ASSUME NEW new, NEW old
  PROVE  /\ DOMAIN With(new, old) = DOMAIN new \cup DOMAIN old
         /\ \A f \in DOMAIN new : With(new, old)[f] = new[f]
         /\ \A f \in DOMAIN old : f \notin DOMAIN new => With(new, old)[f] = old[f]
BY DEF With

LEMMA PutIs ==
  ASSUME RpcIInv, NEW c \in RpcCall, NEW new, Put(c, new)
  PROVE  /\ rpcCall' = [d \in RpcCall |-> rpcCall'[d]]
         /\ rpcCall'[c] = With(new, rpcCall[c])
         /\ \A d \in RpcCall \ {c} : rpcCall'[d] = rpcCall[d]
BY DEF RpcIInv, Put

\* A call that is over, or has not begun, minds no registration.
LEMMA StillOK ==
  ASSUME NEW r, NEW reg, NEW new, CallOK(r, reg), reg = TRUE => new = TRUE
  PROVE  CallOK(r, new)
<1>1. RequestOK(r, reg) => RequestOK(r, new)
  BY DEF RequestOK
<1>2. AnswerOK(r, reg) => AnswerOK(r, new)
  BY DEF AnswerOK
<1> QED BY <1>1, <1>2, Zenon DEF CallOK

\* One call's record is written.
LEMMA OneCall ==
  ASSUME RpcIInv, NEW c \in RpcCall,
         rpcCall' = [d \in RpcCall |-> rpcCall'[d]],
         \A d \in RpcCall \ {c} : rpcCall'[d] = rpcCall[d],
         registered' \in BOOLEAN, registered = TRUE => registered' = TRUE,
         known' \in BOOLEAN, known' = TRUE => registered' = TRUE,
         CallOK(rpcCall'[c], registered'), RegistersOnce'
  PROVE  RpcIInv'
<1>1. ASSUME NEW d \in RpcCall PROVE CallOK(rpcCall'[d], registered')
  <2>1. CASE d = c
    BY <2>1
  <2>2. CASE d # c
    <3>1. rpcCall'[d] = rpcCall[d] /\ CallOK(rpcCall[d], registered)
      BY <2>2 DEF RpcIInv
    <3> QED BY <3>1, StillOK
  <2> QED BY <2>1, <2>2
<1> QED BY <1>1 DEF RpcIInv

\* A step in which nobody becomes Reporting and nobody is resolved.
LEMMA NobodyReports ==
  ASSUME RpcIInv, NEW c \in RpcCall, successes' = successes,
         registered' \in BOOLEAN, registered = TRUE => registered' = TRUE,
         \A d \in RpcCall \ {c} : rpcCall'[d] = rpcCall[d],
         rpcCall'[c].at # "answered" \/ rpcCall'[c].method # registerUser
  PROVE  RegistersOnce'
<1>1. \A d \in RpcCall : Reporting(d)' => Reporting(d)
  BY DEF Reporting
<1> QED BY <1>1 DEF RpcIInv, RegistersOnce

LEMMA InvokeStep ==
  ASSUME RpcIInv, NEW c \in RpcCall, NEW method \in Method,
         NEW arg \in MessageOf(Stub!Service[method.rpc].request), Invoke(c, method, arg)
  PROVE  RpcIInv'
<1> DEFINE r == [at |-> "sent", method |-> method, arg |-> arg, knew |-> known,
                 wire |-> Request(method, arg)]
<1>1. /\ rpcCall' = [rpcCall EXCEPT ![c] = r] /\ registered' = registered
      /\ known' = known /\ successes' = successes
  BY DEF Invoke
<1>2. /\ rpcCall' = [d \in RpcCall |-> rpcCall'[d]] /\ rpcCall'[c] = r
      /\ \A d \in RpcCall \ {c} : rpcCall'[d] = rpcCall[d]
  BY <1>1 DEF RpcIInv
<1>3. CallOK(r, registered)
  <2>1. RequestOK(r, registered)
    BY DEF RequestOK, RpcIInv
  <2> QED BY <2>1 DEF CallOK, States
<1>4. r.at # "answered"
  OBVIOUS
<1> HIDE DEF r
<1>5. RegistersOnce'
  BY <1>1, <1>2, <1>4, NobodyReports DEF RpcIInv
<1> QED BY <1>1, <1>2, <1>3, <1>5, OneCall DEF RpcIInv

\* The handler has read what the window passed.
LEMMA RequestRead ==
  ASSUME RpcIInv, NEW c \in RpcCall, rpcCall[c].at \in {"sent", "registering"}
  PROVE  Seen(c) = rpcCall[c].arg
<1>1. RequestOK(rpcCall[c], registered)
  BY DEF RpcIInv, CallOK
<1>2. /\ rpcCall[c].method \in DaemonImpl
      /\ rpcCall[c].arg \in MessageOf(Stub!Service[rpcCall[c].method.rpc].request)
      /\ rpcCall[c].wire = Request(rpcCall[c].method, rpcCall[c].arg)
  BY <1>1, Methods DEF RequestOK
<1>3. \A method \in DaemonImpl : \A arg \in MessageOf(Stub!Service[method.rpc].request) :
        deserializeBinary(Proto!Service[method.rpc].request, Request(method, arg)) = arg
  BY StubDoesAgree, Zenon DEF StubAgrees
<1> QED BY <1>2, <1>3 DEF Seen

LEMMA RefuseStep ==
  ASSUME RpcIInv, NEW c \in RpcCall, rpcCall[c].at = "sent",
         NEW error \in Error, error = "UNAUTHENTICATED" => registered = FALSE,
         RefuseWith(c, error)
  PROVE  RpcIInv'
<1> DEFINE new == [at |-> "refused", error |-> error, seen |-> Seen(c)]
           r == With(new, rpcCall[c])
<1>1. /\ Put(c, new) /\ registered' = registered /\ known' = known /\ successes' = successes
  BY DEF RefuseWith
<1>2. /\ rpcCall' = [d \in RpcCall |-> rpcCall'[d]] /\ rpcCall'[c] = r
      /\ \A d \in RpcCall \ {c} : rpcCall'[d] = rpcCall[d]
  BY <1>1, PutIs
<1>3. /\ DOMAIN r = DOMAIN rpcCall[c] \cup {"at", "error", "seen"}
      /\ r.at = "refused" /\ r.error = error /\ r.seen = Seen(c)
      /\ \A f \in DOMAIN rpcCall[c] : f \notin {"at", "error", "seen"} => r[f] = rpcCall[c][f]
  <2>1. /\ DOMAIN new = {"at", "error", "seen"} /\ new["at"] = "refused"
        /\ new["error"] = error /\ new["seen"] = Seen(c)
    OBVIOUS
  <2> HIDE DEF new
  <2>2. /\ DOMAIN r = DOMAIN new \cup DOMAIN rpcCall[c]
        /\ \A f \in DOMAIN new : r[f] = new[f]
        /\ \A f \in DOMAIN rpcCall[c] : f \notin DOMAIN new => r[f] = rpcCall[c][f]
    BY Overlaid, Zenon
  <2> HIDE DEF r
  <2> QED BY <2>1, <2>2
<1> HIDE DEF r, new
<1>4. CallOK(rpcCall[c], registered) /\ RequestOK(rpcCall[c], registered)
  BY DEF RpcIInv, CallOK
<1>5. r.seen = r.arg /\ r.method = rpcCall[c].method /\ r.knew = rpcCall[c].knew
  BY <1>3, <1>4, RequestRead DEF RequestOK
<1>6. RequestOK(r, registered)
  BY <1>3, <1>4, <1>5 DEF RequestOK
<1>7. error = "UNAUTHENTICATED" => r.knew = FALSE
  BY <1>4, <1>5 DEF RequestOK
<1>8. CallOK(r, registered)
  BY <1>3, <1>4, <1>5, <1>6, <1>7 DEF CallOK, States, RequestOK
<1>9. RegistersOnce'
  BY <1>1, <1>2, <1>3, NobodyReports DEF RpcIInv
<1> QED BY <1>1, <1>2, <1>8, <1>9, OneCall DEF RpcIInv

\* The record of a call whose handler has answered.
LEMMA Answered ==
  ASSUME RpcIInv, NEW c \in RpcCall, rpcCall[c].at \in {"sent", "registering"},
         NEW reg \in BOOLEAN, registered = TRUE => reg = TRUE,
         NEW reply \in MessageOf(Proto!Service[rpcCall[c].method.rpc].response),
         rpcCall[c].method.rpc = "RegisterUser" => reg = TRUE,
         rpcCall[c].method.rpc = "GetStatus" =>
           reply.registered \in BOOLEAN /\ (reply.registered = TRUE => reg = TRUE),
         AnswerWith(c, reply)
  PROVE  /\ rpcCall' = [d \in RpcCall |-> rpcCall'[d]]
         /\ \A d \in RpcCall \ {c} : rpcCall'[d] = rpcCall[d]
         /\ rpcCall'[c].method = rpcCall[c].method
         /\ CallOK(rpcCall'[c], reg)
<1> DEFINE wire == serializeBinary(Proto!Service[rpcCall[c].method.rpc].response, reply)
           new == [at |-> "answered", reply |-> reply, seen |-> Seen(c), wire |-> wire]
           r == With(new, rpcCall[c])
<1>1. Put(c, new)
  BY DEF AnswerWith
<1>2. /\ rpcCall' = [d \in RpcCall |-> rpcCall'[d]] /\ rpcCall'[c] = r
      /\ \A d \in RpcCall \ {c} : rpcCall'[d] = rpcCall[d]
  BY <1>1, PutIs
<1>3. /\ DOMAIN r = DOMAIN rpcCall[c] \cup {"at", "reply", "seen", "wire"}
      /\ r.at = "answered" /\ r.reply = reply /\ r.seen = Seen(c) /\ r.wire = wire
      /\ \A f \in DOMAIN rpcCall[c] :
           f \notin {"at", "reply", "seen", "wire"} => r[f] = rpcCall[c][f]
  <2> HIDE DEF wire
  <2>1. /\ DOMAIN new = {"at", "reply", "seen", "wire"} /\ new["at"] = "answered"
        /\ new["reply"] = reply /\ new["seen"] = Seen(c) /\ new["wire"] = wire
    OBVIOUS
  <2> HIDE DEF new
  <2>2. /\ DOMAIN r = DOMAIN new \cup DOMAIN rpcCall[c]
        /\ \A f \in DOMAIN new : r[f] = new[f]
        /\ \A f \in DOMAIN rpcCall[c] : f \notin DOMAIN new => r[f] = rpcCall[c][f]
    BY Overlaid, Zenon
  <2> HIDE DEF r
  <2> QED BY <2>1, <2>2
<1> HIDE DEF r, new
<1>4. CallOK(rpcCall[c], registered) /\ RequestOK(rpcCall[c], registered)
  BY DEF RpcIInv, CallOK
<1>5. /\ r.seen = r.arg /\ r.method = rpcCall[c].method /\ r.knew = rpcCall[c].knew
      /\ "arg" \in DOMAIN r
  BY <1>3, <1>4, RequestRead DEF RequestOK
<1>6. RequestOK(r, reg)
  <2>1. {"method", "arg", "knew", "wire"} \subseteq DOMAIN r
    BY <1>3, <1>4 DEF RequestOK
  <2> QED BY <1>3, <1>4, <1>5, <2>1 DEF RequestOK
<1>7. AnswerOK(r, reg)
  BY <1>3, <1>5 DEF AnswerOK, Reply
<1>8. CallOK(r, reg)
  BY <1>3, <1>4, <1>5, <1>6, <1>7 DEF CallOK, States
<1> QED BY <1>2, <1>5, <1>8

LEMMA HandleStep ==
  ASSUME RpcIInv, NEW c \in RpcCall, Handle(c)
  PROVE  RpcIInv'
<1> DEFINE rpc == rpcCall[c].method.rpc
<1>1. rpcCall[c].at = "sent" /\ rpc # "RegisterUser"
  BY DEF Handle
<1>2. CASE rpc \notin WithoutRegistration /\ ~ registered /\ RefuseWith(c, "UNAUTHENTICATED")
  BY <1>1, <1>2, RefuseStep DEF Error, RpcIInv
<1>3. CASE RefuseWith(c, "UNKNOWN")
  BY <1>1, <1>3, RefuseStep DEF Error
<1>4. ASSUME NEW reply \in MessageOf(Proto!Service[rpc].response),
             rpc = "GetStatus" => StatusSays(reply), AnswerWith(c, reply),
             UNCHANGED <<registered, known, successes>>
      PROVE  RpcIInv'
  <2>1. registered \in BOOLEAN
    BY DEF RpcIInv
  <2>2. rpc = "GetStatus" =>
          reply.registered \in BOOLEAN /\ (reply.registered = TRUE => registered = TRUE)
    BY <1>4, <2>1, Zenon DEF StatusSays
  <2>3. /\ rpcCall' = [d \in RpcCall |-> rpcCall'[d]]
        /\ \A d \in RpcCall \ {c} : rpcCall'[d] = rpcCall[d]
        /\ rpcCall'[c].method = rpcCall[c].method
        /\ CallOK(rpcCall'[c], registered)
    BY <1>1, <1>4, <2>1, <2>2, Answered
  <2>4. rpcCall'[c].method # registerUser
    BY <1>1, <2>3, Methods
  <2>5. RegistersOnce'
    BY <1>4, <2>3, <2>4, NobodyReports DEF RpcIInv
  <2> QED BY <1>4, <2>3, <2>5, OneCall DEF RpcIInv
<1> QED BY <1>1, <1>2, <1>3, <1>4 DEF Handle

LEMMA StartRegistrationStep ==
  ASSUME RpcIInv, NEW c \in RpcCall, StartRegistration(c)
  PROVE  RpcIInv'
<1>1. rpcCall[c].at = "sent" /\ rpcCall[c].method.rpc = "RegisterUser"
  BY DEF StartRegistration
<1>2. CASE registered
  BY <1>1, <1>2, RefuseStep DEF StartRegistration, Error
<1>3. CASE ~ registered
  <2> DEFINE new == [at |-> "registering", seen |-> Seen(c)]
             r == With(new, rpcCall[c])
  <2>1. /\ Put(c, new) /\ registered' = registered /\ known' = known /\ successes' = successes
    BY <1>3 DEF StartRegistration
  <2>2. /\ rpcCall' = [d \in RpcCall |-> rpcCall'[d]] /\ rpcCall'[c] = r
        /\ \A d \in RpcCall \ {c} : rpcCall'[d] = rpcCall[d]
    BY <2>1, PutIs
  <2>3. /\ DOMAIN r = DOMAIN rpcCall[c] \cup {"at", "seen"}
        /\ r.at = "registering" /\ r.seen = Seen(c)
        /\ \A f \in DOMAIN rpcCall[c] : f \notin {"at", "seen"} => r[f] = rpcCall[c][f]
    <3>1. DOMAIN new = {"at", "seen"} /\ new["at"] = "registering" /\ new["seen"] = Seen(c)
      OBVIOUS
    <3> HIDE DEF new
    <3>2. /\ DOMAIN r = DOMAIN new \cup DOMAIN rpcCall[c]
          /\ \A f \in DOMAIN new : r[f] = new[f]
          /\ \A f \in DOMAIN rpcCall[c] : f \notin DOMAIN new => r[f] = rpcCall[c][f]
      BY Overlaid, Zenon
    <3> HIDE DEF r
    <3> QED BY <3>1, <3>2
  <2> HIDE DEF r, new
  <2>4. CallOK(rpcCall[c], registered) /\ RequestOK(rpcCall[c], registered)
    BY <1>1 DEF RpcIInv, CallOK
  <2>5. /\ r.seen = r.arg /\ r.method = rpcCall[c].method /\ r.knew = rpcCall[c].knew
        /\ r.wire = rpcCall[c].wire /\ r.arg = rpcCall[c].arg
        /\ {"method", "arg", "knew", "wire"} \subseteq DOMAIN r
    BY <1>1, <2>3, <2>4, RequestRead DEF RequestOK
  <2>6. RequestOK(r, registered)
    BY <1>1, <2>3, <2>4, <2>5 DEF RequestOK
  <2>7. CallOK(r, registered)
    BY <1>1, <2>3, <2>4, <2>5, <2>6 DEF CallOK, States
  <2>8. RegistersOnce'
    BY <2>1, <2>2, <2>3, NobodyReports DEF RpcIInv
  <2> QED BY <2>1, <2>2, <2>7, <2>8, OneCall DEF RpcIInv
<1> QED BY <1>2, <1>3

\* A call that ends in an error, with the error it has or another.
LEMMA ErrorIs ==
  ASSUME NEW r, NEW s, NEW reg \in BOOLEAN, CallOK(r, reg), r.at \notin {"free", "resolved"},
         DOMAIN s \subseteq DOMAIN r \cup {"at", "error"}, DOMAIN r \subseteq DOMAIN s,
         s.at \in {"refused", "rejected"}, "error" \in DOMAIN s, s.error \in Error,
         s.error = "UNAUTHENTICATED" => "error" \in DOMAIN r /\ s.error = r.error,
         \A f \in DOMAIN r : f \notin {"at", "error"} => s[f] = r[f]
  PROVE  CallOK(s, reg)
<1>1. RequestOK(r, reg)
  BY DEF CallOK
<1>2. /\ {"method", "arg", "knew", "wire"} \subseteq DOMAIN s
      /\ s.method = r.method /\ s.knew = r.knew /\ s.arg = r.arg
  BY <1>1 DEF RequestOK
<1>3. RequestOK(s, reg)
  BY <1>1, <1>2 DEF RequestOK
<1>4. "at" \in DOMAIN s /\ "result" \notin DOMAIN s
  BY DEF CallOK
<1>5. "seen" \in DOMAIN s => s.seen = s.arg
  BY <1>2 DEF CallOK
<1>6. s.error = "UNAUTHENTICATED" => s.knew = FALSE
  BY <1>2 DEF CallOK
<1>7. s.at \in States /\ s.at # "answered" /\ s.at # "resolved"
  BY DEF States, Settled
<1>8. "seen" \in DOMAIN s => "arg" \in DOMAIN s /\ s.seen = s.arg
  BY <1>2, <1>5
<1> QED BY <1>3, <1>4, <1>6, <1>7, <1>8, SMTT(20) DEF CallOK

LEMMA RegisterStep ==
  ASSUME RpcIInv, NEW c \in RpcCall, Register(c)
  PROVE  RpcIInv'
<1>1. /\ rpcCall[c].at = "registering" /\ known' = known /\ successes' = successes
  BY DEF Register
<1>2. CallOK(rpcCall[c], registered) /\ RequestOK(rpcCall[c], registered)
  BY <1>1 DEF RpcIInv, CallOK
<1>3. rpcCall[c].method.rpc = "RegisterUser" /\ rpcCall[c].method = registerUser
  BY <1>1, <1>2, Methods DEF RequestOK
<1>4. ASSUME ~ registered, registered' = TRUE,
             NEW reply \in MessageOf(Proto!Service["RegisterUser"].response),
             AnswerWith(c, reply)
      PROVE  RpcIInv'
  <2>1. /\ rpcCall' = [d \in RpcCall |-> rpcCall'[d]]
        /\ \A d \in RpcCall \ {c} : rpcCall'[d] = rpcCall[d]
        /\ CallOK(rpcCall'[c], registered')
    BY <1>1, <1>3, <1>4, Answered
  \* Nobody has registered, so nobody has an answer that says so.
  <2>2. \A d \in RpcCall : ~ Reporting(d)
    <3> SUFFICES ASSUME NEW d \in RpcCall, Reporting(d) PROVE FALSE
      OBVIOUS
    <3>1. AnswerOK(rpcCall[d], registered) /\ rpcCall[d].at = "answered"
      BY DEF Reporting, RpcIInv, CallOK
    <3>2. rpcCall[d].method.rpc = "RegisterUser"
      BY Methods DEF Reporting
    <3> QED BY <1>4, <3>1, <3>2 DEF AnswerOK
  <2>3. successes = 0
    BY <1>4 DEF RpcIInv, RegistersOnce
  <2>4. \A d \in RpcCall : Reporting(d)' => d = c
    BY <2>1, <2>2 DEF Reporting
  <2>5. RegistersOnce'
    BY <1>1, <1>4, <2>3, <2>4 DEF RegistersOnce
  <2> QED BY <1>1, <1>4, <2>1, <2>5, OneCall DEF RpcIInv
<1>5. ASSUME NEW error \in {"UNKNOWN", "UNAVAILABLE"},
             Put(c, [at |-> "refused", error |-> error]), registered' = registered
      PROVE  RpcIInv'
  <2> DEFINE new == [at |-> "refused", error |-> error]
             r == With(new, rpcCall[c])
  <2>2. /\ rpcCall' = [d \in RpcCall |-> rpcCall'[d]] /\ rpcCall'[c] = r
        /\ \A d \in RpcCall \ {c} : rpcCall'[d] = rpcCall[d]
    BY <1>5, PutIs
  <2>3. /\ DOMAIN r = DOMAIN rpcCall[c] \cup {"at", "error"}
        /\ r.at = "refused" /\ r.error = error
        /\ \A f \in DOMAIN rpcCall[c] : f \notin {"at", "error"} => r[f] = rpcCall[c][f]
    <3>1. DOMAIN new = {"at", "error"} /\ new["at"] = "refused" /\ new["error"] = error
      OBVIOUS
    <3> HIDE DEF new
    <3>2. /\ DOMAIN r = DOMAIN new \cup DOMAIN rpcCall[c]
          /\ \A f \in DOMAIN new : r[f] = new[f]
          /\ \A f \in DOMAIN rpcCall[c] : f \notin DOMAIN new => r[f] = rpcCall[c][f]
      BY Overlaid, Zenon
    <3> HIDE DEF r
    <3> QED BY <3>1, <3>2
  <2> HIDE DEF r, new
  <2>4. CallOK(r, registered)
    <3>1. registered \in BOOLEAN /\ r.error \in Error /\ r.error # "UNAUTHENTICATED"
      BY <2>3, <1>5 DEF RpcIInv, Error
    <3> QED BY <1>1, <1>2, <2>3, <3>1, ErrorIs
  <2>5. RegistersOnce'
    BY <1>1, <1>5, <2>2, <2>3, NobodyReports DEF RpcIInv
  <2> QED BY <1>1, <1>5, <2>2, <2>4, <2>5, OneCall DEF RpcIInv
<1>6. CASE /\ ~ registered /\ registered' = TRUE
           /\ \E reply \in MessageOf(Proto!Service["RegisterUser"].response) :
                AnswerWith(c, reply)
  BY <1>4, <1>6
<1>7. CASE Put(c, [at |-> "refused",
                   error |-> IF registered THEN "UNKNOWN" ELSE "UNAVAILABLE"])
           /\ registered' = registered
  <2>1. (IF registered THEN "UNKNOWN" ELSE "UNAVAILABLE") \in {"UNKNOWN", "UNAVAILABLE"}
    OBVIOUS
  <2> QED BY <1>5, <1>7, <2>1
<1> QED BY <1>6, <1>7 DEF Register

LEMMA RejectStep ==
  ASSUME RpcIInv, NEW c \in RpcCall, Reject(c)
  PROVE  RpcIInv'
<1> DEFINE new == [at |-> "rejected"]
           r == With(new, rpcCall[c])
<1>1. /\ rpcCall[c].at = "refused" /\ Put(c, new)
      /\ registered' = registered /\ known' = known /\ successes' = successes
  BY DEF Reject
<1>2. /\ rpcCall' = [d \in RpcCall |-> rpcCall'[d]] /\ rpcCall'[c] = r
      /\ \A d \in RpcCall \ {c} : rpcCall'[d] = rpcCall[d]
  BY <1>1, PutIs
<1>3. /\ DOMAIN r = DOMAIN rpcCall[c] \cup {"at"} /\ r.at = "rejected"
      /\ \A f \in DOMAIN rpcCall[c] : f # "at" => r[f] = rpcCall[c][f]
  <2>1. DOMAIN new = {"at"} /\ new["at"] = "rejected"
    OBVIOUS
  <2> HIDE DEF new
  <2>2. /\ DOMAIN r = DOMAIN new \cup DOMAIN rpcCall[c]
        /\ \A f \in DOMAIN new : r[f] = new[f]
        /\ \A f \in DOMAIN rpcCall[c] : f \notin DOMAIN new => r[f] = rpcCall[c][f]
    BY Overlaid, Zenon
  <2> HIDE DEF r
  <2> QED BY <2>1, <2>2
<1> HIDE DEF r, new
<1>4. CallOK(r, registered)
  <2>1. CallOK(rpcCall[c], registered) /\ registered \in BOOLEAN
    BY DEF RpcIInv
  <2>2. "error" \in DOMAIN rpcCall[c] /\ rpcCall[c].error \in Error
    BY <1>1, <2>1 DEF CallOK
  <2>3. "error" \in DOMAIN r /\ r.error = rpcCall[c].error
    BY <1>3, <2>2
  <2> QED BY <1>1, <1>3, <2>1, <2>2, <2>3, ErrorIs
<1>5. RegistersOnce'
  BY <1>1, <1>2, <1>3, NobodyReports DEF RpcIInv
<1> QED BY <1>1, <1>2, <1>4, <1>5, OneCall DEF RpcIInv

\* What the window gets is what the handler answered.
LEMMA ReplyRead ==
  ASSUME RpcIInv, NEW c \in RpcCall, rpcCall[c].at = "answered"
  PROVE  LET type == Stub!Service[rpcCall[c].method.rpc].response
         IN  Result(rpcCall[c].method, toObject(type, deserializeBinary(type, rpcCall[c].wire)))
               = Result(rpcCall[c].method, rpcCall[c].reply)
<1>1. RequestOK(rpcCall[c], registered) /\ AnswerOK(rpcCall[c], registered)
  BY DEF RpcIInv, CallOK
<1>2. /\ rpcCall[c].method \in DaemonImpl
      /\ rpcCall[c].reply \in MessageOf(Proto!Service[rpcCall[c].method.rpc].response)
      /\ rpcCall[c].wire =
           serializeBinary(Proto!Service[rpcCall[c].method.rpc].response, rpcCall[c].reply)
  BY <1>1, Methods DEF RequestOK, AnswerOK, Reply
<1>3. \A method \in DaemonImpl :
        \A reply \in MessageOf(Proto!Service[method.rpc].response) :
          Result(method, toObject(Stub!Service[method.rpc].response,
                           deserializeBinary(Stub!Service[method.rpc].response,
                             serializeBinary(Proto!Service[method.rpc].response, reply))))
            = Result(method, reply)
  BY StubDoesAgree, Zenon DEF StubAgrees
<1> QED BY <1>2, <1>3

LEMMA ResolveStep ==
  ASSUME RpcIInv, NEW c \in RpcCall, Resolve(c)
  PROVE  RpcIInv'
<1> DEFINE result == Result(rpcCall[c].method, rpcCall[c].reply)
           new == [at |-> "resolved", result |-> result]
           r == With(new, rpcCall[c])
<1>1. /\ rpcCall[c].at = "answered" /\ Put(c, new) /\ registered' = registered
      /\ known' = (known \/ (rpcCall[c].method = hasRegistered /\ result))
      /\ successes' = successes + IF rpcCall[c].method = registerUser THEN 1 ELSE 0
  BY ReplyRead DEF Resolve
<1>2. /\ rpcCall' = [d \in RpcCall |-> rpcCall'[d]] /\ rpcCall'[c] = r
      /\ \A d \in RpcCall \ {c} : rpcCall'[d] = rpcCall[d]
  BY <1>1, PutIs
<1>3. /\ DOMAIN r = DOMAIN rpcCall[c] \cup {"at", "result"}
      /\ r.at = "resolved" /\ r.result = result
      /\ \A f \in DOMAIN rpcCall[c] : f \notin {"at", "result"} => r[f] = rpcCall[c][f]
  <2> HIDE DEF result
  <2>1. DOMAIN new = {"at", "result"} /\ new["at"] = "resolved" /\ new["result"] = result
    OBVIOUS
  <2> HIDE DEF new
  <2>2. /\ DOMAIN r = DOMAIN new \cup DOMAIN rpcCall[c]
        /\ \A f \in DOMAIN new : r[f] = new[f]
        /\ \A f \in DOMAIN rpcCall[c] : f \notin DOMAIN new => r[f] = rpcCall[c][f]
    BY Overlaid, Zenon
  <2> HIDE DEF r
  <2> QED BY <2>1, <2>2
<1> HIDE DEF r, new
<1>4. /\ CallOK(rpcCall[c], registered) /\ RequestOK(rpcCall[c], registered)
      /\ AnswerOK(rpcCall[c], registered)
  BY <1>1 DEF RpcIInv, CallOK
<1>5. /\ r.method = rpcCall[c].method /\ r.knew = rpcCall[c].knew /\ r.arg = rpcCall[c].arg
      /\ r.wire = rpcCall[c].wire /\ r.reply = rpcCall[c].reply /\ r.seen = rpcCall[c].seen
      /\ {"method", "arg", "knew", "wire", "reply", "seen"} \subseteq DOMAIN r
  BY <1>3, <1>4 DEF RequestOK, AnswerOK
<1>6. RequestOK(r, registered) /\ AnswerOK(r, registered)
  BY <1>3, <1>4, <1>5 DEF RequestOK, AnswerOK
<1>7. CallOK(r, registered)
  <2>1. r.at \in States /\ "at" \in DOMAIN r /\ "result" \in DOMAIN r
    BY <1>3 DEF States, Settled
  <2>2. r.seen = r.arg
    BY <1>4, <1>5 DEF CallOK, AnswerOK
  <2>3. "error" \notin DOMAIN r
    BY <1>1, <1>3, <1>4 DEF CallOK
  <2>4. r.result = Result(r.method, r.reply)
    BY <1>3, <1>5
  <2> QED BY <1>3, <1>5, <1>6, <2>1, <2>2, <2>3, <2>4 DEF CallOK
\* The status is believed only if it was true when it was given.
<1>8. known' \in BOOLEAN /\ (known' = TRUE => registered = TRUE)
  <2>1. known \in BOOLEAN /\ registered \in BOOLEAN /\ (known = TRUE => registered = TRUE)
    BY DEF RpcIInv
  <2>2. CASE rpcCall[c].method = hasRegistered
    <3>1. result = rpcCall[c].reply.registered
      BY <2>2, Methods
    <3>2. /\ rpcCall[c].reply.registered \in BOOLEAN
          /\ (rpcCall[c].reply.registered = TRUE => registered = TRUE)
      BY <1>1, <1>4, <2>2, Methods DEF AnswerOK
    <3> HIDE DEF result
    <3>3. result \in BOOLEAN /\ (result = TRUE => registered = TRUE)
      BY <3>1, <3>2, Zenon
    <3>4. known' = (known \/ result)
      BY <1>1, <2>2, Zenon
    <3> QED BY <2>1, <3>3, <3>4, Zenon
  <2>3. CASE rpcCall[c].method # hasRegistered
    <3>1. known' = known
      BY <1>1, <2>1, <2>3, Zenon
    <3> QED BY <2>1, <3>1, Zenon
  <2> QED BY <2>2, <2>3
<1>9. RegistersOnce'
  <2>1. \A d \in RpcCall : Reporting(d)' => Reporting(d) /\ d # c
    BY <1>2, <1>3 DEF Reporting
  <2>2. CASE rpcCall[c].method = registerUser
    <3>1. Reporting(c)
      BY <1>1, <2>2 DEF Reporting
    <3>2. successes = 0 /\ \A d \in RpcCall : ~ Reporting(d)'
      BY <2>1, <3>1 DEF RpcIInv, RegistersOnce
    <3>3. registered = TRUE
      BY <1>1, <1>4, <2>2, Methods DEF AnswerOK
    <3> QED BY <1>1, <2>2, <3>2, <3>3 DEF RegistersOnce
  <2>3. CASE rpcCall[c].method # registerUser
    <3>1. successes' = successes
      BY <1>1, <2>3 DEF RpcIInv, RegistersOnce
    <3> QED BY <1>1, <2>1, <3>1 DEF RpcIInv, RegistersOnce
  <2> QED BY <2>2, <2>3
<1> QED BY <1>1, <1>2, <1>7, <1>8, <1>9, OneCall DEF RpcIInv

LEMMA UnavailableStep ==
  ASSUME RpcIInv, DaemonUnavailable
  PROVE  RpcIInv'
<1> DEFINE new == [at |-> "rejected", error |-> "UNAVAILABLE"]
<1>1. /\ rpcCall' = [c \in RpcCall |-> IF rpcCall[c].at \in {"free"} \cup Settled THEN rpcCall[c]
                                       ELSE With(new, rpcCall[c])]
      /\ registered' = registered /\ known' = known /\ successes' = successes
  BY DEF DaemonUnavailable
<1>2. DOMAIN new = {"at", "error"} /\ new["at"] = "rejected" /\ new["error"] = "UNAVAILABLE"
  OBVIOUS
<1> HIDE DEF new
<1>3. ASSUME NEW c \in RpcCall
      PROVE  CallOK(rpcCall'[c], registered) /\ (Reporting(c)' => Reporting(c))
  <2>1. CallOK(rpcCall[c], registered) /\ registered \in BOOLEAN
    BY DEF RpcIInv
  <2>2. CASE rpcCall[c].at \in {"free"} \cup Settled
    BY <1>1, <2>1, <2>2 DEF Reporting
  <2>3. CASE rpcCall[c].at \notin {"free"} \cup Settled
    <3> DEFINE r == With(new, rpcCall[c])
    <3>1. rpcCall'[c] = r
      BY <1>1, <2>3
    <3>2. /\ DOMAIN r = DOMAIN new \cup DOMAIN rpcCall[c]
          /\ \A f \in DOMAIN new : r[f] = new[f]
          /\ \A f \in DOMAIN rpcCall[c] : f \notin DOMAIN new => r[f] = rpcCall[c][f]
      BY Overlaid, Zenon
    <3> HIDE DEF r
    <3>3. r.at = "rejected" /\ r.error = "UNAVAILABLE" /\ "error" \in DOMAIN r
      BY <1>2, <3>2
    <3>4. CallOK(r, registered)
      BY <1>2, <2>1, <2>3, <3>2, <3>3, ErrorIs DEF Settled, Error
    <3> QED BY <3>1, <3>3, <3>4 DEF Reporting
  <2> QED BY <2>2, <2>3
<1>4. RegistersOnce'
  BY <1>1, <1>3 DEF RpcIInv, RegistersOnce
<1>5. rpcCall' = [c \in RpcCall |-> rpcCall'[c]]
  BY <1>1
<1> QED BY <1>1, <1>3, <1>4, <1>5 DEF RpcIInv

LEMMA RpcInductive == RpcSpec => []RpcIInv
<1>1. RpcInit => RpcIInv
  <2> SUFFICES ASSUME RpcInit PROVE RpcIInv
    OBVIOUS
  <2>1. /\ registered \in BOOLEAN /\ known = FALSE /\ successes = 0
        /\ rpcCall = [c \in RpcCall |-> Free]
    BY DEF RpcInit
  <2>2. DOMAIN Free = {"at"} /\ Free.at = "free"
    BY DEF Free
  <2>3. CallOK(Free, registered)
    BY <2>2 DEF CallOK, States
  <2>4. RegistersOnce
    BY <2>1, <2>2 DEF RegistersOnce, Reporting
  <2> QED BY <2>1, <2>3, <2>4 DEF RpcIInv
<1>2. RpcIInv /\ [RpcNext]_rpcVars => RpcIInv'
  <2> SUFFICES ASSUME RpcIInv, [RpcNext]_rpcVars PROVE RpcIInv'
    OBVIOUS
  <2>1. ASSUME NEW c \in RpcCall, CallStep(c, Method) PROVE RpcIInv'
    BY <2>1, InvokeStep, HandleStep, StartRegistrationStep, RegisterStep, ResolveStep,
       RejectStep DEF CallStep
  <2>2. CASE DaemonUnavailable
    BY <2>2, UnavailableStep
  <2>3. CASE UNCHANGED rpcVars
    BY <2>3 DEF rpcVars, RpcIInv, RegistersOnce, Reporting
  <2> QED BY <2>1, <2>2, <2>3 DEF RpcNext
<1> QED BY <1>1, <1>2, PTL DEF RpcSpec

\* For any number of calls side by side and whatever messages they carry: every request is
\* read as it was made and every answer as it was given, a registration once learnt is not
\* denied again, and one call at most registers (daemon.ts, RegisterUser, do_register).
THEOREM CallsStayTrue == RpcSpec => []CallsAreTrue
<1>1. RpcIInv => CallsAreTrue
  <2> SUFFICES ASSUME RpcIInv PROVE CallsAreTrue
    OBVIOUS
  <2>1. RequestsArrive
    BY DEF RequestsArrive, RpcIInv, CallOK
  <2>2. RepliesArrive
    BY DEF RepliesArrive, RpcIInv, CallOK
  <2>3. RegistrationIsRemembered
    <3> SUFFICES ASSUME NEW c \in RpcCall, rpcCall[c].at = "rejected", rpcCall[c].knew
                 PROVE  rpcCall[c].error # "UNAUTHENTICATED"
      BY DEF RegistrationIsRemembered
    <3>1. CallOK(rpcCall[c], registered)
      BY DEF RpcIInv
    <3>2. rpcCall[c].error = "UNAUTHENTICATED" => rpcCall[c].knew = FALSE
      BY <3>1 DEF CallOK
    <3> QED BY <3>2
  <2>4. RegisteredOnce
    BY DEF RegisteredOnce, RpcIInv, RegistersOnce
  <2> QED BY <2>1, <2>2, <2>3, <2>4 DEF CallsAreTrue
<1> QED BY <1>1, RpcInductive, PTL

\* A call holds the fields its stage requires, and ends in a result or in an error.
THEOREM RpcTypeCorrect == RpcSpec => []RpcTypeOK
<1>1. RpcIInv => RpcTypeOK
  <2> SUFFICES ASSUME RpcIInv PROVE RpcTypeOK
    OBVIOUS
  <2>1. successes \in Nat
    BY DEF RpcIInv, RegistersOnce
  <2>2. ASSUME NEW c \in RpcCall
        PROVE  /\ rpcCall[c].at \in States
               /\ rpcCall[c].at # "free" => rpcCall[c].method \in Method
               /\ rpcCall[c].at \in {"refused", "rejected"} <=> "error" \in DOMAIN rpcCall[c]
               /\ rpcCall[c].at = "resolved" <=> "result" \in DOMAIN rpcCall[c]
               /\ "error" \in DOMAIN rpcCall[c] => rpcCall[c].error \in Error
    BY DEF RpcIInv, CallOK, RequestOK
  <2> QED BY <2>1, <2>2, Zenon DEF RpcTypeOK, RpcIInv
<1> QED BY <1>1, RpcInductive, PTL

=============================================================================
