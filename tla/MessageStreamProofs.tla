------------------------- MODULE MessageStreamProofs -------------------------
(***************************************************************************)
(* What is on the screen is true: proofs about MessageStream.              *)
(***************************************************************************)
EXTENDS MessageStream, FiniteSetTheorems, SequenceTheorems, TLAPS

-----------------------------------------------------------------------------
(* The inductive invariant.  All of it is about the order of timestamps.   *)

\* The column is UNIQUE.
TimesAreUnique ==
  \A m, n \in Message :
    delivered_at[m] # 0 /\ delivered_at[m] = delivered_at[n] => m = n

Holds(s, m) == \E i \in DOMAIN s : s[i] = m

Sorted(ts, s) == \A i, j \in DOMAIN s : i < j => ts[s[i]] > ts[s[j]]

\* Every message of s is visible, and none of them newer than t.
Within(ts, s, t) == \A i \in DOMAIN s : 0 < ts[s[i]] /\ ts[s[i]] <= t

\* Every message of s is newer than every one of r.
Above(ts, s, r) == \A i \in DOMAIN s, j \in DOMAIN r : ts[s[i]] > ts[r[j]]

\* The responses under way are those of a thread that has begun and may write,
\* each sorted, and a later one has nothing as old as an earlier one.
ResponsesInOrder(c) ==
  /\ (stream[c].pc \in {"free", "opened"} \/ stream[c].cancelled) => response[c] = <<>>
  /\ \A k \in DOMAIN response[c] :
       Sorted(delivered_at, response[c][k]) /\ Within(delivered_at, response[c][k], stream[c].last)
  /\ \A k, l \in DOMAIN response[c] : k < l => Above(delivered_at, response[c][l], response[c][k])

\* The bound of a thread's next query is the time of a message it has seen.
LastIsATime(c) ==
  /\ stream[c].pc = "opened" => stream[c].last = 0
  /\ stream[c].last = 0 \/ \E m \in Message : delivered_at[m] = stream[c].last

\* What a client has taken of call c: nothing that is still to come is as old.
TakenInOrder(c, taken) ==
  /\ stream[c].pc # "free" /\ ~ stream[c].cancelled
  /\ Within(delivered_at, taken, stream[c].last)
  /\ \A k \in DOMAIN response[c] : Above(delivered_at, response[c][k], taken)

ListInOrder ==
  /\ ListIsNewestFirst /\ Within(delivered_at, list.messages, MaxClock)
  /\ list.call # NoCall => /\ TakenInOrder(list.call, list.messages)
                           /\ stream[list.call].filter = list.type

NotifierInOrder ==
  /\ NotifiedOnce /\ Within(delivered_at, shown, MaxClock)
  /\ notifier.call # NoCall => /\ TakenInOrder(notifier.call, shown)
                               /\ notifier.call # list.call

\* Without a clock that is set back the next message is newer than all, and
\* what a list of all messages does not show yet is on its way or still to be read.
NothingMissed ==
  setbacks = 0 =>
    /\ \A m \in Message : delivered_at[m] <= clock
    /\ list.type = "ALL" /\ list.call # NoCall =>
         \A m \in Message :
           0 < delivered_at[m] /\ delivered_at[m] <= stream[list.call].last =>
             \/ InList(m)
             \/ \E k \in DOMAIN response[list.call] : Holds(response[list.call][k], m)

StreamIInv ==
  /\ StreamTypeOK /\ TimesAreUnique
  /\ \A c \in Stream : ResponsesInOrder(c) /\ LastIsATime(c)
  /\ ListInOrder /\ NotifierInOrder /\ NothingMissed /\ ListHasNoGaps

-----------------------------------------------------------------------------
(* Sorting.                                                                *)

\* A set of messages with distinct times between 1 and N can be put in order,
\* newest first: the place of a message is the number of those as new as it.
LEMMA InOrder ==
  ASSUME NEW S, NEW ts, NEW N \in Nat,
         \A m \in S : ts[m] \in 1 .. N,
         \A m, n \in S : ts[m] = ts[n] => m = n
  PROVE  \E s \in [1 .. Cardinality(S) -> S] :
           /\ \A m \in S : \E i \in DOMAIN s : s[i] = m
           /\ \A i, j \in DOMAIN s : i < j => ts[s[i]] > ts[s[j]]
<1> DEFINE asNew(m) == {n \in S : ts[n] >= ts[m]}
           rank == [m \in S |-> Cardinality(asNew(m))]
           card == Cardinality(S)
<1>1. IsFiniteSet(S) /\ card \in Nat
  <2> DEFINE time == [m \in S |-> ts[m]]
  <2>1. time \in Injection(S, 1 .. N)
    BY DEF Injection, IsInjective
  <2>2. IsFiniteSet(1 .. N)
    BY FS_Interval
  <2>3. IsFiniteSet(S)
    BY <2>1, <2>2, FS_Injection
  <2> QED
    BY <2>3, FS_CardinalityType
<1>2. \A m \in S : IsFiniteSet(asNew(m)) /\ Cardinality(asNew(m)) \in 1 .. card
  <2> SUFFICES ASSUME NEW m \in S
               PROVE  IsFiniteSet(asNew(m)) /\ Cardinality(asNew(m)) \in 1 .. card
    OBVIOUS
  <2>1. asNew(m) \in SUBSET S /\ m \in asNew(m)
    OBVIOUS
  <2> HIDE DEF asNew, card
  <2>2. IsFiniteSet(asNew(m)) /\ Cardinality(asNew(m)) <= card
    BY <1>1, <2>1, FS_Subset DEF card
  <2>3. Cardinality(asNew(m)) \in Nat /\ Cardinality(asNew(m)) # 0
    BY <2>1, <2>2, FS_EmptySet, FS_CardinalityType
  <2> QED
    BY <1>1, <2>2, <2>3
<1>3. ASSUME NEW m \in S, NEW n \in S, ts[m] > ts[n]
      PROVE  rank[m] < rank[n]
  <2>1. asNew(m) \in SUBSET asNew(n) /\ n \in asNew(n) /\ n \notin asNew(m)
    BY <1>3
  <2>2. Cardinality(asNew(m)) <= Cardinality(asNew(n))
        /\ Cardinality(asNew(m)) # Cardinality(asNew(n))
    <3> HIDE DEF asNew
    <3> QED
      BY <2>1, <1>2, FS_Subset
  <2> QED
    BY <1>2, <2>2
<1>4. rank \in Injection(S, 1 .. card)
  <2>1. rank \in [S -> 1 .. card]
    BY <1>2
  <2>2. \A m, n \in S : rank[m] = rank[n] => ts[m] = ts[n]
    <3> HIDE DEF rank, card
    <3> QED
      BY <1>1, <1>3, <2>1
  <2> QED
    BY <2>1, <2>2 DEF Injection, IsInjective
<1>5. rank \in Surjection(S, 1 .. card)
  <2>1. IsFiniteSet(1 .. card) /\ Cardinality(1 .. card) = card
    BY <1>1, FS_Interval
  <2> QED
    BY <1>4, <2>1, FS_Injection
<1> DEFINE s == [i \in 1 .. card |-> CHOOSE m \in S : rank[m] = i]
<1>6. \A i \in 1 .. card : s[i] \in S /\ rank[s[i]] = i
  <2> HIDE DEF rank, card
  <2> QED
    BY <1>5 DEF Surjection
<1>7. \A m \in S : s[rank[m]] = m /\ rank[m] \in 1 .. card
  <2> HIDE DEF rank, card, s
  <2> QED
    BY <1>4, <1>6 DEF Injection, IsInjective
<1>8. \A i, j \in 1 .. card : i < j => ts[s[i]] > ts[s[j]]
  <2> HIDE DEF rank, s, card
  <2> QED
    BY <1>1, <1>3, <1>6
<1>9. s \in [1 .. card -> S] /\ DOMAIN s = 1 .. card
  BY <1>6
<1> HIDE DEF rank, s
<1> QED
  BY <1>7, <1>8, <1>9

\* What the query returns: the visible messages it asks for, each once, the
\* newest first.
LEMMA NewestFirstSorts ==
  ASSUME StreamTypeOK, TimesAreUnique, NEW S \in SUBSET Delivered
  PROVE  /\ NewestFirst(S) \in Seq(Message)
         /\ \A m : Holds(NewestFirst(S), m) <=> m \in S
         /\ Sorted(delivered_at, NewestFirst(S))
<1>1. \A m \in S : delivered_at[m] \in 1 .. MaxClock
  BY DEF StreamTypeOK, Delivered
<1>2. \A m, n \in S : delivered_at[m] = delivered_at[n] => m = n
  BY DEF TimesAreUnique, Delivered
<1>3. IsFiniteSet(S) /\ Cardinality(S) \in Nat
  <2>1. [m \in S |-> delivered_at[m]] \in Injection(S, 1 .. MaxClock)
    BY <1>1, <1>2 DEF Injection, IsInjective
  <2>2. IsFiniteSet(1 .. MaxClock)
    BY FS_Interval, StreamAssumption
  <2> QED
    BY <2>1, <2>2, FS_Injection, FS_CardinalityType
<1>4. \E s \in [1 .. Cardinality(S) -> S] :
        /\ \A m \in S : \E i \in DOMAIN s : s[i] = m
        /\ \A i, j \in DOMAIN s : i < j => delivered_at[s[i]] > delivered_at[s[j]]
  BY <1>1, <1>2, InOrder, StreamAssumption
<1>5. /\ NewestFirst(S) \in [1 .. Cardinality(S) -> S]
      /\ \A m \in S : \E i \in DOMAIN NewestFirst(S) : NewestFirst(S)[i] = m
      /\ \A i, j \in DOMAIN NewestFirst(S) :
           i < j => delivered_at[NewestFirst(S)[i]] > delivered_at[NewestFirst(S)[j]]
  BY <1>4, Zenon DEF NewestFirst
<1>6. NewestFirst(S) \in Seq(Message)
  BY <1>3, <1>5, IsASeq DEF Delivered
<1> QED
  BY <1>5, <1>6 DEF Holds, Sorted

\* A query brings only messages newer than its bound, sorted, and the next bound
\* is the time of the newest: nothing else that is newer is left for a list of all.
LEMMA Received ==
  ASSUME StreamTypeOK, TimesAreUnique, NEW filter \in Filter, NEW last \in 0 .. MaxClock
  PROVE  LET msgs == ReceivedMessages(filter, last)
             later == LaterOf(last, msgs)
         IN  /\ msgs \in Seq(Message) /\ Sorted(delivered_at, msgs) /\ Within(delivered_at, msgs, later)
             /\ \A i \in DOMAIN msgs : delivered_at[msgs[i]] > last
             /\ later \in last .. MaxClock
             /\ later = last \/ \E m \in Message : delivered_at[m] = later
             /\ filter = "ALL" => \A m \in Message : delivered_at[m] > last => Holds(msgs, m)
<1> DEFINE S == {m \in Delivered : delivered_at[m] > last /\ (filter = "NEW" => m \notin seen)}
           msgs == ReceivedMessages(filter, last)
           later == LaterOf(last, msgs)
<1>1. S \in SUBSET Delivered /\ msgs = NewestFirst(S)
  <2>1. msgs = NewestFirst(S)
    BY Zenon DEF ReceivedMessages
  <2> QED
    BY <2>1
<1>2. /\ msgs \in Seq(Message) /\ Sorted(delivered_at, msgs)
      /\ \A m : Holds(msgs, m) <=> m \in S
  BY <1>1, NewestFirstSorts
<1> HIDE DEF msgs
<1>3. \A i \in DOMAIN msgs : msgs[i] \in S
  BY <1>2 DEF Holds
<1>4. \A i \in DOMAIN msgs : /\ delivered_at[msgs[i]] \in Int /\ delivered_at[msgs[i]] > last
                             /\ delivered_at[msgs[i]] <= MaxClock
  <2>1. \A m \in Message : delivered_at[m] \in 0 .. MaxClock
    BY DEF StreamTypeOK
  <2> QED
    BY <1>3, <2>1, StreamAssumption DEF Delivered
<1>5. msgs # <<>> => 1 \in DOMAIN msgs
  BY <1>2
<1>6. later \in last .. MaxClock /\ (later = last \/ \E m \in Message : delivered_at[m] = later)
  BY <1>2, <1>4, <1>5, StreamAssumption DEF LaterOf
<1>7. Within(delivered_at, msgs, later)
  <2> SUFFICES ASSUME NEW i \in DOMAIN msgs
               PROVE  0 < delivered_at[msgs[i]] /\ delivered_at[msgs[i]] <= later
    BY DEF Within
  <2>1. 1 \in DOMAIN msgs /\ i \in Nat /\ (i = 1 \/ 1 < i) /\ msgs # <<>>
    BY <1>2
  <2>2. delivered_at[msgs[i]] <= delivered_at[msgs[1]]
    BY <1>2, <1>4, <2>1 DEF Sorted
  <2> QED
    BY <1>4, <2>1, <2>2 DEF LaterOf
<1>8. filter = "ALL" => \A m \in Message : delivered_at[m] > last => Holds(msgs, m)
  BY <1>2 DEF Delivered, StreamTypeOK
<1> QED
  BY <1>2, <1>4, <1>6, <1>7, <1>8 DEF msgs

-----------------------------------------------------------------------------
(* Steps that leave every sequence and every bound alone.                  *)

\* A thread sleeps, is woken or goes to its query; time passes; the user
\* registers or opens a message.
LEMMA QuietStep ==
  ASSUME StreamIInv, StreamTypeOK',
         UNCHANGED <<delivered_at, response, list, notifier, shown>>,
         \A c \in Stream : /\ stream'[c].last = stream[c].last
                           /\ stream'[c].filter = stream[c].filter
                           /\ stream'[c].cancelled = stream[c].cancelled
                           /\ stream'[c].pc = "free" <=> stream[c].pc = "free"
                           /\ stream'[c].pc = "opened" <=> stream[c].pc = "opened",
         setbacks' = 0 => setbacks = 0 /\ clock' >= clock
  PROVE  StreamIInv'
<1> USE DEF StreamIInv
<1>1. TimesAreUnique'
  BY DEF TimesAreUnique
<1>2. ASSUME NEW c \in Stream PROVE (ResponsesInOrder(c) /\ LastIsATime(c))'
  BY DEF ResponsesInOrder, LastIsATime
<1>3. list.call # NoCall => list.call \in Stream
  BY DEF StreamTypeOK
<1>4. notifier.call # NoCall => notifier.call \in Stream
  BY DEF StreamTypeOK
<1>5. ListInOrder'
  BY <1>3 DEF ListInOrder, ListIsNewestFirst, TakenInOrder
<1>6. NotifierInOrder'
  BY <1>4 DEF NotifierInOrder, NotifiedOnce, TakenInOrder
<1>7. NothingMissed'
  <2> SUFFICES ASSUME setbacks' = 0 PROVE NothingMissed'
    BY DEF NothingMissed
  <2>1. \A m \in Message : delivered_at'[m] <= clock'
    BY StreamAssumption DEF NothingMissed, StreamTypeOK
  <2> QED
    BY <1>3, <2>1 DEF NothingMissed, InList
<1>8. ListHasNoGaps'
  BY DEF ListHasNoGaps, InList
<1> QED
  BY <1>1, <1>2, <1>5, <1>6, <1>7, <1>8

-----------------------------------------------------------------------------
(* A message becomes visible.                                              *)

\* The new time is nobody's: what is sorted, visible or newer remains so, and as
\* long as the clock was not set back the new message is the newest.
LEMMA DeliverStep ==
  ASSUME StreamIInv, StreamTypeOK', NEW m \in Message, MadeVisible(m),
         UNCHANGED <<clock, stream, response, list, notifier, shown, setbacks>>
  PROVE  StreamIInv'
<1> USE DEF StreamIInv
<1>1. /\ \A n \in Message : delivered_at[n] \in 0 .. MaxClock /\ delivered_at'[n] \in 0 .. MaxClock
      /\ clock \in 1 .. MaxClock
      /\ \A c \in Stream : stream[c].last \in 0 .. MaxClock /\ response[c] \in Seq(Seq(Message))
      /\ list.messages \in Seq(Message) /\ shown \in Seq(Message)
  BY DEF StreamTypeOK
<1>2. /\ \A n \in Message : delivered_at[n] # clock
      /\ delivered_at[m] = 0 /\ delivered_at'[m] = clock
      /\ \A n \in Message : n # m => delivered_at'[n] = delivered_at[n]
  BY DEF MadeVisible, StreamTypeOK
<1>3. ASSUME NEW s \in Seq(Message), NEW t \in Int, Within(delivered_at, s, t)
      PROVE  /\ Within(delivered_at', s, t)
             /\ \A i \in DOMAIN s : delivered_at'[s[i]] = delivered_at[s[i]]
  <2>1. \A i \in DOMAIN s : s[i] \in Message /\ s[i] # m
    BY <1>2, <1>3 DEF Within
  <2> QED
    BY <1>2, <1>3, <2>1 DEF Within
<1>4. TimesAreUnique'
  BY <1>1, <1>2 DEF TimesAreUnique
<1>5. ASSUME NEW c \in Stream PROVE (ResponsesInOrder(c) /\ LastIsATime(c))'
  <2>1. \A k \in DOMAIN response[c] :
          response[c][k] \in Seq(Message) /\ Within(delivered_at, response[c][k], stream[c].last)
    BY <1>1 DEF ResponsesInOrder
  <2>2. \A k \in DOMAIN response[c] :
          /\ Within(delivered_at', response[c][k], stream[c].last)
          /\ \A i \in DOMAIN response[c][k] :
               delivered_at'[response[c][k][i]] = delivered_at[response[c][k][i]]
    BY <1>1, <1>3, <2>1
  <2>3. \A k \in DOMAIN response[c] : Sorted(delivered_at', response[c][k])
    BY <2>2 DEF ResponsesInOrder, Sorted
  <2>4. \A k, l \in DOMAIN response[c] :
          k < l => Above(delivered_at', response[c][l], response[c][k])
    BY <2>2 DEF ResponsesInOrder, Above
  <2>5. stream[c].last = 0 \/ \E n \in Message : delivered_at'[n] = stream[c].last
    BY <1>1, <1>2 DEF LastIsATime
  <2> QED
    BY <2>2, <2>3, <2>4, <2>5 DEF ResponsesInOrder, LastIsATime
<1>6. ASSUME NEW c \in Stream, NEW s \in Seq(Message), TakenInOrder(c, s)
      PROVE  /\ Within(delivered_at', s, stream[c].last)
             /\ \A k \in DOMAIN response[c] : Above(delivered_at', response[c][k], s)
  <2>1. /\ Within(delivered_at', s, stream[c].last)
        /\ \A i \in DOMAIN s : delivered_at'[s[i]] = delivered_at[s[i]]
    BY <1>1, <1>3, <1>6 DEF TakenInOrder
  <2>2. \A k \in DOMAIN response[c] : \A i \in DOMAIN response[c][k] :
          delivered_at'[response[c][k][i]] = delivered_at[response[c][k][i]]
    <3> SUFFICES ASSUME NEW k \in DOMAIN response[c]
                 PROVE  \A i \in DOMAIN response[c][k] :
                          delivered_at'[response[c][k][i]] = delivered_at[response[c][k][i]]
      OBVIOUS
    <3>1. response[c][k] \in Seq(Message)
          /\ Within(delivered_at, response[c][k], stream[c].last)
      BY <1>1 DEF ResponsesInOrder
    <3>2. stream[c].last \in Int
      BY <1>1
    <3> QED
      BY <1>3, <3>1, <3>2
  <2> QED
    BY <1>6, <2>1, <2>2 DEF TakenInOrder, Above
<1>7. list.call # NoCall => list.call \in Stream
  BY DEF StreamTypeOK
<1>8. notifier.call # NoCall => notifier.call \in Stream
  BY DEF StreamTypeOK
<1>9. ListInOrder'
  <2>1. /\ Within(delivered_at', list.messages, MaxClock)
        /\ \A i \in DOMAIN list.messages :
             delivered_at'[list.messages[i]] = delivered_at[list.messages[i]]
    BY <1>1, <1>3, StreamAssumption DEF ListInOrder
  <2>2. ListIsNewestFirst'
    BY <2>1 DEF ListInOrder, ListIsNewestFirst
  <2>3. list.call # NoCall => TakenInOrder(list.call, list.messages)'
    BY <1>1, <1>6, <1>7 DEF ListInOrder, TakenInOrder
  <2> QED
    BY <2>1, <2>2, <2>3 DEF ListInOrder
<1>10. NotifierInOrder'
  <2>1. Within(delivered_at', shown, MaxClock)
    BY <1>1, <1>3, StreamAssumption DEF NotifierInOrder
  <2>2. notifier.call # NoCall => TakenInOrder(notifier.call, shown)'
    BY <1>1, <1>6, <1>8 DEF NotifierInOrder, TakenInOrder
  <2> QED
    BY <2>1, <2>2 DEF NotifierInOrder, NotifiedOnce
<1>11. NothingMissed'
  <2> SUFFICES ASSUME setbacks = 0 PROVE NothingMissed'
    BY DEF NothingMissed
  <2>1. \A n \in Message : delivered_at'[n] <= clock
    BY <1>1, <1>2 DEF NothingMissed
  <2>2. ASSUME list.call # NoCall PROVE ~ (delivered_at'[m] <= stream[list.call].last)
    <3>1. \A n \in Message : delivered_at[n] < clock
      BY <1>1, <1>2 DEF NothingMissed
    <3> QED
      BY <1>1, <1>2, <1>7, <2>2, <3>1 DEF LastIsATime
  <2> QED
    BY <1>2, <2>1, <2>2 DEF NothingMissed, InList
<1>12. ListHasNoGaps'
  <2> SUFFICES ASSUME setbacks = 0, list.type = "ALL", NEW a \in Message, NEW n \in Message,
                      InList(a), 0 < delivered_at'[n], delivered_at'[n] < delivered_at'[a]
               PROVE  InList(n)
    BY DEF ListHasNoGaps, InList
  <2>1. a # m
    BY <1>1, <1>2, StreamAssumption DEF InList, ListInOrder, Within
  <2>2. n # m
    BY <1>1, <1>2, <2>1 DEF NothingMissed
  <2> QED
    BY <1>2, <2>1, <2>2 DEF ListHasNoGaps
<1> QED
  BY <1>4, <1>5, <1>9, <1>10, <1>11, <1>12

-----------------------------------------------------------------------------
(* A thread writes a response.                                             *)

\* What a query brings is newer than all that the thread wrote before, so it is
\* newer than all that its client has taken and than all that is under way.
LEMMA RespondStep ==
  ASSUME StreamIInv, StreamTypeOK', NEW c \in Stream, NEW msgs,
         msgs = ReceivedMessages(stream[c].filter, stream[c].last),
         stream[c].pc \in {"opened", "query"}, Write(c, msgs),
         stream' = [stream EXCEPT ![c].pc = "top", ![c].last = LaterOf(stream[c].last, msgs)],
         UNCHANGED <<clock, delivered_at, list, notifier, shown, setbacks>>
  PROVE  StreamIInv'
<1> USE DEF StreamIInv
<1> DEFINE last == stream[c].last
           later == LaterOf(last, msgs)
<1>1. /\ \A d \in Stream : /\ response[d] \in Seq(Seq(Message))
                           /\ stream[d].last \in 0 .. MaxClock
                           /\ stream[d] \in [pc : Pc, filter : Filter, last : 0 .. MaxClock,
                                             cancelled : BOOLEAN]
      /\ list.messages \in Seq(Message) /\ shown \in Seq(Message)
      /\ delivered_at \in [Message -> 0 .. MaxClock]
  BY DEF StreamTypeOK
<1>2. stream[c].filter \in Filter
  BY <1>1
<1>3. /\ msgs \in Seq(Message) /\ Sorted(delivered_at, msgs)
      /\ Within(delivered_at, msgs, later)
      /\ \A i \in DOMAIN msgs : delivered_at[msgs[i]] > last
      /\ later \in last .. MaxClock
      /\ later = last \/ \E m \in Message : delivered_at[m] = later
      /\ stream[c].filter = "ALL" =>
           \A m \in Message : delivered_at[m] > last => Holds(msgs, m)
  BY <1>1, <1>2, Received
<1> HIDE DEF later, last
<1>4. /\ stream'[c] = [stream[c] EXCEPT !.pc = "top", !.last = later]
      /\ \A d \in Stream : d # c => stream'[d] = stream[d] /\ response'[d] = response[d]
      /\ response'[c] = IF stream[c].cancelled THEN response[c] ELSE Append(response[c], msgs)
  BY DEF Write, StreamTypeOK, later, last
<1>5. /\ stream'[c].pc = "top" /\ stream'[c].last = later
      /\ stream'[c].filter = stream[c].filter /\ stream'[c].cancelled = stream[c].cancelled
  <2>1. stream[c] \in [pc : Pc, filter : Filter, last : 0 .. MaxClock, cancelled : BOOLEAN]
    BY <1>1
  <2>2. stream'[c] = [stream[c] EXCEPT !.pc = "top", !.last = later]
    BY <1>4
  <2> QED
    BY ONLY <2>1, <2>2
<1>6. ASSUME NEW s \in Seq(Message), Within(delivered_at, s, last)
      PROVE  Within(delivered_at, s, later) /\ Above(delivered_at, msgs, s)
  <2>1. \A i \in DOMAIN s : s[i] \in Message
    OBVIOUS
  <2>2. \A i \in DOMAIN msgs : msgs[i] \in Message
    BY <1>3
  <2>3. \A m \in Message : delivered_at[m] \in Nat
    BY <1>1, StreamAssumption
  <2>4. last \in Nat /\ later \in Nat /\ last <= later
    BY <1>1, <1>3, StreamAssumption DEF last
  <2>5. \A i \in DOMAIN s : 0 < delivered_at[s[i]] /\ delivered_at[s[i]] <= last
    BY <1>6 DEF Within
  <2>6. \A i \in DOMAIN s : delivered_at[s[i]] <= later
    <3> SUFFICES ASSUME NEW i \in DOMAIN s PROVE delivered_at[s[i]] <= later
      OBVIOUS
    <3>1. delivered_at[s[i]] \in Nat /\ delivered_at[s[i]] <= last
      BY <2>1, <2>3, <2>5
    <3> QED
      BY ONLY <3>1, <2>4
  <2>7. Above(delivered_at, msgs, s)
    <3> SUFFICES ASSUME NEW i \in DOMAIN msgs, NEW j \in DOMAIN s
                 PROVE  delivered_at[msgs[i]] > delivered_at[s[j]]
      BY DEF Above
    <3>1. delivered_at[msgs[i]] \in Nat /\ delivered_at[s[j]] \in Nat
      BY <2>1, <2>2, <2>3
    <3>2. delivered_at[msgs[i]] > last /\ delivered_at[s[j]] <= last
      BY <1>3, <2>5
    <3> QED
      BY ONLY <3>1, <3>2, <2>4
  <2> QED
    BY <2>5, <2>6, <2>7 DEF Within
<1>7. \A k \in DOMAIN response[c] :
        /\ response[c][k] \in Seq(Message) /\ Sorted(delivered_at, response[c][k])
        /\ Within(delivered_at, response[c][k], last)
  BY <1>1 DEF ResponsesInOrder, last
<1>8. \A k \in DOMAIN response'[c] : \/ k \in DOMAIN response[c] /\ response'[c][k] = response[c][k]
                                     \/ /\ k = Len(response[c]) + 1 /\ response'[c][k] = msgs
                                        /\ ~ stream[c].cancelled
  BY <1>1, <1>3, <1>4
<1>9. ASSUME NEW d \in Stream PROVE (ResponsesInOrder(d) /\ LastIsATime(d))'
  <2>1. CASE d # c
    <3>1. stream'[d] = stream[d] /\ response'[d] = response[d] /\ delivered_at' = delivered_at
      BY <1>4, <2>1
    <3>2. ResponsesInOrder(d) /\ LastIsATime(d)
      OBVIOUS
    <3> QED
      BY ONLY <3>1, <3>2 DEF ResponsesInOrder, LastIsATime
  <2>2. CASE d = c
    <3>1. LastIsATime(c)'
      BY <1>3, <1>5 DEF LastIsATime, last
    <3>2. \A k \in DOMAIN response'[c] : /\ Sorted(delivered_at, response'[c][k])
                                         /\ Within(delivered_at, response'[c][k], later)
      BY <1>3, <1>6, <1>7, <1>8
    <3>3. \A k, l \in DOMAIN response'[c] :
            k < l => Above(delivered_at, response'[c][l], response'[c][k])
      <4> SUFFICES ASSUME NEW k \in DOMAIN response'[c], NEW l \in DOMAIN response'[c], k < l
                   PROVE  Above(delivered_at, response'[c][l], response'[c][k])
        OBVIOUS
      <4>1. k \in DOMAIN response[c] /\ response'[c][k] = response[c][k]
        <5>1. DOMAIN response[c] = 1 .. Len(response[c]) /\ Len(response[c]) \in Nat
          BY <1>1
        <5>2. l <= Len(response[c]) + 1 /\ k \in Int /\ l \in Int
          BY <1>8, <5>1
        <5> QED
          BY <1>8, <5>1, <5>2
      <4>2. CASE l \in DOMAIN response[c] /\ response'[c][l] = response[c][l]
        BY <4>1, <4>2 DEF ResponsesInOrder
      <4>3. CASE response'[c][l] = msgs
        BY <1>6, <1>7, <4>1, <4>3
      <4> QED
        BY <1>8, <4>2, <4>3
    <3>4. stream[c].cancelled => response'[c] = <<>>
      BY <1>4 DEF ResponsesInOrder
    <3> QED
      BY <1>5, <2>2, <3>1, <3>2, <3>3, <3>4 DEF ResponsesInOrder
  <2> QED
    BY <2>1, <2>2
<1>10. ASSUME NEW d \in Stream, NEW s \in Seq(Message), TakenInOrder(d, s)
       PROVE  /\ stream'[d].pc # "free" /\ ~ stream'[d].cancelled
              /\ Within(delivered_at, s, stream'[d].last)
              /\ \A k \in DOMAIN response'[d] : Above(delivered_at, response'[d][k], s)
  <2>1. CASE d # c
    BY <1>4, <1>10, <2>1 DEF TakenInOrder
  <2>2. CASE d = c
    BY <1>5, <1>6, <1>8, <1>10, <2>2 DEF TakenInOrder, last
  <2> QED
    BY <2>1, <2>2
<1>11. list.call # NoCall => list.call \in Stream
  BY DEF StreamTypeOK
<1>12. notifier.call # NoCall => notifier.call \in Stream
  BY DEF StreamTypeOK
<1>13. ListInOrder'
  <2>1. list.call # NoCall => stream'[list.call].filter = list.type
    BY <1>4, <1>5, <1>11 DEF ListInOrder
  <2> QED
    BY <1>1, <1>10, <1>11, <2>1 DEF ListInOrder, ListIsNewestFirst, TakenInOrder
<1>14. NotifierInOrder'
  BY <1>1, <1>10, <1>12 DEF NotifierInOrder, NotifiedOnce, TakenInOrder
<1>15. NothingMissed'
  <2> SUFFICES ASSUME setbacks = 0, list.type = "ALL", list.call # NoCall, NEW m \in Message,
                      0 < delivered_at[m], delivered_at[m] <= stream'[list.call].last
               PROVE  \/ InList(m)
                      \/ \E k \in DOMAIN response'[list.call] :
                           Holds(response'[list.call][k], m)
    BY DEF NothingMissed, InList
  <2>1. CASE list.call # c
    BY <1>4, <1>11, <2>1 DEF NothingMissed
  <2>2. CASE list.call = c /\ delivered_at[m] <= last
    <3>1. \A k \in DOMAIN response[c] : k \in DOMAIN response'[c] /\ response'[c][k] = response[c][k]
      BY <1>1, <1>3, <1>4
    <3> QED
      BY <2>2, <3>1 DEF NothingMissed, last
  <2>3. CASE list.call = c /\ delivered_at[m] > last
    <3>1. Holds(msgs, m)
      BY <1>3, <2>3 DEF ListInOrder
    <3>2. Len(response[c]) + 1 \in DOMAIN response'[c]
          /\ response'[c][Len(response[c]) + 1] = msgs
      BY <1>1, <1>3, <1>4, <2>3 DEF ListInOrder, TakenInOrder
    <3> QED
      BY <2>3, <3>1, <3>2
  <2> QED
    BY <1>1, <2>1, <2>2, <2>3 DEF last
<1>16. TimesAreUnique' /\ ListHasNoGaps'
  BY DEF TimesAreUnique, ListHasNoGaps, InList
<1> QED
  BY <1>9, <1>13, <1>14, <1>15, <1>16

-----------------------------------------------------------------------------
(* Calls begin and end.                                                    *)

\* The threads of some calls end, and nobody listens to these calls any more.
LEMMA EndStep ==
  ASSUME StreamIInv, StreamTypeOK', NEW CS \in SUBSET Stream,
         stream' = [c \in Stream |-> IF c \in CS THEN NoThread ELSE stream[c]],
         response' = [c \in Stream |-> IF c \in CS THEN <<>> ELSE response[c]],
         CloseClient(CS),
         UNCHANGED <<clock, delivered_at, shown, setbacks>>
  PROVE  StreamIInv'
<1> USE DEF StreamIInv
<1>1. ASSUME NEW c \in Stream PROVE (ResponsesInOrder(c) /\ LastIsATime(c))'
  <2>1. CASE c \in CS
    BY <2>1 DEF ResponsesInOrder, LastIsATime, NoThread
  <2>2. CASE c \notin CS
    BY <2>2 DEF ResponsesInOrder, LastIsATime
  <2> QED
    BY <2>1, <2>2
<1>2. /\ list'.type = list.type /\ list'.messages = list.messages
      /\ \/ list'.call = NoCall
         \/ list'.call = list.call /\ (list.call # NoCall => list.call \in Stream \ CS)
  BY DEF CloseClient, StreamTypeOK
<1>3. \/ notifier'.call = NoCall
      \/ /\ notifier'.call = notifier.call
         /\ notifier.call # NoCall => notifier.call \in Stream \ CS
  BY DEF CloseClient, StreamTypeOK
<1>4. \A c \in Stream \ CS : stream'[c] = stream[c] /\ response'[c] = response[c]
  OBVIOUS
<1>5. ListInOrder'
  BY <1>2, <1>4 DEF ListInOrder, ListIsNewestFirst, TakenInOrder
<1>6. NotifierInOrder'
  BY <1>2, <1>3, <1>4 DEF NotifierInOrder, NotifiedOnce, TakenInOrder
<1>7. NothingMissed'
  BY <1>2, <1>4 DEF NothingMissed, InList
<1>8. TimesAreUnique' /\ ListHasNoGaps'
  BY <1>2 DEF TimesAreUnique, ListHasNoGaps, InList
<1> QED
  BY <1>1, <1>5, <1>6, <1>7, <1>8

\* A list is mounted: its call has written nothing, and the call before it is
\* nobody's any more.
LEMMA OpenStep ==
  ASSUME StreamIInv, StreamTypeOK', NEW type \in Filter, NEW c \in Stream, OpenList(type, c)
  PROVE  StreamIInv'
<1> USE DEF StreamIInv
<1>1. /\ stream[c].pc = "free" /\ stream'[c] = Opened(type) /\ response'[c] = <<>>
      /\ list' = [type |-> type, call |-> c, messages |-> <<>>]
      /\ UNCHANGED <<clock, delivered_at, notifier, shown, setbacks>>
  BY DEF OpenList, Cancelled, StreamTypeOK, dbvars
<1>2. ASSUME NEW d \in Stream, d # c
      PROVE  \/ stream'[d] = stream[d] /\ response'[d] = response[d] /\ d # list.call
             \/ /\ d = list.call /\ response'[d] = <<>>
                /\ stream'[d].pc = stream[d].pc /\ stream'[d].last = stream[d].last
  <2>1. stream[d] \in [pc : Pc, filter : Filter, last : 0 .. MaxClock, cancelled : BOOLEAN]
    BY DEF StreamTypeOK
  <2>2. CASE d = list.call
    BY <1>2, <2>1, <2>2 DEF OpenList, Cancelled, StreamTypeOK
  <2>3. CASE d # list.call
    BY <1>2, <2>3 DEF OpenList, Cancelled, StreamTypeOK
  <2> QED
    BY <2>2, <2>3
<1>3. ASSUME NEW d \in Stream PROVE (ResponsesInOrder(d) /\ LastIsATime(d))'
  <2>1. CASE d = c
    BY <1>1, <2>1 DEF ResponsesInOrder, LastIsATime, Opened
  <2>2. CASE d # c
    BY <1>1, <1>2, <2>2 DEF ResponsesInOrder, LastIsATime
  <2> QED
    BY <2>1, <2>2
<1>4. ListInOrder'
  BY <1>1 DEF ListInOrder, ListIsNewestFirst, TakenInOrder, Within, Above, Opened
<1>5. NotifierInOrder'
  <2> SUFFICES ASSUME notifier.call # NoCall
               PROVE  TakenInOrder(notifier.call, shown)' /\ notifier.call # c
    BY <1>1 DEF NotifierInOrder, NotifiedOnce
  <2>1. notifier.call \in Stream /\ notifier.call # list.call /\ stream[notifier.call].pc # "free"
    BY DEF StreamTypeOK, NotifierInOrder, TakenInOrder
  <2>2. stream'[notifier.call] = stream[notifier.call]
        /\ response'[notifier.call] = response[notifier.call]
    BY <1>1, <1>2, <2>1
  <2> QED
    BY <1>1, <2>1, <2>2 DEF NotifierInOrder, TakenInOrder
<1>6. NothingMissed'
  <2>1. \A m \in Message : delivered_at[m] \in Int
    BY DEF StreamTypeOK
  <2> QED
    BY <1>1, <2>1 DEF NothingMissed, Opened
<1>7. TimesAreUnique' /\ ListHasNoGaps'
  BY <1>1 DEF TimesAreUnique, ListHasNoGaps, InList
<1> QED
  BY <1>3, <1>4, <1>5, <1>6, <1>7

-----------------------------------------------------------------------------
(* A client takes a response.                                              *)

\* The first response under way is newer than what its client has taken, and all
\* the others are newer than both.
LEMMA Taken ==
  ASSUME StreamIInv, NEW c \in Stream, NEW taken \in Seq(Message), TakenInOrder(c, taken),
         response[c] # <<>>
  PROVE  /\ Head(response[c]) = response[c][1] /\ 1 \in DOMAIN response[c]
         /\ response[c][1] \in Seq(Message)
         /\ Sorted(delivered_at, response[c][1])
         /\ Within(delivered_at, response[c][1], stream[c].last)
         /\ Above(delivered_at, response[c][1], taken)
         /\ \A k \in DOMAIN Tail(response[c]) :
              /\ k + 1 \in DOMAIN response[c] /\ Tail(response[c])[k] = response[c][k + 1]
              /\ Above(delivered_at, Tail(response[c])[k], response[c][1])
              /\ Above(delivered_at, Tail(response[c])[k], taken)
         /\ \A k \in DOMAIN response[c] : k # 1 =>
              k - 1 \in DOMAIN Tail(response[c]) /\ Tail(response[c])[k - 1] = response[c][k]
<1>1. response[c] \in Seq(Seq(Message))
  BY DEF StreamIInv, StreamTypeOK
<1>2. /\ 1 \in DOMAIN response[c] /\ Head(response[c]) = response[c][1]
      /\ response[c][1] \in Seq(Message)
  BY <1>1
<1>3. /\ DOMAIN response[c] = 1 .. Len(response[c]) /\ Len(response[c]) \in Nat
      /\ DOMAIN Tail(response[c]) = 1 .. Len(response[c]) - 1
      /\ \A k \in 1 .. Len(response[c]) - 1 : Tail(response[c])[k] = response[c][k + 1]
  BY <1>1
<1>4. \A k \in DOMAIN Tail(response[c]) : /\ k + 1 \in DOMAIN response[c]
                                        /\ 1 < k + 1
                                        /\ Tail(response[c])[k] = response[c][k + 1]
  BY <1>3
<1>5. ASSUME NEW k \in DOMAIN response[c], k # 1
      PROVE  k - 1 \in DOMAIN Tail(response[c]) /\ Tail(response[c])[k - 1] = response[c][k]
  <2>1. k - 1 \in 1 .. Len(response[c]) - 1 /\ (k - 1) + 1 = k
    BY <1>3, <1>5
  <2> QED
    BY <1>3, <2>1
<1>6. ResponsesInOrder(c)
  BY DEF StreamIInv
<1>7. /\ Sorted(delivered_at, response[c][1]) /\ Within(delivered_at, response[c][1], stream[c].last)
      /\ Above(delivered_at, response[c][1], taken)
  BY <1>2, <1>6 DEF ResponsesInOrder, TakenInOrder
<1>8. \A k \in DOMAIN Tail(response[c]) :
        /\ Above(delivered_at, Tail(response[c])[k], response[c][1])
        /\ Above(delivered_at, Tail(response[c])[k], taken)
  BY <1>2, <1>4, <1>6 DEF ResponsesInOrder, TakenInOrder
<1> QED
  BY <1>2, <1>4, <1>5, <1>7, <1>8, Zenon

\* Taking a response leaves the others in order.
LEMMA RestInOrder ==
  ASSUME StreamIInv, StreamTypeOK', NEW c \in Stream, response[c] # <<>>,
         response' = [response EXCEPT ![c] = Tail(@)],
         UNCHANGED <<stream, delivered_at>>, NEW d \in Stream
  PROVE  (ResponsesInOrder(d) /\ LastIsATime(d))'
<1>1. ResponsesInOrder(d) /\ LastIsATime(d)
  BY DEF StreamIInv
<1>2. CASE d # c
  BY <1>1, <1>2 DEF ResponsesInOrder, LastIsATime, StreamIInv, StreamTypeOK
<1>3. CASE d = c
  <2>1. response[c] \in Seq(Seq(Message)) /\ response'[c] = Tail(response[c])
    BY DEF StreamIInv, StreamTypeOK
  <2>2. \A k \in DOMAIN Tail(response[c]) : /\ k + 1 \in DOMAIN response[c] /\ k \in Int
                                          /\ Tail(response[c])[k] = response[c][k + 1]
    BY <2>1
  <2>3. response[c] # <<>>
    OBVIOUS
  <2>4. UNCHANGED <<stream, delivered_at>>
    OBVIOUS
  <2>5. ResponsesInOrder(c) /\ LastIsATime(c)
    BY <1>1, <1>3
  <2>6. LastIsATime(c)'
    BY ONLY <2>4, <2>5 DEF LastIsATime
  <2>7. ResponsesInOrder(c)'
    <3> DEFINE rest == Tail(response[c])
    <3>1. stream[c].pc \notin {"free", "opened"} /\ ~ stream[c].cancelled
      BY <2>3, <2>5 DEF ResponsesInOrder
    <3>2. \A k \in DOMAIN rest : /\ Sorted(delivered_at, rest[k])
                                 /\ Within(delivered_at, rest[k], stream[c].last)
      BY <2>2, <2>5 DEF ResponsesInOrder
    <3>3. ASSUME NEW k \in DOMAIN rest, NEW l \in DOMAIN rest, k < l
          PROVE  Above(delivered_at, rest[l], rest[k])
      <4>1. /\ k + 1 \in DOMAIN response[c] /\ l + 1 \in DOMAIN response[c] /\ k + 1 < l + 1
            /\ rest[k] = response[c][k + 1] /\ rest[l] = response[c][l + 1]
        BY <2>2, <3>3
      <4> QED
        BY ONLY <4>1, <2>5 DEF ResponsesInOrder
    <3> HIDE DEF rest
    <3>4. response'[c] = rest
      BY <2>1 DEF rest
    <3> QED
      BY ONLY <2>4, <3>1, <3>2, <3>3, <3>4 DEF ResponsesInOrder
  <2> QED
    BY <1>3, <2>6, <2>7
<1> QED
  BY <1>2, <1>3

\* Where the messages of two sequences are in the one made of both.
LEMMA Joined ==
  ASSUME NEW T, NEW s \in Seq(T), NEW r \in Seq(T)
  PROVE  /\ s \o r \in Seq(T) /\ Len(s) \in Nat /\ Len(r) \in Nat
         /\ DOMAIN s = 1 .. Len(s) /\ DOMAIN r = 1 .. Len(r)
         /\ DOMAIN (s \o r) = 1 .. Len(s) + Len(r)
         /\ \A i \in DOMAIN s : i \in DOMAIN (s \o r) /\ (s \o r)[i] = s[i]
         /\ \A i \in DOMAIN (s \o r) : i > Len(s) => (s \o r)[i] = r[i - Len(s)]
         /\ \A i \in DOMAIN r : i + Len(s) \in DOMAIN (s \o r) /\ (s \o r)[i + Len(s)] = r[i]
<1>1. /\ s \o r \in Seq(T) /\ Len(s) \in Nat /\ Len(r) \in Nat
      /\ DOMAIN s = 1 .. Len(s) /\ DOMAIN r = 1 .. Len(r)
      /\ Len(s \o r) = Len(s) + Len(r) /\ DOMAIN (s \o r) = 1 .. Len(s) + Len(r)
  OBVIOUS
<1>2. \A i \in 1 .. Len(s) + Len(r) :
        (s \o r)[i] = IF i <= Len(s) THEN s[i] ELSE r[i - Len(s)]
  BY ConcatProperties
<1>3. \A i \in DOMAIN s : i \in DOMAIN (s \o r) /\ (s \o r)[i] = s[i]
  BY <1>1, <1>2
<1>4. \A i \in DOMAIN (s \o r) : i > Len(s) => (s \o r)[i] = r[i - Len(s)]
  BY <1>1, <1>2
<1>5. \A i \in DOMAIN r : i + Len(s) \in DOMAIN (s \o r) /\ (s \o r)[i + Len(s)] = r[i]
  <2> SUFFICES ASSUME NEW i \in DOMAIN r
               PROVE  i + Len(s) \in DOMAIN (s \o r) /\ (s \o r)[i + Len(s)] = r[i]
    OBVIOUS
  <2>1. i \in 1 .. Len(r) /\ i + Len(s) \in 1 .. Len(s) + Len(r) /\ ~ (i + Len(s) <= Len(s))
        /\ (i + Len(s)) - Len(s) = i
    BY <1>1
  <2> QED
    BY <1>1, <1>2, <2>1
<1> QED
  BY <1>1, <1>3, <1>4, <1>5

\* The list puts a response on top of what it shows.
LEMMA ListStep ==
  ASSUME StreamIInv, StreamTypeOK', ListData
  PROVE  StreamIInv'
<1> USE DEF StreamIInv
<1> DEFINE c == list.call
           old == list.messages
           msgs == response[c][1]
<1>1. /\ c \in Stream /\ c # NoCall /\ response[c] # <<>>
      /\ list'.type = list.type /\ list'.call = c /\ list'.messages = Head(response[c]) \o old
      /\ response' = [response EXCEPT ![c] = Tail(@)] /\ response'[c] = Tail(response[c])
      /\ UNCHANGED <<clock, delivered_at, stream, notifier, shown, setbacks>>
  BY StreamAssumption DEF ListData, Merge, StreamTypeOK, dbvars
<1>2. /\ old \in Seq(Message) /\ TakenInOrder(c, old) /\ delivered_at \in [Message -> Nat]
      /\ stream[c].last \in 0 .. MaxClock
  <2>1. /\ old \in Seq(Message) /\ delivered_at \in [Message -> 0 .. MaxClock]
        /\ stream[c] \in [pc : Pc, filter : Filter, last : 0 .. MaxClock, cancelled : BOOLEAN]
    BY <1>1 DEF StreamTypeOK
  <2>2. 0 .. MaxClock \subseteq Nat
    BY StreamAssumption
  <2>3. delivered_at \in [Message -> Nat]
    BY ONLY <2>1, <2>2
  <2>4. TakenInOrder(c, old)
    BY <1>1 DEF ListInOrder
  <2> QED
    BY <2>1, <2>3, <2>4
<1>3. /\ Head(response[c]) = msgs /\ 1 \in DOMAIN response[c] /\ msgs \in Seq(Message)
      /\ Sorted(delivered_at, msgs) /\ Within(delivered_at, msgs, stream[c].last)
      /\ Above(delivered_at, msgs, old)
      /\ \A k \in DOMAIN Tail(response[c]) :
           /\ k + 1 \in DOMAIN response[c] /\ Tail(response[c])[k] = response[c][k + 1]
           /\ Above(delivered_at, Tail(response[c])[k], msgs)
           /\ Above(delivered_at, Tail(response[c])[k], old)
      /\ \A k \in DOMAIN response[c] : k # 1 =>
           k - 1 \in DOMAIN Tail(response[c]) /\ Tail(response[c])[k - 1] = response[c][k]
  BY <1>1, <1>2, Taken
<1> HIDE DEF c, old, msgs
<1> DEFINE new == msgs \o old
<1>4. /\ new \in Seq(Message) /\ DOMAIN msgs = 1 .. Len(msgs) /\ DOMAIN old = 1 .. Len(old)
      /\ Len(msgs) \in Nat /\ Len(old) \in Nat /\ DOMAIN new = 1 .. Len(msgs) + Len(old)
      /\ \A i \in DOMAIN msgs : i \in DOMAIN new /\ new[i] = msgs[i]
      /\ \A i \in DOMAIN new : i > Len(msgs) => new[i] = old[i - Len(msgs)]
      /\ \A i \in DOMAIN old : i + Len(msgs) \in DOMAIN new /\ new[i + Len(msgs)] = old[i]
  BY <1>2, <1>3, Joined
<1> HIDE DEF new
<1>5. \A i \in DOMAIN new : \/ i \in DOMAIN msgs /\ new[i] = msgs[i]
                            \/ /\ i > Len(msgs) /\ i - Len(msgs) \in DOMAIN old
                               /\ new[i] = old[i - Len(msgs)]
  BY <1>4
<1>6. ASSUME NEW d \in Stream PROVE (ResponsesInOrder(d) /\ LastIsATime(d))'
  BY <1>1, RestInOrder
<1>7. Sorted(delivered_at, new)
  <2> SUFFICES ASSUME NEW i \in DOMAIN new, NEW j \in DOMAIN new, i < j
               PROVE  delivered_at[new[i]] > delivered_at[new[j]]
    BY DEF Sorted
  <2>1. CASE i \in DOMAIN msgs /\ j \in DOMAIN msgs
    BY <1>3, <1>4, <2>1 DEF Sorted
  <2>2. CASE i \in DOMAIN msgs /\ j > Len(msgs) /\ j - Len(msgs) \in DOMAIN old
    BY <1>3, <1>4, <2>2 DEF Above
  <2>3. CASE i > Len(msgs) /\ j > Len(msgs)
    <3>1. /\ i - Len(msgs) \in DOMAIN old /\ j - Len(msgs) \in DOMAIN old
          /\ i - Len(msgs) < j - Len(msgs)
      BY <1>4, <2>3
    <3>2. Sorted(delivered_at, old)
      BY DEF ListInOrder, ListIsNewestFirst, Sorted, old
    <3> QED
      BY <1>4, <2>3, <3>1, <3>2 DEF Sorted
  <2> QED
    BY <1>4, <1>5, <2>1, <2>2, <2>3
<1>8. Within(delivered_at, new, stream[c].last)
  BY <1>2, <1>3, <1>5 DEF TakenInOrder, Within
<1>9. Within(delivered_at, new, MaxClock)
  <2>1. \A i \in DOMAIN new : new[i] \in Message
    BY <1>4
  <2> QED
    BY <1>2, <1>8, <2>1, StreamAssumption DEF Within
<1>10. \A k \in DOMAIN Tail(response[c]) : Above(delivered_at, Tail(response[c])[k], new)
  BY <1>3, <1>5 DEF Above
<1>11. list'.messages = new
  BY <1>1, <1>3 DEF new, msgs, old
<1>12. ListInOrder'
  <2>1. ListIsNewestFirst'
    BY <1>1, <1>7, <1>11 DEF ListIsNewestFirst, Sorted
  <2> QED
    BY <1>1, <1>2, <1>8, <1>9, <1>10, <1>11, <2>1 DEF ListInOrder, TakenInOrder, c
<1>13. NotifierInOrder'
  <2> SUFFICES ASSUME notifier.call # NoCall
               PROVE  TakenInOrder(notifier.call, shown)' /\ notifier.call # list'.call
    BY <1>1 DEF NotifierInOrder, NotifiedOnce
  <2>1. notifier.call \in Stream /\ notifier.call # c
    BY DEF StreamTypeOK, NotifierInOrder, c
  <2>2. response'[notifier.call] = response[notifier.call]
    BY <1>1, <2>1 DEF StreamTypeOK
  <2> QED
    BY <1>1, <2>1, <2>2 DEF NotifierInOrder, TakenInOrder
<1>14. \A m : Holds(new, m) <=> Holds(msgs, m) \/ Holds(old, m)
  BY <1>4, <1>5 DEF Holds
<1>15. \A m : (InList(m) <=> Holds(old, m)) /\ (InList(m)' <=> Holds(new, m))
  BY <1>11 DEF InList, Holds, old
<1>16. NothingMissed'
  <2> SUFFICES ASSUME setbacks = 0, list.type = "ALL", NEW m \in Message,
                      0 < delivered_at[m], delivered_at[m] <= stream[c].last, ~ Holds(new, m)
               PROVE  \E k \in DOMAIN Tail(response[c]) : Holds(Tail(response[c])[k], m)
    BY <1>1, <1>15 DEF NothingMissed
  <2>1. PICK k \in DOMAIN response[c] : Holds(response[c][k], m)
    BY <1>1, <1>14, <1>15 DEF NothingMissed, c
  <2>2. k # 1
    BY <1>14, <2>1 DEF msgs
  <2> QED
    BY <1>3, <2>1, <2>2
<1>17. ListHasNoGaps'
  <2> SUFFICES ASSUME setbacks = 0, list.type = "ALL", NEW m \in Message, NEW n \in Message,
                      Holds(new, m), 0 < delivered_at[n], delivered_at[n] < delivered_at[m]
               PROVE  Holds(new, n)
    BY <1>1, <1>15 DEF ListHasNoGaps
  <2>1. delivered_at[n] <= stream[c].last
    BY <1>2, <1>8 DEF Holds, Within
  <2>2. CASE Holds(old, n)
    BY <1>14, <2>2
  <2>3. ASSUME NEW k \in DOMAIN response[c], Holds(response[c][k], n) PROVE Holds(new, n)
    <3>1. CASE k = 1
      BY <1>14, <2>3, <3>1 DEF msgs
    <3>2. ASSUME k # 1 PROVE FALSE
      <4>1. Above(delivered_at, response[c][k], new)
        BY <1>3, <1>10, <3>2
      <4> QED
        BY <1>2, <2>3, <4>1 DEF Above, Holds
    <3> QED
      BY <3>1, <3>2
  <2> QED
    BY <1>1, <1>15, <2>1, <2>2, <2>3 DEF NothingMissed, c
<1>18. TimesAreUnique'
  BY <1>1 DEF TimesAreUnique
<1> QED
  BY <1>6, <1>12, <1>13, <1>16, <1>17, <1>18

\* The notifications show a response after all that they have shown before.
LEMMA NotifierStep ==
  ASSUME StreamIInv, StreamTypeOK', NotifierData
  PROVE  StreamIInv'
<1> USE DEF StreamIInv
<1> DEFINE c == notifier.call
           old == shown
           msgs == response[c][1]
<1>1. /\ c \in Stream /\ c # NoCall /\ response[c] # <<>>
      /\ notifier'.call = c /\ shown' = shown \o Notified(Head(response[c]))
      /\ response' = [response EXCEPT ![c] = Tail(@)] /\ response'[c] = Tail(response[c])
      /\ UNCHANGED <<clock, delivered_at, stream, list, setbacks>>
  BY StreamAssumption DEF NotifierData, StreamTypeOK, dbvars
<1>2. /\ old \in Seq(Message) /\ TakenInOrder(c, old) /\ delivered_at \in [Message -> Nat]
      /\ stream[c].last \in 0 .. MaxClock
  <2>1. /\ old \in Seq(Message) /\ delivered_at \in [Message -> 0 .. MaxClock]
        /\ stream[c] \in [pc : Pc, filter : Filter, last : 0 .. MaxClock, cancelled : BOOLEAN]
    BY <1>1 DEF StreamTypeOK
  <2>2. 0 .. MaxClock \subseteq Nat
    BY StreamAssumption
  <2>3. delivered_at \in [Message -> Nat]
    BY ONLY <2>1, <2>2
  <2>4. TakenInOrder(c, old)
    BY <1>1 DEF NotifierInOrder
  <2> QED
    BY <2>1, <2>3, <2>4
<1>3. /\ Head(response[c]) = msgs /\ 1 \in DOMAIN response[c] /\ msgs \in Seq(Message)
      /\ Sorted(delivered_at, msgs) /\ Within(delivered_at, msgs, stream[c].last)
      /\ Above(delivered_at, msgs, old)
      /\ \A k \in DOMAIN Tail(response[c]) :
           /\ Above(delivered_at, Tail(response[c])[k], msgs)
           /\ Above(delivered_at, Tail(response[c])[k], old)
  BY <1>1, <1>2, Taken
<1> HIDE DEF c, old, msgs
<1> DEFINE new == old \o msgs
<1>4. /\ new \in Seq(Message) /\ DOMAIN msgs = 1 .. Len(msgs) /\ DOMAIN old = 1 .. Len(old)
      /\ Len(msgs) \in Nat /\ Len(old) \in Nat /\ DOMAIN new = 1 .. Len(old) + Len(msgs)
      /\ \A i \in DOMAIN old : new[i] = old[i]
      /\ \A i \in DOMAIN new : i > Len(old) => new[i] = msgs[i - Len(old)]
  BY <1>2, <1>3, Joined
<1> HIDE DEF new
<1>5. \A i \in DOMAIN new : \/ i \in DOMAIN old /\ new[i] = old[i]
                            \/ /\ i > Len(old) /\ i - Len(old) \in DOMAIN msgs
                               /\ new[i] = msgs[i - Len(old)]
  BY <1>4
<1>6. ASSUME NEW d \in Stream PROVE (ResponsesInOrder(d) /\ LastIsATime(d))'
  BY <1>1, RestInOrder
<1>7. ASSUME NEW i \in DOMAIN new, NEW j \in DOMAIN new, i < j
      PROVE  new[i] # new[j]
  <2>1. CASE j \in DOMAIN old
    <3>1. i \in DOMAIN old /\ new[i] = shown[i] /\ new[j] = shown[j]
      BY <1>4, <1>7, <2>1 DEF old
    <3> QED
      BY <1>4, <1>7, <2>1, <3>1 DEF NotifierInOrder, NotifiedOnce, old
  <2>2. CASE i \in DOMAIN old /\ j > Len(old) /\ j - Len(old) \in DOMAIN msgs
    <3>1. delivered_at[new[j]] > delivered_at[new[i]]
      BY <1>3, <1>4, <2>2 DEF Above
    <3> QED
      BY <1>2, <1>4, <3>1
  <2>3. CASE i > Len(old) /\ j > Len(old)
    <3>1. /\ i - Len(old) \in DOMAIN msgs /\ j - Len(old) \in DOMAIN msgs
          /\ i - Len(old) < j - Len(old)
      BY <1>4, <1>7, <2>3
    <3>2. delivered_at[new[i]] > delivered_at[new[j]]
      BY <1>3, <1>4, <2>3, <3>1 DEF Sorted
    <3> QED
      BY <1>2, <1>4, <3>2
  <2> QED
    BY <1>4, <1>5, <1>7, <2>1, <2>2, <2>3
<1>8. \A i, j \in DOMAIN new : new[i] = new[j] => i = j
  BY <1>4, <1>7
<1>9. Within(delivered_at, new, stream[c].last)
  BY <1>2, <1>3, <1>5 DEF TakenInOrder, Within
<1>10. Within(delivered_at, new, MaxClock)
  <2>1. \A i \in DOMAIN new : new[i] \in Message
    BY <1>4
  <2> QED
    BY <1>2, <1>9, <2>1, StreamAssumption DEF Within
<1>11. \A k \in DOMAIN Tail(response[c]) : Above(delivered_at, Tail(response[c])[k], new)
  BY <1>3, <1>5 DEF Above
<1>12. shown' = new \/ shown' = old
  <2>1. shown' = old \o <<>> \/ shown' = old \o msgs
    BY <1>1, <1>3 DEF Notified, old
  <2>2. old \o <<>> = old
    BY <1>2
  <2> QED
    BY <2>1, <2>2 DEF new
<1>13. NotifierInOrder'
  <2>1. c # list.call
    BY <1>1 DEF NotifierInOrder, c
  <2>2. CASE shown' = new
    BY <1>1, <1>2, <1>8, <1>9, <1>10, <1>11, <2>1, <2>2
       DEF NotifierInOrder, NotifiedOnce, TakenInOrder
  <2>3. CASE shown' = old
    <3>1. \A k \in DOMAIN Tail(response[c]) : Above(delivered_at, Tail(response[c])[k], old)
      BY <1>3
    <3> QED
      BY <1>1, <1>2, <2>1, <2>3, <3>1 DEF NotifierInOrder, NotifiedOnce, TakenInOrder, old
  <2> QED
    BY <1>12, <2>2, <2>3
<1>14. list.call # NoCall =>
         list.call \in Stream /\ list.call # c /\ response'[list.call] = response[list.call]
  BY <1>1 DEF StreamTypeOK, NotifierInOrder, c
<1>15. ListInOrder'
  BY <1>1, <1>14 DEF ListInOrder, ListIsNewestFirst, TakenInOrder
<1>16. NothingMissed'
  BY <1>1, <1>14 DEF NothingMissed, InList
<1>17. TimesAreUnique' /\ ListHasNoGaps'
  BY <1>1 DEF TimesAreUnique, ListHasNoGaps, InList
<1> QED
  BY <1>6, <1>13, <1>15, <1>16, <1>17

-----------------------------------------------------------------------------
(* The types, and the theorem.                                             *)

LEMMA StreamTypeStep ==
  ASSUME StreamIInv, [StreamNext]_streamVars
  PROVE  StreamTypeOK'
<1> USE StreamAssumption DEF Filter, Pc
<1> DEFINE Thread == [pc : Pc, filter : Filter, last : 0 .. MaxClock, cancelled : BOOLEAN]
           Db == /\ clock \in 1 .. MaxClock /\ userRegistered \in BOOLEAN
                 /\ delivered_at \in [Message -> 0 .. MaxClock] /\ seen \subseteq Message
                 /\ notifying \in BOOLEAN
                 /\ setbacks \in 0 .. MaxSetBack /\ stops \in 0 .. MaxStops
           Threads == stream \in [Stream -> Thread]
           Responses == /\ response \in [Stream -> Seq(Seq(Message))]
                        /\ \A c \in Stream : Len(response[c]) <= MaxResponses
           Clients ==
             /\ list \in [type : Filter, call : Stream \cup {NoCall}, messages : Seq(Message)]
             /\ notifier \in [call : Stream \cup {NoCall}, firstTime : BOOLEAN]
             /\ shown \in Seq(Message)
           dbAlone == <<clock, userRegistered, delivered_at, seen, notifying, setbacks, stops>>
           clientsAlone == <<list, notifier, shown>>
<1>1. Db /\ Threads /\ Responses /\ Clients
  BY DEF StreamIInv, StreamTypeOK
<1>2. /\ UNCHANGED dbAlone => Db'
      /\ UNCHANGED stream => Threads'
      /\ UNCHANGED response => Responses'
      /\ UNCHANGED clientsAlone => Clients'
  BY <1>1
<1>3. Db' /\ Threads' /\ Responses' /\ Clients' => StreamTypeOK'
  BY DEF StreamTypeOK
<1> HIDE DEF Thread, Db, Threads, Responses, Clients, dbAlone, clientsAlone
<1>4. ASSUME NEW c \in Stream, NEW last \in 0 .. MaxClock
      PROVE  /\ ReceivedMessages(stream[c].filter, last) \in Seq(Message)
             /\ LaterOf(last, ReceivedMessages(stream[c].filter, last)) \in 0 .. MaxClock
  <2>1. StreamTypeOK /\ TimesAreUnique /\ stream[c].filter \in Filter
    BY <1>1 DEF StreamIInv, Threads, Thread
  <2>2. /\ ReceivedMessages(stream[c].filter, last) \in Seq(Message)
        /\ LaterOf(last, ReceivedMessages(stream[c].filter, last)) \in last .. MaxClock
    BY <2>1, Received
  <2> QED
    BY <2>2
<1>5. ASSUME NEW c \in Stream, NEW msgs \in Seq(Message), Write(c, msgs) PROVE Responses'
  <2>1. CASE stream[c].cancelled
    BY <1>1, <1>5, <2>1 DEF Write, Responses
  <2>2. CASE ~ stream[c].cancelled
    <3>1. response' = [response EXCEPT ![c] = Append(response[c], msgs)]
          /\ Len(response[c]) < MaxResponses
      BY <1>5, <2>2 DEF Write
    <3>2. Append(response[c], msgs) \in Seq(Seq(Message))
          /\ Len(Append(response[c], msgs)) <= MaxResponses
      BY <1>1, <1>5, <3>1 DEF Responses
    <3> QED
      BY <1>1, <3>1, <3>2 DEF Responses
  <2> QED
    BY <2>1, <2>2
<1>6. ASSUME NEW c \in Stream, response[c] # <<>>, response' = [response EXCEPT ![c] = Tail(@)]
      PROVE  Responses' /\ Head(response[c]) \in Seq(Message)
  <2>1. /\ Tail(response[c]) \in Seq(Seq(Message)) /\ Len(Tail(response[c])) <= Len(response[c])
        /\ Head(response[c]) \in Seq(Message) /\ Len(response[c]) \in Nat
        /\ Len(response[c]) <= MaxResponses
    BY <1>1, <1>6 DEF Responses
  <2> QED
    BY <1>1, <1>6, <2>1 DEF Responses
<1>7. \A c \in Stream, th \in Thread : stream' = [stream EXCEPT ![c] = th] => Threads'
  BY <1>1 DEF Threads
<1>8. ASSUME NEW m \in Message, ReceiveMessage(m) \/ ReceiveInvitationText(m) \/ MessageSeen(m)
      PROVE  StreamTypeOK'
  <2>1. UNCHANGED <<clock, userRegistered, stream, response, list, notifier, shown, setbacks, stops>>
    BY <1>8 DEF ReceiveMessage, ReceiveInvitationText, MessageSeen, guivars
  <2>2. notifying' \in BOOLEAN /\ seen' \subseteq Message
    BY <1>1, <1>8 DEF ReceiveMessage, ReceiveInvitationText, MessageSeen, Db
  <2>3. delivered_at' = [delivered_at EXCEPT ![m] = clock] \/ delivered_at' = delivered_at
    BY <1>8 DEF ReceiveMessage, ReceiveInvitationText, MessageSeen, MadeVisible
  <2>4. delivered_at' \in [Message -> 0 .. MaxClock]
    BY <1>1, <2>3 DEF Db
  <2>5. Db'
    BY <1>1, <2>1, <2>2, <2>4 DEF Db
  <2> QED
    BY <1>2, <1>3, <2>1, <2>5 DEF clientsAlone
<1>9. ASSUME NEW c \in Stream, FirstResponse(c) \/ NextResponse(c) PROVE StreamTypeOK'
  <2>1. \E last \in 0 .. MaxClock :
          /\ Write(c, ReceivedMessages(stream[c].filter, last))
          /\ stream' = [stream EXCEPT ![c] =
                [stream[c] EXCEPT !.pc = "top",
                   !.last = LaterOf(last, ReceivedMessages(stream[c].filter, last))]]
    <3>1. stream \in [Stream -> Thread] /\ stream[c].last \in 0 .. MaxClock /\ 0 \in 0 .. MaxClock
      BY <1>1 DEF Threads, Thread
    <3>2. CASE FirstResponse(c)
      <4>1. /\ Write(c, ReceivedMessages(stream[c].filter, 0))
            /\ stream' = [stream EXCEPT ![c] =
                 [stream[c] EXCEPT !.pc = "top",
                    !.last = LaterOf(0, ReceivedMessages(stream[c].filter, 0))]]
        BY <3>1, <3>2 DEF FirstResponse
      <4> QED
        BY <3>1, <4>1
    <3>3. CASE NextResponse(c)
      <4>1. /\ Write(c, ReceivedMessages(stream[c].filter, stream[c].last))
            /\ stream' = [stream EXCEPT ![c] =
                 [stream[c] EXCEPT !.pc = "top",
                    !.last = LaterOf(stream[c].last,
                                     ReceivedMessages(stream[c].filter, stream[c].last))]]
        BY <3>1, <3>3 DEF NextResponse
      <4> QED
        BY <3>1, <4>1
    <3> QED
      BY <1>9, <3>2, <3>3
  <2>2. PICK last \in 0 .. MaxClock :
          /\ Write(c, ReceivedMessages(stream[c].filter, last))
          /\ stream' = [stream EXCEPT ![c] =
                [stream[c] EXCEPT !.pc = "top",
                   !.last = LaterOf(last, ReceivedMessages(stream[c].filter, last))]]
    BY <2>1
  <2>3. Responses'
    BY <1>4, <1>5, <2>2
  <2>4. [stream[c] EXCEPT !.pc = "top",
           !.last = LaterOf(last, ReceivedMessages(stream[c].filter, last))] \in Thread
    BY <1>1, <1>4 DEF Threads, Thread
  <2>5. Threads'
    BY <1>7, <2>2, <2>4
  <2>6. UNCHANGED dbAlone /\ UNCHANGED clientsAlone
    BY <1>9 DEF FirstResponse, NextResponse, dbvars, guivars, dbAlone, clientsAlone
  <2> QED
    BY <1>2, <1>3, <2>3, <2>5, <2>6
<1>10. \A cs : CloseClient(cs) /\ UNCHANGED shown => Clients'
  <2> SUFFICES ASSUME NEW cs, CloseClient(cs), UNCHANGED shown PROVE Clients'
    OBVIOUS
  <2>1. list' = [list EXCEPT !.call = NoCall] \/ list' = list
    BY DEF CloseClient
  <2>2. notifier' = [notifier EXCEPT !.call = NoCall] \/ notifier' = notifier
    BY DEF CloseClient
  <2> QED
    BY <1>1, <2>1, <2>2 DEF Clients
<1>11. ASSUME NEW c \in Stream, WaitForNew(c) \/ Wake(c) \/ AnHourPasses(c) \/ Refuse(c)
       PROVE  StreamTypeOK'
  <2>1. /\ NoThread \in Thread
        /\ \A pc \in Pc : [stream[c] EXCEPT !.pc = pc] \in Thread
    BY <1>1 DEF NoThread, Threads, Thread
  <2>2. \/ stream' = [stream EXCEPT ![c] = NoThread]
        \/ \E pc \in Pc : stream' = [stream EXCEPT ![c] = [stream[c] EXCEPT !.pc = pc]]
    BY <1>11 DEF WaitForNew, Wake, AnHourPasses, Refuse
  <2>3. Threads'
    BY <1>7, <2>1, <2>2
  <2>4. UNCHANGED dbAlone /\ UNCHANGED response
    BY <1>11 DEF WaitForNew, Wake, AnHourPasses, Refuse, dbvars, dbAlone
  <2>5. UNCHANGED clientsAlone \/ (CloseClient({c}) /\ UNCHANGED shown)
    BY <1>11 DEF WaitForNew, Wake, AnHourPasses, Refuse, guivars, clientsAlone
  <2> QED
    BY <1>2, <1>3, <1>10, <2>3, <2>4, <2>5
<1>12. ASSUME NEW type \in Filter, NEW c \in Stream, OpenList(type, c) PROVE StreamTypeOK'
  <2>1. Cancelled(list.call, stream) \in [Stream -> Thread]
    <3>1. ASSUME NEW d \in Stream PROVE [stream[d] EXCEPT !.cancelled = TRUE] \in Thread
      BY <1>1 DEF Threads, Thread
    <3>2. ASSUME NEW d \in Stream
          PROVE  [stream EXCEPT ![d].cancelled = TRUE]
                   = [stream EXCEPT ![d] = [stream[d] EXCEPT !.cancelled = TRUE]]
      BY <1>1 DEF Threads
    <3> QED
      BY <1>1, <3>1, <3>2 DEF Cancelled, Threads
  <2>2. Opened(type) \in Thread
    BY <1>12 DEF Opened, Thread
  <2>3. Threads'
    BY <1>12, <2>1, <2>2 DEF OpenList, Threads
  <2>4. Responses'
    BY <1>1, <1>12 DEF OpenList, Responses
  <2>5. Clients'
    BY <1>1, <1>12 DEF OpenList, Clients
  <2>6. UNCHANGED dbAlone
    BY <1>12 DEF OpenList, dbvars, dbAlone
  <2> QED
    BY <1>2, <1>3, <2>3, <2>4, <2>5, <2>6
<1>13. CASE NotifyAll
  <2>1. Threads'
    BY <1>1, <1>13 DEF NotifyAll, Threads, Thread
  <2>2. Db'
    BY <1>1, <1>13 DEF NotifyAll, dbvars, Db
  <2> QED
    BY <1>2, <1>3, <1>13, <2>1, <2>2 DEF NotifyAll, guivars, clientsAlone
<1>14. CASE ClockTicks \/ SetBack \/ UserRegisters
  <2>1. Db'
    <3>1. CASE ClockTicks
      BY <1>1, <3>1 DEF ClockTicks, dbvars, Db
    <3>2. CASE SetBack
      BY <1>1, <3>2 DEF SetBack, dbvars, Db
    <3>3. CASE UserRegisters
      BY <1>1, <3>3 DEF UserRegisters, Db
    <3> QED
      BY <1>14, <3>1, <3>2, <3>3
  <2> QED
    BY <1>2, <1>3, <1>14, <2>1 DEF ClockTicks, SetBack, UserRegisters, guivars, clientsAlone
<1>15. CASE DaemonStops
  <2>1. Threads' /\ Responses'
    BY <1>15 DEF DaemonStops, NoThread, Threads, Thread, Responses
  <2>2. Db'
    <3>1. UNCHANGED <<clock, dbvars, setbacks>> /\ notifying' = FALSE
      BY <1>15 DEF DaemonStops
    <3>2. stops' \in 0 .. MaxStops
      BY <1>1, <1>15 DEF DaemonStops, Db
    <3> QED
      BY <1>1, <3>1, <3>2 DEF dbvars, Db
  <2> QED
    BY <1>3, <1>10, <1>15, <2>1, <2>2 DEF DaemonStops
<1>16. CASE ListData
  <2>1. list.call \in Stream /\ Responses' /\ Head(response[list.call]) \in Seq(Message)
    BY <1>6, <1>16 DEF ListData
  <2>2. Head(response[list.call]) \o list.messages \in Seq(Message)
    BY <1>1, <2>1 DEF Clients
  <2>3. list' = [list EXCEPT !.messages = Head(response[list.call]) \o list.messages]
    BY <1>16 DEF ListData, Merge
  <2>4. Clients'
    BY <1>1, <1>16, <2>2, <2>3 DEF ListData, Clients
  <2> QED
    BY <1>2, <1>3, <1>16, <2>1, <2>4 DEF ListData, dbvars, dbAlone
<1>17. CASE NotifierData
  <2>1. notifier.call \in Stream /\ Responses' /\ Head(response[notifier.call]) \in Seq(Message)
    BY <1>6, <1>17 DEF NotifierData
  <2>2. shown \o Notified(Head(response[notifier.call])) \in Seq(Message)
    BY <1>1, <2>1 DEF Clients, Notified
  <2>3. notifier' = [notifier EXCEPT !.firstTime = FALSE]
        /\ shown' = shown \o Notified(Head(response[notifier.call]))
    BY <1>17 DEF NotifierData
  <2>4. Clients'
    BY <1>1, <1>17, <2>2, <2>3 DEF NotifierData, Clients
  <2> QED
    BY <1>2, <1>3, <1>17, <2>1, <2>4 DEF NotifierData, dbvars, dbAlone
<1>18. CASE UNCHANGED streamVars
  BY <1>2, <1>3, <1>18 DEF streamVars, dbvars, guivars, dbAlone, clientsAlone
<1> QED
  BY <1>8, <1>9, <1>11, <1>12, <1>13, <1>14, <1>15, <1>16, <1>17, <1>18
     DEF StreamNext, HandlerStep, Runnable, Client

LEMMA StreamInitIInv == StreamInit => StreamIInv
<1> SUFFICES ASSUME StreamInit PROVE StreamIInv
  OBVIOUS
<1> USE StreamAssumption DEF StreamInit
<1>1. /\ clock = 1 /\ delivered_at = [m \in Message |-> 0] /\ shown = <<>> /\ setbacks = 0
      /\ list = [type |-> "NEW", call |-> NoCall, messages |-> <<>>]
      /\ response = [c \in Stream |-> <<>>]
  OBVIOUS
<1>2. \E first \in Stream :
        \/ /\ stream = [c \in Stream |-> IF c = first THEN Opened("NEW") ELSE NoThread]
           /\ notifier = [call |-> first, firstTime |-> TRUE]
        \/ /\ stream = [c \in Stream |-> NoThread]
           /\ notifier = [call |-> NoCall, firstTime |-> TRUE]
  BY Zenon DEF RegisterForNotifications
<1>3. StreamTypeOK
  <2>1. stream \in [Stream -> [pc : Pc, filter : Filter, last : 0 .. MaxClock, cancelled : BOOLEAN]]
    <3>1. /\ Opened("NEW") \in [pc : Pc, filter : Filter, last : 0 .. MaxClock, cancelled : BOOLEAN]
          /\ NoThread \in [pc : Pc, filter : Filter, last : 0 .. MaxClock, cancelled : BOOLEAN]
      BY DEF Filter, Pc, Opened, NoThread
    <3> HIDE DEF StreamInit
    <3> QED
      BY <1>2, <3>1
  <2>2. notifier \in [call : Stream \cup {NoCall}, firstTime : BOOLEAN]
    <3>1. \E call \in Stream \cup {NoCall} : notifier = [call |-> call, firstTime |-> TRUE]
      BY <1>2
    <3> HIDE DEF StreamInit
    <3> QED
      BY <3>1
  <2>3. list \in [type : Filter, call : Stream \cup {NoCall}, messages : Seq(Message)]
    BY <1>1 DEF Filter
  <2>4. response \in [Stream -> Seq(Seq(Message))]
        /\ \A c \in Stream : Len(response[c]) <= MaxResponses
    BY <1>1
  <2>5. /\ seen = {} /\ notifying = FALSE /\ stops = 0 /\ userRegistered = Registered0
        /\ delivered_at \in [Message -> 0 .. MaxClock] /\ clock \in 1 .. MaxClock
        /\ setbacks \in 0 .. MaxSetBack /\ stops \in 0 .. MaxStops /\ shown \in Seq(Message)
    BY <1>1
  <2> HIDE DEF StreamInit
  <2> QED
    BY <1>1, <2>1, <2>2, <2>3, <2>4, <2>5 DEF StreamTypeOK
<1>4. TimesAreUnique
  BY <1>1 DEF TimesAreUnique
<1>5. \A c \in Stream : ResponsesInOrder(c) /\ LastIsATime(c)
  BY <1>1, <1>2 DEF ResponsesInOrder, LastIsATime, Opened, NoThread
<1>6. ListInOrder
  BY <1>1 DEF ListInOrder, ListIsNewestFirst, Within
<1>7. NotifierInOrder
  BY <1>1, <1>2 DEF NotifierInOrder, NotifiedOnce, TakenInOrder, Within, Above, Opened
<1>8. NothingMissed /\ ListHasNoGaps
  BY <1>1 DEF NothingMissed, ListHasNoGaps
<1> QED
  BY <1>3, <1>4, <1>5, <1>6, <1>7, <1>8 DEF StreamIInv

LEMMA StreamInductive == StreamIInv /\ [StreamNext]_streamVars => StreamIInv'
<1> SUFFICES ASSUME StreamIInv, [StreamNext]_streamVars PROVE StreamIInv'
  OBVIOUS
<1>1. StreamTypeOK /\ StreamTypeOK'
  BY StreamTypeStep DEF StreamIInv
<1>2. \A c \in Stream : stream[c] \in [pc : Pc, filter : Filter, last : 0 .. MaxClock,
                                       cancelled : BOOLEAN]
  BY <1>1 DEF StreamTypeOK
<1>3. ASSUME NEW m \in Message, ReceiveMessage(m) \/ ReceiveInvitationText(m) PROVE StreamIInv'
  BY <1>1, <1>3, DeliverStep DEF ReceiveMessage, ReceiveInvitationText, guivars
<1>4. ASSUME NEW m \in Message, MessageSeen(m) PROVE StreamIInv'
  BY <1>1, <1>4, QuietStep DEF MessageSeen, guivars, StreamTypeOK
<1>5. ASSUME NEW c \in Stream, FirstResponse(c) PROVE StreamIInv'
  <2>1. stream[c].last = 0 /\ stream[c].pc = "opened"
    BY <1>5 DEF FirstResponse, StreamIInv, LastIsATime
  <2> QED
    BY <1>1, <1>5, <2>1, RespondStep DEF FirstResponse, dbvars, guivars
<1>6. ASSUME NEW c \in Stream, NextResponse(c) PROVE StreamIInv'
  BY <1>1, <1>6, RespondStep DEF NextResponse, dbvars, guivars
<1>7. ASSUME NEW c \in Stream, NEW pc \in {"query", "asleep", "top"},
             stream[c].pc \notin {"free", "opened"}, stream' = [stream EXCEPT ![c].pc = pc],
             UNCHANGED <<clock, dbvars, notifying, response, guivars, setbacks, stops>>
      PROVE  StreamIInv'
  BY <1>1, <1>2, <1>7, QuietStep DEF dbvars, guivars, StreamTypeOK
<1>8. ASSUME NEW c \in Stream, Wake(c) \/ AnHourPasses(c) PROVE StreamIInv'
  BY <1>7, <1>8 DEF Wake, AnHourPasses
<1>9. ASSUME NEW c \in Stream, WaitForNew(c) PROVE StreamIInv'
  <2>1. CASE ~ stream[c].cancelled
    BY <1>7, <1>9, <2>1 DEF WaitForNew
  <2>2. CASE stream[c].cancelled
    <3>1. list.call # c /\ notifier.call # c /\ response[c] = <<>>
      BY <2>2, StreamAssumption
         DEF StreamIInv, ListInOrder, NotifierInOrder, TakenInOrder, ResponsesInOrder
    <3>2. stream' = [d \in Stream |-> IF d \in {c} THEN NoThread ELSE stream[d]]
      BY <1>1, <1>9, <2>2 DEF WaitForNew, StreamTypeOK
    <3>3. response' = [d \in Stream |-> IF d \in {c} THEN <<>> ELSE response[d]]
      BY <1>1, <1>9, <3>1 DEF WaitForNew, StreamTypeOK
    <3>4. CloseClient({c})
      BY <1>9, <3>1 DEF WaitForNew, CloseClient, guivars
    <3> QED
      BY <1>1, <1>9, <3>2, <3>3, <3>4, EndStep DEF WaitForNew, dbvars, guivars
  <2> QED
    BY <2>1, <2>2
<1>10. ASSUME NEW c \in Stream, Refuse(c) PROVE StreamIInv'
  <2>1. response[c] = <<>>
    BY <1>10 DEF Refuse, StreamIInv, ResponsesInOrder
  <2>2. stream' = [d \in Stream |-> IF d \in {c} THEN NoThread ELSE stream[d]]
    BY <1>1, <1>10 DEF Refuse, StreamTypeOK
  <2>3. response' = [d \in Stream |-> IF d \in {c} THEN <<>> ELSE response[d]]
    BY <1>1, <1>10, <2>1 DEF Refuse, StreamTypeOK
  <2> QED
    BY <1>1, <1>10, <2>2, <2>3, EndStep DEF Refuse, dbvars
<1>11. ASSUME NEW c \in Stream, NEW type \in Filter, OpenList(type, c) PROVE StreamIInv'
  BY <1>1, <1>11, OpenStep
<1>12. CASE NotifyAll
  <2>1. \A c \in Stream :
          \/ stream'[c] = stream[c]
          \/ stream[c].pc = "asleep" /\ stream'[c] = [stream[c] EXCEPT !.pc = "woken"]
    BY <1>12 DEF NotifyAll
  <2>2. \A c \in Stream : /\ stream'[c].last = stream[c].last
                          /\ stream'[c].filter = stream[c].filter
                          /\ stream'[c].cancelled = stream[c].cancelled
                          /\ stream'[c].pc = "free" <=> stream[c].pc = "free"
                          /\ stream'[c].pc = "opened" <=> stream[c].pc = "opened"
    BY <1>2, <2>1
  <2>3. UNCHANGED <<clock, delivered_at, response, list, notifier, shown, setbacks>>
    BY <1>12 DEF NotifyAll, dbvars, guivars
  <2>4. clock \in Int
    BY <1>1 DEF StreamTypeOK
  <2> QED
    BY <1>1, <2>2, <2>3, <2>4, QuietStep
<1>13. CASE ListData
  BY <1>1, <1>13, ListStep
<1>14. CASE NotifierData
  BY <1>1, <1>14, NotifierStep
<1>15. CASE DaemonStops
  <2>1. stream' = [c \in Stream |-> IF c \in Stream THEN NoThread ELSE stream[c]]
        /\ response' = [c \in Stream |-> IF c \in Stream THEN <<>> ELSE response[c]]
    BY <1>15 DEF DaemonStops
  <2> QED
    BY <1>1, <1>15, <2>1, EndStep DEF DaemonStops, dbvars
<1>16. CASE ClockTicks \/ UserRegisters
  BY <1>1, <1>16, QuietStep DEF ClockTicks, UserRegisters, dbvars, guivars, StreamTypeOK
<1>17. CASE SetBack
  BY <1>1, <1>17, QuietStep DEF SetBack, dbvars, guivars, StreamTypeOK
<1>18. CASE UNCHANGED streamVars
  BY <1>1, <1>18, QuietStep DEF streamVars, dbvars, guivars, StreamTypeOK
<1> QED
  BY <1>3, <1>4, <1>5, <1>6, <1>8, <1>9, <1>10, <1>11, <1>12, <1>13, <1>14, <1>15, <1>16,
     <1>17, <1>18 DEF StreamNext, HandlerStep, Runnable, Client

\* Over any number of messages, calls, responses and restarts of the daemon, and
\* however the clock is set: the list shows every message once and the newest on top,
\* without gaps while the clock was never set back, and no message is notified
\* twice (GetMessagesStreamed, MessageList.tsx, main.ts).
THEOREM ScreenStaysTrue == StreamSpec => []ScreenIsTrue
<1>1. StreamIInv => ScreenIsTrue
  BY DEF StreamIInv, ListInOrder, NotifierInOrder, ScreenIsTrue
<1> QED
  BY StreamInitIInv, StreamInductive, <1>1, PTL DEF StreamSpec, PromptSpec

\* Every variable of the stream has its type, in every state of every number of calls and
\* messages (GetMessagesStreamed).
THEOREM StreamTypeCorrect == StreamSpec => []StreamTypeOK
<1>1. StreamIInv => StreamTypeOK
  BY DEF StreamIInv
<1> QED
  BY StreamInitIInv, StreamInductive, <1>1, PTL DEF StreamSpec, PromptSpec

-----------------------------------------------------------------------------
(* The feed.  What a step does to it follows from what is true before and    *)
(* after the step.                                                         *)

LEMMA FeedBegins == StreamInit => Feed!Init
<1> SUFFICES ASSUME StreamInit PROVE Feed!Init
  OBVIOUS
<1>1. /\ delivered_at = [m \in Message |-> 0] /\ setbacks = 0 /\ list.type = "NEW"
      /\ list.messages = <<>> /\ shown = <<>>
  BY DEF StreamInit
<1>2. \A m \in Message : ~ InList(m) /\ ~ WasShown(m)
  BY <1>1 DEF InList, WasShown
<1>3. {m \in Message : InList(m)} = {} /\ {m \in Message : WasShown(m)} = {}
  BY <1>2
<1> QED BY <1>1, <1>3 DEF Feed!Init

\* What the feed does not look at may change.
LEMMA FeedRests ==
  ASSUME UNCHANGED <<delivered_at, setbacks, shown>>,
         list'.type = list.type, list'.messages = list.messages
  PROVE  UNCHANGED Feed!feedVars
<1>1. \A m \in Message : (InList(m)' <=> InList(m)) /\ (WasShown(m)' <=> WasShown(m))
  BY DEF InList, WasShown
<1>2. /\ {m \in Message : InList(m)}' = {m \in Message : InList(m)}
      /\ {m \in Message : WasShown(m)}' = {m \in Message : WasShown(m)}
  BY <1>1
<1> QED BY <1>2 DEF Feed!feedVars

\* A message arrives at a time of its own, which is the latest while the clock is steady.
LEMMA FeedArrives ==
  ASSUME StreamIInv, NEW m \in Message, MadeVisible(m),
         UNCHANGED <<setbacks, list, shown>>
  PROVE  Feed!Arrive(m)
<1>1. /\ delivered_at[m] = 0 /\ clock \in 1 .. MaxClock
      /\ \A n \in Message : delivered_at[n] # clock
      /\ delivered_at' = [delivered_at EXCEPT ![m] = clock]
  BY DEF MadeVisible, StreamIInv, StreamTypeOK
<1>2. ASSUME setbacks = 0, NEW n \in Message PROVE delivered_at[n] < clock
  <2>1. delivered_at[n] <= clock /\ delivered_at[n] # clock /\ delivered_at[n] \in Nat
    BY <1>1, <1>2 DEF StreamIInv, NothingMissed, StreamTypeOK
  <2> QED BY <1>1, <2>1
<1>3. \A n \in Message : IF setbacks = 0 THEN delivered_at[n] < clock ELSE delivered_at[n] # clock
  BY <1>1, <1>2
<1>4. \A n \in Message : (InList(n)' <=> InList(n)) /\ (WasShown(n)' <=> WasShown(n))
  BY DEF InList, WasShown
<1>5. /\ {n \in Message : InList(n)}' = {n \in Message : InList(n)}
      /\ {n \in Message : WasShown(n)}' = {n \in Message : WasShown(n)}
  BY <1>4
<1> QED BY <1>1, <1>3, <1>5 DEF Feed!Arrive

LEMMA FeedSetBack ==
  ASSUME StreamIInv, setbacks' = setbacks + 1, UNCHANGED <<delivered_at, list, shown>>
  PROVE  Feed!SetClockBack
<1>1. setbacks' # 0
  BY DEF StreamIInv, StreamTypeOK
<1>2. (setbacks' = 0) = FALSE
  BY <1>1
<1>3. \A n \in Message : (InList(n)' <=> InList(n)) /\ (WasShown(n)' <=> WasShown(n))
  BY DEF InList, WasShown
<1>4. /\ {n \in Message : InList(n)}' = {n \in Message : InList(n)}
      /\ {n \in Message : WasShown(n)}' = {n \in Message : WasShown(n)}
  BY <1>3
<1> QED BY <1>2, <1>4 DEF Feed!SetClockBack

LEMMA FeedOpens ==
  ASSUME NEW t \in Filter, list'.type = t, list'.messages = <<>>,
         UNCHANGED <<delivered_at, setbacks, shown>>
  PROVE  Feed!Open(t)
<1>1. \A n \in Message : ~ InList(n)' /\ (WasShown(n)' <=> WasShown(n))
  BY DEF InList, WasShown
<1>2. /\ {n \in Message : InList(n)}' = {}
      /\ {n \in Message : WasShown(n)}' = {n \in Message : WasShown(n)}
  BY <1>1
<1> QED BY <1>2 DEF Feed!Open

\* A response goes on top: it is newer than all of the list, as a response under way is newer
\* than what was taken, and in one piece, as the list has no gaps after it either.
LEMMA FeedShows ==
  ASSUME StreamIInv, StreamIInv', ListData
  PROVE  \E ms \in SUBSET Feed!NewerThanListed : Feed!Show(ms)
<1>1. PICK c \in Stream : c = list.call
  BY DEF ListData
<1>2. PICK msgs : msgs = Head(response[c])
  OBVIOUS
<1>3. PICK old : old = list.messages
  OBVIOUS
<1>4. /\ c # NoCall /\ response[c] # <<>>
      /\ list'.type = list.type /\ list'.messages = msgs \o old
      /\ UNCHANGED <<delivered_at, shown, setbacks>>
  BY <1>1, <1>2, <1>3, StreamAssumption DEF ListData, Merge, StreamIInv, StreamTypeOK, dbvars
<1>5. old \in Seq(Message) /\ TakenInOrder(c, old)
  BY <1>1, <1>3, <1>4 DEF StreamIInv, StreamTypeOK, ListInOrder
<1>6. /\ msgs \in Seq(Message) /\ Within(delivered_at, msgs, stream[c].last)
      /\ Above(delivered_at, msgs, old)
  BY <1>2, <1>4, <1>5, Taken
<1>7. \A m \in Message : InList(m)' <=> Holds(msgs, m) \/ InList(m)
  <2> SUFFICES ASSUME NEW m \in Message
               PROVE  (\E i \in DOMAIN (msgs \o old) : (msgs \o old)[i] = m)
                        <=> Holds(msgs, m) \/ \E i \in DOMAIN old : old[i] = m
    BY <1>3, <1>4 DEF InList
  <2>1. /\ DOMAIN msgs = 1 .. Len(msgs) /\ DOMAIN old = 1 .. Len(old)
        /\ Len(msgs) \in Nat /\ Len(old) \in Nat
        /\ DOMAIN (msgs \o old) = 1 .. Len(msgs) + Len(old)
        /\ \A i \in DOMAIN msgs : i \in DOMAIN (msgs \o old) /\ (msgs \o old)[i] = msgs[i]
        /\ \A i \in DOMAIN (msgs \o old) : i > Len(msgs) => (msgs \o old)[i] = old[i - Len(msgs)]
        /\ \A i \in DOMAIN old :
             i + Len(msgs) \in DOMAIN (msgs \o old) /\ (msgs \o old)[i + Len(msgs)] = old[i]
    BY <1>5, <1>6, Joined
  <2>2. ASSUME NEW i \in DOMAIN (msgs \o old), (msgs \o old)[i] = m
        PROVE  Holds(msgs, m) \/ \E j \in DOMAIN old : old[j] = m
    <3>1. CASE i <= Len(msgs)
      BY <2>1, <2>2, <3>1 DEF Holds
    <3>2. CASE ~ (i <= Len(msgs))
      <4>1. i - Len(msgs) \in DOMAIN old /\ old[i - Len(msgs)] = m
        BY <2>1, <2>2, <3>2
      <4> QED BY <4>1
    <3> QED BY <3>1, <3>2
  <2>3. ASSUME Holds(msgs, m) PROVE \E i \in DOMAIN (msgs \o old) : (msgs \o old)[i] = m
    BY <2>1, <2>3 DEF Holds
  <2>4. ASSUME NEW j \in DOMAIN old, old[j] = m
        PROVE  \E i \in DOMAIN (msgs \o old) : (msgs \o old)[i] = m
    BY <2>1, <2>4
  <2> QED BY <2>2, <2>3, <2>4
<1>8. PICK ms : ms = {m \in Message : Holds(msgs, m)}
  OBVIOUS
<1>9. ASSUME NEW m \in ms PROVE m \in Feed!NewerThanListed
  <2>1. m \in Message /\ delivered_at[m] # 0
    BY <1>6, <1>8, <1>9 DEF Holds, Within, StreamIInv, StreamTypeOK
  <2>2. ASSUME NEW n \in {n \in Message : InList(n)} PROVE delivered_at[n] < delivered_at[m]
    <3>1. PICK i \in DOMAIN msgs : msgs[i] = m
      BY <1>8, <1>9 DEF Holds
    <3>2. PICK j \in DOMAIN old : old[j] = n
      BY <1>3, <2>2 DEF InList
    <3>3. delivered_at[m] > delivered_at[n]
      BY <1>6, <3>1, <3>2 DEF Above
    <3>4. delivered_at[m] \in Nat /\ delivered_at[n] \in Nat
      BY <2>1, <2>2 DEF StreamIInv, StreamTypeOK
    <3> QED BY <3>3, <3>4
  <2> QED BY <2>1, <2>2 DEF Feed!NewerThanListed, Feed!Arrived
<1>10. ASSUME setbacks = 0, list.type = "ALL",
              NEW m \in ms, NEW n \in Feed!NewerThanListed, delivered_at[n] < delivered_at[m]
       PROVE  n \in ms
  <2>1. m \in Message /\ InList(m)'
    BY <1>7, <1>8, <1>10
  <2>2. /\ n \in Message /\ delivered_at[n] # 0
        /\ \A l \in Message : InList(l) => delivered_at[l] < delivered_at[n]
    BY <1>10 DEF Feed!NewerThanListed, Feed!Arrived
  <2>3. delivered_at[n] \in Nat /\ 0 < delivered_at[n]
    BY <2>2 DEF StreamIInv, StreamTypeOK
  <2>4. InList(n)'
    BY <1>4, <1>10, <2>1, <2>2, <2>3 DEF StreamIInv, ListHasNoGaps
  <2>5. ~ InList(n)
    BY <2>2, <2>3
  <2> QED BY <1>7, <1>8, <2>2, <2>4, <2>5
<1>11. {m \in Message : InList(m)}' = {m \in Message : InList(m)} \cup ms
  BY <1>7, <1>8
<1>12. {m \in Message : WasShown(m)}' = {m \in Message : WasShown(m)}
  <2>1. \A m \in Message : WasShown(m)' <=> WasShown(m)
    BY <1>4 DEF WasShown
  <2> QED BY <2>1
<1>13. Feed!Show(ms)
  BY <1>4, <1>10, <1>11, <1>12 DEF Feed!Show
<1> QED BY <1>9, <1>13

\* A response is notified: none of it was, as nothing is notified twice afterwards.
LEMMA FeedNotifies ==
  ASSUME StreamIInv, StreamIInv', NotifierData
  PROVE  \E ms \in SUBSET (Feed!Arrived \ {m \in Message : WasShown(m)}) : Feed!Notify(ms)
<1>1. PICK c \in Stream : c = notifier.call
  BY DEF NotifierData
<1>2. PICK msgs : msgs = Notified(Head(response[c]))
  OBVIOUS
<1>3. PICK old : old = shown
  OBVIOUS
<1>4. /\ c # NoCall /\ response[c] # <<>> /\ shown' = old \o msgs
      /\ UNCHANGED <<delivered_at, list, setbacks>>
  BY <1>1, <1>2, <1>3, StreamAssumption DEF NotifierData, dbvars
<1>5. old \in Seq(Message) /\ TakenInOrder(c, old)
  BY <1>1, <1>3, <1>4 DEF StreamIInv, StreamTypeOK, NotifierInOrder
<1>6. msgs \in Seq(Message) /\ Within(delivered_at, msgs, stream[c].last)
  <2>1. /\ Head(response[c]) \in Seq(Message)
        /\ Within(delivered_at, Head(response[c]), stream[c].last)
    BY <1>4, <1>5, Taken
  <2>2. CASE notifier.firstTime
    BY <1>2, <2>2 DEF Notified, Within
  <2>3. CASE ~ notifier.firstTime
    BY <1>2, <2>1, <2>3 DEF Notified
  <2> QED BY <2>2, <2>3
<1>7. /\ DOMAIN msgs = 1 .. Len(msgs) /\ DOMAIN old = 1 .. Len(old)
      /\ Len(msgs) \in Nat /\ Len(old) \in Nat
      /\ DOMAIN (old \o msgs) = 1 .. Len(old) + Len(msgs)
      /\ \A i \in DOMAIN old : i \in DOMAIN (old \o msgs) /\ (old \o msgs)[i] = old[i]
      /\ \A i \in DOMAIN (old \o msgs) : i > Len(old) => (old \o msgs)[i] = msgs[i - Len(old)]
      /\ \A i \in DOMAIN msgs :
           i + Len(old) \in DOMAIN (old \o msgs) /\ (old \o msgs)[i + Len(old)] = msgs[i]
  BY <1>5, <1>6, Joined
<1>8. \A m \in Message : WasShown(m)' <=> WasShown(m) \/ Holds(msgs, m)
  <2> SUFFICES ASSUME NEW m \in Message
               PROVE  (\E i \in DOMAIN (old \o msgs) : (old \o msgs)[i] = m)
                        <=> (\E i \in DOMAIN old : old[i] = m) \/ Holds(msgs, m)
    BY <1>3, <1>4 DEF WasShown
  <2>1. ASSUME NEW i \in DOMAIN (old \o msgs), (old \o msgs)[i] = m
        PROVE  (\E j \in DOMAIN old : old[j] = m) \/ Holds(msgs, m)
    <3>1. CASE i <= Len(old)
      BY <1>7, <2>1, <3>1
    <3>2. CASE ~ (i <= Len(old))
      <4>1. i - Len(old) \in DOMAIN msgs /\ msgs[i - Len(old)] = m
        BY <1>7, <2>1, <3>2
      <4> QED BY <4>1 DEF Holds
    <3> QED BY <3>1, <3>2
  <2>2. ASSUME NEW j \in DOMAIN old, old[j] = m
        PROVE  \E i \in DOMAIN (old \o msgs) : (old \o msgs)[i] = m
    BY <1>7, <2>2
  <2>3. ASSUME Holds(msgs, m) PROVE \E i \in DOMAIN (old \o msgs) : (old \o msgs)[i] = m
    BY <1>7, <2>3 DEF Holds
  <2> QED BY <2>1, <2>2, <2>3
<1>9. PICK ms : ms = {m \in Message : Holds(msgs, m)}
  OBVIOUS
<1>10. ASSUME NEW m \in ms PROVE m \in Feed!Arrived /\ ~ WasShown(m)
  <2>1. PICK i \in DOMAIN msgs : msgs[i] = m
    BY <1>9, <1>10 DEF Holds
  <2>2. m \in Message /\ delivered_at[m] # 0
    BY <1>6, <1>9, <1>10, <2>1 DEF Within, StreamIInv, StreamTypeOK
  <2>3. ASSUME NEW j \in DOMAIN old, old[j] = m PROVE FALSE
    <3>1. /\ j \in DOMAIN shown' /\ i + Len(old) \in DOMAIN shown'
          /\ shown'[j] = shown'[i + Len(old)]
      BY <1>4, <1>7, <2>1, <2>3
    <3>2. j = i + Len(old)
      BY <3>1 DEF StreamIInv, NotifierInOrder, NotifiedOnce
    <3> QED BY <1>7, <3>2
  <2> QED BY <1>3, <2>2, <2>3 DEF WasShown, Feed!Arrived
<1>11. {m \in Message : WasShown(m)}' = {m \in Message : WasShown(m)} \cup ms
  BY <1>8, <1>9
<1>12. {m \in Message : InList(m)}' = {m \in Message : InList(m)}
  <2>1. \A m \in Message : InList(m)' <=> InList(m)
    BY <1>4 DEF InList
  <2> QED BY <2>1
<1>13. Feed!Notify(ms)
  BY <1>4, <1>11, <1>12 DEF Feed!Notify
<1>14. ms \subseteq Feed!Arrived \ {m \in Message : WasShown(m)}
  BY <1>10
<1> QED BY <1>13, <1>14

LEMMA FeedStep ==
  ASSUME StreamIInv, StreamIInv', [StreamNext]_streamVars
  PROVE  [Feed!Next]_(Feed!feedVars)
<1>1. ASSUME NEW m \in Message, ReceiveMessage(m) \/ ReceiveInvitationText(m) PROVE Feed!Next
  <2>1. MadeVisible(m) /\ UNCHANGED <<setbacks, list, shown>>
    BY <1>1 DEF ReceiveMessage, ReceiveInvitationText, guivars
  <2> QED BY <2>1, FeedArrives DEF Feed!Next
<1>2. ASSUME NEW m \in Message, MessageSeen(m) PROVE UNCHANGED Feed!feedVars
  BY <1>2, FeedRests DEF MessageSeen, guivars
<1>3. ASSUME NEW c \in Stream, HandlerStep(c) PROVE UNCHANGED Feed!feedVars
  <2>1. CASE FirstResponse(c) \/ NextResponse(c)
    BY <2>1, FeedRests DEF FirstResponse, NextResponse, dbvars, guivars
  <2>2. CASE WaitForNew(c) \/ Wake(c) \/ AnHourPasses(c)
    BY <2>2, FeedRests DEF WaitForNew, Wake, AnHourPasses, dbvars, guivars
  <2>3. CASE Refuse(c)
    <3>1. /\ UNCHANGED <<delivered_at, setbacks, shown>>
          /\ list' = list \/ list' = [list EXCEPT !.call = NoCall]
      BY <2>3 DEF Refuse, dbvars, CloseClient
    <3>2. list'.type = list.type /\ list'.messages = list.messages
      BY <3>1 DEF StreamIInv, StreamTypeOK
    <3> QED BY <3>1, <3>2, FeedRests
  <2> QED BY <1>3, <2>1, <2>2, <2>3 DEF HandlerStep, Runnable
<1>4. ASSUME NEW c \in Stream, NEW type \in Filter, OpenList(type, c) PROVE Feed!Next
  <2>1. /\ list'.type = type /\ list'.messages = <<>>
        /\ UNCHANGED <<delivered_at, setbacks, shown>>
    BY <1>4 DEF OpenList, dbvars
  <2>2. Feed!Open(type) /\ type \in {"NEW", "ALL"}
    BY <2>1, FeedOpens DEF Filter
  <2> QED BY <2>2 DEF Feed!Next
<1>5. CASE NotifyAll
  BY <1>5, FeedRests DEF NotifyAll, dbvars, guivars
<1>6. CASE ListData
  BY <1>6, FeedShows DEF Feed!Next
<1>7. CASE NotifierData
  BY <1>7, FeedNotifies DEF Feed!Next
<1>8. CASE DaemonStops
  <2>1. /\ UNCHANGED <<delivered_at, setbacks, shown>>
        /\ list' = list \/ list' = [list EXCEPT !.call = NoCall]
    BY <1>8 DEF DaemonStops, dbvars, CloseClient
  <2>2. list'.type = list.type /\ list'.messages = list.messages
    BY <2>1 DEF StreamIInv, StreamTypeOK
  <2> QED BY <2>1, <2>2, FeedRests
<1>9. CASE ClockTicks \/ UserRegisters
  BY <1>9, FeedRests DEF ClockTicks, UserRegisters, dbvars, guivars
<1>10. CASE SetBack
  <2>1. setbacks' = setbacks + 1 /\ UNCHANGED <<delivered_at, list, shown>>
    BY <1>10 DEF SetBack, dbvars, guivars
  <2> QED BY <2>1, FeedSetBack DEF Feed!Next
<1>11. CASE UNCHANGED streamVars
  BY <1>11, FeedRests DEF streamVars, dbvars, guivars
<1> QED
  BY <1>1, <1>2, <1>3, <1>4, <1>5, <1>6, <1>7, <1>8, <1>9, <1>10, <1>11 DEF StreamNext, Client

\* The threads and their responses, the daemon that stops and the two clients implement the
\* feed, in which a list takes what is newer on top, in one piece while the clock is steady,
\* and the notifications take what they have not had.
THEOREM StreamImplementsFeed == StreamSpec => ImplementsFeed
<1>1. StreamIInv /\ StreamIInv' /\ [StreamNext]_streamVars => [Feed!Next]_(Feed!feedVars)
  BY FeedStep
<1> QED
  BY FeedBegins, StreamInitIInv, StreamInductive, <1>1, PTL
  DEF StreamSpec, PromptSpec, ImplementsFeed, Feed!Spec

\* The screen is right in each state and changes only as the feed does.
THEOREM PromiseKept == StreamSpec => ScreenKeepsPromise
BY ScreenStaysTrue, StreamImplementsFeed, PTL DEF ScreenKeepsPromise, ScreenIsTrue

-----------------------------------------------------------------------------
(* What was there before is never notified.                                *)

\* The notifications' call asks for what is new, and its first response is the
\* first one that the client takes.
NotifierBegins ==
  notifier.call # NoCall =>
    /\ stream[notifier.call].filter = "NEW"
    /\ stream[notifier.call].pc = "opened" => notifier.firstTime
    /\ notifier.firstTime /\ stream[notifier.call].pc # "opened" =>
         response[notifier.call] # <<>>

\* Message m is old for the notifications of call c: it can be in the first
\* response alone, as later ones ask for what is newer than the first.
Old(m, c) ==
  /\ delivered_at[m] # 0 /\ ~ WasShown(m)
  /\ notifier.call \in {c, NoCall}
  /\ notifier.call = c /\ stream[c].pc # "opened" =>
       /\ m \in seen \/ delivered_at[m] <= stream[c].last
       /\ \A k \in DOMAIN response[c] : Holds(response[c][k], m) => notifier.firstTime /\ k = 1

\* What a step does to the thread and the responses of the notifications' call.
LEMMA NotifierCallStep ==
  ASSUME StreamIInv, [StreamNext]_streamVars, NEW c \in Stream, notifier.call = c
  PROVE  \/ notifier'.call = NoCall /\ shown' = shown
         \/ /\ UNCHANGED <<notifier, shown>> /\ response'[c] = response[c]
            /\ stream'[c].filter = stream[c].filter /\ stream'[c].last = stream[c].last
            /\ stream'[c].pc = "opened" <=> stream[c].pc = "opened"
         \/ /\ UNCHANGED <<notifier, shown, delivered_at, seen>> /\ stream'[c].pc # "opened"
            /\ stream'[c].filter = stream[c].filter
            /\ LET msgs == ReceivedMessages(stream[c].filter, stream[c].last)
               IN  /\ response'[c] = Append(response[c], msgs)
                   /\ stream'[c].last = LaterOf(stream[c].last, msgs)
         \/ NotifierData
<1>1. StreamTypeOK /\ c # NoCall
  BY StreamAssumption DEF StreamIInv
<1>2. /\ stream[c] \in [pc : Pc, filter : Filter, last : 0 .. MaxClock, cancelled : BOOLEAN]
      /\ stream \in [Stream -> [pc : Pc, filter : Filter, last : 0 .. MaxClock,
                                cancelled : BOOLEAN]]
      /\ response \in [Stream -> Seq(Seq(Message))]
  BY <1>1 DEF StreamTypeOK
<1>3. stream[c].pc # "free" /\ ~ stream[c].cancelled /\ c # list.call
  BY <1>1 DEF StreamIInv, NotifierInOrder, TakenInOrder
<1>4. stream[c].pc = "opened" => stream[c].last = 0
  BY DEF StreamIInv, LastIsATime
<1> DEFINE Alone == /\ UNCHANGED <<notifier, shown>> /\ response'[c] = response[c]
                    /\ stream'[c].filter = stream[c].filter /\ stream'[c].last = stream[c].last
                    /\ stream'[c].pc = "opened" <=> stream[c].pc = "opened"
           Writes == /\ UNCHANGED <<notifier, shown, delivered_at, seen>>
                     /\ stream'[c].pc # "opened" /\ stream'[c].filter = stream[c].filter
                     /\ LET msgs == ReceivedMessages(stream[c].filter, stream[c].last)
                        IN  /\ response'[c] = Append(response[c], msgs)
                            /\ stream'[c].last = LaterOf(stream[c].last, msgs)
<1>5. CASE \E m \in Message : ReceiveMessage(m) \/ ReceiveInvitationText(m) \/ MessageSeen(m)
  BY <1>5 DEF ReceiveMessage, ReceiveInvitationText, MessageSeen, guivars
<1>6. ASSUME NEW d \in Stream, d # c,
             FirstResponse(d) \/ WaitForNew(d) \/ Wake(d) \/ NextResponse(d) \/ AnHourPasses(d)
      PROVE  Alone
  <2>1. stream'[c] = stream[c] /\ response'[c] = response[c]
    BY <1>2, <1>6 DEF FirstResponse, WaitForNew, Wake, NextResponse, AnHourPasses, Write
  <2> QED
    BY <1>6, <2>1 DEF FirstResponse, WaitForNew, Wake, NextResponse, AnHourPasses, guivars
<1>7. CASE FirstResponse(c)
  <2>1. stream'[c].filter = stream[c].filter /\ stream'[c].pc = "top"
        /\ stream'[c].last = LaterOf(0, ReceivedMessages(stream[c].filter, 0))
    BY <1>2, <1>7 DEF FirstResponse
  <2>2. response'[c] = Append(response[c], ReceivedMessages(stream[c].filter, 0))
    BY <1>2, <1>3, <1>7 DEF FirstResponse, Write
  <2>3. stream[c].last = 0
    BY <1>4, <1>7 DEF FirstResponse
  <2> QED
    BY <1>7, <2>1, <2>2, <2>3 DEF FirstResponse, dbvars, guivars
<1>8. CASE NextResponse(c)
  <2>1. /\ stream'[c].filter = stream[c].filter /\ stream'[c].pc = "top"
        /\ stream'[c].last = LaterOf(stream[c].last,
                                     ReceivedMessages(stream[c].filter, stream[c].last))
    BY <1>2, <1>8 DEF NextResponse
  <2>2. response'[c] = Append(response[c], ReceivedMessages(stream[c].filter, stream[c].last))
    BY <1>2, <1>3, <1>8 DEF NextResponse, Write
  <2> QED
    BY <1>8, <2>1, <2>2 DEF NextResponse, dbvars, guivars
<1>9. CASE WaitForNew(c) \/ Wake(c) \/ AnHourPasses(c)
  <2>1. stream[c].pc # "opened" /\ \E pc \in {"query", "asleep", "top"} :
                                     stream' = [stream EXCEPT ![c].pc = pc]
    BY <1>3, <1>9 DEF WaitForNew, Wake, AnHourPasses
  <2>2. /\ stream'[c].pc # "opened" /\ stream'[c].filter = stream[c].filter
        /\ stream'[c].last = stream[c].last
    BY <1>2, <2>1
  <2> QED
    BY <1>9, <2>1, <2>2 DEF WaitForNew, Wake, AnHourPasses, guivars
<1>10. ASSUME NEW d \in Stream, Refuse(d)
       PROVE  Alone \/ (notifier'.call = NoCall /\ shown' = shown)
  <2>1. CASE d = c
    BY <1>1, <1>10, <2>1 DEF Refuse, CloseClient, StreamTypeOK
  <2>2. CASE d # c
    BY <1>2, <1>10, <2>2 DEF Refuse, CloseClient, StreamTypeOK
  <2> QED
    BY <2>1, <2>2
<1>11. ASSUME NEW type \in Filter, NEW d \in Stream, OpenList(type, d) PROVE Alone
  <2>1. d # c
    BY <1>3, <1>11 DEF OpenList
  <2>2. stream'[c] = stream[c] /\ response'[c] = response[c]
    BY <1>2, <1>3, <1>11, <2>1 DEF OpenList, Cancelled
  <2> QED
    BY <1>11, <2>2 DEF OpenList
<1>12. CASE NotifyAll
  <2>1. \/ stream'[c] = stream[c]
        \/ stream[c].pc = "asleep" /\ stream'[c] = [stream[c] EXCEPT !.pc = "woken"]
    BY <1>12 DEF NotifyAll
  <2>2. /\ stream'[c].pc = "opened" <=> stream[c].pc = "opened"
        /\ stream'[c].filter = stream[c].filter /\ stream'[c].last = stream[c].last
    BY <1>2, <2>1
  <2> QED
    BY <1>12, <2>2 DEF NotifyAll, guivars
<1>13. CASE ListData
  BY <1>2, <1>3, <1>13 DEF ListData
<1>14. CASE DaemonStops
  BY <1>1, <1>14 DEF DaemonStops, CloseClient, StreamTypeOK
<1>15. CASE ClockTicks \/ SetBack \/ UserRegisters \/ UNCHANGED streamVars
  BY <1>15 DEF ClockTicks, SetBack, UserRegisters, streamVars, guivars
<1> HIDE DEF Alone, Writes
<1>16. QED
  <2>1. Alone \/ Writes \/ (notifier'.call = NoCall /\ shown' = shown) \/ NotifierData
    BY <1>5, <1>6, <1>7, <1>8, <1>9, <1>10, <1>11, <1>12, <1>13, <1>14, <1>15
       DEF StreamNext, HandlerStep, Runnable, Client, Alone, Writes
  <2> QED
    BY <2>1 DEF Alone, Writes

\* What is stored and what the user has seen stays so, and the first response of a
\* thread is its first.
LEMMA StoredStays ==
  ASSUME StreamIInv, [StreamNext]_streamVars
  PROVE  /\ \A m \in Message : delivered_at[m] # 0 => delivered_at'[m] = delivered_at[m]
         /\ seen \subseteq seen'
         /\ notifier.call = NoCall => notifier'.call = NoCall /\ shown' = shown
<1>1. StreamTypeOK
  BY DEF StreamIInv
<1>2. CASE \E m \in Message : ReceiveMessage(m) \/ ReceiveInvitationText(m)
  BY <1>1, <1>2 DEF ReceiveMessage, ReceiveInvitationText, MadeVisible, StreamTypeOK, guivars
<1>3. CASE \E m \in Message : MessageSeen(m)
  BY <1>3 DEF MessageSeen, guivars
<1>4. CASE \E c \in Stream : HandlerStep(c)
  BY <1>1, <1>4 DEF HandlerStep, Runnable, FirstResponse, NextResponse, WaitForNew, Wake,
     AnHourPasses, Refuse, CloseClient, dbvars, guivars, StreamTypeOK
<1>5. CASE \E c \in Stream, type \in Filter : OpenList(type, c)
  BY <1>5 DEF OpenList, dbvars
<1>6. CASE NotifyAll \/ ListData \/ ClockTicks \/ SetBack \/ UserRegisters \/ UNCHANGED streamVars
  BY <1>6 DEF NotifyAll, ListData, ClockTicks, SetBack, UserRegisters, streamVars, dbvars, guivars
<1>7. CASE NotifierData
  BY <1>7, StreamAssumption DEF NotifierData, dbvars
<1>8. CASE DaemonStops
  BY <1>1, <1>8 DEF DaemonStops, CloseClient, dbvars, StreamTypeOK
<1> QED
  BY <1>2, <1>3, <1>4, <1>5, <1>6, <1>7, <1>8 DEF StreamNext, Client

LEMMA NotifierBeginsStep ==
  StreamIInv /\ NotifierBegins /\ [StreamNext]_streamVars => NotifierBegins'
<1> SUFFICES ASSUME StreamIInv, NotifierBegins, [StreamNext]_streamVars, notifier'.call # NoCall
             PROVE  NotifierBegins'
  BY DEF NotifierBegins
<1> DEFINE c == notifier.call
<1>1. c # NoCall /\ c \in Stream
  BY StoredStays DEF StreamIInv, StreamTypeOK
<1>2. /\ response[c] \in Seq(Seq(Message))
      /\ notifier \in [call : Stream \cup {NoCall}, firstTime : BOOLEAN]
  BY <1>1 DEF StreamIInv, StreamTypeOK
<1>3. CASE /\ UNCHANGED <<notifier, shown>> /\ response'[c] = response[c]
           /\ stream'[c].filter = stream[c].filter /\ stream'[c].last = stream[c].last
           /\ stream'[c].pc = "opened" <=> stream[c].pc = "opened"
  BY <1>1, <1>3 DEF NotifierBegins
<1>4. CASE /\ UNCHANGED <<notifier, shown, delivered_at, seen>> /\ stream'[c].pc # "opened"
           /\ stream'[c].filter = stream[c].filter
           /\ response'[c] = Append(response[c], ReceivedMessages(stream[c].filter, stream[c].last))
  <2>1. ReceivedMessages(stream[c].filter, stream[c].last) \in Seq(Message)
    BY <1>1, Received DEF StreamIInv, StreamTypeOK
  <2> DEFINE msgs == ReceivedMessages(stream[c].filter, stream[c].last)
  <2>2. Append(response[c], msgs) # <<>>
    <3> HIDE DEF msgs
    <3>1. msgs \in Seq(Message)
      BY <2>1 DEF msgs
    <3>2. response[c] \in Seq(Seq(Message))
      BY <1>2
    <3>3. \A s \in Seq(Seq(Message)), e \in Seq(Message) : Append(s, e) # <<>>
      BY AppendProperties
    <3> QED
      BY <3>1, <3>2, <3>3
  <2> QED
    BY <1>1, <1>4, <2>2 DEF NotifierBegins
<1>5. CASE NotifierData
  <2>1. response[c] # <<>> /\ notifier'.call = c /\ ~ notifier'.firstTime /\ stream' = stream
    BY <1>2, <1>5 DEF NotifierData
  <2>2. stream[c].pc # "opened"
    BY <1>1, <2>1 DEF StreamIInv, ResponsesInOrder
  <2> QED
    BY <1>1, <2>1, <2>2 DEF NotifierBegins
<1> QED
  BY <1>1, <1>3, <1>4, <1>5, NotifierCallStep

\* An old message remains old, whatever happens to the call.
LEMMA OldStep ==
  ASSUME NEW m \in Message, NEW c \in Stream
  PROVE  StreamIInv /\ NotifierBegins /\ Old(m, c) /\ [StreamNext]_streamVars => Old(m, c)'
<1> SUFFICES ASSUME StreamIInv, NotifierBegins, Old(m, c), [StreamNext]_streamVars
             PROVE  Old(m, c)'
  OBVIOUS
<1>1. /\ delivered_at'[m] = delivered_at[m] /\ delivered_at[m] # 0
      /\ m \in seen => m \in seen'
  BY StoredStays DEF Old
<1>2. CASE notifier.call = NoCall
  BY <1>1, <1>2, StoredStays, StreamAssumption DEF Old, WasShown
<1>3. CASE notifier.call = c
  <2>1. /\ c # NoCall /\ response[c] \in Seq(Seq(Message)) /\ shown \in Seq(Message)
        /\ notifier \in [call : Stream \cup {NoCall}, firstTime : BOOLEAN]
        /\ stream[c].last \in 0 .. MaxClock /\ stream[c].filter = "NEW"
        /\ StreamTypeOK /\ TimesAreUnique /\ delivered_at[m] \in 0 .. MaxClock
    BY <1>3, StreamAssumption DEF StreamIInv, StreamTypeOK, NotifierBegins
  <2>2. CASE notifier'.call = NoCall /\ shown' = shown
    BY <1>1, <2>1, <2>2 DEF Old, WasShown
  <2>3. CASE /\ UNCHANGED <<notifier, shown>> /\ response'[c] = response[c]
             /\ stream'[c].filter = stream[c].filter /\ stream'[c].last = stream[c].last
             /\ stream'[c].pc = "opened" <=> stream[c].pc = "opened"
    BY <1>1, <1>3, <2>3 DEF Old, WasShown
  <2>4. CASE /\ UNCHANGED <<notifier, shown, delivered_at, seen>> /\ stream'[c].pc # "opened"
             /\ LET msgs == ReceivedMessages(stream[c].filter, stream[c].last)
                IN  /\ response'[c] = Append(response[c], msgs)
                    /\ stream'[c].last = LaterOf(stream[c].last, msgs)
    <3> DEFINE msgs == ReceivedMessages("NEW", stream[c].last)
               later == LaterOf(stream[c].last, msgs)
    <3>1. /\ msgs \in Seq(Message) /\ later \in stream[c].last .. MaxClock
          /\ Within(delivered_at, msgs, later)
          /\ \A i \in DOMAIN msgs : delivered_at[msgs[i]] > stream[c].last
      BY <2>1, Received DEF Filter
    <3>2. Holds(msgs, m) <=> m \notin seen /\ delivered_at[m] > stream[c].last
      <4>1. {n \in Delivered : delivered_at[n] > stream[c].last /\ ("NEW" = "NEW" => n \notin seen)}
              \in SUBSET Delivered
        OBVIOUS
      <4>2. msgs = NewestFirst({n \in Delivered : delivered_at[n] > stream[c].last
                                                 /\ ("NEW" = "NEW" => n \notin seen)})
        BY Zenon DEF ReceivedMessages
      <4>3. Holds(msgs, m) <=>
              m \in {n \in Delivered : delivered_at[n] > stream[c].last
                                       /\ ("NEW" = "NEW" => n \notin seen)}
        BY <2>1, <4>1, <4>2, NewestFirstSorts
      <4> QED
        BY <1>1, <4>3 DEF Delivered
    <3> HIDE DEF msgs, later
    <3>3. response'[c] = Append(response[c], msgs) /\ stream'[c].last = later
      BY <2>1, <2>4 DEF msgs, later
    <3>4. m \in seen \/ delivered_at[m] <= later
      <4>1. CASE Holds(msgs, m)
        BY <3>1, <4>1 DEF Holds, Within
      <4>2. CASE m \notin seen /\ ~ (delivered_at[m] > stream[c].last)
        BY <2>1, <3>1, <4>2
      <4> QED
        BY <3>2, <4>1, <4>2
    <3>5. ASSUME NEW k \in DOMAIN response'[c], Holds(response'[c][k], m)
          PROVE  notifier.firstTime /\ k = 1
      <4>1. CASE stream[c].pc = "opened"
        <5>1. response[c] = <<>> /\ notifier.firstTime
          BY <1>3, <2>1, <4>1 DEF StreamIInv, ResponsesInOrder, NotifierBegins
        <5> QED
          BY <3>1, <3>3, <3>5, <5>1
      <4>2. CASE stream[c].pc # "opened"
        <5>1. ~ Holds(msgs, m)
          BY <1>3, <2>1, <3>2, <4>2 DEF Old
        <5>2. k \in DOMAIN response[c] /\ response'[c][k] = response[c][k]
          BY <2>1, <3>1, <3>3, <3>5, <5>1
        <5> QED
          BY <1>3, <3>5, <4>2, <5>2 DEF Old
      <4> QED
        BY <4>1, <4>2
    <3> QED
      BY <1>1, <1>3, <2>4, <3>3, <3>4, <3>5 DEF Old, WasShown
  <2>5. CASE NotifierData
    <3>1. /\ response[c] # <<>> /\ response'[c] = Tail(response[c]) /\ notifier'.call = c
          /\ shown' = shown \o Notified(Head(response[c])) /\ stream' = stream /\ seen' = seen
      BY <1>3, <2>1, <2>5 DEF NotifierData, dbvars, StreamIInv, StreamTypeOK
    <3>2. stream[c].pc # "opened"
      BY <3>1 DEF StreamIInv, ResponsesInOrder
    <3>3. TakenInOrder(c, shown)
      BY <1>3, <2>1 DEF StreamIInv, NotifierInOrder
    <3>4. /\ Head(response[c]) = response[c][1] /\ 1 \in DOMAIN response[c]
          /\ response[c][1] \in Seq(Message)
          /\ \A k \in DOMAIN Tail(response[c]) :
               k + 1 \in DOMAIN response[c] /\ Tail(response[c])[k] = response[c][k + 1]
      BY <2>1, <3>1, <3>3, Taken
    <3>5. \A k \in DOMAIN Tail(response[c]) : ~ Holds(Tail(response[c])[k], m)
      <4>1. \A k \in DOMAIN Tail(response[c]) : k \in Nat \ {0}
        BY <2>1, <3>1
      <4> QED
        BY <1>3, <3>2, <3>4, <4>1 DEF Old
    <3>6. Notified(Head(response[c])) \in Seq(Message) /\ ~ Holds(Notified(Head(response[c])), m)
      BY <1>3, <3>2, <3>4 DEF Old, Notified, Holds
    <3>7. ~ Holds(shown', m)
      <4> DEFINE msgs == Notified(Head(response[c]))
      <4> HIDE DEF msgs
      <4>1. \A i \in DOMAIN (shown \o msgs) :
              \/ i \in DOMAIN shown /\ (shown \o msgs)[i] = shown[i]
              \/ i - Len(shown) \in DOMAIN msgs /\ (shown \o msgs)[i] = msgs[i - Len(shown)]
        BY <2>1, <3>6, Joined DEF msgs
      <4> QED
        BY <3>1, <3>6, <4>1 DEF Old, WasShown, Holds, msgs
    <3> QED
      BY <1>1, <1>3, <3>1, <3>5, <3>7, <3>2 DEF Old, WasShown, Holds, StreamIInv, LastIsATime
  <2> QED
    BY <1>3, <2>2, <2>3, <2>4, <2>5, NotifierCallStep
<1> QED
  BY <1>2, <1>3 DEF Old

\* A message that is stored when the notifications begin is not notified, over any
\* number of responses, and whether the user has seen it before or not (main.ts).
THEOREM OldStaysSilent == StreamSpec => OldNeverNotified
<1> SUFFICES ASSUME NEW m \in Message, NEW c \in Stream
             PROVE  StreamSpec => [](m \in Delivered /\ notifier.call = c /\ stream[c].pc = "opened"
                                      => [](~ WasShown(m)))
  BY DEF OldNeverNotified
<1>1. StreamInit => NotifierBegins
  BY DEF StreamInit, RegisterForNotifications, NotifierBegins, Opened
<1>2. StreamIInv /\ m \in Delivered /\ notifier.call = c /\ stream[c].pc = "opened" => Old(m, c)
  <2> SUFFICES ASSUME StreamIInv, m \in Delivered, notifier.call = c, stream[c].pc = "opened"
               PROVE  Old(m, c)
    OBVIOUS
  <2>1. c # NoCall /\ stream[c].last = 0
    BY StreamAssumption DEF StreamIInv, LastIsATime
  <2>2. Within(delivered_at, shown, 0)
    BY <2>1 DEF StreamIInv, NotifierInOrder, TakenInOrder
  <2>3. shown \in Seq(Message) /\ delivered_at \in [Message -> 0 .. MaxClock]
    BY DEF StreamIInv, StreamTypeOK
  <2>4. \A i \in DOMAIN shown : FALSE
    BY <2>2, <2>3 DEF Within
  <2> QED
    BY <2>4 DEF Old, WasShown, Delivered
<1>3. Old(m, c) => ~ WasShown(m)
  BY DEF Old
<1> QED
  BY StreamInitIInv, StreamInductive, NotifierBeginsStep, OldStep, <1>1, <1>2, <1>3, PTL
     DEF StreamSpec, PromptSpec

=============================================================================
