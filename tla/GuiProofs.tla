------------------------------ MODULE GuiProofs ------------------------------
(***************************************************************************)
(* Proofs about the client's window: its tabs, adding a friend, the         *)
(* animation of the stories, the command bar and the dialogs; and, from all *)
(* of these proofs, about the parts side by side.                           *)
(***************************************************************************)
EXTENDS Parts, DaemonProofs, FastPirProofs, MessageStreamProofs

-----------------------------------------------------------------------------
(* The tabs: a tab's id tells its type, and an unclosable tab that has been *)
(* closed never comes back.                                                 *)

Single == {"new", "all", "outbox", "sent", "invitations"}

Tab == {tab \in [type : Types, id : Ids, data : WriteData \cup {NoData}] :
          /\ tab.type \in Single => tab.id = <<tab.type>>
          /\ tab.type = "read" => \E m \in WindowMessage : tab.id = <<"read", m>>
          /\ tab.type = "write" => \E n \in 1..MaxWrites : tab.id = <<"write", n>>
          /\ IF tab.type = "write" THEN tab.data \in WriteData ELSE tab.data = NoData}

Sending == [at : {"pending", "sent", "failed"}, tab : Ids, content : Ids \cup {NoText},
            to : SUBSET Friend, previous : Ids]

TabsInv ==
  /\ tabs \in Seq(Tab) /\ selectedTab \in Ids /\ previousSelectedTab \in Ids
  /\ blank \in BOOLEAN
  /\ SelectedTabIsOpen /\ BlankOnlyWithoutTabs /\ OneTabEach

\* Write keeps its text only while it is shown.
TextInv ==
  /\ content \in Ids \cup {NoText} /\ writes \in 0..MaxWrites /\ sends \in Seq(Sending)
  /\ selectedActualTab.type # "write" => content = NoText

WindowIInv == TabsInv /\ TextInv

-----------------------------------------------------------------------------

LEMMA IdOf ==
  /\ \A tab \in Tab : /\ tab.type \in Types /\ tab.id \in Ids /\ tab.id[1] = tab.type
                      /\ tab.type \in Section => tab.id = <<tab.type>>
                      /\ tab.type \in Single \/ tab.type = "read" \/ tab.type = "write"
  /\ NewTab \in Tab /\ AllTab \in Tab /\ Section \subseteq Single /\ unclosable \subseteq Ids
  /\ \A type \in Section : type # "new" /\ type # "all" /\ type # "read" /\ type # "write"
<1>1. Section \subseteq {"outbox", "sent", "invitations"}
  BY WindowAssumption
<1>2. unclosable = {<<"new">>, <<"all">>} /\ unclosable \subseteq Ids
  BY DEF unclosable, NewTab, AllTab, Ids
<1>4. NewTab \in Tab /\ AllTab \in Tab
  BY <1>2 DEF NewTab, AllTab, Tab, Types, Single
<1>5. ASSUME NEW tab \in Tab
      PROVE  /\ tab.type \in Types /\ tab.id \in Ids /\ tab.id[1] = tab.type
             /\ tab.type \in Section => tab.id = <<tab.type>>
             /\ tab.type \in Single \/ tab.type = "read" \/ tab.type = "write"
  <2>1. tab.type \in Types /\ tab.id \in Ids
    BY DEF Tab
  <2>2. tab.type \in Single \/ tab.type = "read" \/ tab.type = "write"
    BY <2>1 DEF Types, Single
  <2>3. CASE tab.type \in Single
    BY <1>1, <2>1, <2>2, <2>3 DEF Tab
  <2>4. CASE tab.type = "read"
    BY <1>1, <2>1, <2>2, <2>4 DEF Tab
  <2>5. CASE tab.type = "write"
    BY <1>1, <2>1, <2>2, <2>5 DEF Tab
  <2> QED BY <2>2, <2>3, <2>4, <2>5
<1> QED BY <1>1, <1>2, <1>4, <1>5 DEF Single

LEMMA TabsAre ==
  ASSUME NEW seq \in Seq(Tab)
  PROVE  /\ Len(seq) \in Nat /\ DOMAIN seq = 1..Len(seq) /\ \A i \in DOMAIN seq : seq[i] \in Tab
         /\ \A i \in DOMAIN seq : seq[i].id \in IdsOf(seq) /\ seq[i].id[1] = seq[i].type
         /\ IdsOf(seq) \subseteq Ids
         /\ (seq = <<>> <=> Len(seq) = 0)
<1>1. Len(seq) \in Nat /\ DOMAIN seq = 1..Len(seq) /\ \A i \in DOMAIN seq : seq[i] \in Tab
  OBVIOUS
<1>2. seq = <<>> <=> Len(seq) = 0
  OBVIOUS
<1> QED BY <1>1, <1>2, IdOf DEF IdsOf

-----------------------------------------------------------------------------
(* Finding and leaving out.                                                *)

\* A set of places of a list has them in order.
LEMMA PlacesInOrder ==
  ASSUME NEW N \in Nat, NEW S \in SUBSET (1..N)
  PROVE  /\ Cardinality(S) \in Nat /\ (S # {} => Cardinality(S) # 0)
         /\ \E place \in [1 .. Cardinality(S) -> S] :
              /\ \A m, n \in DOMAIN place : m < n => place[m] < place[n]
              /\ \A i \in S : \E n \in DOMAIN place : place[n] = i
<1>1. PICK ts : ts = [i \in S |-> N + 1 - i]
  OBVIOUS
<1>2. (\A m \in S : ts[m] \in 1 .. N) /\ (\A m, n \in S : ts[m] = ts[n] => m = n)
  BY <1>1
<1>3. PICK s \in [1 .. Cardinality(S) -> S] :
        /\ \A m \in S : \E i \in DOMAIN s : s[i] = m
        /\ \A i, j \in DOMAIN s : i < j => ts[s[i]] > ts[s[j]]
  BY <1>2, InOrder
<1>4. ASSUME NEW m \in DOMAIN s, NEW n \in DOMAIN s, m < n PROVE s[m] < s[n]
  <2>1. s[m] \in S /\ s[n] \in S /\ ts[s[m]] > ts[s[n]]
    BY <1>3, <1>4
  <2>2. s[m] \in 1..N /\ s[n] \in 1..N /\ ts[s[m]] = N + 1 - s[m] /\ ts[s[n]] = N + 1 - s[n]
    BY <1>1, <2>1
  <2> QED BY <2>1, <2>2
<1>5. IsFiniteSet(S)
  <2>1. IsFiniteSet(1..N)
    BY FS_Interval
  <2> QED BY <2>1, FS_Subset
<1>6. Cardinality(S) \in Nat /\ (S # {} => Cardinality(S) # 0)
  BY <1>5, FS_CardinalityType, FS_EmptySet
<1> QED BY <1>3, <1>4, <1>6

LEMMA FirstOf ==
  ASSUME NEW N \in Nat, NEW S \in SUBSET (1..N), S # {}
  PROVE  \E i \in S : \A j \in S : i <= j
<1>1. Cardinality(S) \in Nat /\ Cardinality(S) # 0
  BY PlacesInOrder
<1>2. PICK place \in [1 .. Cardinality(S) -> S] :
         /\ \A m, n \in DOMAIN place : m < n => place[m] < place[n]
         /\ \A i \in S : \E n \in DOMAIN place : place[n] = i
  BY PlacesInOrder
<1>3. place[1] \in S /\ 1 \in 1 .. Cardinality(S)
  BY <1>1, <1>2
<1>4. ASSUME NEW j \in S PROVE place[1] <= j
  <2>1. PICK n \in 1 .. Cardinality(S) : place[n] = j
    BY <1>2
  <2>2. n = 1 \/ 1 < n
    BY <2>1
  <2>3. place[1] = j \/ place[1] < j
    BY <1>2, <1>3, <2>1, <2>2
  <2>4. \A i \in S : i \in Int
    OBVIOUS
  <2>5. place[1] \in Int /\ j \in Int
    BY <1>3, <2>4
  <2> QED BY <2>3, <2>5
<1> QED BY <1>3, <1>4

LEMMA Finds ==
  ASSUME NEW seq \in Seq(Tab), NEW id
  PROVE  \/ findIndex(seq, id) = -1 /\ id \notin IdsOf(seq)
         \/ /\ findIndex(seq, id) \in 0..(Len(seq) - 1)
            /\ findIndex(seq, id) + 1 \in DOMAIN seq /\ seq[findIndex(seq, id) + 1].id = id
<1> DEFINE Found == {i \in DOMAIN seq : seq[i].id = id}
           First == CHOOSE i \in Found : \A j \in Found : i <= j
<1>1. findIndex(seq, id) = IF Found = {} THEN -1 ELSE First - 1
  BY DEF findIndex
<1>2. Found \in SUBSET (1..Len(seq)) /\ Len(seq) \in Nat /\ DOMAIN seq = 1..Len(seq)
  BY TabsAre
<1>3. CASE Found = {}
  <2>1. id \notin IdsOf(seq)
    BY <1>3 DEF IdsOf
  <2> QED BY <1>1, <1>3, <2>1
<1>4. CASE Found # {}
  <2>1. \E i \in Found : \A j \in Found : i <= j
    <3> HIDE DEF Found
    <3> QED BY <1>2, <1>4, FirstOf
  <2>2. First \in Found
    <3> HIDE DEF Found
    <3> QED BY <2>1
  <2>3. First \in 1..Len(seq) /\ seq[First].id = id
    BY <1>2, <2>2
  <2>4. findIndex(seq, id) = First - 1
    BY <1>1, <1>4
  <2> HIDE DEF First, Found
  <2> QED BY <1>2, <2>3, <2>4
<1> QED BY <1>3, <1>4

\* What is left of a list, each tab once.
LEMMA Leaves ==
  ASSUME NEW seq \in Seq(Tab), NEW id
  PROVE  /\ without(seq, id) \in Seq(Tab) /\ IdsOf(without(seq, id)) = IdsOf(seq) \ {id}
         /\ \A m, n \in DOMAIN without(seq, id) : m # n =>
              \E i, j \in DOMAIN seq : /\ i # j /\ without(seq, id)[m] = seq[i]
                                       /\ without(seq, id)[n] = seq[j]
<1> DEFINE Kept == {i \in DOMAIN seq : seq[i].id # id}
           left == without(seq, id)
<1>1. Kept \in SUBSET (1..Len(seq)) /\ Len(seq) \in Nat /\ DOMAIN seq = 1..Len(seq)
  BY TabsAre
<1>2. PICK place \in [1 .. Cardinality(Kept) -> Kept] :
        /\ place = Places(seq, id)
        /\ \A m, n \in DOMAIN place : m < n => place[m] < place[n]
        /\ \A i \in Kept : \E n \in DOMAIN place : place[n] = i
  <2>1. Places(seq, id) =
          CHOOSE p \in [1 .. Cardinality(Kept) -> Kept] :
            /\ \A m, n \in DOMAIN p : m < n => p[m] < p[n]
            /\ \A i \in Kept : \E n \in DOMAIN p : p[n] = i
    BY DEF Places
  <2>2. \E p \in [1 .. Cardinality(Kept) -> Kept] :
            /\ \A m, n \in DOMAIN p : m < n => p[m] < p[n]
            /\ \A i \in Kept : \E n \in DOMAIN p : p[n] = i
    <3> HIDE DEF Kept
    <3> QED BY <1>1, PlacesInOrder
  <2> HIDE DEF Kept
  <2> QED BY <2>1, <2>2, Zenon
<1>3. Cardinality(Kept) \in Nat
  <2> HIDE DEF Kept
  <2> QED BY <1>1, PlacesInOrder
<1>4. left = [n \in 1 .. Cardinality(Kept) |-> seq[place[n]]]
  <2> HIDE DEF Kept
  <2> QED BY <1>2 DEF without
<1>5. \A n \in 1 .. Cardinality(Kept) : place[n] \in Kept
  <2> HIDE DEF Kept
  <2> QED BY <1>2
<1>6. \A i \in Kept : i \in DOMAIN seq /\ seq[i] \in Tab /\ seq[i].id # id
  BY TabsAre
<1>7. \A i \in DOMAIN seq : seq[i].id # id => i \in Kept
  OBVIOUS
<1> HIDE DEF Kept
<1>8. \A n \in DOMAIN left : left[n] = seq[place[n]] /\ place[n] \in Kept
  BY <1>4, <1>5
<1>9. left \in Seq(Tab)
  BY <1>3, <1>4, <1>5, <1>6
<1>10. \A i \in Kept : \E n \in DOMAIN left : left[n] = seq[i]
  BY <1>2, <1>4
<1>11. IdsOf(left) = IdsOf(seq) \ {id}
  <2>1. IdsOf(left) \subseteq IdsOf(seq) \ {id}
    BY <1>6, <1>8 DEF IdsOf
  <2>2. ASSUME NEW x \in IdsOf(seq), x # id PROVE x \in IdsOf(left)
    <3>1. PICK i \in DOMAIN seq : seq[i].id = x
      BY <2>2 DEF IdsOf
    <3>2. PICK n \in DOMAIN left : left[n] = seq[i]
      BY <1>7, <1>10, <2>2, <3>1
    <3> QED BY <3>1, <3>2 DEF IdsOf
  <2> QED BY <2>1, <2>2
<1>12. ASSUME NEW m \in DOMAIN left, NEW n \in DOMAIN left, m # n
       PROVE  \E i, j \in DOMAIN seq : i # j /\ left[m] = seq[i] /\ left[n] = seq[j]
  <2>1. m \in 1 .. Cardinality(Kept) /\ n \in 1 .. Cardinality(Kept)
    BY <1>4
  <2>2. m < n \/ n < m
    BY <1>3, <1>12, <2>1
  <2>3. place[m] < place[n] \/ place[n] < place[m]
    BY <1>2, <2>1, <2>2
  <2>4. place[m] \in Int /\ place[n] \in Int
    <3>1. place[m] \in Kept /\ place[n] \in Kept
      BY <1>5, <2>1
    <3>2. \A i \in Kept : i \in Int
      BY <1>1
    <3> QED BY <3>1, <3>2
  <2>5. place[m] # place[n]
    BY <2>3, <2>4
  <2> QED BY <1>6, <1>8, <2>5
<1> QED BY <1>9, <1>11, <1>12

\* The tab that is shown is an open one, or the default one.
LEMMA Shown ==
  ASSUME tabs \in Seq(Tab)
  PROVE  /\ selectedActualTab \in Tab
         /\ \/ selectedActualTab = NewTab /\ selectedTab \notin IdsOf(tabs)
            \/ \E i \in DOMAIN tabs : selectedActualTab = tabs[i] /\ tabs[i].id = selectedTab
<1>1. defaultTab = NewTab
  BY DEF defaultTab, initial
<1>2. CASE findIndex(tabs, selectedTab) = -1 /\ selectedTab \notin IdsOf(tabs)
  BY <1>1, <1>2, IdOf DEF selectedActualTab
<1>3. CASE /\ findIndex(tabs, selectedTab) \in 0..(Len(tabs) - 1)
           /\ findIndex(tabs, selectedTab) + 1 \in DOMAIN tabs
           /\ tabs[findIndex(tabs, selectedTab) + 1].id = selectedTab
  <2>1. findIndex(tabs, selectedTab) # -1
    BY <1>3
  <2>2. selectedActualTab = tabs[findIndex(tabs, selectedTab) + 1]
    BY <2>1 DEF selectedActualTab
  <2> QED BY <1>3, <2>2, TabsAre
<1> QED BY <1>2, <1>3, Finds

LEMMA InitialTabs ==
  /\ initial \in Seq(Tab) /\ IdsOf(initial) = unclosable /\ initial # <<>>
  /\ \A i \in DOMAIN initial : initial[i].type \notin Section
<1>1. initial = <<NewTab, AllTab>> /\ NewTab \in Tab /\ AllTab \in Tab
  BY IdOf DEF initial
<1>2. initial \in Seq(Tab) /\ DOMAIN initial = 1..2 /\ initial[1] = NewTab /\ initial[2] = AllTab
  BY <1>1
<1>3. IdsOf(initial) = {initial[1].id, initial[2].id}
  BY <1>2 DEF IdsOf
<1>4. NewTab.type = "new" /\ AllTab.type = "all"
  BY DEF NewTab, AllTab
<1> QED BY <1>1, <1>2, <1>3, <1>4, IdOf DEF unclosable

-----------------------------------------------------------------------------
(* What the operations of useTabs do to the invariant.                     *)

LEMMA PushKeeps ==
  ASSUME TabsInv, ~ blank, NEW tab \in Tab, pushTab(tab), tab.id \notin unclosable,
         tab.type \in Section => \A i \in DOMAIN tabs : tabs[i].type # tab.type
  PROVE  TabsInv'
<1>1. /\ tabs' = Append(tabs, tab) /\ previousSelectedTab' = selectedTab
      /\ selectedTab' = tab.id /\ blank' = blank
  BY DEF pushTab
<1>2. /\ tabs' \in Seq(Tab) /\ Len(tabs') = Len(tabs) + 1
      /\ \A i \in 1..Len(tabs) : tabs'[i] = tabs[i]
      /\ tabs'[Len(tabs) + 1] = tab
  BY <1>1, AppendProperties DEF TabsInv
<1>3. /\ Len(tabs) \in Nat /\ DOMAIN tabs = 1..Len(tabs) /\ DOMAIN tabs' = 1..(Len(tabs) + 1)
  BY <1>2, TabsAre DEF TabsInv
<1>4. IdsOf(tabs') = IdsOf(tabs) \cup {tab.id}
  <2>1. \A i \in DOMAIN tabs' : i \in DOMAIN tabs \/ i = Len(tabs) + 1
    BY <1>3
  <2>2. \A i \in DOMAIN tabs : i \in DOMAIN tabs' /\ tabs'[i] = tabs[i]
    BY <1>2, <1>3
  <2>3. Len(tabs) + 1 \in DOMAIN tabs'
    BY <1>3
  <2> QED BY <1>2, <2>1, <2>2, <2>3 DEF IdsOf
<1>5. tab.id \in Ids
  BY IdOf
<1>6. SelectedTabIsOpen' /\ BlankOnlyWithoutTabs'
  BY <1>1, <1>4 DEF SelectedTabIsOpen, BlankOnlyWithoutTabs
<1>7. OneTabEach'
  <2>1. SUFFICES ASSUME NEW i \in DOMAIN tabs', NEW j \in DOMAIN tabs',
                        tabs'[i].type = tabs'[j].type, tabs'[i].type \in Section
                 PROVE  i = j
    BY DEF OneTabEach
  <2>2. CASE i \in DOMAIN tabs /\ j \in DOMAIN tabs
    BY <1>2, <1>3, <2>1, <2>2 DEF TabsInv, OneTabEach
  <2>3. CASE i = Len(tabs) + 1 /\ j \in DOMAIN tabs
    BY <1>2, <1>3, <2>1, <2>3
  <2>4. CASE i \in DOMAIN tabs /\ j = Len(tabs) + 1
    BY <1>2, <1>3, <2>1, <2>4
  <2> QED BY <1>3, <2>2, <2>3, <2>4
<1> QED BY <1>1, <1>2, <1>5, <1>6, <1>7 DEF TabsInv

LEMMA CloseKeeps ==
  ASSUME TabsInv, ~ blank, NEW id, NEW previous, closeTab(id, previous)
  PROVE  TabsInv'
<1>1. /\ tabs' = without(tabs, id)
      /\ selectedTab' = IF selectedTab # id THEN selectedTab
                        ELSE IF previous \in IdsOf(tabs') THEN previous ELSE NewTab.id
      /\ previousSelectedTab' = previousSelectedTab /\ blank' = blank
  BY DEF closeTab, defaultTab, initial
<1>2. /\ tabs' \in Seq(Tab) /\ IdsOf(tabs') = IdsOf(tabs) \ {id}
      /\ \A m, n \in DOMAIN tabs' : m # n =>
           \E i, j \in DOMAIN tabs : i # j /\ tabs'[m] = tabs[i] /\ tabs'[n] = tabs[j]
  BY <1>1, Leaves DEF TabsInv
<1>3. NewTab.id \in unclosable /\ NewTab.id \in Ids /\ IdsOf(tabs') \subseteq Ids
  BY <1>2, IdOf, TabsAre DEF unclosable
<1>4. selectedTab' \in Ids
  BY <1>1, <1>3 DEF TabsInv
<1>5. SelectedTabIsOpen'
  BY <1>1, <1>2, <1>3 DEF TabsInv, SelectedTabIsOpen
<1>6. BlankOnlyWithoutTabs'
  BY <1>1 DEF BlankOnlyWithoutTabs
<1>7. OneTabEach'
  BY <1>2 DEF TabsInv, OneTabEach
<1> QED BY <1>1, <1>2, <1>4, <1>5, <1>6, <1>7 DEF TabsInv

LEMMA SwitchKeeps ==
  ASSUME TabsInv, ~ blank, NEW id \in Ids, switchTab(id),
         unclosable \subseteq IdsOf(tabs) => id \in IdsOf(tabs)
  PROVE  TabsInv'
BY DEF switchTab, TabsInv, SelectedTabIsOpen, BlankOnlyWithoutTabs, OneTabEach

\* i steps on, or back, from a tab of the list.
LEMMA SelectKeeps ==
  ASSUME TabsInv, ~ blank, NEW seq \in Seq(Tab), NEW i \in Int, SelectAt(seq, i),
         i >= 0 \/ (i = -1 /\ Len(seq) <= 1),
         IdsOf(seq) \subseteq IdsOf(tabs) \cup unclosable, seq = <<>> => tabs = <<>>
  PROVE  TabsInv'
<1>1. Len(seq) \in Nat /\ DOMAIN seq = 1..Len(seq) /\ (seq = <<>> <=> Len(seq) = 0)
      /\ IdsOf(seq) \subseteq Ids
  BY TabsAre
<1>2. CASE Len(seq) = 0
  <2>1. blank' = TRUE /\ UNCHANGED <<tabs, selectedTab, previousSelectedTab>>
    BY <1>2 DEF SelectAt
  <2>2. tabs' = <<>>
    BY <1>1, <1>2, <2>1
  <2> QED BY <2>1, <2>2 DEF TabsInv, SelectedTabIsOpen, BlankOnlyWithoutTabs, OneTabEach
<1>3. CASE Len(seq) # 0
  <2>1. Remainder(i, Len(seq)) \in 0..(Len(seq) - 1)
    <3>1. CASE i >= 0
      BY <1>1, <1>3, <3>1 DEF Remainder
    <3>2. CASE i = -1 /\ Len(seq) = 1
      BY <3>2 DEF Remainder
    <3> QED BY <1>1, <1>3, <3>1, <3>2
  <2>2. PICK k \in DOMAIN seq : k = Remainder(i, Len(seq)) + 1
    BY <1>1, <2>1
  <2>3. /\ selectedTab' = seq[k].id /\ previousSelectedTab' = selectedTab
        /\ UNCHANGED <<tabs, blank>>
    BY <1>3, <2>1, <2>2 DEF SelectAt
  <2>4. seq[k].id \in IdsOf(seq)
    BY DEF IdsOf
  <2> QED BY <1>1, <2>3, <2>4
          DEF TabsInv, SelectedTabIsOpen, BlankOnlyWithoutTabs, OneTabEach
<1> QED BY <1>2, <1>3

\* The tab that is shown gets other data.
LEMMA UpdateKeeps ==
  ASSUME TabsInv, ~ blank, selectedActualTab.type = "write", NEW data \in WriteData,
         updateTab([selectedActualTab EXCEPT !.data = data])
  PROVE  /\ TabsInv' /\ IdsOf(tabs') = IdsOf(tabs)
         /\ DOMAIN tabs' = DOMAIN tabs
         /\ \A i \in DOMAIN tabs : tabs'[i].id = tabs[i].id /\ tabs'[i].type = tabs[i].type
<1>1. selectedActualTab \in Tab
  BY Shown DEF TabsInv
<1>2. PICK tab : tab = [selectedActualTab EXCEPT !.data = data]
  OBVIOUS
<1>3. tab \in Tab /\ tab.id = selectedActualTab.id /\ tab.type = "write"
  <2>1. tab \in [type : Types, id : Ids, data : WriteData \cup {NoData}]
        /\ tab.id = selectedActualTab.id /\ tab.type = "write" /\ tab.data = data
    BY <1>1, <1>2 DEF Tab
  <2>2. \E n \in 1..MaxWrites : tab.id = <<"write", n>>
    BY <1>1, <2>1 DEF Tab
  <2> QED BY <2>1, <2>2 DEF Tab, Single
<1>4. tabs' = [i \in DOMAIN tabs |-> IF tabs[i].id = tab.id THEN tab ELSE tabs[i]]
      /\ UNCHANGED <<selectedTab, previousSelectedTab, blank>>
  BY <1>2 DEF updateTab
<1>5. /\ DOMAIN tabs = 1..Len(tabs) /\ Len(tabs) \in Nat
      /\ \A i \in DOMAIN tabs : tabs[i] \in Tab /\ tabs[i].id[1] = tabs[i].type
  BY TabsAre DEF TabsInv
<1>6. tabs' \in Seq(Tab) /\ DOMAIN tabs' = DOMAIN tabs
  BY <1>3, <1>4, <1>5
<1>7. tab.id[1] = "write"
  BY <1>3, IdOf
<1>8. \A i \in DOMAIN tabs : tabs'[i].id = tabs[i].id /\ tabs'[i].type = tabs[i].type
  BY <1>3, <1>4, <1>5, <1>7
<1>9. IdsOf(tabs') = IdsOf(tabs)
  BY <1>6, <1>8 DEF IdsOf
<1>10. OneTabEach'
  BY <1>6, <1>8 DEF TabsInv, OneTabEach
<1> QED BY <1>4, <1>6, <1>8, <1>9, <1>10 DEF TabsInv, SelectedTabIsOpen, BlankOnlyWithoutTabs

\* What is found depends only on the ids.
Of(seq, id) == {i \in DOMAIN seq : seq[i].id = id}
IndexIn(S) == IF S = {} THEN -1 ELSE (CHOOSE i \in S : \A j \in S : i <= j) - 1

LEMMA SameTabShown ==
  ASSUME tabs \in Seq(Tab), tabs' \in Seq(Tab), DOMAIN tabs' = DOMAIN tabs,
         \A i \in DOMAIN tabs : tabs'[i].id = tabs[i].id /\ tabs'[i].type = tabs[i].type,
         selectedTab' = selectedTab
  PROVE  selectedActualTab'.type = selectedActualTab.type
<1>1. findIndex(tabs', selectedTab') = findIndex(tabs, selectedTab)
  <2>1. /\ findIndex(tabs, selectedTab) = IndexIn(Of(tabs, selectedTab))
        /\ findIndex(tabs', selectedTab') = IndexIn(Of(tabs', selectedTab'))
    BY DEF findIndex, IndexIn, Of
  <2>2. Of(tabs', selectedTab') = Of(tabs, selectedTab)
    BY DEF Of
  <2> QED BY <2>1, <2>2
<1>2. PICK k : k = findIndex(tabs, selectedTab)
  OBVIOUS
<1>3. k = -1 \/ k + 1 \in DOMAIN tabs
  BY <1>2, Finds
<1>4. /\ selectedActualTab = IF k = -1 THEN defaultTab ELSE tabs[k + 1]
      /\ selectedActualTab' = IF k = -1 THEN defaultTab ELSE tabs'[k + 1]
  BY <1>1, <1>2 DEF selectedActualTab, defaultTab, initial
<1> QED BY <1>3, <1>4

-----------------------------------------------------------------------------
(* The actions of Main and Write.                                          *)

\* What Mounted leaves of the text, once the tabs are right.
LEMMA MountedKeeps ==
  ASSUME TextInv, Mounted, writes' \in 0..MaxWrites, sends' \in Seq(Sending)
  PROVE  TextInv'
BY DEF TextInv, Mounted

LEMMA ListKeeps ==
  ASSUME WindowIInv,
         \/ \E m \in WindowMessage : readMessage(m)
         \/ \E type \in Section : open(type)
         \/ writeMessage
  PROVE  WindowIInv'
<1>1. ASSUME NEW m \in WindowMessage, readMessage(m) PROVE WindowIInv'
  <2>1. m # "undefined"
    BY WindowAssumption
  <2>2. ~ blank /\ Mounted /\ UNCHANGED <<writes, sends>>
        /\ pushTab([type |-> "read", id |-> <<"read", m>>, data |-> NoData])
    BY <1>1, <2>1 DEF readMessage, Shows, DataId
  <2>3. PICK tab : tab = [type |-> "read", id |-> <<"read", m>>, data |-> NoData]
    OBVIOUS
  <2>4. tab \in Tab /\ tab.type = "read" /\ tab.id[1] = "read"
    BY <2>3 DEF Tab, Types, Ids, Single
  <2>5. tab.id \notin unclosable /\ tab.type \notin Section
    BY <2>4, IdOf DEF unclosable, NewTab, AllTab
  <2>6. TabsInv'
    BY <2>2, <2>3, <2>4, <2>5, PushKeeps DEF WindowIInv
  <2>7. TextInv'
    BY <2>2, MountedKeeps DEF WindowIInv, TextInv
  <2> QED BY <2>6, <2>7 DEF WindowIInv
<1>2. ASSUME NEW type \in Section, open(type) PROVE WindowIInv'
  <2>1. ~ blank /\ Mounted /\ UNCHANGED <<writes, sends>>
    BY <1>2 DEF open
  <2>2. TextInv'
    BY <2>1, MountedKeeps DEF WindowIInv, TextInv
  <2>3. type \in Single /\ type \in Types /\ <<type>> \in Ids
    BY WindowAssumption DEF Single, Types, Ids
  <2>4. CASE \E i \in DOMAIN tabs : tabs[i].type = type
    <3>1. switchTab(<<type>>)
      BY <1>2, <2>4 DEF open
    <3>2. <<type>> \in IdsOf(tabs)
      BY <2>3, <2>4, TabsAre, IdOf DEF WindowIInv, TabsInv, IdsOf
    <3> QED BY <2>1, <2>2, <2>3, <3>1, <3>2, SwitchKeeps DEF WindowIInv
  <2>5. CASE ~ \E i \in DOMAIN tabs : tabs[i].type = type
    <3>1. PICK tab : tab = [type |-> type, id |-> <<type>>, data |-> NoData]
      OBVIOUS
    <3>2. pushTab(tab)
      BY <1>2, <2>5, <3>1 DEF open
    <3>3. tab \in Tab /\ tab.type = type
      BY <2>3, <3>1, IdOf DEF Tab
    <3>4. tab.id \notin unclosable
      BY <3>1, IdOf DEF unclosable, NewTab, AllTab
    <3> QED BY <2>1, <2>2, <2>5, <3>2, <3>3, <3>4, PushKeeps DEF WindowIInv
  <2> QED BY <2>4, <2>5
<1>3. ASSUME writeMessage PROVE WindowIInv'
  <2>1. /\ ~ blank /\ writes < MaxWrites /\ writes' = writes + 1 /\ Mounted /\ UNCHANGED sends
        /\ pushTab([type |-> "write", id |-> <<"write", writes'>>,
                    data |-> [searching |-> FALSE, friends |-> {}]])
    BY <1>3 DEF writeMessage
  <2>2. writes' \in 0..MaxWrites /\ writes' \in 1..MaxWrites
    BY <2>1, WindowAssumption DEF WindowIInv, TextInv
  <2>3. PICK tab : tab = [type |-> "write", id |-> <<"write", writes'>>,
                          data |-> [searching |-> FALSE, friends |-> {}]]
    OBVIOUS
  <2>4. [searching |-> FALSE, friends |-> {}] \in WriteData
    BY DEF WriteData
  <2>5. tab \in Tab /\ tab.type = "write" /\ tab.id[1] = "write"
    BY <2>2, <2>3, <2>4 DEF Tab, Types, Ids, Single
  <2>6. tab.id \notin unclosable /\ tab.type \notin Section
    BY <2>5, IdOf DEF unclosable, NewTab, AllTab
  <2>7. TabsInv'
    BY <2>1, <2>3, <2>5, <2>6, PushKeeps DEF WindowIInv
  <2>8. TextInv'
    BY <2>1, <2>2, MountedKeeps DEF WindowIInv, TextInv
  <2> QED BY <2>7, <2>8 DEF WindowIInv
<1> QED BY <1>1, <1>2, <1>3

LEMMA SwitchesKeep ==
  ASSUME WindowIInv,
         \/ Switch(AllTab.id)
         \/ \E i \in DOMAIN tabs : Switch(tabs[i].id)
         \/ CtrlTab \/ CtrlShiftTab \/ NextTabCommand
  PROVE  WindowIInv'
<1>1. tabs \in Seq(Tab) /\ Len(tabs) \in Nat /\ IdsOf(tabs) \subseteq Ids
  BY TabsAre DEF WindowIInv, TabsInv
<1>2. ASSUME NEW id \in IdsOf(tabs) \cup {AllTab.id}, Switch(id) PROVE WindowIInv'
  <2>1. ~ blank /\ switchTab(id) /\ Mounted /\ UNCHANGED <<writes, sends>>
    BY <1>2 DEF Switch
  <2>2. AllTab.id \in unclosable /\ id \in Ids
    BY <1>1, IdOf DEF unclosable
  <2>3. TabsInv'
    BY <2>1, <2>2, SwitchKeeps DEF WindowIInv
  <2> QED BY <2>1, <2>3, MountedKeeps DEF WindowIInv, TextInv
<1>3. ASSUME NEW seq \in Seq(Tab), NEW i \in Int, SelectAt(seq, i), ~ blank,
             i >= 0 \/ (i = -1 /\ Len(seq) <= 1),
             Mounted, UNCHANGED <<writes, sends>>, seq \in {tabs, initial}
      PROVE  WindowIInv'
  <2>1. IdsOf(seq) \subseteq IdsOf(tabs) \cup unclosable /\ (seq = <<>> => tabs = <<>>)
    BY <1>3, InitialTabs
  <2>2. TabsInv'
    BY <1>3, <2>1, SelectKeeps DEF WindowIInv
  <2> QED BY <1>3, <2>2, MountedKeeps DEF WindowIInv, TextInv
<1>4. ASSUME NEW seq \in Seq(Tab)
      PROVE  /\ findIndex(seq, selectedTab) + 1 \in Nat
             /\ findIndex(seq, selectedTab) - 1 + Len(seq) \in Int
             /\ \/ findIndex(seq, selectedTab) - 1 + Len(seq) >= 0
                \/ Len(seq) <= 1 /\ findIndex(seq, selectedTab) - 1 + Len(seq) = -1
                \/ Len(seq) = 0
  <2>1. Len(seq) \in Nat
    BY TabsAre
  <2> QED BY <2>1, Finds
<1>5. ASSUME CtrlTab PROVE WindowIInv'
  <2>1. PICK k \in Int : k = findIndex(tabs, selectedTab) + 1 /\ k >= 0
    BY <1>1, <1>4
  <2>2. ~ blank /\ SelectAt(tabs, k) /\ Mounted /\ UNCHANGED <<writes, sends>>
    BY <1>5, <2>1 DEF CtrlTab, nextTab
  <2> QED BY <1>1, <1>3, <2>1, <2>2
<1>6. ASSUME NextTabCommand PROVE WindowIInv'
  <2>1. initial \in Seq(Tab)
    BY InitialTabs
  <2>2. PICK k \in Int : k = findIndex(initial, selectedTab) + 1 /\ k >= 0
    BY <1>4, <2>1
  <2>3. ~ blank /\ SelectAt(initial, k) /\ Mounted /\ UNCHANGED <<writes, sends>>
    BY <1>6, <2>2 DEF NextTabCommand, nextTab
  <2> QED BY <1>3, <2>1, <2>2, <2>3
<1>7. ASSUME CtrlShiftTab PROVE WindowIInv'
  <2>1. PICK k \in Int : k = findIndex(tabs, selectedTab) - 1 + Len(tabs)
    BY <1>1, <1>4
  <2>2. ~ blank /\ SelectAt(tabs, k) /\ Mounted /\ UNCHANGED <<writes, sends>>
    BY <1>7, <2>1 DEF CtrlShiftTab, previousTab
  <2>3. CASE Len(tabs) = 0
    <3>1. SelectAt(tabs, 0)
      BY <2>2, <2>3 DEF SelectAt
    <3> QED BY <1>1, <1>3, <2>2, <3>1
  <2>4. CASE Len(tabs) # 0
    <3>1. k >= 0 \/ (k = -1 /\ Len(tabs) <= 1)
      BY <1>1, <1>4, <2>1, <2>4
    <3> QED BY <1>1, <1>3, <2>2, <3>1
  <2> QED BY <2>3, <2>4
<1> QED BY <1>2, <1>5, <1>6, <1>7 DEF IdsOf

LEMMA SendsGoOn ==
  ASSUME sends \in Seq(Sending), NEW i \in DOMAIN sends, NEW at \in {"sent", "failed"}
  PROVE  [sends EXCEPT ![i].at = at] \in Seq(Sending)
<1>2. DOMAIN sends = 1..Len(sends) /\ sends[i] \in Sending
  BY LenProperties, ElementOfSeq
<1>1. [sends[i] EXCEPT !.at = at] \in Sending
  BY <1>2 DEF Sending
<1> QED BY <1>1, <1>2, ExceptSeq

LEMMA ClosesKeep ==
  ASSUME WindowIInv,
         \/ Close
         \/ \E i \in DOMAIN tabs : ClickClose(tabs[i].id)
         \/ \E i \in DOMAIN sends : Sent(i)
  PROVE  WindowIInv'
<1>1. ASSUME NEW id, NEW previous, ~ blank, closeTab(id, previous), Mounted, UNCHANGED writes,
             sends' \in Seq(Sending)
      PROVE  WindowIInv'
  BY <1>1, CloseKeeps, MountedKeeps DEF WindowIInv, TextInv
<1>2. sends \in Seq(Sending)
  BY DEF WindowIInv, TextInv
<1>3. ASSUME Close PROVE WindowIInv'
  BY <1>1, <1>2, <1>3 DEF Close
<1>4. ASSUME NEW id, ClickClose(id) PROVE WindowIInv'
  BY <1>1, <1>2, <1>4 DEF ClickClose
<1>5. ASSUME NEW i \in DOMAIN sends, Sent(i) PROVE WindowIInv'
  <2>1. sends' = [sends EXCEPT ![i].at = "sent"]
    BY <1>5 DEF Sent
  <2>2. sends' \in Seq(Sending)
    BY <1>2, <2>1, SendsGoOn
  <2> QED BY <1>1, <1>5, <2>2 DEF Sent
<1> QED BY <1>3, <1>4, <1>5

LEMMA WritesKeep ==
  ASSUME WindowIInv,
         \/ \E data \in WriteData : editWrite(data)
         \/ Type \/ send
         \/ \E i \in DOMAIN sends : SendFails(i)
  PROVE  WindowIInv'
<1>0. TabsInv /\ TextInv /\ selectedActualTab \in Tab /\ tabs \in Seq(Tab)
  BY Shown DEF WindowIInv, TabsInv
<1>1. UNCHANGED tabVars => TabsInv' /\ selectedActualTab' = selectedActualTab
  BY <1>0 DEF tabVars, TabsInv, SelectedTabIsOpen, BlankOnlyWithoutTabs, OneTabEach,
     selectedActualTab
<1>2. ASSUME NEW data \in WriteData, editWrite(data) PROVE WindowIInv'
  <2>1. /\ ~ blank /\ selectedActualTab.type = "write"
        /\ updateTab([selectedActualTab EXCEPT !.data = data])
        /\ UNCHANGED <<content, writes, sends>>
    BY <1>2 DEF editWrite, Shows
  <2>2. /\ TabsInv' /\ DOMAIN tabs' = DOMAIN tabs
        /\ \A i \in DOMAIN tabs : tabs'[i].id = tabs[i].id /\ tabs'[i].type = tabs[i].type
    BY <1>0, <2>1, UpdateKeeps
  <2>3. selectedTab' = selectedTab /\ tabs' \in Seq(Tab)
    BY <2>1, <2>2 DEF updateTab, TabsInv
  <2>4. selectedActualTab'.type = selectedActualTab.type
    BY <1>0, <2>2, <2>3, SameTabShown
  <2> QED BY <1>0, <2>1, <2>2, <2>4 DEF WindowIInv, TextInv
<1>3. ASSUME Type PROVE WindowIInv'
  <2>1. /\ selectedActualTab.type = "write" /\ content' = selectedActualTab.id
        /\ UNCHANGED <<tabVars, writes, sends>>
    BY <1>3 DEF Type, Shows
  <2>2. selectedActualTab.id \in Ids
    BY <1>0, IdOf
  <2> QED BY <1>0, <1>1, <2>1, <2>2 DEF WindowIInv, TextInv
<1>4. ASSUME send PROVE WindowIInv'
  <2>1. /\ selectedActualTab.type = "write" /\ UNCHANGED <<tabVars, content, writes>>
        /\ sends' = Append(sends, [at |-> "pending", tab |-> selectedActualTab.id,
                                   content |-> content, to |-> selectedActualTab.data.friends,
                                   previous |-> previousSelectedTab])
    BY <1>4 DEF send, Shows
  <2>2. selectedActualTab.data \in WriteData /\ selectedActualTab.id \in Ids
    BY <1>0, <2>1, IdOf DEF Tab
  <2>3. PICK s : s = [at |-> "pending", tab |-> selectedActualTab.id,
                      content |-> content, to |-> selectedActualTab.data.friends,
                      previous |-> previousSelectedTab]
    OBVIOUS
  <2>4. s \in Sending
    BY <1>0, <2>2, <2>3 DEF Sending, TabsInv, TextInv, WriteData
  <2>5. sends' \in Seq(Sending)
    BY <1>0, <2>1, <2>3, <2>4, AppendProperties DEF TextInv
  <2> QED BY <1>0, <1>1, <2>1, <2>5 DEF WindowIInv, TextInv
<1>5. ASSUME NEW i \in DOMAIN sends, SendFails(i) PROVE WindowIInv'
  <2>1. sends' = [sends EXCEPT ![i].at = "failed"] /\ UNCHANGED <<tabVars, content, writes>>
    BY <1>5 DEF SendFails
  <2>2. sends' \in Seq(Sending)
    BY <1>0, <2>1, SendsGoOn DEF TextInv
  <2> QED BY <1>0, <1>1, <2>1, <2>2 DEF WindowIInv, TextInv
<1> QED BY <1>2, <1>3, <1>4, <1>5

LEMMA WindowInductive == WindowSpec => []WindowIInv
<1>1. WindowInit => WindowIInv
  <2> SUFFICES ASSUME WindowInit PROVE WindowIInv
    OBVIOUS
  <2>1. /\ tabs = initial /\ selectedTab = <<"new">> /\ previousSelectedTab = <<"new">>
        /\ blank = FALSE /\ content = NoText /\ writes = 0 /\ sends = <<>>
    BY DEF WindowInit, TabsInit, defaultTab, initial, NewTab
  <2>2. <<"new">> \in unclosable /\ unclosable \subseteq Ids
    BY IdOf DEF unclosable, NewTab
  <2>3. SelectedTabIsOpen /\ BlankOnlyWithoutTabs /\ OneTabEach
    BY <2>1, <2>2, InitialTabs DEF SelectedTabIsOpen, BlankOnlyWithoutTabs, OneTabEach
  <2>4. TabsInv
    BY <2>1, <2>2, <2>3, InitialTabs DEF TabsInv
  <2>5. <<>> \in Seq(Sending) /\ 0 \in 0..MaxWrites
    BY WindowAssumption
  <2>6. TextInv
    BY <2>1, <2>5 DEF TextInv
  <2> QED BY <2>4, <2>6 DEF WindowIInv
<1>2. WindowIInv /\ [WindowNext]_windowVars => WindowIInv'
  <2> SUFFICES ASSUME WindowIInv, [WindowNext]_windowVars PROVE WindowIInv'
    OBVIOUS
  <2>1. CASE WindowNext
    BY <2>1, ListKeeps, SwitchesKeep, ClosesKeep, WritesKeep DEF WindowNext
  <2>2. CASE UNCHANGED windowVars
    BY <2>2 DEF windowVars, tabVars, WindowIInv, TabsInv, TextInv, SelectedTabIsOpen,
       BlankOnlyWithoutTabs, OneTabEach, selectedActualTab
  <2> QED BY <2>1, <2>2
<1> QED BY <1>1, <1>2, PTL DEF WindowSpec

-----------------------------------------------------------------------------

\* Every variable keeps its type, for any number of tabs, messages and calls.
THEOREM WindowTypeCorrect == WindowSpec => []WindowTypeOK
<1>1. WindowIInv => WindowTypeOK
  <2> SUFFICES ASSUME WindowIInv PROVE WindowTypeOK
    OBVIOUS
  <2>1. \A i \in DOMAIN tabs :
          /\ tabs[i].type \in Types /\ tabs[i].id \in Ids
          /\ IF tabs[i].type = "write" THEN tabs[i].data \in WriteData ELSE tabs[i].data = NoData
    BY TabsAre DEF WindowIInv, TabsInv, Tab
  <2>2. \A i \in DOMAIN sends : sends[i].at \in {"pending", "sent", "failed"}
    <3>1. sends \in Seq(Sending)
      BY DEF WindowIInv, TextInv
    <3>2. \A i \in DOMAIN sends : sends[i] \in Sending
      BY <3>1, LenProperties, ElementOfSeq
    <3> QED BY <3>2 DEF Sending
  <2> QED BY <2>1, <2>2 DEF WindowIInv, TabsInv, TextInv, WindowTypeOK
<1> QED BY <1>1, WindowInductive, PTL

\* Whatever callbacks of earlier renders are called and whenever answers come: the selected
\* tab is an open one while the unclosable ones are there, a render only throws when no tab
\* is left, and the lists of the sidebar have one tab at most.
THEOREM TabsStaySound == WindowSpec => []TabsAreSound
<1>1. WindowIInv => TabsAreSound
  BY DEF WindowIInv, TabsInv, TabsAreSound
<1> QED BY <1>1, WindowInductive, PTL

\* The answer to a sendMessage closes the tab it was composed in, and no other.
THEOREM AnswersCloseTheirTabs == WindowSpec => AnswerClosesItsTab
<1>1. WindowIInv /\ [WindowNext]_windowVars =>
        [\A i \in DOMAIN sends :
           sends'[i].at # sends[i].at =>
             /\ IdsOf(tabs) \ {sends[i].tab} \subseteq IdsOf(tabs')
             /\ selectedTab # sends[i].tab => selectedTab' = selectedTab]_windowVars
  <2> SUFFICES ASSUME WindowIInv, WindowNext, NEW i \in DOMAIN sends,
                      sends'[i].at # sends[i].at
               PROVE  /\ IdsOf(tabs) \ {sends[i].tab} \subseteq IdsOf(tabs')
                      /\ selectedTab # sends[i].tab => selectedTab' = selectedTab
    OBVIOUS
  <2>1. tabs \in Seq(Tab) /\ sends \in Seq(Sending)
    BY DEF WindowIInv, TabsInv, TextInv
  <2>2. ~ UNCHANGED sends
    OBVIOUS
  <2>3. ~ send
    <3> SUFFICES ASSUME send PROVE FALSE
      OBVIOUS
    <3>1. PICK s : sends' = Append(sends, s)
      BY DEF send
    <3>2. sends'[i] = sends[i]
      BY <2>1, <3>1
    <3> QED BY <3>2
  <2>4. \E j \in DOMAIN sends : Sent(j) \/ SendFails(j)
    BY <2>2, <2>3 DEF WindowNext, readMessage, open, Switch, ClickClose, writeMessage, CtrlTab,
       CtrlShiftTab, NextTabCommand, Close, editWrite, Type
  <2>5. PICK j \in DOMAIN sends : Sent(j) \/ SendFails(j)
    BY <2>4
  <2>6. i = j
    BY <2>1, <2>5 DEF Sent, SendFails
  <2>7. CASE Sent(i)
    <3>1. closeTab(sends[i].tab, sends[i].previous)
      BY <2>7 DEF Sent
    <3>2. tabs' = without(tabs, sends[i].tab)
          /\ (selectedTab # sends[i].tab => selectedTab' = selectedTab)
      BY <3>1 DEF closeTab
    <3> QED BY <2>1, <3>2, Leaves
  <2>8. CASE SendFails(i)
    BY <2>8 DEF SendFails, tabVars
  <2> QED BY <2>5, <2>6, <2>7, <2>8
<1> QED BY <1>1, WindowInductive, PTL DEF WindowSpec, AnswerClosesItsTab

-----------------------------------------------------------------------------
(* Adding a friend in person: what the animation that is shown says of the  *)
(* form, for user u with l whether the own story has come, t the form, p the *)
(* screen, hs and s the seeds, i whether the animations were identical, and   *)
(* a what was added.                                                         *)

IsSeedOf(u, s) ==
  \E x \in {<<>>, Story(u)} :
    \E y \in {<<>>} \cup [1..1 -> Line(u)] \cup [1..Sentences -> Line(u)] : s = {x, y}

SeedOf(u, l, t) == {IF l THEN Story(u) ELSE <<>>, join(t)}

UserInv(u, l, t, p, hs, s, i, a) ==
  /\ l \in BOOLEAN /\ p \in 0..3 /\ i \in BOOLEAN
  /\ t \in [Lines(l) -> Line(u)]
  /\ p # 1 => hs = {} /\ ~ i
  /\ s = NoSeed \/ IsSeedOf(u, s)
  /\ \A d \in hs : IsSeedOf(u, d)
  /\ p = 3 <=> a # <<>>
  \* A form that is complete at the animation was so from its beginning.
  /\ p = 1 /\ from_story(t) => \/ hs = {SeedOf(u, l, t)}
                               \/ hs = {} /\ s = SeedOf(u, l, t)
  \* Identical animations were made of the right stories, if of stories at all.
  /\ p = 2 \/ (p = 1 /\ i) => (from_story(t) => t = Story(Other(u)))
  /\ a # <<>> => a = Story(Other(u))

Friendly(u) == UserInv(u, loaded[u], theirstory[u], progress[u], hashing[u], shownSeed[u],
                       identical[u], added[u])

ByUser ==
  /\ loaded \in [User -> BOOLEAN] /\ showverify \in [User -> BOOLEAN]
  /\ progress \in [User -> 0..3]
  /\ DOMAIN theirstory = User /\ DOMAIN hashing = User /\ DOMAIN shownSeed = User
  /\ DOMAIN identical = User /\ DOMAIN added = User

AddFriendIInv == ByUser /\ \A u \in User : Friendly(u)

-----------------------------------------------------------------------------

LEMMA Stories ==
  ASSUME NEW u \in User
  PROVE  /\ Sentences \in Nat /\ Sentences > 1 /\ Other(u) \in User /\ Other(Other(u)) = u
         /\ Other(u) # u
         /\ DOMAIN Story(u) = 1..Sentences /\ Story(u) # <<>> /\ Story(u) # Story(Other(u))
         /\ Story(u) \in [1..Sentences -> Line(Other(u))]
         /\ \A t : t = Story(u) => from_story(t) /\ join(t) = t
         /\ Story(u) \notin [1..Sentences -> Line(u)]
<1>1. Sentences \in Nat /\ Sentences > 1 /\ 1 \in 1..Sentences
  BY AddFriendAssumption
<1>2. Other(u) \in User /\ Other(Other(u)) = u /\ Other(u) # u
  BY DEF User, Other
<1>3. /\ DOMAIN Story(u) = 1..Sentences /\ Story(u)[1] = <<u, 1>>
      /\ Story(Other(u))[1] = <<Other(u), 1>>
  BY <1>1 DEF Story, Told
<1>4. Story(u) # <<>> /\ Story(u) # <<Blank>> /\ Story(u) # Story(Other(u))
  <2>1. DOMAIN <<>> = {} /\ DOMAIN <<Blank>> = 1..1 /\ 2 \in 1..Sentences
    BY <1>1
  <2>2. DOMAIN Story(u) # {} /\ DOMAIN Story(u) # 1..1
    BY <1>1, <1>3, <2>1
  <2>3. <<u, 1>> # <<Other(u), 1>>
    BY <1>2
  <2> QED BY <1>3, <2>1, <2>2, <2>3
<1>5. \A i \in 1..Sentences : Story(u)[i] = <<u, i>> /\ <<u, i>> # Blank
  BY DEF Story, Told, Blank, User
<1>6. from_story(Story(u)) /\ join(Story(u)) = Story(u)
  BY <1>3, <1>4, <1>5 DEF from_story, allComplete, join
<1>7. Story(u) \in [1..Sentences -> Line(Other(u))]
  BY <1>2 DEF Story, Line
<1>8. Story(u) \notin [1..Sentences -> Line(u)]
  <2>1. <<u, 1>> \notin Line(u)
    BY <1>2 DEF Line, Told, Blank, Else, User, Other
  <2> QED BY <1>1, <1>3, <2>1
<1> QED BY <1>1, <1>2, <1>3, <1>4, <1>6, <1>7, <1>8

\* What the daemon accepts is a whole story, typed when the user's own had come.
LEMMA Accepted ==
  ASSUME NEW u \in User, NEW l \in BOOLEAN, NEW t \in [Lines(l) -> Line(u)]
  PROVE  /\ from_story(join(t)) => from_story(t)
         /\ from_story(t) => /\ join(t) = t /\ l /\ t \in [1..Sentences -> Line(u)] /\ t # <<>>
                             /\ SeedOf(u, l, t) = {Story(u), t}
         /\ ~ from_story(Blanks(TRUE)) /\ Blanks(TRUE) \in [Lines(TRUE) -> Line(u)]
         /\ join(t) \in {<<>>} \cup [1..1 -> Line(u)] \cup [1..Sentences -> Line(u)]
<1>1. Sentences \in Nat /\ Sentences > 1 /\ 1 \in 1..Sentences /\ 2 \in 1..Sentences
  BY AddFriendAssumption
<1>2. DOMAIN <<>> # 1..Sentences /\ DOMAIN <<Blank>> # 1..Sentences
  BY <1>1
<1>3. from_story(join(t)) => from_story(t)
  BY <1>2 DEF from_story, join
<1>4. ASSUME from_story(t)
      PROVE  /\ join(t) = t /\ l /\ t \in [1..Sentences -> Line(u)] /\ t # <<>>
             /\ SeedOf(u, l, t) = {Story(u), t}
  <2>1. DOMAIN t = 1..Sentences /\ DOMAIN t = Lines(l)
    BY <1>4 DEF from_story
  <2>2. l
    <3>1. ~ l => Lines(l) = 1..1
      BY DEF Lines
    <3>2. 2 \notin 1..1
      OBVIOUS
    <3> QED BY <1>1, <2>1, <3>1, <3>2
  <2>3. join(t) = t /\ t # <<>>
    BY <1>2, <2>1 DEF join
  <2> QED BY <2>1, <2>2, <2>3 DEF SeedOf
<1>5. ~ from_story(Blanks(TRUE)) /\ Blanks(TRUE) \in [Lines(TRUE) -> Line(u)]
  BY <1>1 DEF from_story, allComplete, Blanks, Lines, Line
<1>6. join(t) \in {<<>>} \cup [1..1 -> Line(u)] \cup [1..Sentences -> Line(u)]
  BY DEF join, Lines
<1> QED BY <1>3, <1>4, <1>5, <1>6

LEMMA SeedIs ==
  ASSUME NEW u \in User, NEW l \in BOOLEAN, NEW t \in [Lines(l) -> Line(u)]
  PROVE  IsSeedOf(u, SeedOf(u, l, t))
BY Accepted DEF IsSeedOf, SeedOf

\* A step of user u leaves the other user alone.
OthersStay(u) ==
  \A v \in User \ {u} :
    /\ loaded'[v] = loaded[v] /\ theirstory'[v] = theirstory[v]
    /\ progress'[v] = progress[v] /\ hashing'[v] = hashing[v]
    /\ shownSeed'[v] = shownSeed[v] /\ identical'[v] = identical[v]
    /\ added'[v] = added[v]

LEMMA OneUser ==
  ASSUME AddFriendIInv, NEW u \in User, ByUser',
         UserInv(u, loaded'[u], theirstory'[u], progress'[u], hashing'[u], shownSeed'[u],
                 identical'[u], added'[u]),
         OthersStay(u)
  PROVE  AddFriendIInv'
<1>1. Friendly(u)'
  BY DEF Friendly
<1>2. ASSUME NEW v \in User \ {u} PROVE Friendly(v)'
  BY DEF AddFriendIInv, Friendly, OthersStay
<1> QED BY <1>1, <1>2 DEF AddFriendIInv

LEMMA StoryComesStep ==
  ASSUME AddFriendIInv, NEW u \in User, StoryComes(u) PROVE AddFriendIInv'
<1>1. /\ progress[u] # 3 /\ ~ loaded[u]
      /\ loaded' = [loaded EXCEPT ![u] = TRUE]
      /\ theirstory' = [theirstory EXCEPT ![u] = Blanks(TRUE)]
      /\ UNCHANGED <<showverify, progress, shownSeed, identical, added>>
      /\ hashing' = IF progress[u] = 1
                    THEN [hashing EXCEPT ![u] =
                            @ \cup {computeSeedFromStories(Story(u), Blanks(TRUE))}]
                    ELSE hashing
  BY DEF StoryComes, animation
<1>2. Friendly(u)
  BY DEF AddFriendIInv
<1>3. /\ loaded'[u] = TRUE /\ theirstory'[u] = Blanks(TRUE) /\ progress'[u] = progress[u]
      /\ shownSeed'[u] = shownSeed[u] /\ identical'[u] = identical[u] /\ added'[u] = added[u]
      /\ hashing'[u] \subseteq hashing[u] \cup {{Story(u), Blanks(TRUE)}}
      /\ progress[u] # 1 => hashing'[u] = hashing[u]
  BY <1>1 DEF AddFriendIInv, ByUser, computeSeedFromStories
<1>4. ~ from_story(Blanks(TRUE)) /\ Blanks(TRUE) \in [Lines(TRUE) -> Line(u)]
  BY <1>2, Accepted DEF Friendly, UserInv
<1>5. IsSeedOf(u, {Story(u), Blanks(TRUE)})
  BY <1>4 DEF IsSeedOf, Lines
<1>6. UserInv(u, loaded'[u], theirstory'[u], progress'[u], hashing'[u], shownSeed'[u],
              identical'[u], added'[u])
  BY <1>2, <1>3, <1>4, <1>5 DEF Friendly, UserInv
<1>7. ByUser' /\ OthersStay(u)
  BY <1>1 DEF AddFriendIInv, ByUser, OthersStay
<1> QED BY <1>1, <1>6, <1>7, OneUser

LEMMA TypeLineStep ==
  ASSUME AddFriendIInv, NEW u \in User, NEW i \in 1..Sentences,
         NEW line \in {Blank, Else, Told(Other(u), i)}, TypeLine(u, i, line)
  PROVE  AddFriendIInv'
<1>1. /\ progress[u] = 0 /\ i \in DOMAIN theirstory[u]
      /\ theirstory' = [theirstory EXCEPT ![u][i] = line]
      /\ showverify' = [showverify EXCEPT ![u] = @ \/ allComplete(theirstory'[u])]
      /\ UNCHANGED <<loaded, progress, hashing, shownSeed, identical, added>>
  BY DEF TypeLine, SetTheirStory, animation
<1>2. Friendly(u)
  BY DEF AddFriendIInv
<1>3. theirstory'[u] \in [Lines(loaded[u]) -> Line(u)]
  BY <1>1, <1>2 DEF Friendly, UserInv, AddFriendIInv, ByUser, Line
<1>4. UserInv(u, loaded'[u], theirstory'[u], progress'[u], hashing'[u], shownSeed'[u],
              identical'[u], added'[u])
  BY <1>1, <1>2, <1>3 DEF Friendly, UserInv
<1>5. ByUser' /\ OthersStay(u)
  BY <1>1 DEF AddFriendIInv, ByUser, OthersStay, allComplete
<1> QED BY <1>1, <1>4, <1>5, OneUser

LEMMA AnimateStep ==
  ASSUME AddFriendIInv, NEW u \in User, Animate(u), progress[u] \in {0, 2},
         UNCHANGED <<form, identical, added>>
  PROVE  AddFriendIInv'
<1>1. /\ progress' = [progress EXCEPT ![u] = 1] /\ shownSeed' = [shownSeed EXCEPT ![u] = NoSeed]
      /\ hashing' = [hashing EXCEPT ![u] = {SeedOf(u, loaded[u], theirstory[u])}]
      /\ UNCHANGED <<loaded, theirstory, showverify, identical, added>>
  BY DEF Animate, form, seed, computeSeedFromStories, storyOf, SeedOf
<1>2. Friendly(u)
  BY DEF AddFriendIInv
<1>3. IsSeedOf(u, SeedOf(u, loaded[u], theirstory[u]))
  BY <1>2, SeedIs DEF Friendly, UserInv
<1>4. UserInv(u, loaded'[u], theirstory'[u], progress'[u], hashing'[u], shownSeed'[u],
              identical'[u], added'[u])
  BY <1>1, <1>2, <1>3 DEF Friendly, UserInv, AddFriendIInv, ByUser
<1>5. ByUser' /\ OthersStay(u)
  BY <1>1 DEF AddFriendIInv, ByUser, OthersStay
<1> QED BY <1>1, <1>4, <1>5, OneUser

LEMMA HashedStep ==
  ASSUME AddFriendIInv, NEW u \in User, Hashed(u) PROVE AddFriendIInv'
<1>1. PICK s \in hashing[u] : /\ shownSeed' = [shownSeed EXCEPT ![u] = s]
                              /\ hashing' = [hashing EXCEPT ![u] = @ \ {s}]
                              /\ UNCHANGED <<loaded, theirstory, showverify, progress,
                                             identical, added>>
  BY DEF Hashed, form
<1>2. Friendly(u)
  BY DEF AddFriendIInv
<1>3. /\ shownSeed'[u] = s /\ hashing'[u] = hashing[u] \ {s}
      /\ loaded'[u] = loaded[u] /\ theirstory'[u] = theirstory[u]
      /\ progress'[u] = progress[u] /\ identical'[u] = identical[u] /\ added'[u] = added[u]
  BY <1>1 DEF AddFriendIInv, ByUser
<1>4. UserInv(u, loaded'[u], theirstory'[u], progress'[u], hashing'[u], shownSeed'[u],
              identical'[u], added'[u])
  BY <1>1, <1>2, <1>3 DEF Friendly, UserInv
<1>5. ByUser' /\ OthersStay(u)
  BY <1>1 DEF AddFriendIInv, ByUser, OthersStay
<1> QED BY <1>1, <1>4, <1>5, OneUser

\* Animations that are the same are of the same seed, and a seed tells both stories.
LEMMA SameSeed ==
  ASSUME NEW u \in User, NEW t \in [1..Sentences -> Line(u)], t # <<>>,
         {Story(u), t} = NoSeed \/ IsSeedOf(Other(u), {Story(u), t})
  PROVE  t = Story(Other(u))
<1>1. /\ Story(u) # <<>> /\ Story(u) # Story(Other(u)) /\ Story(u) # t
  BY Stories
<1>2. {Story(u), t} # NoSeed
  BY <1>1 DEF NoSeed
<1>3. PICK x \in {<<>>, Story(Other(u))} : \E y : {Story(u), t} = {x, y}
  BY <1>2 DEF IsSeedOf
<1>4. PICK y : {Story(u), t} = {x, y}
  BY <1>3
<1>5. Story(u) \in {x, y} /\ t \in {x, y}
  BY <1>4
<1>6. Story(u) = y
  BY <1>1, <1>5
<1>7. t = x
  BY <1>1, <1>5, <1>6
<1> QED BY <1>7

LEMMA CompareStep ==
  ASSUME AddFriendIInv, Compare PROVE AddFriendIInv'
<1>1. /\ \A u \in User : progress[u] = 1 /\ hashing[u] = {}
      /\ shownSeed[1] = shownSeed[2] /\ identical' = [u \in User |-> TRUE]
      /\ UNCHANGED <<loaded, theirstory, showverify, progress, hashing, shownSeed, added>>
  BY DEF Compare, form, animation
<1>2. ByUser'
  BY <1>1 DEF AddFriendIInv, ByUser
<1>3. ASSUME NEW u \in User PROVE Friendly(u)'
  <2>1. Friendly(u) /\ Friendly(Other(u)) /\ Other(u) \in User
    BY Stories DEF AddFriendIInv
  <2>2. shownSeed[u] = shownSeed[Other(u)]
    BY <1>1 DEF User, Other
  <2>3. from_story(theirstory[u]) => theirstory[u] = Story(Other(u))
    <3> SUFFICES ASSUME from_story(theirstory[u]) PROVE theirstory[u] = Story(Other(u))
      OBVIOUS
    <3>1. shownSeed[u] = SeedOf(u, loaded[u], theirstory[u])
      BY <1>1, <2>1 DEF Friendly, UserInv
    <3>2. /\ theirstory[u] \in [1..Sentences -> Line(u)] /\ theirstory[u] # <<>>
          /\ shownSeed[u] = {Story(u), theirstory[u]}
      BY <2>1, <3>1, Accepted DEF Friendly, UserInv
    <3>3. shownSeed[u] = NoSeed \/ IsSeedOf(Other(u), shownSeed[u])
      BY <2>1, <2>2 DEF Friendly, UserInv
    <3> QED BY <3>2, <3>3, SameSeed
  <2>4. UserInv(u, loaded'[u], theirstory'[u], progress'[u], hashing'[u], shownSeed'[u],
                identical'[u], added'[u])
    BY <1>1, <2>1, <2>3 DEF Friendly, UserInv
  <2> QED BY <2>4 DEF Friendly
<1> QED BY <1>2, <1>3 DEF AddFriendIInv

LEMMA LeaveStep ==
  ASSUME AddFriendIInv, NEW u \in User, YesTheyAreIdentical(u) \/ NoTakeMeBack(u)
  PROVE  AddFriendIInv'
<1>1. PICK screen \in {0, 2} : /\ Leave(u, screen) /\ progress[u] = 1
                               /\ screen = 2 => identical[u]
  BY DEF YesTheyAreIdentical, NoTakeMeBack
<1>2. /\ progress' = [progress EXCEPT ![u] = screen]
      /\ hashing' = [hashing EXCEPT ![u] = {}] /\ shownSeed' = [shownSeed EXCEPT ![u] = NoSeed]
      /\ identical' = [identical EXCEPT ![u] = FALSE]
      /\ UNCHANGED <<loaded, theirstory, showverify, added>>
  BY <1>1 DEF Leave, form
<1>3. Friendly(u)
  BY DEF AddFriendIInv
<1>4. UserInv(u, loaded'[u], theirstory'[u], progress'[u], hashing'[u], shownSeed'[u],
              identical'[u], added'[u])
  BY <1>1, <1>2, <1>3 DEF Friendly, UserInv, AddFriendIInv, ByUser
<1>5. ByUser' /\ OthersStay(u)
  BY <1>2 DEF AddFriendIInv, ByUser, OthersStay
<1> QED BY <1>2, <1>4, <1>5, OneUser

LEMMA FinishStep ==
  ASSUME AddFriendIInv, NEW u \in User, finish(u) PROVE AddFriendIInv'
<1>1. /\ progress[u] = 2 /\ from_story(join(theirstory[u]))
      /\ added' = [added EXCEPT ![u] = join(theirstory[u])]
      /\ progress' = [progress EXCEPT ![u] = 3]
      /\ UNCHANGED <<loaded, theirstory, showverify, hashing, shownSeed, identical>>
  BY DEF finish, form, animation
<1>2. Friendly(u)
  BY DEF AddFriendIInv
<1>3. from_story(theirstory[u]) /\ join(theirstory[u]) = theirstory[u] /\ theirstory[u] # <<>>
  BY <1>1, <1>2, Accepted DEF Friendly, UserInv
<1>4. theirstory[u] = Story(Other(u))
  BY <1>1, <1>2, <1>3 DEF Friendly, UserInv
<1>5. UserInv(u, loaded[u], theirstory[u], 3, hashing[u], shownSeed[u], identical[u],
              theirstory[u])
  BY <1>1, <1>2, <1>3, <1>4 DEF Friendly, UserInv
<1>6. /\ added'[u] = theirstory[u] /\ progress'[u] = 3
      /\ loaded'[u] = loaded[u] /\ theirstory'[u] = theirstory[u] /\ hashing'[u] = hashing[u]
      /\ shownSeed'[u] = shownSeed[u] /\ identical'[u] = identical[u]
  BY <1>1, <1>3 DEF AddFriendIInv, ByUser
<1>7. ByUser' /\ OthersStay(u)
  BY <1>1 DEF AddFriendIInv, ByUser, OthersStay
<1> QED BY <1>5, <1>6, <1>7, OneUser

LEMMA AddFriendInductive == AddFriendSpec => []AddFriendIInv
<1>1. AddFriendInit => AddFriendIInv
  <2> SUFFICES ASSUME AddFriendInit PROVE AddFriendIInv
    OBVIOUS
  <2>1. ByUser
    BY DEF AddFriendInit, ByUser
  <2>2. ASSUME NEW u \in User PROVE Friendly(u)
    <3>1. /\ loaded[u] = FALSE /\ theirstory[u] = Blanks(FALSE) /\ progress[u] = 0
          /\ hashing[u] = {} /\ shownSeed[u] = NoSeed /\ identical[u] = FALSE
          /\ added[u] = <<>>
      BY DEF AddFriendInit
    <3>2. Blanks(FALSE) \in [Lines(FALSE) -> Line(u)]
      BY DEF Blanks, Line
    <3>3. 0 \in 0..3 /\ 0 # 1 /\ 0 # 2 /\ 0 # 3
      OBVIOUS
    <3>4. UserInv(u, FALSE, Blanks(FALSE), 0, {}, NoSeed, FALSE, <<>>)
      BY <3>2, <3>3, Zenon DEF UserInv
    <3> QED BY <3>1, <3>4 DEF Friendly
  <2> QED BY <2>1, <2>2 DEF AddFriendIInv
<1>2. AddFriendIInv /\ [AddFriendNext]_addFriendVars => AddFriendIInv'
  <2> SUFFICES ASSUME AddFriendIInv, [AddFriendNext]_addFriendVars PROVE AddFriendIInv'
    OBVIOUS
  <2>1. ASSUME NEW u \in User, Verify(u) \/ GoBack(u) PROVE AddFriendIInv'
    BY <2>1, AnimateStep DEF Verify, GoBack
  <2>2. CASE AddFriendNext
    BY <2>1, <2>2, StoryComesStep, TypeLineStep, HashedStep, LeaveStep, FinishStep,
       CompareStep DEF AddFriendNext
  <2>3. CASE UNCHANGED addFriendVars
    BY <2>3 DEF addFriendVars, form, animation, AddFriendIInv, ByUser, Friendly
  <2> QED BY <2>2, <2>3
<1> QED BY <1>1, <1>2, PTL DEF AddFriendSpec

-----------------------------------------------------------------------------

LEMMA SeedsAreSeeds ==
  ASSUME NEW x, NEW y PROVE IsSeed({x, y})
<1>1. IsFiniteSet({x}) /\ Cardinality({x}) = 1
  BY FS_Singleton
<1>2. {x, y} = {x} \cup {y} /\ (y \in {x} => {x, y} = {x})
  OBVIOUS
<1>3. Cardinality({x, y}) \in {1, 2}
  BY <1>1, <1>2, FS_AddElement
<1> QED BY <1>3 DEF IsSeed

\* Every variable keeps its type, for any number of sentences.
THEOREM AddFriendTypeCorrect == AddFriendSpec => []AddFriendTypeOK
<1>1. AddFriendIInv => AddFriendTypeOK
  <2> SUFFICES ASSUME AddFriendIInv PROVE AddFriendTypeOK
    OBVIOUS
  <2>1. ByUser /\ \A u \in User : Friendly(u)
    BY DEF AddFriendIInv
  <2>2. IsSeed(NoSeed)
    <3>1. NoSeed = {<<>>, <<>>}
      BY DEF NoSeed
    <3> QED BY <3>1, SeedsAreSeeds
  <2>3. \A u \in User : \A s : IsSeedOf(u, s) => IsSeed(s)
    <3> SUFFICES ASSUME NEW u \in User, NEW s, IsSeedOf(u, s) PROVE IsSeed(s)
      OBVIOUS
    <3>1. \E x, y : s = {x, y}
      BY DEF IsSeedOf
    <3> QED BY <3>1, SeedsAreSeeds
  <2>4. ASSUME NEW u \in User
        PROVE  /\ theirstory[u] \in [Lines(loaded[u]) -> Line(u)]
               /\ progress[u] # 1 => hashing[u] = {} /\ ~identical[u]
               /\ IsSeed(shownSeed[u]) /\ \A s \in hashing[u] : IsSeed(s)
               /\ progress[u] = 3 <=> added[u] # <<>>
    BY <2>1, <2>2, <2>3 DEF Friendly, UserInv
  <2> QED BY <2>1, <2>4 DEF ByUser, AddFriendTypeOK
<1> QED BY <1>1, AddFriendInductive, PTL

\* Two people who compare their screens add each other and nobody else, whatever they type
\* and change and however late stories and digests come, for any number of sentences.
THEOREM PeopleDoMeet == AddFriendSpec => []PeopleMeet
<1>1. AddFriendIInv => PeopleMeet
  <2> SUFFICES ASSUME AddFriendIInv PROVE PeopleMeet
    OBVIOUS
  <2>1. AddedIsTheOther
    BY DEF AddedIsTheOther, AddFriendIInv, Friendly, UserInv
  <2>2. RightStoriesAgree
    <3> SUFFICES ASSUME \A u \in User : /\ loaded[u] /\ theirstory[u] = Story(Other(u))
                                        /\ progress[u] = 1 /\ hashing[u] = {}
                 PROVE  shownSeed[1] = shownSeed[2]
      BY DEF RightStoriesAgree
    <3>1. ASSUME NEW u \in User PROVE shownSeed[u] = {Story(u), Story(Other(u))}
      <4>0. Other(u) \in User /\ theirstory[u] = Story(Other(u)) /\ Friendly(u)
        BY Stories DEF AddFriendIInv
      <4>1. from_story(theirstory[u])
        BY <4>0, Stories
      <4>2. shownSeed[u] = SeedOf(u, loaded[u], theirstory[u])
        BY <4>0, <4>1 DEF Friendly, UserInv
      <4>3. SeedOf(u, loaded[u], theirstory[u]) = {Story(u), theirstory[u]}
        BY <4>0, <4>1, Accepted DEF Friendly, UserInv
      <4> QED BY <4>0, <4>2, <4>3
    <3>2. 1 \in User /\ 2 \in User /\ Other(1) = 2 /\ Other(2) = 1
      BY DEF User, Other
    <3>3. shownSeed[1] = {Story(1), Story(2)} /\ shownSeed[2] = {Story(2), Story(1)}
      BY <3>1, <3>2
    <3> QED BY <3>3
  <2> QED BY <2>1, <2>2 DEF PeopleMeet
<1> QED BY <1>1, AddFriendInductive, PTL


-----------------------------------------------------------------------------
(* StoryAnimation: how far the clock is ahead of the frame shown.          *)

LEMMA AnimationConstants == KEYFRAMES \in Nat \ {0}
BY StoryAnimationAssumption

\* The next frame, and where the remainder starts again.
LEMMA NextFrame ==
  ASSUME NEW k \in 0..(KEYFRAMES - 1)
  PROVE  (k + 1) % KEYFRAMES = IF k + 1 = KEYFRAMES THEN 0 ELSE k + 1
<1>0. KEYFRAMES \in Nat \ {0}
  BY AnimationConstants
<1>1. CASE k + 1 = KEYFRAMES
  BY <1>0, <1>1
<1>2. CASE k + 1 # KEYFRAMES
  BY <1>0, <1>2
<1> QED BY <1>1, <1>2

-----------------------------------------------------------------------------

\* Short of a whole period the clock is as far ahead as no timer has run for.
Ahead ==
  late < KEYFRAMES => now = keyframe + late \/ now = keyframe + late - KEYFRAMES

\* The timers still to run will find another frame, or have all missed a whole period.
SomeTimerCounts ==
  /\ waitingTimers > 0 => late = 0
  /\ ~ missed => waitingTimers + due > 0 /\ (waitingTimers = 0 => late > 0)

AnimationIInv == AnimationTypeOK /\ TimersDoNotPile /\ Ahead /\ SomeTimerCounts

LEMMA AnimationTypes ==
  ASSUME AnimationTypeOK
  PROVE  /\ KEYFRAMES \in Nat \ {0}
         /\ now \in 0..(KEYFRAMES - 1) /\ keyframe \in 0..(KEYFRAMES - 1)
         /\ waitingTimers \in 0..2 /\ due \in 0..2
         /\ late \in 0..KEYFRAMES /\ missed \in BOOLEAN
BY AnimationConstants DEF AnimationTypeOK

LEMMA AnimationBegins == AnimationInit => AnimationIInv
<1> SUFFICES ASSUME AnimationInit PROVE AnimationIInv
  OBVIOUS
<1>1. /\ now \in 0..(KEYFRAMES - 1) /\ keyframe = now
      /\ waitingTimers = 1 \/ waitingTimers = 2
      /\ due = 0 /\ late = 0 /\ missed = FALSE
  BY DEF AnimationInit
<1>2. KEYFRAMES \in Nat \ {0} /\ now \in Nat
  BY <1>1, AnimationConstants
<1>3. AnimationTypeOK
  <2>1. late \in 0..KEYFRAMES /\ waitingTimers \in 0..2 /\ due \in 0..2
    BY <1>1, <1>2
  <2>2. missed \in BOOLEAN
    BY <1>1, Zenon
  <2> QED BY <1>1, <2>1, <2>2 DEF AnimationTypeOK
<1>4. TimersDoNotPile /\ Ahead
  BY <1>1, <1>2 DEF TimersDoNotPile, Ahead
<1>5. SomeTimerCounts
  BY <1>1 DEF SomeTimerCounts
<1> QED BY <1>3, <1>4, <1>5 DEF AnimationIInv

LEMMA TickStep ==
  ASSUME AnimationIInv, FramePasses PROVE AnimationIInv'
<1>0. /\ KEYFRAMES \in Nat \ {0}
      /\ now \in 0..(KEYFRAMES - 1) /\ keyframe \in 0..(KEYFRAMES - 1)
      /\ waitingTimers \in 0..2 /\ due \in 0..2
      /\ late \in 0..KEYFRAMES /\ missed \in BOOLEAN
      /\ waitingTimers + due <= 2
  BY AnimationTypes DEF AnimationIInv, TimersDoNotPile
<1>1. /\ now' = (now + 1) % KEYFRAMES /\ keyframe' = keyframe /\ missed' = missed
      /\ due' = due + waitingTimers /\ waitingTimers' = 0
      /\ late' = IF late < KEYFRAMES THEN late + 1 ELSE late
  BY DEF FramePasses
<1>2. now' = IF now + 1 = KEYFRAMES THEN 0 ELSE now + 1
  BY <1>0, <1>1, NextFrame
<1>3. AnimationTypeOK' /\ TimersDoNotPile'
  BY <1>0, <1>1, <1>2 DEF AnimationTypeOK, TimersDoNotPile
<1>4. Ahead'
  BY <1>0, <1>1, <1>2 DEF AnimationIInv, Ahead
<1>5. SomeTimerCounts'
  BY <1>0, <1>1 DEF AnimationIInv, SomeTimerCounts
<1> QED BY <1>3, <1>4, <1>5 DEF AnimationIInv

\* A timer that is not a whole period late finds another frame, or runs beside one that
\* waits for the next.
LEMMA FireStep ==
  ASSUME AnimationIInv, Fire PROVE AnimationIInv'
<1>0. /\ KEYFRAMES \in Nat \ {0}
      /\ now \in 0..(KEYFRAMES - 1) /\ keyframe \in 0..(KEYFRAMES - 1)
      /\ waitingTimers \in 0..2 /\ due \in 0..2
      /\ late \in 0..KEYFRAMES /\ missed \in BOOLEAN
      /\ waitingTimers + due <= 2
  BY AnimationTypes DEF AnimationIInv, TimersDoNotPile
<1>1. /\ due > 0 /\ keyframe' = now /\ due' = due - 1 /\ now' = now
      /\ waitingTimers' = waitingTimers + (IF now # keyframe THEN 1 ELSE 0)
      /\ late' = 0
  BY DEF Fire, Note
<1>2. missed' = (missed \/ late = KEYFRAMES)
  BY DEF Fire, Note
<1>3. missed' \in BOOLEAN
  BY <1>2
<1>4. AnimationTypeOK' /\ TimersDoNotPile'
  BY <1>0, <1>1, <1>3 DEF AnimationTypeOK, TimersDoNotPile
<1>5. Ahead'
  BY <1>0, <1>1 DEF Ahead
<1>6. ASSUME ~ missed' PROVE waitingTimers' > 0
  <2>1. ~ missed /\ late # KEYFRAMES
    BY <1>0, <1>2, <1>6, Zenon
  <2>2. CASE waitingTimers = 0
    <3>1. late > 0 /\ late < KEYFRAMES
      BY <1>0, <2>1, <2>2 DEF AnimationIInv, SomeTimerCounts
    <3>2. now # keyframe
      BY <1>0, <3>1 DEF AnimationIInv, Ahead
    <3> QED BY <1>0, <1>1, <2>2, <3>2
  <2>3. CASE waitingTimers # 0
    BY <1>0, <1>1, <2>3
  <2> QED BY <2>2, <2>3
<1>7. SomeTimerCounts'
  BY <1>0, <1>1, <1>6 DEF SomeTimerCounts
<1> QED BY <1>4, <1>5, <1>7 DEF AnimationIInv

LEMMA AnimationInductive == AnimationSpec => []AnimationIInv
<1>1. AnimationIInv /\ [AnimationNext]_animationVars => AnimationIInv'
  <2> SUFFICES ASSUME AnimationIInv, [AnimationNext]_animationVars PROVE AnimationIInv'
    OBVIOUS
  <2>1. CASE AnimationNext
    BY <2>1, TickStep, FireStep DEF AnimationNext
  <2>2. CASE UNCHANGED animationVars
    BY <2>2 DEF animationVars, AnimationIInv, AnimationTypeOK, TimersDoNotPile, Ahead,
                SomeTimerCounts
  <2> QED BY <2>1, <2>2
<1> QED BY <1>1, AnimationBegins, PTL DEF AnimationSpec

\* The frame stays one of the animation and the timers at most two of each kind, however
\* late they run.
THEOREM AnimationTypeCorrect == AnimationSpec => []AnimationTypeOK
<1>1. AnimationIInv => AnimationTypeOK
  BY DEF AnimationIInv
<1> QED BY <1>1, AnimationInductive, PTL

\* For every number of frames and however late the timers run: while one waits for the next
\* frame the clock's is shown, there are never more than two, and they run out only after
\* one that ran a whole period late.
THEOREM AnimationKeepsTime == AnimationSpec => []KeepsTime
<1>1. AnimationIInv => KeepsTime
  <2> SUFFICES ASSUME AnimationIInv PROVE KeepsTime
    OBVIOUS
  <2>0. /\ KEYFRAMES \in Nat \ {0}
        /\ now \in 0..(KEYFRAMES - 1) /\ keyframe \in 0..(KEYFRAMES - 1)
    BY AnimationTypes DEF AnimationIInv
  <2>1. InStep
    BY <2>0 DEF AnimationIInv, Ahead, SomeTimerCounts, InStep
  <2>2. TimersDoNotPile /\ TimersLast
    BY DEF AnimationIInv, SomeTimerCounts, TimersLast
  <2> QED BY <2>1, <2>2 DEF KeepsTime
<1> QED BY <1>1, AnimationInductive, PTL

-----------------------------------------------------------------------------
(* Dialogs: the command bar, and what is under way at a time.              *)

\* There is at most one timer, which ends the animation that runs, and the animation goes
\* where the user wants the bar to be.
BarInv ==
  /\ visualState \in {"hidden", "animatingIn", "showing", "animatingOut"}
  /\ timeout = CASE visualState = "animatingIn" -> "showing"
                 [] visualState = "animatingOut" -> "hidden"
                 [] OTHER -> "none"
  /\ wanted = IF visualState \in {"animatingIn", "showing"} THEN "open" ELSE "closed"

LEMMA BarStep == BarInv /\ [DialogsNext]_dialogsVars => BarInv'
<1> SUFFICES ASSUME BarInv, [DialogsNext]_dialogsVars PROVE BarInv'
  OBVIOUS
<1>1. UNCHANGED barVars => BarInv'
  BY DEF BarInv, barVars
<1>2. CASE AnimationEnds
  BY <1>2 DEF AnimationEnds, BarInv
<1>3. toggle => BarInv'
  BY DEF toggle, SetVisualState, BarInv
<1>4. CASE Escape
  BY <1>4, <1>1 DEF Escape, SetVisualState, BarInv
<1>5. CASE CmdK \/ \E dialog \in {"none", "friend", "install"} : execute(dialog)
  BY <1>5, <1>3 DEF CmdK, execute
<1>6. CASE ShowStatus \/ StatusTimer \/ CloseStatus
  BY <1>6, <1>1 DEF ShowStatus, StatusTimer, CloseStatus
<1>7. CASE \/ DaemonAnswers \/ DaemonRegisters \/ onRegister
           \/ \E answer \in {"yes", "no", "error"} : HasRegistered(answer)
           \/ \E answer \in {"ok", "error"} : Registered(answer)
  BY <1>7, <1>1 DEF DaemonAnswers, DaemonRegisters, onRegister, HasRegistered, Registered
<1>8. CASE ClickOutside \/ \E dialog \in {"friend", "incoming"} : Open(dialog)
  BY <1>8, <1>1 DEF ClickOutside, Open
<1>9. CASE UNCHANGED dialogsVars
  BY <1>9, <1>1 DEF dialogsVars
<1> QED BY <1>2, <1>4, <1>5, <1>6, <1>7, <1>8, <1>9 DEF DialogsNext

\* However fast the command bar is opened and closed, by whichever key, click or action,
\* it comes to rest as the user left it last (useToggleHandler, runAnimateTimer).
THEOREM BarRestsAsWanted == DialogsSpec => []BarEndsAsWanted
<1>1. DialogsInit => BarInv
  BY DEF DialogsInit, BarInv
<1>2. BarInv => BarEndsAsWanted
  BY DEF BarInv, BarEndsAsWanted
<1> QED BY <1>1, <1>2, BarStep, PTL DEF DialogsSpec

\* The calls that are under way are counted where they are.
AsksBound == asks \in [Asked -> Nat] /\ Asks <= MaxAsks
RegistrationsBound == registering \in [Registering -> Nat] /\ Registrations <= MaxRegisters

DialogsInv ==
  /\ BarInv /\ AsksBound /\ RegistrationsBound
  /\ isRegistered \in BOOLEAN /\ modal \in Dialog \cup {"none", "register"}
  /\ display \in BOOLEAN /\ timers \in 0..MaxTimers

\* A call is made while there is room, moves on, or ends.
LEMMA AsksKeep ==
  ASSUME AsksBound,
         \/ asks' = asks \/ asks' = AskAgain
         \/ \E answer \in Asked \ {"asked"} :
              asks["asked"] > 0 /\ asks' = Moved(asks, "asked", answer)
         \/ \E answer \in Asked : asks[answer] > 0 /\ asks' = Gone(asks, answer)
  PROVE  AsksBound'
<1>1. asks \in [Asked -> Nat] /\ Asks <= MaxAsks /\ MaxAsks \in Nat
  BY DialogsAssumption DEF AsksBound
<1>2. Asked = {"asked", "yes", "no", "error"}
  BY DEF Asked
<1>3. CASE asks' = asks
  BY <1>1, <1>3 DEF AsksBound, Asks
<1>4. CASE asks' = AskAgain
  <2>1. CASE Asks < MaxAsks
    <3>1. asks' = [asks EXCEPT !["asked"] = @ + 1]
      BY <1>4, <2>1 DEF AskAgain
    <3>2. asks' \in [Asked -> Nat]
      BY <1>1, <1>2, <3>1
    <3>3. /\ asks'["asked"] = asks["asked"] + 1 /\ asks'["yes"] = asks["yes"]
          /\ asks'["no"] = asks["no"] /\ asks'["error"] = asks["error"]
      BY <1>1, <1>2, <3>1
    <3> QED BY <1>1, <1>2, <2>1, <3>2, <3>3 DEF AsksBound, Asks
  <2>2. CASE ~ (Asks < MaxAsks)
    BY <1>1, <1>4, <2>2 DEF AskAgain, AsksBound, Asks
  <2> QED BY <2>1, <2>2
<1>5. ASSUME NEW answer \in Asked \ {"asked"}, asks["asked"] > 0,
             asks' = Moved(asks, "asked", answer)
      PROVE  AsksBound'
  <2>1. asks' = [a \in Asked |-> IF a = "asked" THEN asks[a] - 1
                                ELSE IF a = answer THEN asks[a] + 1 ELSE asks[a]]
    BY <1>1, <1>2, <1>5 DEF Moved
  <2>2. asks' \in [Asked -> Nat]
    BY <1>1, <1>2, <1>5, <2>1
  <2>3. answer \in {"yes", "no", "error"}
    BY <1>2
  <2> QED BY <1>1, <1>2, <1>5, <2>1, <2>2, <2>3 DEF AsksBound, Asks
<1>6. ASSUME NEW answer \in Asked, asks[answer] > 0, asks' = Gone(asks, answer)
      PROVE  AsksBound'
  <2>1. asks' = [a \in Asked |-> IF a = answer THEN asks[a] - 1 ELSE asks[a]]
    BY <1>1, <1>2, <1>6 DEF Gone
  <2>2. asks' \in [Asked -> Nat]
    BY <1>1, <1>2, <1>6, <2>1
  <2>3. answer \in {"asked", "yes", "no", "error"}
    BY <1>2
  <2> QED BY <1>1, <1>2, <1>6, <2>1, <2>2, <2>3 DEF AsksBound, Asks
<1> QED BY <1>3, <1>4, <1>5, <1>6

LEMMA RegistrationsKeep ==
  ASSUME RegistrationsBound,
         \/ registering' = registering
         \/ /\ Registrations < MaxRegisters
            /\ registering' = [registering EXCEPT !["asked"] = @ + 1]
         \/ \E answer \in {"ok", "error"} : /\ registering["asked"] > 0
                                           /\ registering' = Moved(registering, "asked", answer)
         \/ \E answer \in {"ok", "error"} : /\ registering[answer] > 0
                                           /\ registering' = Gone(registering, answer)
  PROVE  RegistrationsBound'
<1>1. /\ registering \in [Registering -> Nat] /\ Registrations <= MaxRegisters
      /\ MaxRegisters \in Nat
  BY DialogsAssumption DEF RegistrationsBound
<1>2. Registering = {"asked", "ok", "error"}
  BY DEF Registering
<1>3. CASE registering' = registering
  BY <1>1, <1>3 DEF RegistrationsBound, Registrations
<1>4. CASE /\ Registrations < MaxRegisters
           /\ registering' = [registering EXCEPT !["asked"] = @ + 1]
  <2>1. registering' \in [Registering -> Nat]
    BY <1>1, <1>2, <1>4
  <2>2. /\ registering'["asked"] = registering["asked"] + 1
        /\ registering'["ok"] = registering["ok"] /\ registering'["error"] = registering["error"]
    BY <1>1, <1>2, <1>4
  <2> QED BY <1>1, <1>2, <1>4, <2>1, <2>2 DEF RegistrationsBound, Registrations
<1>5. ASSUME NEW answer \in {"ok", "error"}, registering["asked"] > 0,
             registering' = Moved(registering, "asked", answer)
      PROVE  RegistrationsBound'
  <2>1. registering' = [a \in Registering |->
                          IF a = "asked" THEN registering[a] - 1
                          ELSE IF a = answer THEN registering[a] + 1 ELSE registering[a]]
    BY <1>1, <1>2, <1>5 DEF Moved
  <2>2. registering' \in [Registering -> Nat]
    BY <1>1, <1>2, <1>5, <2>1
  <2> QED BY <1>1, <1>2, <1>5, <2>1, <2>2 DEF RegistrationsBound, Registrations
<1>6. ASSUME NEW answer \in {"ok", "error"}, registering[answer] > 0,
             registering' = Gone(registering, answer)
      PROVE  RegistrationsBound'
  <2>1. registering' = [a \in Registering |->
                          IF a = answer THEN registering[a] - 1 ELSE registering[a]]
    BY <1>1, <1>2, <1>6 DEF Gone
  <2>2. registering' \in [Registering -> Nat]
    BY <1>1, <1>2, <1>6, <2>1
  <2> QED BY <1>1, <1>2, <1>6, <2>1, <2>2 DEF RegistrationsBound, Registrations
<1> QED BY <1>3, <1>4, <1>5, <1>6

LEMMA DialogsStep == DialogsInv /\ [DialogsNext]_dialogsVars => DialogsInv'
<1> SUFFICES ASSUME DialogsInv, [DialogsNext]_dialogsVars PROVE DialogsInv'
  OBVIOUS
<1>1. BarInv'
  BY BarStep DEF DialogsInv
<1>2. /\ AsksBound /\ RegistrationsBound /\ isRegistered \in BOOLEAN
      /\ modal \in Dialog \cup {"none", "register"}
      /\ display \in BOOLEAN /\ timers \in 0..MaxTimers /\ MaxTimers \in Nat
  BY DialogsAssumption DEF DialogsInv
<1> DEFINE
    AskStep ==
      \/ asks' = asks \/ asks' = AskAgain
      \/ \E answer \in Asked \ {"asked"} :
           asks["asked"] > 0 /\ asks' = Moved(asks, "asked", answer)
      \/ \E answer \in Asked : asks[answer] > 0 /\ asks' = Gone(asks, answer)
    RegistrationStep ==
      \/ registering' = registering
      \/ /\ Registrations < MaxRegisters
         /\ registering' = [registering EXCEPT !["asked"] = @ + 1]
      \/ \E answer \in {"ok", "error"} : /\ registering["asked"] > 0
                                        /\ registering' = Moved(registering, "asked", answer)
      \/ \E answer \in {"ok", "error"} : /\ registering[answer] > 0
                                        /\ registering' = Gone(registering, answer)
    Others ==
      /\ isRegistered' \in BOOLEAN /\ modal' \in Dialog \cup {"none", "register"}
      /\ display' \in BOOLEAN /\ timers' \in 0..MaxTimers
<1>3. ASSUME AskStep, RegistrationStep, Others PROVE DialogsInv'
  <2>1. AsksBound'
    BY <1>2, <1>3, AsksKeep
  <2>2. RegistrationsBound'
    BY <1>2, <1>3, RegistrationsKeep
  <2> QED BY <1>1, <1>3, <2>1, <2>2 DEF DialogsInv
<1>4. CASE ShowStatus \/ CloseStatus
  <2>1. AskStep /\ RegistrationStep
    BY <1>4 DEF ShowStatus, CloseStatus
  <2>2. UNCHANGED <<isRegistered, modal>>
    BY <1>4 DEF ShowStatus, CloseStatus
  <2>3. display' \in BOOLEAN
    BY <1>4 DEF ShowStatus, CloseStatus, setVisible
  <2>5. timers' \in 0..MaxTimers
    BY <1>2, <1>4 DEF ShowStatus, CloseStatus, setVisible
  <2>4. Others
    BY <1>2, <2>2, <2>3, <2>5
  <2> QED BY <1>3, <2>1, <2>4
<1>5. CASE StatusTimer
  <2>1. AskStep /\ RegistrationStep
    BY <1>5 DEF StatusTimer
  <2>2. UNCHANGED <<isRegistered, modal>>
    BY <1>5 DEF StatusTimer
  <2>3. display' \in BOOLEAN
    BY <1>5 DEF StatusTimer
  <2>5. timers' \in 0..MaxTimers
    BY <1>2, <1>5 DEF StatusTimer
  <2>4. Others
    BY <1>2, <2>2, <2>3, <2>5
  <2> QED BY <1>3, <2>1, <2>4
<1>6. CASE DaemonAnswers
  <2>1. PICK answer \in {IF isRegistered THEN "yes" ELSE "no", "error"} :
          asks' = Moved(asks, "asked", answer)
    BY <1>6 DEF DaemonAnswers
  <2>2. answer \in Asked \ {"asked"} /\ asks["asked"] > 0
    BY <1>6, <2>1 DEF Asked, DaemonAnswers
  <2>3. AskStep
    BY <2>1, <2>2
  <2>4. RegistrationStep /\ Others
    BY <1>2, <1>6 DEF DaemonAnswers, statusVars
  <2> QED BY <1>3, <2>3, <2>4
<1>7. ASSUME NEW answer \in {"yes", "no", "error"}, HasRegistered(answer) PROVE DialogsInv'
  <2>1. answer \in Asked /\ asks[answer] > 0 /\ asks' = Gone(asks, answer)
    BY <1>7 DEF HasRegistered, Asked
  <2>2. AskStep
    BY <2>1
  <2>3. RegistrationStep /\ Others
    BY <1>2, <1>7 DEF HasRegistered, statusVars
  <2> QED BY <1>3, <2>2, <2>3
<1>8. CASE onRegister
  <2>1. AskStep /\ RegistrationStep /\ Others
    BY <1>2, <1>8 DEF onRegister, statusVars
  <2> QED BY <1>3, <2>1
<1>9. CASE DaemonRegisters
  <2>1. RegistrationStep
    BY <1>9 DEF DaemonRegisters
  <2>2. AskStep /\ Others
    BY <1>2, <1>9 DEF DaemonRegisters, statusVars
  <2> QED BY <1>3, <2>1, <2>2
<1>10. ASSUME NEW answer \in {"ok", "error"}, Registered(answer) PROVE DialogsInv'
  <2>1. RegistrationStep /\ AskStep
    BY <1>10 DEF Registered
  <2>2. Others
    BY <1>2, <1>10 DEF Registered, setVisible
  <2> QED BY <1>3, <2>1, <2>2
<1>11. CASE AnimationEnds
  <2>1. AskStep /\ RegistrationStep /\ Others
    BY <1>2, <1>11 DEF AnimationEnds, modalVars, statusVars
  <2> QED BY <1>3, <2>1
<1>12. CASE CmdK \/ Escape \/ ClickOutside
  <2>1. AskStep /\ RegistrationStep /\ Others
    BY <1>2, <1>12 DEF CmdK, Escape, ClickOutside, statusVars
  <2> QED BY <1>3, <2>1
<1>13. ASSUME NEW dialog \in {"none", "friend", "install"}, execute(dialog) PROVE DialogsInv'
  <2>1. AskStep /\ RegistrationStep /\ Others
    BY <1>2, <1>13 DEF execute, statusVars, Dialog
  <2> QED BY <1>3, <2>1
<1>14. ASSUME NEW dialog \in {"friend", "incoming"}, Open(dialog) PROVE DialogsInv'
  <2>1. AskStep /\ RegistrationStep /\ Others
    BY <1>2, <1>14 DEF Open, statusVars, Dialog
  <2> QED BY <1>3, <2>1
<1>15. CASE UNCHANGED dialogsVars
  <2>1. AskStep /\ RegistrationStep /\ Others
    BY <1>2, <1>15 DEF dialogsVars, modalVars, statusVars
  <2> QED BY <1>3, <2>1
<1> QED
  BY <1>4, <1>5, <1>6, <1>7, <1>8, <1>9, <1>10, <1>11, <1>12, <1>13, <1>14, <1>15
  DEF DialogsNext

\* However often the daemon is asked whether somebody is registered, and to register him,
\* the dialogs, the command bar and the status stay what they are meant to be, and the bar
\* has a timer if and only if it moves (Main.tsx, InternalEvents.tsx, Status.tsx).
THEOREM DialogsTypeCorrect == DialogsSpec => []DialogsTypeOK
<1>1. DialogsInit => DialogsInv
  <2> SUFFICES ASSUME DialogsInit PROVE DialogsInv
    OBVIOUS
  <2>1. AsksBound
    BY DialogsAssumption DEF DialogsInit, AsksBound, Asks, Asked
  <2>2. RegistrationsBound
    BY DialogsAssumption DEF DialogsInit, RegistrationsBound, Registrations, Registering
  <2>3. BarInv
    BY DEF DialogsInit, BarInv
  <2>4. timers \in 0..MaxTimers
    BY DialogsAssumption DEF DialogsInit
  <2>5. isRegistered \in BOOLEAN /\ display \in BOOLEAN /\ modal \in {"none", "friend"}
    BY DEF DialogsInit
  <2> QED BY <2>1, <2>2, <2>3, <2>4, <2>5 DEF DialogsInv, Dialog
<1>2. DialogsInv => DialogsTypeOK
  <2> SUFFICES ASSUME DialogsInv PROVE DialogsTypeOK
    OBVIOUS
  <2>1. asks \in [Asked -> 0..MaxAsks] /\ Asks <= MaxAsks
    <3>1. asks \in [Asked -> Nat] /\ Asks <= MaxAsks /\ MaxAsks \in Nat
      BY DialogsAssumption DEF DialogsInv, AsksBound
    <3>2. \A a \in Asked : asks[a] \in 0..MaxAsks
      BY <3>1 DEF Asks, Asked
    <3> QED BY <3>1, <3>2
  <2>2. registering \in [Registering -> 0..MaxRegisters] /\ Registrations <= MaxRegisters
    <3>1. /\ registering \in [Registering -> Nat] /\ Registrations <= MaxRegisters
          /\ MaxRegisters \in Nat
      BY DialogsAssumption DEF DialogsInv, RegistrationsBound
    <3>2. \A a \in Registering : registering[a] \in 0..MaxRegisters
      BY <3>1 DEF Registrations, Registering
    <3> QED BY <3>1, <3>2
  <2>3. /\ timeout \in {"none", "showing", "hidden"} /\ wanted \in {"open", "closed"}
        /\ (timeout = "none") = (visualState \in {"showing", "hidden"})
    BY DEF DialogsInv, BarInv
  <2> QED BY <2>1, <2>2, <2>3 DEF DialogsInv, BarInv, DialogsTypeOK
<1> QED BY <1>1, <1>2, DialogsStep, PTL DEF DialogsSpec

-----------------------------------------------------------------------------
(* All parts.                                                              *)

\* Every part around the transport keeps to its types, in any number of handlers, calls,
\* tabs, streams and rounds, whatever the others do meanwhile.
THEOREM PartsTypeCorrect == PartsSpec => []PartsTypeOK
<1>1. /\ RegisterTypeOK /\ PirTypeOK /\ StreamTypeOK /\ WatchdogTypeOK /\ RpcTypeOK
      /\ WindowTypeOK /\ DialogsTypeOK /\ AddFriendTypeOK /\ AnimationTypeOK
      => PartsTypeOK
  BY DEF PartsTypeOK
<1> QED
  BY <1>1, RegisterTypeCorrect, PirTypeCorrect, StreamTypeCorrect, WatchdogTypeCorrect,
     RpcTypeCorrect, WindowTypeCorrect, DialogsTypeCorrect, AddFriendTypeCorrect,
     AnimationTypeCorrect, PTL
  DEF PartsSpec

=============================================================================
