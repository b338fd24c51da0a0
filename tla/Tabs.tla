-------------------------------- MODULE Tabs --------------------------------
(***************************************************************************)
(* useTabs: the tabs of the window, the one that is selected and the one   *)
(* that was selected before it.  A callback that was made at an earlier    *)
(* render carries the state of that render: it is a parameter here.        *)
(***************************************************************************)
EXTENDS Integers, Sequences, FiniteSets

VARIABLES
  tabs,                 \* the tabs, from left to right: [type, id, data]
  selectedTab,          \* an id
  previousSelectedTab,  \* an id
  blank                 \* a render threw and React has removed the window

tabVars == <<tabs, selectedTab, previousSelectedTab, blank>>

NoData == "null"
NewTab == [type |-> "new", id |-> <<"new">>, data |-> NoData]
AllTab == [type |-> "all", id |-> <<"all">>, data |-> NoData]
initial == <<NewTab, AllTab>>
defaultTab == initial[1]
unclosable == {NewTab.id, AllTab.id}

IdsOf(list) == {list[i].id : i \in DOMAIN list}

TabsInit ==
  /\ tabs = initial
  /\ selectedTab = defaultTab.id /\ previousSelectedTab = defaultTab.id
  /\ blank = FALSE

\* findIndex: from 0, the first of several, -1 for none.
findIndex(list, id) ==
  LET Found == {i \in DOMAIN list : list[i].id = id}
  IN  IF Found = {} THEN -1 ELSE (CHOOSE i \in Found : \A j \in Found : i <= j) - 1

\* A selection that is not among the tabs shows the default tab.
selectedActualTab ==
  LET i == findIndex(tabs, selectedTab)
  IN  IF i = -1 THEN defaultTab ELSE tabs[i + 1]

pushTab(tab) ==
  /\ tabs' = Append(tabs, tab)
  /\ previousSelectedTab' = selectedTab
  /\ selectedTab' = tab.id
  /\ UNCHANGED blank

\* The places of a list where the tab is not the one with this id, from left to right.
Places(list, id) ==
  LET Kept == {i \in DOMAIN list : list[i].id # id}
  IN  CHOOSE place \in [1 .. Cardinality(Kept) -> Kept] :
        /\ \A m, n \in DOMAIN place : m < n => place[m] < place[n]
        /\ \A i \in Kept : \E n \in DOMAIN place : place[n] = i

\* tabs.filter
without(list, id) ==
  LET place == Places(list, id) IN [n \in DOMAIN place |-> list[place[n]]]

\* Mutant: the previous tab is selected even when it was closed.
closeTabToPrevious(id, previous) ==
  /\ tabs' = without(tabs, id)
  /\ selectedTab' = IF selectedTab # id THEN selectedTab ELSE previous
  /\ UNCHANGED <<previousSelectedTab, blank>>

closeTab(id, previous) ==
  LET newTabs == without(tabs, id)
  IN  /\ tabs' = newTabs
      /\ selectedTab' = IF selectedTab # id THEN selectedTab
                        ELSE IF previous \in IdsOf(newTabs) THEN previous ELSE defaultTab.id
      /\ UNCHANGED <<previousSelectedTab, blank>>

\* The remainder of JavaScript has the sign of the dividend.
Remainder(a, n) == IF a >= 0 THEN a % n ELSE -((-a) % n)

\* list[i % list.length].id; there is no such element and .id throws when the
\* list is empty or the index negative.
SelectAt(list, i) ==
  LET n == Len(list)
  IN  IF n = 0 \/ Remainder(i, n) < 0
      THEN blank' = TRUE /\ UNCHANGED <<tabs, selectedTab, previousSelectedTab>>
      ELSE /\ selectedTab' = list[Remainder(i, n) + 1].id
           /\ previousSelectedTab' = selectedTab
           /\ UNCHANGED <<tabs, blank>>

nextTab(list) == SelectAt(list, findIndex(list, selectedTab) + 1)

\* Mutant: from the first tab to the one before it.
previousTabUnwrapped(list) == SelectAt(list, findIndex(list, selectedTab) - 1)

previousTab(list) == SelectAt(list, findIndex(list, selectedTab) - 1 + Len(list))

switchTab(id) ==
  /\ selectedTab' = id
  /\ previousSelectedTab' = selectedTab
  /\ UNCHANGED <<tabs, blank>>

updateTab(tab) ==
  /\ tabs' = [i \in DOMAIN tabs |-> IF tabs[i].id = tab.id THEN tab ELSE tabs[i]]
  /\ UNCHANGED <<selectedTab, previousSelectedTab, blank>>

=============================================================================
