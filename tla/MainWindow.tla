----------------------------- MODULE MainWindow -----------------------------
(***************************************************************************)
(* Main and Write: what the user does with the tabs, the text and the      *)
(* recipients of the messages being composed, and the answers of           *)
(* sendMessage, which come at any later time.  A text is named by the tab  *)
(* it was typed in.                                                        *)
(***************************************************************************)
EXTENDS Tabs

CONSTANTS WindowMessage,                \* messages in the lists
          Friend,
          Section,                      \* those of "outbox", "sent", "invitations" to open
          MaxTabs, MaxWrites, MaxSends  \* bounds

\* A message is none of the tabs' own, and not what JavaScript finds where it has no id.
ASSUME WindowAssumption ==
  /\ Section \subseteq {"outbox", "sent", "invitations"}
  /\ "undefined" \notin WindowMessage
  /\ MaxWrites \in Nat

VARIABLES
  content,  \* the text in the editor of the mounted Write, or NoText
  writes,   \* how many compose tabs there have been
  sends     \* the calls of sendMessage

windowVars == <<tabVars, content, writes, sends>>

NoText == <<"no text">>

WindowInit == /\ TabsInit
              /\ content = NoText /\ writes = 0 /\ sends = <<>>

WriteData == [searching : BOOLEAN, friends : SUBSET Friend]
Ids == unclosable \cup {<<"outbox">>, <<"sent">>, <<"invitations">>}
       \cup ({"read"} \X WindowMessage) \cup ({"write"} \X (1..MaxWrites))
Types == {"new", "all", "outbox", "sent", "invitations", "read", "write"}

WindowTypeOK ==
  /\ \A i \in DOMAIN tabs :
       /\ tabs[i].type \in Types /\ tabs[i].id \in Ids
       /\ IF tabs[i].type = "write" THEN tabs[i].data \in WriteData ELSE tabs[i].data = NoData
  /\ selectedTab \in Ids /\ previousSelectedTab \in Ids /\ blank \in BOOLEAN
  /\ content \in Ids \cup {NoText}
  /\ selectedActualTab.type # "write" => content = NoText
  /\ writes \in 0..MaxWrites
  /\ \A i \in DOMAIN sends : sends[i].at \in {"pending", "sent", "failed"}

\* Mutant: the editor is kept behind the other tabs.
MountedAlways == content' = content

\* Write is mounted while a compose tab is shown; from one compose tab to another
\* React keeps it with its editor, from and to another tab it is made anew.
Mounted ==
  content' = IF selectedActualTab'.type = "write" THEN content ELSE NoText

Shows(types) == ~ blank /\ selectedActualTab.type \in types
Room == Len(tabs) < MaxTabs

\* data.id of the message that a tab shows: messages have a uid and no id.
DataId(tab) == "undefined"

readMessage(m) ==
  /\ Shows({"new", "all", "outbox", "sent"})
  /\ IF \E i \in DOMAIN tabs : tabs[i].type = "read" /\ DataId(tabs[i]) = m
     THEN switchTab(<<"read", m>>)
     ELSE Room /\ pushTab([type |-> "read", id |-> <<"read", m>>, data |-> NoData])
  /\ Mounted /\ UNCHANGED <<writes, sends>>

\* Mutant: the tabs of the first render are searched.
openStale(type) ==
  /\ ~ blank
  /\ IF \E i \in DOMAIN initial : initial[i].type = type
     THEN switchTab(<<type>>)
     ELSE Room /\ pushTab([type |-> type, id |-> <<type>>, data |-> NoData])
  /\ Mounted /\ UNCHANGED <<writes, sends>>

\* openOutbox, openSent and the invitations of the sidebar.
open(type) ==
  /\ ~ blank
  /\ IF \E i \in DOMAIN tabs : tabs[i].type = type
     THEN switchTab(<<type>>)
     ELSE Room /\ pushTab([type |-> type, id |-> <<type>>, data |-> NoData])
  /\ Mounted /\ UNCHANGED <<writes, sends>>

\* The inbox of the sidebar, and a click on a tab.
Switch(id) ==
  /\ ~ blank
  /\ switchTab(id)
  /\ Mounted /\ UNCHANGED <<writes, sends>>

writeMessage ==
  /\ ~ blank /\ Room /\ writes < MaxWrites
  /\ writes' = writes + 1
  /\ pushTab([type |-> "write", id |-> <<"write", writes'>>,
              data |-> [searching |-> FALSE, friends |-> {}]])
  /\ Mounted /\ UNCHANGED sends

\* Ctrl-Tab and Ctrl-Shift-Tab.
CtrlTab == ~ blank /\ nextTab(tabs) /\ Mounted /\ UNCHANGED <<writes, sends>>
CtrlShiftTab == ~ blank /\ previousTab(tabs) /\ Mounted /\ UNCHANGED <<writes, sends>>

\* The command "Next Tab": the actions are made once, with the first render's tabs.
NextTabCommand == ~ blank /\ nextTab(initial) /\ Mounted /\ UNCHANGED <<writes, sends>>

\* Cmd-W, and Escape in Read and Write, close what is shown.
Close ==
  /\ ~ blank
  /\ closeTab(selectedActualTab.id, previousSelectedTab)
  /\ Mounted /\ UNCHANGED <<writes, sends>>

\* The cross of a tab, which the unclosable ones do not have.
ClickClose(id) ==
  /\ ~ blank /\ id \notin unclosable
  /\ closeTab(id, previousSelectedTab)
  /\ Mounted /\ UNCHANGED <<writes, sends>>

editWrite(data) ==
  /\ Shows({"write"})
  /\ updateTab([selectedActualTab EXCEPT !.data = data])
  /\ UNCHANGED <<content, writes, sends>>

Type ==
  /\ Shows({"write"})
  /\ content' = selectedActualTab.id
  /\ UNCHANGED <<tabVars, writes, sends>>

\* send: the early returns for a search, no recipient and an editor that has not
\* changed yet only show a status.
send ==
  LET data == selectedActualTab.data
  IN  /\ Shows({"write"}) /\ Len(sends) < MaxSends
      /\ ~ data.searching /\ data.friends # {} /\ content # NoText
      /\ sends' = Append(sends, [at |-> "pending", tab |-> selectedActualTab.id,
                                 content |-> content, to |-> data.friends,
                                 previous |-> previousSelectedTab])
      /\ UNCHANGED <<tabVars, content, writes>>

\* Mutant: onDone closes the tab that is shown when the answer comes.
SentClosesShown(i) ==
  /\ ~ blank /\ sends[i].at = "pending"
  /\ sends' = [sends EXCEPT ![i].at = "sent"]
  /\ closeTab(selectedActualTab.id, sends[i].previous)
  /\ Mounted /\ UNCHANGED writes

\* onDone is the one of the render in which send was called.
Sent(i) ==
  /\ ~ blank /\ sends[i].at = "pending"
  /\ sends' = [sends EXCEPT ![i].at = "sent"]
  /\ closeTab(sends[i].tab, sends[i].previous)
  /\ Mounted /\ UNCHANGED writes

SendFails(i) ==
  /\ sends[i].at = "pending"
  /\ sends' = [sends EXCEPT ![i].at = "failed"]
  /\ UNCHANGED <<tabVars, content, writes>>

WindowNext ==
  \/ \E m \in WindowMessage : readMessage(m)
  \/ \E type \in Section : open(type)
  \/ Switch(AllTab.id)
  \/ \E i \in DOMAIN tabs : Switch(tabs[i].id) \/ ClickClose(tabs[i].id)
  \/ writeMessage
  \/ CtrlTab \/ CtrlShiftTab \/ NextTabCommand
  \/ Close
  \/ \E data \in WriteData : editWrite(data)
  \/ Type \/ send
  \/ \E i \in DOMAIN sends : Sent(i) \/ SendFails(i)

WindowSpec == WindowInit /\ [][WindowNext]_windowVars

-----------------------------------------------------------------------------

\* As long as the two unclosable tabs are there, the selected tab is an open one,
\* in whatever order tabs were opened, switched and closed, late answers included.
SelectedTabIsOpen ==
  unclosable \subseteq IdsOf(tabs) => selectedTab \in IdsOf(tabs)

\* Cycling through the tabs never selects a tab that does not exist, as long as
\* there is one.
BlankOnlyWithoutTabs == blank => tabs = <<>>

\* The outbox, the sent messages and the invitations have one tab at most, whichever
\* way they were opened.
OneTabEach ==
  \A i, j \in DOMAIN tabs :
    tabs[i].type = tabs[j].type /\ tabs[i].type \in Section => i = j

\* The tabs of useTabs hold together, whatever callbacks of an earlier render are called.
TabsAreSound == SelectedTabIsOpen /\ BlankOnlyWithoutTabs /\ OneTabEach

\* The answer to a sendMessage closes the tab it was composed in and no other, and
\* takes the user away from no other tab, wherever the user has gone meanwhile.
AnswerClosesItsTab ==
  [][\A i \in DOMAIN sends :
       sends'[i].at # sends[i].at =>
         /\ IdsOf(tabs) \ {sends[i].tab} \subseteq IdsOf(tabs')
         /\ selectedTab # sends[i].tab => selectedTab' = selectedTab]_windowVars

=============================================================================
