------------------------------- MODULE Dialogs -------------------------------
(***************************************************************************)
(* What lies over the tabs: the dialog of Main, which may be the one that  *)
(* asks for a registration, the command bar with its animation, and the    *)
(* status line.  An event and the renders and effects that follow it are   *)
(* one step; a timer and an answer of the daemon are steps of their own.   *)
(***************************************************************************)
EXTENDS Integers

CONSTANTS MaxAsks, MaxRegisters, MaxTimers  \* bounds on what is under way at a time

VARIABLES
  isRegistered,  \* in the daemon
  modal,         \* the dialog, or "none"
  asks,          \* calls of hasRegistered by how far they are
  registering,   \* calls of registerUser by how far they are
  visualState,   \* of the command bar
  timeout,       \* what its animation timer will set, or "none"
  wanted,        \* whether the user last opened or closed the command bar
  display,       \* whether a status is shown
  timers         \* timers that will hide it

modalVars == <<modal, asks, registering>>
barVars == <<visualState, timeout, wanted>>
statusVars == <<display, timers>>
dialogsVars == <<isRegistered, modalVars, barVars, statusVars>>

ASSUME DialogsAssumption ==
  MaxAsks \in Nat \ {0} /\ MaxRegisters \in Nat /\ MaxTimers \in Nat

Asked == {"asked", "yes", "no", "error"}
Registering == {"asked", "ok", "error"}
Asks == asks["asked"] + asks["yes"] + asks["no"] + asks["error"]
Registrations == registering["asked"] + registering["ok"] + registering["error"]

Dialog == {"friend", "incoming", "install"}

DialogsTypeOK ==
  /\ isRegistered \in BOOLEAN
  /\ modal \in Dialog \cup {"none", "register"}
  /\ asks \in [Asked -> 0..MaxAsks] /\ Asks <= MaxAsks
  /\ registering \in [Registering -> 0..MaxRegisters] /\ Registrations <= MaxRegisters
  /\ visualState \in {"hidden", "animatingIn", "showing", "animatingOut"}
  /\ timeout \in {"none", "showing", "hidden"}
  /\ (timeout = "none") = (visualState \in {"showing", "hidden"})
  /\ wanted \in {"open", "closed"}
  /\ display \in BOOLEAN /\ timers \in 0..MaxTimers

\* A link to a public id opens the window with the dialog to add a friend.
DialogsInit ==
  /\ isRegistered \in BOOLEAN
  /\ modal \in {"none", "friend"}
  /\ asks = [a \in Asked |-> IF a = "asked" THEN 1 ELSE 0]
  /\ registering = [r \in Registering |-> 0]
  /\ visualState = "hidden" /\ timeout = "none" /\ wanted = "closed"
  /\ display = FALSE /\ timers = 0

Moved(calls, from, to) == [calls EXCEPT ![from] = @ - 1, ![to] = @ + 1]
Gone(calls, from) == [calls EXCEPT ![from] = @ - 1]
AskAgain == IF Asks < MaxAsks THEN [asks EXCEPT !["asked"] = @ + 1] ELSE asks

-----------------------------------------------------------------------------
(* The status line.  Its context is a new object at each render, and the      *)
(* effect that calls hasRegistered depends on it.                            *)

\* Mutant: each status clears the last one's timer, and an effect that depends on
\* display starts the new one.
setVisibleByEffect ==
  /\ timers < MaxTimers
  /\ display' = TRUE /\ timers' = IF display THEN 0 ELSE 1

setVisible ==
  /\ timers < MaxTimers
  /\ display' = TRUE /\ timers' = timers + 1

\* A message sent, an invitation cancelled, ...
ShowStatus ==
  /\ setVisible /\ asks' = AskAgain
  /\ UNCHANGED <<isRegistered, modal, registering, barVars>>

\* Any of the timers hides whatever status is shown by then.
StatusTimer ==
  /\ timers > 0
  /\ timers' = timers - 1 /\ display' = FALSE
  /\ asks' = IF display THEN AskAgain ELSE asks
  /\ UNCHANGED <<isRegistered, modal, registering, barVars>>

CloseStatus ==
  /\ display
  /\ display' = FALSE /\ asks' = AskAgain
  /\ UNCHANGED <<isRegistered, modal, registering, barVars, timers>>

-----------------------------------------------------------------------------
(* The registration.                                                         *)

DaemonAnswers ==
  /\ asks["asked"] > 0
  /\ \E answer \in {IF isRegistered THEN "yes" ELSE "no", "error"} :
       asks' = Moved(asks, "asked", answer)
  /\ UNCHANGED <<isRegistered, modal, registering, barVars, statusVars>>

\* Mutant: an error is logged and nothing else.
HasRegisteredQuietly(answer) ==
  /\ asks[answer] > 0
  /\ asks' = Gone(asks, answer)
  /\ modal' = IF answer = "no" THEN "register" ELSE modal
  /\ UNCHANGED <<isRegistered, registering, barVars, statusVars>>

\* then and catch of hasRegistered.
HasRegistered(answer) ==
  /\ asks[answer] > 0
  /\ asks' = Gone(asks, answer)
  /\ modal' = IF answer = "yes" THEN modal ELSE "register"
  /\ UNCHANGED <<isRegistered, registering, barVars, statusVars>>

\* The button may be pressed again before the first answer.
onRegister ==
  /\ modal = "register" /\ visualState = "hidden"
  /\ Registrations < MaxRegisters
  /\ registering' = [registering EXCEPT !["asked"] = @ + 1]
  /\ UNCHANGED <<isRegistered, modal, asks, barVars, statusVars>>

DaemonRegisters ==
  /\ registering["asked"] > 0
  /\ \/ /\ ~ isRegistered /\ isRegistered' = TRUE
        /\ registering' = Moved(registering, "asked", "ok")
     \/ /\ registering' = Moved(registering, "asked", "error")
        /\ UNCHANGED isRegistered
  /\ UNCHANGED <<modal, asks, barVars, statusVars>>

Registered(answer) ==
  /\ registering[answer] > 0
  /\ registering' = Gone(registering, answer)
  /\ modal' = IF answer = "ok" THEN "none" ELSE modal
  /\ setVisible /\ asks' = AskAgain
  /\ UNCHANGED <<isRegistered, barVars>>

-----------------------------------------------------------------------------
(* The command bar.                                                          *)

showing == visualState # "hidden"

\* Mutant: closing the bar clears the timer and does not start another.
SetVisualStateUntimed(vs) ==
  /\ visualState' = vs
  /\ timeout' = IF vs = "animatingIn" THEN "showing" ELSE "none"

SetVisualState(vs) ==
  /\ visualState' = vs
  /\ timeout' = IF vs = "animatingIn" THEN "showing" ELSE "hidden"

toggle ==
  IF visualState \in {"animatingOut", "hidden"}
  THEN SetVisualState("animatingIn") /\ wanted' = "open"
  ELSE SetVisualState("animatingOut") /\ wanted' = "closed"

\* runAnimateTimer: one timer, cleared and set when the visual state changes.
AnimationEnds ==
  /\ timeout # "none"
  /\ visualState' = timeout /\ timeout' = "none"
  /\ UNCHANGED <<isRegistered, modalVars, wanted, statusVars>>

CmdK ==
  /\ toggle
  /\ modal' = IF showing THEN "none" ELSE modal
  /\ UNCHANGED <<isRegistered, asks, registering, statusVars>>

\* Mutant: the timer that opens the bar is left running.
EscapeLeavesTimer ==
  /\ IF visualState \in {"hidden", "animatingOut"} THEN UNCHANGED barVars
     ELSE /\ visualState' = "animatingOut" /\ wanted' = "closed"
          /\ timeout' = IF timeout = "none" THEN "hidden" ELSE timeout
  /\ modal' = IF showing \/ modal # "register" THEN "none" ELSE modal
  /\ UNCHANGED <<isRegistered, asks, registering, statusVars>>

\* Escape reaches the command bar, and the dialog, whose onClose is empty for the
\* registration.
Escape ==
  /\ IF visualState \in {"hidden", "animatingOut"} THEN UNCHANGED barVars
     ELSE SetVisualState("animatingOut") /\ wanted' = "closed"
  /\ modal' = IF showing \/ modal # "register" THEN "none" ELSE modal
  /\ UNCHANGED <<isRegistered, asks, registering, statusVars>>

\* The backdrop of the command bar, which is on top, or that of the dialog.
ClickOutside ==
  /\ showing \/ modal # "none"
  /\ modal' = IF showing \/ modal # "register" THEN "none" ELSE modal
  /\ UNCHANGED <<isRegistered, asks, registering, barVars, statusVars>>

\* An action of the command bar: openFriendModal, the installation, or another.
execute(dialog) ==
  /\ showing
  /\ modal' = IF dialog = "none" THEN modal ELSE dialog
  /\ toggle
  /\ UNCHANGED <<isRegistered, asks, registering, statusVars>>

\* A key, the sidebar, or an invitation in the list.
Open(dialog) ==
  /\ ~ showing
  /\ dialog = "friend" \/ modal = "none"
  /\ modal' = dialog
  /\ UNCHANGED <<isRegistered, asks, registering, barVars, statusVars>>

DialogsNext ==
  \/ ShowStatus \/ StatusTimer \/ CloseStatus
  \/ DaemonAnswers \/ DaemonRegisters
  \/ \E answer \in {"yes", "no", "error"} : HasRegistered(answer)
  \/ \E answer \in {"ok", "error"} : Registered(answer)
  \/ onRegister
  \/ AnimationEnds \/ CmdK \/ Escape \/ ClickOutside
  \/ \E dialog \in {"none", "friend", "install"} : execute(dialog)
  \/ \E dialog \in {"friend", "incoming"} : Open(dialog)

\* Timers fire and the daemon answers, or the call fails.
DialogsFairness ==
  /\ WF_dialogsVars(StatusTimer) /\ WF_dialogsVars(AnimationEnds) /\ WF_dialogsVars(DaemonAnswers)
  /\ \A answer \in {"yes", "no", "error"} : WF_dialogsVars(HasRegistered(answer))

DialogsSpec == DialogsInit /\ [][DialogsNext]_dialogsVars /\ DialogsFairness

-----------------------------------------------------------------------------

\* When its animation has ended the command bar is open or closed as the user left
\* it, however fast it was opened and closed (useToggleHandler).
BarEndsAsWanted ==
  /\ visualState = "showing" => wanted = "open"
  /\ visualState = "hidden" => wanted = "closed"

\* An animation ends.
BarSettles == visualState \in {"animatingIn", "animatingOut"}
              ~> visualState \in {"showing", "hidden"}

\* A status does not stay for ever, whichever timers were started for others.
StatusGoesAway == display ~> ~ display

\* A user who is not registered is asked to, even if the daemon cannot say.
UnregisteredIsAsked == <>(isRegistered \/ modal = "register")

\* What is moved by timers and answers comes to rest as it should (InternalEvents.tsx,
\* Status.tsx, Main.tsx).
DialogsSettle == []BarEndsAsWanted /\ BarSettles /\ StatusGoesAway /\ UnregisteredIsAsked

=============================================================================
