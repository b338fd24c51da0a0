-------------------------------- MODULE Parts --------------------------------
(***************************************************************************)
(* The parts around the transport, side by side: the registration and the  *)
(* PIR databases of the server, the streams, the watchdog and the service   *)
(* of the daemon, and the window and its dialogs.  They share no variable.  *)
(***************************************************************************)
EXTENDS Registration, FastPir, MessageStream, Watchdog, GuiRpc, MainWindow, Dialogs,
        AddFriend, StoryAnimation

\* Each part goes its own way, in whatever order.
PartsSpec ==
  /\ RegisterSpec /\ PirSpec /\ StreamSpec /\ WatchdogSpec /\ RpcSpec
  /\ WindowSpec /\ DialogsSpec /\ AddFriendSpec /\ AnimationSpec

\* The types of all parts.
PartsTypeOK ==
  /\ RegisterTypeOK /\ PirTypeOK /\ StreamTypeOK /\ WatchdogTypeOK /\ RpcTypeOK
  /\ WindowTypeOK /\ DialogsTypeOK /\ AddFriendTypeOK /\ AnimationTypeOK

=============================================================================
