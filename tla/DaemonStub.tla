----------------------------- MODULE DaemonStub -----------------------------
(***************************************************************************)
(* The message classes of daemon_pb.js and the service of                  *)
(* daemon_grpc_pb.js, as checked in: what the graphical client takes a     *)
(* message to be.  Nothing regenerates them when daemon.proto changes.     *)
(***************************************************************************)
EXTENDS Protobuf

RegisterUserRequest == <<Str("name"), Str("betaKey")>>
RegisterUserResponse == <<>>
GetFriendListRequest == <<>>
FriendInfo ==
  <<Str("uniqueName"), Str("displayName"), Str("publicId"), Enum("invitationProgress", 3)>>
GetFriendListResponse == <<List("friendInfosList", FriendInfo)>>
GetMyPublicIDRequest == <<>>
GetMyPublicIDResponse == <<Str("publicId"), Str("story")>>
IsValidPublicIDRequest == <<Str("publicId")>>
IsValidPublicIDResponse == <<Bool("valid")>>
AddSyncFriendRequest == <<Str("uniqueName"), Str("displayName"), Str("story")>>
AddSyncFriendResponse == <<>>
AddAsyncFriendRequest ==
  <<Str("uniqueName"), Str("displayName"), Str("publicId"), Str("message")>>
AddAsyncFriendResponse == <<>>
GetOutgoingSyncInvitationsRequest == <<>>
OutgoingSyncInvitationInfo ==
  <<Str("uniqueName"), Str("displayName"), Str("story"), Time("sentAt")>>
GetOutgoingSyncInvitationsResponse ==
  <<List("invitationsList", OutgoingSyncInvitationInfo)>>
GetOutgoingAsyncInvitationsRequest == <<>>
OutgoingAsyncInvitationInfo ==
  <<Str("uniqueName"), Str("displayName"), Str("publicId"), Str("message"), Time("sentAt")>>
GetOutgoingAsyncInvitationsResponse ==
  <<List("invitationsList", OutgoingAsyncInvitationInfo)>>
GetIncomingAsyncInvitationsRequest == <<>>
IncomingAsyncInvitationInfo == <<Str("publicId"), Str("message"), Time("receivedAt")>>
GetIncomingAsyncInvitationsResponse ==
  <<List("invitationsList", IncomingAsyncInvitationInfo)>>
AcceptAsyncInvitationRequest == <<Str("publicId"), Str("uniqueName"), Str("displayName")>>
AcceptAsyncInvitationResponse == <<>>
RejectAsyncInvitationRequest == <<Str("publicId")>>
RejectAsyncInvitationResponse == <<>>
CancelAsyncInvitationRequest == <<Str("publicId")>>
CancelAsyncInvitationResponse == <<>>
RemoveFriendRequest == <<Str("uniqueName")>>
RemoveFriendResponse == <<>>
SendMessageRequest == <<Strs("uniqueNameList"), Str("message")>>
SendMessageResponse == <<>>

\* Mutant: the stub of an older daemon.proto.
IncomingMaybeFriendOld == <<Str("publicId"), Opt("displayName"), Opt("uniqueName")>>

IncomingMaybeFriend == <<Str("publicId"), Opt("uniqueName"), Opt("displayName")>>

IncomingMessage ==
  <<Num("uid"), Str("message"), Str("fromUniqueName"), Str("fromDisplayName"),
    List("otherRecipientsList", IncomingMaybeFriend), Time("deliveredAt"),
    Bool("seen"), Bool("delivered")>>
OutgoingFriend ==
  <<Str("uniqueName"), Str("displayName"), Bool("delivered"), Time("deliveredAt")>>

OutgoingMessage ==
  <<Num("uid"), Str("message"), List("toFriendsList", OutgoingFriend), Time("sentAt")>>

GetMessagesRequest == <<Enum("filter", 2)>>
GetMessagesResponse == <<List("messagesList", IncomingMessage)>>
GetOutboxMessagesRequest == <<>>
GetOutboxMessagesResponse == <<List("messagesList", OutgoingMessage)>>
GetSentMessagesRequest == <<>>
GetSentMessagesResponse == <<List("messagesList", OutgoingMessage)>>
MessageSeenRequest == <<Num("id")>>
MessageSeenResponse == <<>>
GetStatusRequest == <<>>
GetStatusResponse ==
  <<Bool("registered"), Str("releaseHash"), Num("latencySeconds"), Str("serverAddress")>>

-----------------------------------------------------------------------------

Rpc(request, response) == [request |-> request, response |-> response]

AccountService ==
  [RegisterUser |-> Rpc(RegisterUserRequest, RegisterUserResponse),
   GetMyPublicID |-> Rpc(GetMyPublicIDRequest, GetMyPublicIDResponse),
   IsValidPublicID |-> Rpc(IsValidPublicIDRequest, IsValidPublicIDResponse),
   GetFriendList |-> Rpc(GetFriendListRequest, GetFriendListResponse),
   RemoveFriend |-> Rpc(RemoveFriendRequest, RemoveFriendResponse)]

InvitationService ==
  [AddSyncFriend |-> Rpc(AddSyncFriendRequest, AddSyncFriendResponse),
   AddAsyncFriend |-> Rpc(AddAsyncFriendRequest, AddAsyncFriendResponse),
   GetOutgoingSyncInvitations |->
     Rpc(GetOutgoingSyncInvitationsRequest,
         GetOutgoingSyncInvitationsResponse),
   GetOutgoingAsyncInvitations |->
     Rpc(GetOutgoingAsyncInvitationsRequest,
         GetOutgoingAsyncInvitationsResponse),
   GetIncomingAsyncInvitations |->
     Rpc(GetIncomingAsyncInvitationsRequest,
         GetIncomingAsyncInvitationsResponse),
   AcceptAsyncInvitation |->
     Rpc(AcceptAsyncInvitationRequest,
         AcceptAsyncInvitationResponse),
   RejectAsyncInvitation |->
     Rpc(RejectAsyncInvitationRequest,
         RejectAsyncInvitationResponse),
   CancelAsyncInvitation |->
     Rpc(CancelAsyncInvitationRequest,
         CancelAsyncInvitationResponse)]

MessageService ==
  [SendMessage |-> Rpc(SendMessageRequest, SendMessageResponse),
   GetMessages |-> Rpc(GetMessagesRequest, GetMessagesResponse),
   GetMessagesStreamed |-> Rpc(GetMessagesRequest, GetMessagesResponse),
   GetOutboxMessages |-> Rpc(GetOutboxMessagesRequest, GetOutboxMessagesResponse),
   GetSentMessages |-> Rpc(GetSentMessagesRequest, GetSentMessagesResponse),
   MessageSeen |-> Rpc(MessageSeenRequest, MessageSeenResponse),
   GetStatus |-> Rpc(GetStatusRequest, GetStatusResponse)]

Service == With(AccountService, With(InvitationService, MessageService))

=============================================================================
