------------------------------- MODULE GuiRpc -------------------------------
(***************************************************************************)
(* The calls of the graphical client to the daemon.  A method of DaemonImpl*)
(* fills a request of the checked-in stub, the daemon reads it by its own  *)
(* daemon.proto, its handler answers or refuses, and the window gets the   *)
(* answer as a plain object, or an error.  Calls run side by side, and the *)
(* daemon may stop under all of them.                                      *)
(***************************************************************************)
EXTENDS Codec

CONSTANTS
  RpcCall,         \* the calls under way at a time
  Method,          \* the methods of DaemonImpl that the window calls
  MessageOf(_)     \* the messages of a type, as the window and the daemon fill them in

VARIABLES
  registered,  \* config.has_registered in the daemon's database
  known,       \* a call of hasRegistered has resolved to true
  successes,   \* calls of registerUser that resolved
  rpcCall      \* per call: where it is, and what it carries

rpcVars == <<registered, known, successes, rpcCall>>

Stub == INSTANCE DaemonStub
Proto == INSTANCE DaemonProto

-----------------------------------------------------------------------------
(* DaemonImpl: the rpc, the setters called on the request, and the part of  *)
(* the response that is handed out.                                         *)

Impl(rpc, sets, result) == [rpc |-> rpc, sets |-> sets, result |-> result]
Whole == "all of it"

sendMessage == Impl("SendMessage", {"uniqueNameList", "message"}, Whole)
getStatus == Impl("GetStatus", {}, Whole)
getMessages == Impl("GetMessages", {"filter"}, Whole)
getMessagesStreamed == Impl("GetMessagesStreamed", {"filter"}, "messagesList")
getOutboxMessages == Impl("GetOutboxMessages", {}, Whole)
getSentMessages == Impl("GetSentMessages", {}, Whole)
messageSeen == Impl("MessageSeen", {"id"}, Whole)
hasRegistered == Impl("GetStatus", {}, "registered")
registerUser == Impl("RegisterUser", {"name", "betaKey"}, Whole)
getFriendList == Impl("GetFriendList", {}, "friendInfosList")
removeFriend == Impl("RemoveFriend", {"uniqueName"}, Whole)
addAsyncFriend ==
  Impl("AddAsyncFriend", {"uniqueName", "displayName", "publicId", "message"}, Whole)
addSyncFriend == Impl("AddSyncFriend", {"uniqueName", "displayName", "story"}, Whole)
getOutgoingSyncInvitations == Impl("GetOutgoingSyncInvitations", {}, Whole)
getOutgoingAsyncInvitations == Impl("GetOutgoingAsyncInvitations", {}, Whole)
getIncomingAsyncInvitations == Impl("GetIncomingAsyncInvitations", {}, Whole)

\* Mutant: a setter is forgotten.
acceptAsyncInvitationUnnamed ==
  Impl("AcceptAsyncInvitation", {"publicId", "uniqueName"}, Whole)

acceptAsyncInvitation ==
  Impl("AcceptAsyncInvitation", {"publicId", "uniqueName", "displayName"}, Whole)

rejectAsyncInvitation == Impl("RejectAsyncInvitation", {"publicId"}, Whole)
cancelAsyncInvitation == Impl("CancelAsyncInvitation", {"publicId"}, Whole)
isValidPublicID == Impl("IsValidPublicID", {"publicId"}, Whole)
getMyPublicID == Impl("GetMyPublicID", {}, Whole)

DaemonImpl ==
  {sendMessage, getStatus, getMessages, getMessagesStreamed, getOutboxMessages,
   getSentMessages, messageSeen, hasRegistered, registerUser, getFriendList,
   removeFriend, addAsyncFriend, addSyncFriend, getOutgoingSyncInvitations,
   getOutgoingAsyncInvitations, getIncomingAsyncInvitations, acceptAsyncInvitation,
   rejectAsyncInvitation, cancelAsyncInvitation, isValidPublicID, getMyPublicID}

ASSUME RpcAssumption ==
  /\ Method \subseteq DaemonImpl
  /\ \A method \in DaemonImpl :
       /\ \A arg \in MessageOf(Stub!Service[method.rpc].request) :
            IsMessage(Stub!Service[method.rpc].request, arg)
       /\ \A reply \in MessageOf(Proto!Service[method.rpc].response) :
            IsMessage(Proto!Service[method.rpc].response, reply)

Request(method, arg) ==
  LET type == Stub!Service[method.rpc].request
  IN  serializeBinary(type, [n \in Names(type) |->
        IF n \in method.sets THEN arg[n]
        ELSE Default(type[Number(type, n)])])

Result(method, object) == IF method.result = Whole THEN object ELSE object[method.result]

-----------------------------------------------------------------------------

Free == [at |-> "free"]

RpcInit == /\ registered \in BOOLEAN
           /\ known = FALSE /\ successes = 0
           /\ rpcCall = [c \in RpcCall |-> Free]

Settled == {"resolved", "rejected"}
States == {"free", "sent", "registering", "answered", "refused"} \cup Settled
Error == {"UNAUTHENTICATED", "ALREADY_EXISTS", "UNAVAILABLE", "UNKNOWN"}

RpcTypeOK ==
  /\ registered \in BOOLEAN /\ known \in BOOLEAN /\ successes \in Nat
  /\ \A c \in RpcCall :
       /\ rpcCall[c].at \in States
       /\ rpcCall[c].at # "free" => rpcCall[c].method \in Method
       /\ rpcCall[c].at \in {"refused", "rejected"} <=> "error" \in DOMAIN rpcCall[c]
       /\ rpcCall[c].at = "resolved" <=> "result" \in DOMAIN rpcCall[c]
       /\ "error" \in DOMAIN rpcCall[c] => rpcCall[c].error \in Error

\* Mutant: what a call ended with is left in its place.
InvokeOver(c, method, arg) ==
  /\ rpcCall[c].at \in {"free"} \cup Settled
  /\ rpcCall' = [rpcCall EXCEPT ![c] =
       With([at |-> "sent", method |-> method, arg |-> arg, knew |-> known,
             wire |-> Request(method, arg)], @)]
  /\ UNCHANGED <<registered, known, successes>>

\* The window calls a method; a settled call is forgotten.
Invoke(c, method, arg) ==
  /\ rpcCall[c].at \in {"free"} \cup Settled
  /\ rpcCall' = [rpcCall EXCEPT ![c] =
       [at |-> "sent", method |-> method, arg |-> arg, knew |-> known,
        wire |-> Request(method, arg)]]
  /\ UNCHANGED <<registered, known, successes>>

Seen(c) == deserializeBinary(Proto!Service[rpcCall[c].method.rpc].request, rpcCall[c].wire)

Put(c, new) == rpcCall' = [rpcCall EXCEPT ![c] = With(new, @)]

RefuseWith(c, error) ==
  /\ Put(c, [at |-> "refused", error |-> error, seen |-> Seen(c)])
  /\ UNCHANGED <<registered, known, successes>>

AnswerWith(c, reply) ==
  Put(c, [at |-> "answered", reply |-> reply, seen |-> Seen(c),
          wire |-> serializeBinary(Proto!Service[rpcCall[c].method.rpc].response, reply)])

\* The handlers that do not ask for a registration.
WithoutRegistration == {"RegisterUser", "IsValidPublicID", "GetStatus"}

\* Mutant: a registration under way is reported as done.
StatusSaysEarly(reply) ==
  reply.registered = (registered \/ \E c \in RpcCall : rpcCall[c].at = "registering")

StatusSays(reply) == reply.registered = registered

\* A handler runs in one transaction of the database, which may fail.
Handle(c) ==
  LET rpc == rpcCall[c].method.rpc
  IN  /\ rpcCall[c].at = "sent" /\ rpc # "RegisterUser"
      /\ \/ /\ rpc \notin WithoutRegistration /\ ~ registered
            /\ RefuseWith(c, "UNAUTHENTICATED")
         \/ /\ rpc \in WithoutRegistration \/ registered
            /\ \/ \E reply \in MessageOf(Proto!Service[rpc].response) :
                    /\ rpc = "GetStatus" => StatusSays(reply)
                    /\ AnswerWith(c, reply)
                    /\ UNCHANGED <<registered, known, successes>>
               \/ RefuseWith(c, "UNKNOWN")

\* RegisterUser looks for a registration before it goes to the server ...
StartRegistration(c) ==
  /\ rpcCall[c].at = "sent" /\ rpcCall[c].method.rpc = "RegisterUser"
  /\ IF registered THEN RefuseWith(c, "ALREADY_EXISTS")
     ELSE /\ Put(c, [at |-> "registering", seen |-> Seen(c)])
          /\ UNCHANGED <<registered, known, successes>>

\* Mutant: do_register does not count the registrations.
RegisterAgain(c) ==
  /\ rpcCall[c].at = "registering"
  /\ registered' = TRUE
  /\ \E reply \in MessageOf(Proto!Service["RegisterUser"].response) : AnswerWith(c, reply)
  /\ UNCHANGED <<known, successes>>

\* ... and do_register again before it writes; the server may have failed.
Register(c) ==
  /\ rpcCall[c].at = "registering"
  /\ \/ /\ ~ registered
        /\ registered' = TRUE
        /\ \E reply \in MessageOf(Proto!Service["RegisterUser"].response) : AnswerWith(c, reply)
     \/ /\ Put(c, [at |-> "refused", error |-> IF registered THEN "UNKNOWN" ELSE "UNAVAILABLE"])
        /\ UNCHANGED registered
  /\ UNCHANGED <<known, successes>>

\* The promise resolves: deserializeBinary, then toObject or the one field.
Resolve(c) ==
  LET type == Stub!Service[rpcCall[c].method.rpc].response
      object == toObject(type, deserializeBinary(type, rpcCall[c].wire))
      result == Result(rpcCall[c].method, object)
  IN  /\ rpcCall[c].at = "answered"
      /\ Put(c, [at |-> "resolved", result |-> result])
      /\ known' = (known \/ (rpcCall[c].method = hasRegistered /\ result))
      /\ successes' = successes + IF rpcCall[c].method = registerUser THEN 1 ELSE 0
      /\ UNCHANGED registered

Reject(c) ==
  /\ rpcCall[c].at = "refused"
  /\ Put(c, [at |-> "rejected"])
  /\ UNCHANGED <<registered, known, successes>>

\* The daemon stops or is not there; what it wrote stays.
DaemonUnavailable ==
  /\ rpcCall' = [c \in RpcCall |-> IF rpcCall[c].at \in {"free"} \cup Settled THEN rpcCall[c]
                             ELSE With([at |-> "rejected", error |-> "UNAVAILABLE"],
                                       rpcCall[c])]
  /\ UNCHANGED <<registered, known, successes>>

CallStep(c, methods) ==
  \/ \E method \in methods :
       \E arg \in MessageOf(Stub!Service[method.rpc].request) : Invoke(c, method, arg)
  \/ Handle(c) \/ StartRegistration(c) \/ Register(c) \/ Resolve(c) \/ Reject(c)

RpcNext == (\E c \in RpcCall : CallStep(c, Method)) \/ DaemonUnavailable

RpcSpec == RpcInit /\ [][RpcNext]_rpcVars

-----------------------------------------------------------------------------

\* The stub and daemon.proto mean the same: a request is read as it was filled in, and
\* what is handed out of a response is what the handler put there.
StubAgrees ==
  \A method \in DaemonImpl :
    LET stub == Stub!Service[method.rpc]
        proto == Proto!Service[method.rpc]
    IN  /\ \A arg \in MessageOf(stub.request) :
             deserializeBinary(proto.request, Request(method, arg)) = arg
        /\ \A reply \in MessageOf(proto.response) :
             LET wire == serializeBinary(proto.response, reply)
                 object == toObject(stub.response, deserializeBinary(stub.response, wire))
             IN  Result(method, object) = Result(method, reply)

\* What a handler of the daemon reads is what the window passed, field by field,
\* whichever of the fields are empty (daemon.ts, daemon_pb.js, daemon.proto).
RequestsArrive ==
  \A c \in RpcCall : "seen" \in DOMAIN rpcCall[c] => rpcCall[c].seen = rpcCall[c].arg

\* What a call resolves to is what the handler put in its response: nested and
\* repeated parts in order, empty values as empty values.
RepliesArrive ==
  \A c \in RpcCall :
    rpcCall[c].at = "resolved" =>
      rpcCall[c].result = Result(rpcCall[c].method, rpcCall[c].reply)

\* Once the window has learnt that the user is registered, no later call is
\* refused for want of a registration, across restarts of the daemon.
RegistrationIsRemembered ==
  \A c \in RpcCall :
    rpcCall[c].at = "rejected" /\ rpcCall[c].knew => rpcCall[c].error # "UNAUTHENTICATED"

\* At most one call of registerUser succeeds, however many run side by side
\* between the check in RegisterUser and the one in do_register.
RegisteredOnce == successes <= 1

\* What the calls of the window rely on: the stub and the daemon mean the same, and the
\* registration is done once and not forgotten.
CallsAreTrue ==
  RequestsArrive /\ RepliesArrive /\ RegistrationIsRemembered /\ RegisteredOnce

=============================================================================
