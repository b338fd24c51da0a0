CONSTANTS
  User = {1, 2}
  Rows = 2
  Batch = 1
  MaxFriends = 2
  AsyncPairs <- Both
  SyncPairs = {}
  MaxAsking = 1
  Writers = {1}
  Removers = {1}
  Inviter = 1
  MaxMishaps = 3
  Scenarios = {"crossing", "oneway"}
  Mishaps <- MishapsInSafety
SPECIFICATION MCSpec
INVARIANTS
  TypeOK
  FriendsAreMutual
  IncomingIsNoFriend
  DeliveredIsRead
