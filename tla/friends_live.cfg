CONSTANTS
  User = {1, 3}
  Rows = 3
  Batch = 2
  MaxFriends = 2
  AsyncPairs <- Both
  SyncPairs <- Both
  MaxAsking = 1
  Writers = {}
  Removers = {}
  Inviter = 3
  MaxMishaps = 1
  Scenarios = {"crossing", "oneway", "story"}
  Mishaps <- MishapsInLiveness
SPECIFICATION MCFairSpec
PROPERTIES
  InvitationIsFound
  FriendshipSettles
