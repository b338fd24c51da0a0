SPECIFICATION MCSpec
CONSTANTS
  alice = alice
  bob = bob
  carol = carol
  m1 = m1
  m2 = m2
  m3 = m3
  s1 = s1
  s2 = s2
  Daemon = {alice, bob, carol}
  Message = {m2}
  Invitation = Invitation
  Author <- AuthorTwoWay
  NumChunks <- TwoChunksFirst
  InitProgress <- FriendsOfAlice
  ReceiveFriendsPerRound = 2
  Slot = {s1}
  Nobody = Nobody
  NoChunk = NoChunk
  NoMail = NoMail
  NoRequest = NoRequest
  MaxFaults = 0
  RoundsAtOnce = 1
  Offline = {}
INVARIANTS DeliveredWasReceived OnlyGenuineTraffic
