SPECIFICATION DbSpec
CONSTANTS
  alice = alice
  bob = bob
  carol = carol
  m1 = m1
  m2 = m2
  m3 = m3
  Daemon = {alice, bob}
  Message = {m1, m2, m3}
  Invitation = Invitation
  Author <- AuthorTwoWay
  NumChunks <- EmptyFirst
  InitProgress <- Triangle
INVARIANT DeliveredWasReceived
CHECK_DEADLOCK FALSE
