SPECIFICATION DbSpec
CONSTANTS
  alice = alice
  bob = bob
  carol = carol
  m1 = m1
  m2 = m2
  m3 = m3
  Daemon = {alice, bob, carol}
  Message = {m1, m2, m3}
  Invitation = Invitation
  Author <- AuthorTwoWay
  NumChunks <- TwoChunksFirst
  InitProgress <- Triangle
INVARIANTS DbTypeOK InOrderExactlyOnce UnackedIsRetained ReceivedUpToSeqnum
  DeliveredWasReceived TransactionsSucceed
PROPERTY NothingIsTakenBack ImplementsChannel
CHECK_DEADLOCK FALSE
