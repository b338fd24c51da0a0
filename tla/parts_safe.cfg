\* What must never happen, in each part by itself.
CONSTANTS
  Moving = {"registration", "pir", "stream", "stream, clock set back",
            "rpc, any method", "rpc, registration", "window", "window, sent twice",
            "add friend", "animation", "watchdog", "dialogs"}
  m1 = m1
  m2 = m2
  m3 = m3
  w1 = w1
  c1 = c1
  c2 = c2
  f1 = f1
  Daemon = {d1, d2}
  MaxCalls = 3
  MaxHandlers = 2
  MaxRestarts = 1
  Handler = {h1, h2}
  db_rows = 3
  seal_slot_count = 2
  SEAL_DB_COLUMNS = 2
  MaxWriters = 2
  MaxVersion = 1
  Message <- ThreeMessages
  Stream <- TwoCalls
  MaxClock = 3
  MaxSetBack = 1
  MaxStops = 1
  MaxResponses = 1
  Registered0 = FALSE
  Latency = {1, 3}
  MaxRound = 1
  RpcCall <- TwoCalls
  Method <- AllMethods
  MessageOf <- Samples
  Absent = Absent
  WindowMessage <- OneMessage
  Friend <- OneFriend
  Section <- Outbox
  MaxTabs = 4
  MaxWrites = 1
  MaxSends = 2
  MaxAsks = 2
  MaxRegisters = 2
  MaxTimers = 2
  Sentences = 2
  KEYFRAMES = 90
SPECIFICATION MCSpec
CHECK_DEADLOCK FALSE
INVARIANTS
  PartsTypeOK
  MailboxesAreSound
  NoForeignParts
  LoneWritesHold
  CallsAreTrue
  TabsAreSound
  PeopleMeet
  
PROPERTIES
  ScreenKeepsPromise
  LoneWriteRepairs
  AnswerClosesItsTab
