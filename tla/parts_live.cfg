\* What must happen in the end, in each part by itself.
CONSTANTS
  Moving = {"registration", "stream", "stream, no hour passes", "watchdog",
            "watchdog, far apart", "dialogs"}
  m1 = m1
  m2 = m2
  m3 = m3
  w1 = w1
  c1 = c1
  c2 = c2
  f1 = f1
  Daemon = {d1, d2}
  MaxCalls = 2
  MaxHandlers = 1
  MaxRestarts = 1
  Handler = {h1, h2}
  db_rows = 3
  seal_slot_count = 2
  SEAL_DB_COLUMNS = 2
  MaxWriters = 2
  MaxVersion = 1
  Message <- TwoMessages
  Stream <- TwoCalls
  MaxClock = 2
  MaxSetBack = 1
  MaxStops = 1
  MaxResponses = 1
  Registered0 = TRUE
  Latency = {1, 2, 19}
  MaxRound = 1
  RpcCall <- TwoCalls
  Method <- AllMethods
  MessageOf <- Samples
  Absent = Absent
  WindowMessage <- OneMessage
  Friend <- OneFriend
  Section <- Outbox
  MaxTabs = 4
  MaxWrites = 1
  MaxSends = 2
  MaxAsks = 2
  MaxRegisters = 1
  MaxTimers = 2
  Sentences = 2
  KEYFRAMES = 90
SPECIFICATION MCFairSpec
CHECK_DEADLOCK FALSE
PROPERTIES
  KeyComesBack
  StreamsKeepUp
  KillsTheStuckOnly
  DialogsSettle
