\* Two threads that build, share, use and drop three loggers.
CONSTANTS
  t1 = t1
  t2 = t2
  short = short
  long = long
  huge = huge
  n1 = n1
  n2 = n2
  Threads <- Two
  Msgs <- AllMsgs
  NoMsg = NoMsg
  SizeOf <- Sizes
  BufferLen = 2
  MaxCalls = 3
  Names <- TwoNames
  NameOf <- SameName
  LevelOf <- Levels
  MinLevel <- MinLevels
  Nobody = Nobody
CHECK_DEADLOCK FALSE
SPECIFICATION FairLogSpec
INVARIANT LogTypeOK
INVARIANT BuffersFit
INVARIANT EndedMeansWritten
INVARIANT StopFindsNobodyInside
INVARIANT SinksAgree
PROPERTY ImplementsChannelSafe
PROPERTY ImplementsChannel
PROPERTY CallsReturn
PROPERTY JoinsUnlessUnheard
