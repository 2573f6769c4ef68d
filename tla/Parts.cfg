\* One run for the parts that share no state; the bounds are commented part by
\* part in README.md.
SPECIFICATION PartsSpec
CONSTANTS
  Parts = {"caps", "text", "spec", "host", "plan", "join", "vision", "fit", "kv"}
  MaxU32 = 7
  Bound = 4
  ActiveBound = 3
  SpecBound = 3
  Generations <- OneRow
  OPEN <- OpenTag
  CLOSE <- CloseTag
  Extra <- ExtraDef
  Markers <- MarkersDef
  Dsml <- DsmlDef
  Invoke <- InvokeTag
  Closing <- ClosingDef
  Naming <- NamingDef
  Vocab = {1, 2, 3}
  Eos = 3
  Requests <- DecodedDef
  Argmax <- Prefers
  NRsSeq = 1
  MtpNMax = 2
  NgramNMax = 2
  NgramNMin = 1
  NgramN = 1
  NgramSize = 16
  NgramChunk = 2
  PldN = 2
  PldK = 2
  HostSlots = {0, 1}
  HostPrompts <- Sessions
  DumpBytes <- DumpsDef
  Strides = {1}
  LastStride = 1
  StubWindow = {1}
  StoreEntries = 2
  StoreBytes = 3
  ChainAnchors = 2
  ChainBytes = 8
  HostCap = 7
  ObservedMax = 1
  DemandMax = 1
  DemandMin = 1
  MaxBinds = 4
  Order = {0, 1, 2}
  NBatchOf = 4
  NUbatch = 2
  Asked <- AskedDef
  DefaultBudget <- DefaultDef
  YieldTurns = 2
  CountMost = 2
  YieldTokens = 1
  Arrivals <- ArrivalsDef
  DraftMost = 1
  AnswerMost = 1
  Views <- ViewsDef
  Lines <- LinesDef
  SlotMost = 2
  VisionPrompts <- Talks
  TextPrompts <- Chats
  Sampled = {3, 4}
  AnswerMax = 3
  CapPos = 9
  MinCtx = 4
  MinUbatch = 2
  MaxSteps = 6
  FitAsked <- CommandLines
  s1 = s1
  Slots = {s1}
  Prompts <- Turns
  Gen = {9}
  MaxGen = 2
  Archs <- TwoArchs
  StubLens = {3}
  LastStub = 3
  Window = {3}
  ChainMax = 2
  StoreMax = 1
  DiskMax = 1
  Pressure = TRUE
  Faults = {"restore", "dump", "decode", "panic", "kill"}
INVARIANTS
  CapsFit
  DeferIsTemporary
  TextIsWhole
  ToldIsWhole
  StopIsTheEnd
  ForcingEnds
  RowsAreTrue
  VerifiedTwiceAtMost
  StateFollows
  HostRamSound
  DemandIsRepeated
  PlanSound
  EveryoneServed
  BothGoOn
  SessionsKeepTheirSlots
  ImagesAreKept
  FitSound
  CellsAreTrue
  SnapshotsHonest
PROPERTIES
  CompanyCosts
