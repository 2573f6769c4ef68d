\* Two slots, an image request, drafts of up to two tokens of which one can be
\* rolled back without a snapshot, a client that may leave, a timer, every fault.
\* The worker stops for good once every request is answered and the channel is empty.
SPECIFICATION Spec
CONSTANTS
  s1 = s1
  s2 = s2
  s3 = s3
  a = a
  b = b
  c = c
  NoReq = NoReq
  MaxU32 = 40
  Slots = {s1, s2}
  Reqs = {a, b, c}
  PromptLen <- MixedPrompts
  MaxTokens <- MixedBudgets
  Vision = {c}
  Timed = {b}
  Leavers = {a}
  QueueSize = 2
  Pool = 12
  SingleMaxCtx = 0
  SpecNMax = 2
  NRsSeq = 1
  NBatch = 16
  PrefillMax = 1
  YieldEvery = 2
  YieldMax = 1
  WatermarkPct = 60
  Faults = {"decode", "panic", "eval", "overflow", "sample", "piece"}
SYMMETRY SlotSymmetry
CHECK_DEADLOCK FALSE
INVARIANTS
  TypeOK
  QueueOrder
  OneHome
  DeferredBehindARunner
  OnePending
PROPERTIES
  NothingAfterTheEnd
  ArrivalOrder
  KeepsPromise
