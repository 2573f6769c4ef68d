\* Three slots share the pool; speculation on.
\* The worker stops for good once every request is answered and the channel is empty.
SPECIFICATION Spec
CONSTANTS
  s1 = s1
  s2 = s2
  s3 = s3
  a = a
  b = b
  c = c
  NoReq = NoReq
  MaxU32 = 40
  Slots = {s1, s2, s3}
  Reqs = {a, b, c}
  PromptLen <- ShortPrompts
  MaxTokens <- LongBudgets
  Vision = {}
  Timed = {}
  Leavers = {}
  QueueSize = 2
  Pool = 13
  SingleMaxCtx = 0
  SpecNMax = 1
  NRsSeq = 1
  NBatch = 16
  PrefillMax = 2
  YieldEvery = 2
  YieldMax = 1
  WatermarkPct = 50
  Faults = {}
SYMMETRY SlotSymmetry
CHECK_DEADLOCK FALSE
INVARIANTS
  PoolFits
  IdleCellsAccounted
