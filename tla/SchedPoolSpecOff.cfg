\* Three slots, speculation off: nothing is set aside for the pending token.
\* The worker stops for good once every request is answered and the channel is empty.
SPECIFICATION Spec
CONSTANTS
  s1 = s1
  s2 = s2
  s3 = s3
  a = a
  b = b
  c = c
  NoReq = NoReq
  MaxU32 = 40
  Slots = {s1, s2, s3}
  Reqs = {a, b, c}
  PromptLen <- ShortPrompts
  MaxTokens <- LongBudgets
  Vision = {}
  Timed = {}
  Leavers = {}
  QueueSize = 2
  Pool = 9
  SingleMaxCtx = 0
  SpecNMax = 0
  NRsSeq = 0
  NBatch = 8
  PrefillMax = 1
  YieldEvery = 2
  YieldMax = 1
  WatermarkPct = 50
  Faults = {}
SYMMETRY SlotSymmetry
CHECK_DEADLOCK FALSE
INVARIANTS
  PoolFits
