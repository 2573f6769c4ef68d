\* Liveness: no symmetry.
\* The worker stops for good once every request is answered and the channel is empty.
SPECIFICATION FairSpec
CONSTANTS
  s1 = s1
  s2 = s2
  s3 = s3
  a = a
  b = b
  c = c
  NoReq = NoReq
  MaxU32 = 40
  Slots = {s1, s2}
  Reqs = {a, b}
  PromptLen <- LivePrompts
  MaxTokens <- LiveBudgets
  Vision = {}
  Timed = {}
  Leavers = {b}
  QueueSize = 2
  Pool = 6
  SingleMaxCtx = 0
  SpecNMax = 0
  NRsSeq = 0
  NBatch = 8
  PrefillMax = 1
  YieldEvery = 1
  YieldMax = 1
  WatermarkPct = 60
  Faults = {}
CHECK_DEADLOCK FALSE
PROPERTIES
  EventuallyAnswered
