\* One completion, which ends.
SPECIFICATION SseSpec
CONSTANTS
  Kinds = {"stream", "json"}
  MaxEvents = 4
  ChanSize = 2
  DueCount = 2
CHECK_DEADLOCK FALSE
INVARIANTS
  ChunkOrder
  TextInOrder
PROPERTIES
  LeaverIsNoticed
  TaskEnds
