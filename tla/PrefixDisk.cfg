SPECIFICATION Spec
CONSTANTS
  f1 = f1
  f2 = f2
  Fps = {f1, f2}
  Keys <- AllKeys
  Prompts <- AllPrompts
  Sizes = {1, 2}
  Caps = {0, 2}
  Epoch = 20
  MaxClock = 21
  MaxTick = 4
  MaxCrashes = 1
  Faults = {"write", "remove"}
SYMMETRY FpSymmetry
INVARIANTS
  IndexBacked
  NoOrphanFile
  UsedExact
  NoTornFile
PROPERTIES
  EvictsOldest
