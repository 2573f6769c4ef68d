SPECIFICATION Spec
CONSTANTS
  f1 = f1
  f2 = f2
  Fps = {f1}
  Keys <- TwoKeys
  Prompts <- AllPrompts
  Sizes = {1}
  Caps = {1}
  Epoch = 20
  MaxClock = 21
  MaxTick = 4
  MaxCrashes = 1
  Faults = {}
SYMMETRY FpSymmetry
PROPERTIES
  FreshSurvives
