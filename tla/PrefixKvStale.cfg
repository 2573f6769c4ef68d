SPECIFICATION Spec
CONSTANTS
  s1 = s1
  Slots = {s1}
  Prompts <- Forks
  Gen = {9}
  MaxGen = 1
  Archs <- PlainArch
  StubLens = {3}
  LastStub = 3
  Window = {3}
  ChainMax = 2
  StoreMax = 1
  DiskMax = 1
  Pressure = TRUE
  Faults = {}
INVARIANTS
  Faithful
