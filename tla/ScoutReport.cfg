SPECIFICATION SpecAll
CONSTANTS
  exe = exe
  l1 = l1
  l2 = l2
  l3 = l3
  a = a
  b = b
  c = c
  u = u
  Libs = {l1, l2, l3}
  Exe = exe
  Syms = {a, b, c, u}
  NoSym = NoSym
  NoLib = NoLib
  DynSym <- MCDynSym
  Rank <- MCRank
  Cache <- FullCache
  Refused = {}
  Odd = {l2}
  Cap = 3
  InitArr = 1
  Faults = {"pthread_create", "file"}
INVARIANTS
  SuccessIsExact
  CrashesExplained
PROPERTY ImplementsResolution
CHECK_DEADLOCK FALSE
