SPECIFICATION SpecAll
CONSTANTS
  exe = exe
  l1 = l1
  l2 = l2
  l3 = l3
  a = a
  b = b
  c = c
  u = u
  Libs = {l1, l2, l3}
  Exe = exe
  Syms = {a, b, c, u}
  NoSym = NoSym
  NoLib = NoLib
  DynSym <- MCDynSym
  Rank <- MCRank
  Cache <- PartialCache
  Refused = {}
  Odd = {}
  Cap = 2
  InitArr = 1
  Faults = {"malloc", "pthread_create", "file"}
INVARIANTS
  MainTypeOK
  ReachableAllocated
  
PROPERTIES
  EndsUnlessHarmed
CHECK_DEADLOCK FALSE
