SPECIFICATION SpecAll
CONSTANTS
  exe = exe
  l1 = l1
  l2 = l2
  l3 = l3
  a = a
  b = b
  c = c
  u = u
  Libs = {l1, l2, l3}
  Exe = exe
  Syms = {a, b, c, u}
  NoSym = NoSym
  NoLib = NoLib
  DynSym <- MCDynSym
  Rank <- MCRank
  Cache <- FullCache
  Refused = {}
  Odd = {}
  Cap = 3
  InitArr = 1
  Faults = {}
INVARIANT ReleasedIsThreadSpecific
CHECK_DEADLOCK FALSE
