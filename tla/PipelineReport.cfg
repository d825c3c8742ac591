SPECIFICATION Spec
CONSTANTS
  exe = exe
  l1 = l1
  l2 = l2
  l3 = l3
  l4 = l4
  a = a
  b = b
  c = c
  u = u
  v = v
  w = w
  Libs = {l1, l2, l3, l4}
  Exe = exe
  Syms = {a, b, c, u, v, w}
  NoSym = NoSym
  NoLib = NoLib
  DynSym <- ChainDynSym
  Rank <- MCRank
  Refused = {}
  Odd = {}
  Cache <- FullCache
  Cap = 3
  InitArr = 1
  Faults = {}
INVARIANT ReportComplete
CHECK_DEADLOCK FALSE
