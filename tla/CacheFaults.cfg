SPECIFICATION Spec
CONSTANTS
  exe = exe
  l1 = l1
  l2 = l2
  l3 = l3
  l4 = l4
  a = a
  b = b
  c = c
  usr = usr
  lib = lib
  empty = empty
  readme = readme
  Libs = {l1, l2, l3, l4}
  Exe = exe
  Syms = {a, b, c}
  NoSym = NoSym
  NoLib = NoLib
  DynSym <- MCDynSym
  Rank <- MCRank
  Refused = {l3}
  Odd = {l4}
  Dirs = {usr, lib, empty}
  Root = usr
  Others = {readme}
  Listing <- MCListing
  Faults = {"readdir", "malloc", "file"}
INVARIANT CacheSound
PROPERTY ImplementsAnswers
