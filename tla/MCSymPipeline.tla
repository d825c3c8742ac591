--------------------------- MODULE MCSymPipeline ---------------------------
(***************************************************************************)
(* Small instances of SymPipeline for TLC.                                 *)
(***************************************************************************)
EXTENDS SymPipeline, TLC

CONSTANTS exe, l1, l2, l3, l4, a, b, c, u, v, w

Null == [name |-> NoSym, bind |-> "LOCAL", def |-> FALSE]
Need(s) == [name |-> s, bind |-> "GLOBAL", def |-> FALSE]
WeakNeed(s) == [name |-> s, bind |-> "WEAK", def |-> FALSE]
Def(s) == [name |-> s, bind |-> "GLOBAL", def |-> TRUE]
WeakDef(s) == [name |-> s, bind |-> "WEAK", def |-> TRUE]
LocalDef(s) == [name |-> s, bind |-> "LOCAL", def |-> TRUE]

MCRank == (l1 :> 4) @@ (l2 :> 2) @@ (l3 :> 3) @@ (l4 :> 1)

(* A diamond with a cycle: the executable needs l1, l2 and a symbol nobody *)
(* defines, l2 needs another such symbol, both libraries need l3, and l3   *)
(* needs l1 back.  b is defined twice and l2 comes first in path order; l4 *)
(* is only referred to weakly, and its b is local.                         *)
DiamondDynSym ==
  (exe :> <<Null, Need(a), WeakNeed(w), Need(b), Need(u)>>) @@
  (l1 :> <<Def(a), Need(c), Def(b)>>) @@
  (l2 :> <<WeakDef(b), Need(c), Need(v)>>) @@
  (l3 :> <<Def(c), Need(a)>>) @@
  (l4 :> <<Def(w), LocalDef(b)>>)

(* The same libraries, of which both the executable and l1 send more than  *)
(* a two-symbol ring has room for: each waits in the middle of its table,  *)
(* and l1 for good when the consumer has left its loop.                    *)
BurstDynSym ==
  (exe :> <<Null, Need(a), WeakNeed(w), Need(b), Need(v)>>) @@
  (l1 :> <<Def(a), Need(c), Need(v), Need(u), Def(b)>>) @@
  (l2 :> <<WeakDef(b), Need(c)>>) @@
  (l3 :> <<Def(c), Need(a)>>) @@
  (l4 :> <<Def(w), LocalDef(b)>>)

(* A chain in which each library needs the next.                           *)
ChainDynSym ==
  (exe :> <<Null, Need(a), WeakNeed(w), Need(u)>>) @@
  (l1 :> <<Null, Need(b), Def(a)>>) @@
  (l2 :> <<WeakDef(b), Need(c), Need(a)>>) @@
  (l3 :> <<Def(c), Need(u)>>) @@
  (l4 :> <<Def(w)>>)

(* A library with more symbols than a two-symbol ring has room for.        *)
BusyDynSym ==
  (exe :> <<Need(a), Need(u)>>) @@
  (l1 :> <<Def(a), Need(b), Need(u), Need(b)>>) @@
  (l2 :> <<Def(b)>>) @@
  (l3 :> <<Def(c)>>) @@
  (l4 :> <<Def(w)>>)
=============================================================================
