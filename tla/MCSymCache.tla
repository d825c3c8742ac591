------------------------------ MODULE MCSymCache ------------------------------
(***************************************************************************)
(* A small directory tree for SymCache.                                    *)
(***************************************************************************)
EXTENDS SymCache, TLC

CONSTANTS exe, l1, l2, l3, l4, a, b, c, usr, lib, empty, readme

Def(s) == [name |-> s, bind |-> "GLOBAL", def |-> TRUE]
WeakDef(s) == [name |-> s, bind |-> "WEAK", def |-> TRUE]
LocalDef(s) == [name |-> s, bind |-> "LOCAL", def |-> TRUE]
Need(s) == [name |-> s, bind |-> "GLOBAL", def |-> FALSE]
Null == [name |-> NoSym, bind |-> "LOCAL", def |-> FALSE]

MCRank == (l1 :> 4) @@ (l2 :> 2) @@ (l3 :> 3) @@ (l4 :> 1)

(* b is defined in two libraries, a twice in one (two versions), c only    *)
(* weakly; l3 exports nothing; l4 has no .dynsym table, or an empty one,   *)
(* which brings the loader down.                                           *)
MCDynSym ==
  (exe :> <<Need(a)>>) @@
  (l1 :> <<Null, Def(a), Def(b), Def(a)>>) @@
  (l2 :> <<Need(a), WeakDef(c), Def(b)>>) @@
  (l3 :> <<LocalDef(a)>>) @@
  (l4 :> <<>>)

Dir(d) == [isDir |-> TRUE, item |-> d]
File(f) == [isDir |-> FALSE, item |-> f]

MCListing ==
  (usr :> {Dir("."), Dir(".."), Dir(lib), File(l1), File(readme)}) @@
  (lib :> {Dir("."), Dir(".."), Dir(empty), File(l2), File(l3), File(l4)}) @@
  (empty :> {Dir("."), Dir("..")})
=============================================================================
