------------------------------ MODULE MCScout ------------------------------
(***************************************************************************)
(* A small instance of Scout: an executable, two libraries that need each  *)
(* other, and a third that exports one of their symbols as well and needs, *)
(* like the executable, a symbol that no library defines.                  *)
(***************************************************************************)
EXTENDS Scout, TLC

CONSTANTS exe, l1, l2, l3, a, b, c, u

Need(s) == [name |-> s, bind |-> "GLOBAL", def |-> FALSE]
Def(s) == [name |-> s, bind |-> "GLOBAL", def |-> TRUE]

MCRank == (l1 :> 2) @@ (l2 :> 1) @@ (l3 :> 3)

MCDynSym ==
  (exe :> <<Need(a), Need(u)>>) @@
  (l1 :> <<Def(a), Def(c), Need(b)>>) @@
  (l2 :> <<Def(b), Need(a), Need(c)>>) @@
  (l3 :> <<Def(c), Need(u)>>)

(* The search could not store one of the symbols of l1, and so the third   *)
(* library answers for it.                                                 *)
PartialCache == [FullCache EXCEPT ![l1] = {a}]
=============================================================================
