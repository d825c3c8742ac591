------------------------------ MODULE Answers -------------------------------
(***************************************************************************)
(* What the symbol cache promises those who ask it, without directories,   *)
(* files or trees: each symbol has an answer or none; while the cache is   *)
(* being built an answer is a library that defines the symbol and gives    *)
(* way only to one that is no later in path order; the cache is handed     *)
(* over at most once, its answers are then those of the .dynsym tables,    *)
(* and nothing changes them any more.                                      *)
(***************************************************************************)
EXTENDS SymFiles

CONSTANT MayMiss   \* TRUE when reading or storing may fail: answers may then be missing

VARIABLES
  answer,   \* what each symbol is answered with
  status    \* "building", "handed over" or "given up"

vars == <<answer, status>>

Init ==
  /\ answer = [s \in Syms |-> NoLib]
  /\ status = "building"

(* A library that defines the symbol is found.                             *)
Learn(s, l) ==
  /\ status = "building"
  /\ s \in FullCache[l]
  /\ answer[s] # NoLib => Rank[l] <= Rank[answer[s]]
  /\ answer' = [answer EXCEPT ![s] = l]
  /\ UNCHANGED status

HandOver ==
  /\ status = "building"
  /\ MayMiss \/ answer = AnswersOf(FullCache)
  /\ status' = "handed over"
  /\ UNCHANGED answer

GiveUp ==
  /\ status = "building"
  /\ status' = "given up"
  /\ UNCHANGED answer

Next == HandOver \/ GiveUp \/ \E s \in Syms, l \in Libs : Learn(s, l)

Spec == Init /\ [][Next]_vars
=============================================================================
