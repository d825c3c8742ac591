--------------------------- MODULE SymFilesProofs ---------------------------
(***************************************************************************)
(* Facts about symbol lookup that the proofs about the resolver rest on.   *)
(***************************************************************************)
EXTENDS SymFiles, FiniteSetTheorems, WellFoundedInduction, TLAPS

(* Every nonempty set of libraries has a first one in path order, so the   *)
(* walk of check_sym_cache has a first hit whenever it has a hit.          *)
LEMMA FirstLibExists ==
  ASSUME NEW D \in SUBSET Libs, D # {}
  PROVE  \E l \in D : \A m \in D : Rank[l] <= Rank[m]
<1> DEFINE Below(l) == {m \in D : Rank[m] <= Rank[l]}
           T == {Below(l) : l \in D}
<1>1. IsFiniteSet(D)
  BY FilesAssumption, FS_Subset
<1>2. IsWellFoundedOn(StrictSubsetOrdering(D), FiniteSubsetsOf(D))
  BY FS_StrictSubsetOrderingWellFounded
<1>3. FiniteSubsetsOf(D) = SUBSET D
  BY <1>1, FS_FiniteSubsetsOfFinite
<1>4. T \subseteq FiniteSubsetsOf(D) /\ T # {}
  <2>1. \A l \in D : Below(l) \in SUBSET D
    OBVIOUS
  <2>2. T \subseteq SUBSET D
    BY <2>1
  <2>3. T # {}
    <3>1. PICK l \in D : TRUE
      OBVIOUS
    <3>2. Below(l) \in T
      OBVIOUS
    <3> QED
      BY <3>2
  <2> HIDE DEF T
  <2> QED
    BY <1>3, <2>2, <2>3
<1> HIDE DEF T
<1>5. PICK x \in T : \A y \in T : <<y, x>> \notin StrictSubsetOrdering(D)
  BY <1>2, <1>4, WFMin
<1>6. PICK l \in D : x = Below(l)
  BY <1>5 DEF T
<1>7. \A m \in D : Rank[m] \in Nat
  BY FilesAssumption
<1>8. ASSUME NEW m \in D, ~(Rank[l] <= Rank[m])  PROVE FALSE
  <2>1. Rank[m] < Rank[l]
    BY <1>7, <1>8
  <2>2. Below(m) \subseteq Below(l) /\ l \in Below(l) /\ l \notin Below(m)
    BY <1>7, <2>1
  <2>3. <<Below(m), Below(l)>> \in StrictSubsetOrdering(D)
    BY <2>2 DEF StrictSubsetOrdering
  <2>4. Below(m) \in T
    BY DEF T
  <2> QED
    BY <1>5, <1>6, <2>3, <2>4
<1> QED
  BY <1>8

(* The first library of a set is a member of it, and NULL stands for none. *)
LEMMA FirstOfMember ==
  ASSUME NEW D \in SUBSET Libs
  PROVE  IF D = {} THEN FirstOf(D) = NoLib
         ELSE FirstOf(D) \in D /\ \A m \in D : Rank[FirstOf(D)] <= Rank[m]
<1> DEFINE First(l) == \A m \in D : Rank[l] <= Rank[m]
<1>1. CASE D = {}
  BY <1>1 DEF FirstOf
<1>2. CASE D # {}
  <2>1. \E l \in D : First(l)
    BY <1>2, FirstLibExists
  <2>2. FirstOf(D) = CHOOSE l \in D : First(l)
    BY <1>2 DEF FirstOf
  <2> HIDE DEF First
  <2>3. FirstOf(D) \in D /\ First(FirstOf(D))
    BY <2>1, <2>2
  <2> QED
    BY <1>2, <2>3 DEF First
<1> QED
  BY <1>1, <1>2

(* check_sym_cache returns a library that defines the symbol, or NULL.     *)
LEMMA AnswerType ==
  ASSUME NEW C \in Caches, NEW s \in Syms
  PROVE  /\ AnswersOf(C)[s] \in Libs \cup {NoLib}
         /\ AnswersOf(C)[s] # NoLib => AnswersOf(C)[s] \in Definers(C, s)
<1>1. Definers(C, s) \in SUBSET Libs /\ AnswersOf(C)[s] = FirstOf(Definers(C, s))
  BY DEF Definers, AnswersOf
<1> QED
  BY <1>1, FirstOfMember

(* The name of an entry that get_undefined_sym wants is a symbol its file  *)
(* needs.                                                                  *)
LEMMA WantedNeeded ==
  ASSUME NEW f \in Files, NEW i \in 1..Len(DynSym[f]), Wanted(DynSym[f][i])
  PROVE  DynSym[f][i].name \in Syms /\ DynSym[f][i].name \in Needs[f]
<1>1. DynSym[f][i] \in Entries
  BY FilesAssumption
<1>2. DynSym[f][i].name \in Syms
  BY <1>1 DEF Entries, Wanted
<1> QED
  BY <1>2 DEF Needs

(* What a file needs are the names of the entries it wants, all symbols.   *)
LEMMA NeedsWanted ==
  ASSUME NEW f \in Files, NEW s \in Needs[f]
  PROVE  /\ s \in Syms
         /\ \E i \in 1..Len(DynSym[f]) : Wanted(DynSym[f][i]) /\ s = DynSym[f][i].name
<1>1. PICK i \in 1..Len(DynSym[f]) : Wanted(DynSym[f][i]) /\ s = DynSym[f][i].name
  BY DEF Needs
<1> QED
  BY <1>1, WantedNeeded
=============================================================================
