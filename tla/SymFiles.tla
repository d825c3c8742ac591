------------------------------ MODULE SymFiles ------------------------------
(***************************************************************************)
(* The files a run of libscout reads and what their .dynsym tables hold:   *)
(* one executable, named with -e, and the libraries found below the -l     *)
(* directory.                                                              *)
(***************************************************************************)
EXTENDS Naturals, Sequences, FiniteSets

CONSTANTS
  Libs,     \* library paths, the keys of the symbol cache
  Exe,      \* the executable; its thread is not a library's thread
  Syms,     \* symbol names
  NoSym,    \* the empty name; also a NULL slot of the symbol buffer
  NoLib,    \* check_sym_cache's NULL
  DynSym,   \* the entries of each file's .dynsym table, in order
  Rank,     \* the strcmp order of library paths
  Refused,  \* files process_elf_file always refuses: they are no ELF files
  Odd       \* files that may bring the loader down although no call fails

Files == Libs \cup {Exe}

(* WEAK stands for every binding that is neither LOCAL nor GLOBAL.         *)
Binds == {"LOCAL", "GLOBAL", "WEAK"}

Entries == [name : Syms \cup {NoSym}, bind : Binds, def : BOOLEAN]

ASSUME FilesAssumption ==
  /\ IsFiniteSet(Libs)
  /\ Exe \notin Libs
  /\ NoSym \notin Syms
  /\ NoLib \notin Libs
  /\ DynSym \in [Files -> Seq(Entries)]
  /\ Rank \in [Libs -> Nat]
  /\ Refused \in SUBSET Files
  /\ Odd \in SUBSET Files

(* get_undefined_sym sends an entry that has a name, is STB_GLOBAL and is  *)
(* undefined.                                                              *)
Wanted(e) == e.name # NoSym /\ e.bind = "GLOBAL" /\ ~e.def

(* get_sym caches an entry that has a name, is not STB_LOCAL and is        *)
(* defined: a weak definition counts.                                      *)
Exported(e) == e.name # NoSym /\ e.bind # "LOCAL" /\ e.def

(* What a file asks to be resolved, and what a library exports.            *)
Needs ==
  [f \in Files |-> {DynSym[f][i].name : i \in {j \in 1..Len(DynSym[f]) : Wanted(DynSym[f][j])}}]
Exports ==
  [l \in Libs |-> {DynSym[l][i].name : i \in {j \in 1..Len(DynSym[l]) : Exported(DynSym[l][j])}}]

(* A cache holds a set of symbols for each library.  The full cache has    *)
(* all that the libraries export, a refused one nothing.                   *)
Caches == [Libs -> SUBSET Syms]
FullCache == [l \in Libs |-> IF l \in Refused THEN {} ELSE Exports[l]]

Definers(C, s) == {l \in Libs : s \in C[l]}

(* check_sym_cache walks the cache in path order and returns the first     *)
(* library that defines the symbol, or NULL.                               *)
FirstOf(D) ==
  IF D = {} THEN NoLib ELSE CHOOSE l \in D : \A m \in D : Rank[l] <= Rank[m]

AnswersOf(C) == [s \in Syms |-> FirstOf(Definers(C, s))]
=============================================================================
