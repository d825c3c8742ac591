------------------------------ MODULE SymNeeds ------------------------------
(***************************************************************************)
(* What an executable needs, as the resolver can know it: the libraries    *)
(* and symbols reached through the symbol cache that the search handed     *)
(* over, from the files whose tables could be read.                        *)
(*                                                                         *)
(* The cache does not change while symbols are resolved.  It may hold less *)
(* than the libraries export: a library that could not be read, or symbols *)
(* that could not be stored, when the cache was built (SymCache).          *)
(***************************************************************************)
EXTENDS SymFiles

CONSTANT Cache   \* the symbols the cache holds for each library

ASSUME CacheAssumption ==
  /\ Cache \in Caches
  /\ \A l \in Libs : Cache[l] \subseteq FullCache[l]

Lookup == AnswersOf(Cache)

(* What the members of S ask for, of which only those in H are heard.      *)
Asked(S, H) == UNION {Needs[f] : f \in S \cap H}

(* A set of files is closed when it holds the library that answers for     *)
(* each symbol its members ask for.  What the tool is meant to list is the *)
(* least closed set that holds the executable.                             *)
Closed(S, H) == \A s \in Asked(S, H) : Lookup[s] # NoLib => Lookup[s] \in S

ClosedSets(H) == {S \in SUBSET Files : Exe \in S /\ Closed(S, H)}

(* The symbols the members of S ask for that no library answers for.       *)
Unresolvable(S, H) == {s \in Asked(S, H) : Lookup[s] = NoLib}
=============================================================================
