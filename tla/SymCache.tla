------------------------------- MODULE SymCache -------------------------------
(***************************************************************************)
(* Building the symbol cache, before any thread is started.                *)
(*                                                                         *)
(* search_for_lib walks the directory tree under the -l path.  For every   *)
(* file whose name looks like a shared library, populate_cache reads its   *)
(* .dynsym table and stores each exported symbol in the cache: a tree of   *)
(* libraries, each with the tree of the symbols it defines.  The recursion *)
(* is a stack of frames, one for each directory being read.  readdir       *)
(* promises no order, so the next entry is any one not yet read.           *)
(***************************************************************************)
EXTENDS SymFiles, Integers

CONSTANTS
  Dirs,     \* directories
  Root,     \* the -l path
  Others,   \* files whose names regexec refuses, links to directories among them
  Listing,  \* the entries of each directory
  Faults    \* what may fail: "opendir", "readdir", "regexec", "malloc",
            \* "file" (opening, seeking in or reading any file)

Dots == {".", ".."}

DirEntries == [isDir : {TRUE}, item : Dirs \cup Dots]
                \cup [isDir : {FALSE}, item : Libs \cup Others]

(* A set of directories that holds the root and, with a directory, the     *)
(* directories in it.                                                      *)
SubtreeClosed(C) ==
  Root \in C /\ \A d \in C : \A e \in Listing[d] : e.item \in Dirs => e.item \in C

ASSUME TreeAssumption ==
  /\ Root \in Dirs
  /\ Listing \in [Dirs -> SUBSET DirEntries]
  /\ Faults \in SUBSET {"opendir", "readdir", "regexec", "malloc", "file"}
  /\ (Libs \cup Others) \cap (Dirs \cup Dots) = {}
  /\ Libs \cap Others = {} /\ Dirs \cap Dots = {}
  /\ \A C \in SUBSET Dirs : SubtreeClosed(C) =>   \* Libs are the files below Root
       \A l \in Libs : \E d \in C : [isDir |-> FALSE, item |-> l] \in Listing[d]

VARIABLES
  pc,       \* where the search is
  stack,    \* the directories being read, innermost first, and what is left of each
  streams,  \* the number of directory streams open
  target,   \* the directory to open, or the library being read
  pos,      \* the .dynsym entry get_sym's iterator is at
  cached,   \* the libraries that have a node in the cache
  defined,  \* the symbols in each library's tree
  rc        \* search_for_lib's rc

vars == <<pc, stack, streams, target, pos, cached, defined, rc>>

cache == <<cached, defined>>

Init ==
  /\ pc = "open" /\ target = Root
  /\ stack = <<>> /\ streams = 0 /\ pos = 1
  /\ cached = {} /\ defined = [l \in Libs |-> {}]
  /\ rc = "OK"

MayFail(what) == what \in Faults

Frame(d) == [dir |-> d, todo |-> Listing[d]]

-----------------------------------------------------------------------------
(* search_for_lib.                                                         *)

OpenDir ==
  /\ pc = "open"
  /\ stack' = <<Frame(target)>> \o stack /\ streams' = streams + 1
  /\ pc' = "read"
  /\ UNCHANGED <<target, pos, cache, rc>>

OpenFails ==
  /\ pc = "open" /\ MayFail("opendir")
  /\ rc' = "errno" /\ pc' = "return"
  /\ UNCHANGED <<stack, streams, target, pos, cache>>

(* readdir hands over one more entry of the innermost directory.           *)
ReadsAgain(e) ==   \* mutant: the directory is opened anew for every entry
  /\ pc = "read" /\ e \in Head(stack).todo
  /\ UNCHANGED <<stack, streams>>
Reads(e) ==
  /\ pc = "read" /\ e \in Head(stack).todo
  /\ stack' = [stack EXCEPT ![1].todo = @ \ {e}] /\ UNCHANGED streams

SkipEntry ==
  /\ \E e \in DirEntries : Reads(e) /\ e.item \in Dots \cup Others
  /\ UNCHANGED <<pc, target, pos, cache, rc>>

EnterDir ==
  /\ \E d \in Dirs : Reads([isDir |-> TRUE, item |-> d]) /\ target' = d
  /\ pc' = "open"
  /\ UNCHANGED <<pos, cache, rc>>

FoundAny ==   \* mutant: a name that does not match is taken too
  /\ \E f \in Libs \cup Others : Reads([isDir |-> FALSE, item |-> f]) /\ target' = f
  /\ pc' = "load"
  /\ UNCHANGED <<pos, cache, rc>>
FoundLib ==
  /\ \E l \in Libs : Reads([isDir |-> FALSE, item |-> l]) /\ target' = l
  /\ pc' = "load"
  /\ UNCHANGED <<pos, cache, rc>>

(* The innermost directory is closed and its search returns.               *)
Leave ==
  /\ stack' = Tail(stack) /\ streams' = streams - 1
  /\ pc' = "return"
  /\ UNCHANGED <<target, pos, cache>>

(* regexec reports an error other than a mismatch: the error goes to the   *)
(* caller.                                                                 *)
MatchFails ==
  /\ MayFail("regexec")
  /\ pc = "read" /\ \E e \in Head(stack).todo : ~e.isDir
  /\ rc' = "regex" /\ Leave

(* readdir returns NULL for the end of the directory and for an error, and *)
(* errno is not looked at: what is left is not read.                       *)
CloseDir ==
  /\ pc = "read"
  /\ Head(stack).todo = {} \/ MayFail("readdir")
  /\ UNCHANGED rc /\ Leave

(* The caller of a search that has returned goes on with its directory, or *)
(* passes the error on after closing it.                                   *)
ResumeOnError ==   \* mutant: the result of the nested call is not looked at
  /\ pc = "return" /\ stack # <<>>
  /\ pc' = "read" /\ rc' = "OK"
  /\ UNCHANGED <<stack, streams, target, pos, cache>>
ResumeCaller ==
  /\ pc = "return" /\ stack # <<>> /\ rc = "OK"
  /\ pc' = "read"
  /\ UNCHANGED <<stack, streams, target, pos, cache, rc>>

UnwindNoClose ==   \* mutant: the error returns past the cleanup
  /\ pc = "return" /\ stack # <<>> /\ rc # "OK"
  /\ stack' = Tail(stack)
  /\ UNCHANGED <<pc, streams, target, pos, cache, rc>>
Unwind ==
  /\ pc = "return" /\ stack # <<>> /\ rc # "OK"
  /\ UNCHANGED rc /\ Leave

(* main_thread starts the resolver only over a search without an error.    *)
Finish ==
  /\ pc = "return" /\ stack = <<>>
  /\ pc' = IF rc = "OK" THEN "resolve" ELSE "failed"
  /\ UNCHANGED <<stack, streams, target, pos, cache, rc>>

SearchStep ==
  \/ OpenDir \/ OpenFails
  \/ SkipEntry \/ EnterDir \/ FoundLib \/ MatchFails
  \/ CloseDir \/ ResumeCaller \/ Unwind \/ Finish

-----------------------------------------------------------------------------
(* populate_cache, whose result search_for_lib does not look at.           *)

LoadLib ==
  /\ pc = "load" /\ target \notin Refused
  /\ pos' = 1 /\ pc' = "walk"
  /\ UNCHANGED <<stack, streams, target, cache, rc>>

LoadFails ==
  /\ pc = "load" /\ (target \in Refused \/ MayFail("file") \/ MayFail("malloc"))
  /\ pc' = "read"
  /\ UNCHANGED <<stack, streams, target, pos, cache, rc>>

Entry == DynSym[target][pos]
HasEntry == pc = "walk" /\ pos <= Len(DynSym[target])

WalkDone ==
  /\ pc = "walk" /\ pos > Len(DynSym[target])
  /\ pc' = "read"
  /\ UNCHANGED <<stack, streams, target, pos, cache, rc>>

(* An entry that is not exported is passed over, and so is one whose name  *)
(* cannot be copied.                                                       *)
SkipSym ==
  /\ HasEntry
  /\ ~Exported(Entry) \/ MayFail("malloc")
  /\ pos' = pos + 1
  /\ UNCHANGED <<pc, stack, streams, target, cache, rc>>

(* store_sym_in_tree: the library gets a node with its first symbol, and   *)
(* store_sym adds a symbol that is not in its tree yet.                    *)
StoreNewOnly ==   \* mutant: the library's node is found, and left as it is
  /\ HasEntry /\ Exported(Entry)
  /\ cached' = cached \cup {target}
  /\ defined' = IF target \in cached THEN defined
                ELSE [defined EXCEPT ![target] = {Entry.name}]
  /\ pos' = pos + 1
  /\ UNCHANGED <<pc, stack, streams, target, rc>>
StoreReplace ==   \* mutant: the library's tree is initialised for every symbol
  /\ HasEntry /\ Exported(Entry)
  /\ cached' = cached \cup {target}
  /\ defined' = [defined EXCEPT ![target] = {Entry.name}]
  /\ pos' = pos + 1
  /\ UNCHANGED <<pc, stack, streams, target, rc>>
StoreAny ==   \* mutant: undefined symbols are stored too
  /\ HasEntry /\ Entry.name # NoSym
  /\ cached' = cached \cup {target}
  /\ defined' = [defined EXCEPT ![target] = @ \cup {Entry.name}]
  /\ pos' = pos + 1
  /\ UNCHANGED <<pc, stack, streams, target, rc>>
StoreSym ==
  /\ HasEntry /\ Exported(Entry)
  /\ cached' = cached \cup {target}
  /\ defined' = [defined EXCEPT ![target] = @ \cup {Entry.name}]
  /\ pos' = pos + 1
  /\ UNCHANGED <<pc, stack, streams, target, rc>>

(* An allocation or an insertion fails before the library's node is in the *)
(* cache, or after it: get_sym goes on without the symbol.                 *)
StoreFails ==
  /\ MayFail("malloc")
  /\ HasEntry /\ Exported(Entry)
  /\ cached' \in {cached, cached \cup {target}}
  /\ pos' = pos + 1
  /\ UNCHANGED <<pc, stack, streams, target, defined, rc>>

(* The file brings the loader, or the walk over its table, down (ElfLoad); *)
(* iterator_init and the copy of a symbol's name are used unchecked.       *)
StoreCrashes ==
  /\ \/ target \in Odd /\ pc \in {"load", "walk"}
     \/ MayFail("malloc") /\ pc = "load" /\ target \notin Refused
     \/ MayFail("malloc") /\ HasEntry /\ Exported(Entry)
  /\ pc' = "crashed"
  /\ UNCHANGED <<stack, streams, target, pos, cache, rc>>

CacheStep == LoadLib \/ LoadFails \/ WalkDone \/ SkipSym \/ StoreSym \/ StoreFails \/ StoreCrashes

Ended == pc \in {"resolve", "failed", "crashed"}

Next == SearchStep \/ CacheStep \/ (Ended /\ UNCHANGED vars)

(* One thread runs, and nothing it does blocks.                            *)
Spec == Init /\ [][Next]_vars /\ WF_vars(SearchStep \/ CacheStep)

-----------------------------------------------------------------------------
(* check_sym_cache: the first library, in path order, whose tree holds the *)
(* symbol.                                                                 *)
CheckSymCache(s) == FirstOf({l \in cached : s \in defined[l]})

Places == {"open", "read", "return", "load", "walk"}

TypeOK ==
  /\ pc \in Places \cup {"resolve", "failed", "crashed"}
  /\ stack \in Seq([dir : Dirs, todo : SUBSET DirEntries]) /\ streams \in Int
  /\ target \in Dirs \cup Libs
  /\ pos \in Nat \ {0}
  /\ cached \in SUBSET Libs
  /\ defined \in [Libs -> SUBSET Syms]
  /\ rc \in {"OK", "errno", "regex"}

(* The resolver is never sent to a library that does not export the symbol *)
(* it asks for: a tree holds exported symbols of its own library only.     *)
(* This is what SymNeeds assumes of the cache it is given.                 *)
CacheSound == \A l \in Libs : defined[l] \subseteq FullCache[l]

(* The failures the search does not notice: it goes on with a part of what *)
(* is there.                                                               *)
Unnoticed == Faults \cap {"readdir", "malloc", "file"}

(* Once main_thread starts the resolver the cache answers every question   *)
(* as if the .dynsym tables themselves had been searched in path order,    *)
(* whatever order readdir listed the files in and whatever noticed failure *)
(* occurred on the way.                                                    *)
SearchComplete ==
  (pc = "resolve" /\ Unnoticed = {})
     => \A s \in Syms : CheckSymCache(s) = AnswersOf(FullCache)[s]

(* As many directory streams are closed as were opened when the search is  *)
(* over, however deep an error arose.                                      *)
StreamsClosed == pc \in {"resolve", "failed"} => streams = 0

(* While the cache grows, the answer for a symbol only moves to a library  *)
(* earlier in path order: nothing found is ever lost again.                *)
AnswersSettle ==
  [][\A s \in Syms : CheckSymCache(s) # NoLib =>
       /\ CheckSymCache(s)' # NoLib
       /\ Rank[CheckSymCache(s)'] <= Rank[CheckSymCache(s)]]_vars

(* Reading directories and files in any order, the search implements the   *)
(* abstract cache: its answers come from the tables and only settle, the   *)
(* resolver gets them complete or not at all (unless a failure goes        *)
(* unnoticed), and they do not change under it.                            *)
Abs == INSTANCE Answers WITH
         answer <- [s \in Syms |-> CheckSymCache(s)],
         status <- CASE pc = "resolve" -> "handed over"
                     [] pc \in {"failed", "crashed"} -> "given up"
                     [] OTHER -> "building",
         MayMiss <- Unnoticed # {}
ImplementsAnswers == Abs!Spec

(* The search ends.                                                        *)
SearchEnds == <>Ended
=============================================================================
