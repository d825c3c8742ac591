---------------------------- MODULE SymCacheProofs ----------------------------
(***************************************************************************)
(* Proofs that the cache SymCache builds answers as the .dynsym tables     *)
(* would, for every directory tree, every order of its listings and every  *)
(* place the search may fail at.  What SymNeeds assumes of a cache, that   *)
(* it holds exported symbols only, is CacheIsSound here.                   *)
(***************************************************************************)
EXTENDS SymCache, SymFilesProofs, SequenceTheorems

-----------------------------------------------------------------------------
(* The stack of open directories, and the entries left to read in them.    *)

Frames == [dir : Dirs, todo : SUBSET DirEntries]

Unread(st) == UNION {st[i].todo : i \in 1..Len(st)}

LEMMA PushStack ==
  ASSUME NEW d \in Dirs, NEW st \in Seq(Frames)
  PROVE  /\ <<Frame(d)>> \o st \in Seq(Frames)
         /\ <<Frame(d)>> \o st # <<>>
         /\ Len(<<Frame(d)>> \o st) = Len(st) + 1
         /\ Unread(<<Frame(d)>> \o st) = Listing[d] \cup Unread(st)
<1> DEFINE new == <<Frame(d)>> \o st
<1>1. Frame(d) \in Frames /\ Frame(d).todo = Listing[d]
  BY TreeAssumption DEF Frame, Frames
<1>2. <<Frame(d)>> \in Seq(Frames) /\ Len(<<Frame(d)>>) = 1 /\ <<Frame(d)>>[1] = Frame(d)
  BY <1>1
<1>3. /\ new \in Seq(Frames) /\ Len(new) = 1 + Len(st) /\ Len(st) \in Nat
      /\ \A i \in 1..1 + Len(st) : new[i] = IF i <= 1 THEN Frame(d) ELSE st[i - 1]
  <2>1. \A i \in 1..1 + Len(st) : i <= 1 => i = 1
    OBVIOUS
  <2> QED
    BY <1>2, <2>1, ConcatProperties, LenProperties
<1> HIDE DEF new
<1>4. new # <<>>
  BY <1>3, EmptySeq
<1>5. Unread(new) \subseteq Listing[d] \cup Unread(st)
  <2> SUFFICES ASSUME NEW i \in 1..Len(new), NEW e \in new[i].todo
               PROVE  e \in Listing[d] \cup Unread(st)
    BY DEF Unread
  <2>1. CASE i <= 1
    BY <1>1, <1>3, <2>1
  <2>2. CASE ~(i <= 1)
    <3>1. i - 1 \in 1..Len(st) /\ new[i] = st[i - 1]
      BY <1>3, <2>2
    <3> QED
      BY <3>1 DEF Unread
  <2> QED
    BY <2>1, <2>2
<1>6. Listing[d] \subseteq Unread(new)
  <2>1. 1 \in 1..Len(new) /\ new[1] = Frame(d)
    BY <1>3
  <2> QED
    BY <1>1, <2>1 DEF Unread
<1>7. Unread(st) \subseteq Unread(new)
  <2> SUFFICES ASSUME NEW i \in 1..Len(st), NEW e \in st[i].todo
               PROVE  e \in Unread(new)
    BY DEF Unread
  <2>1. i + 1 \in 1..Len(new) /\ new[i + 1] = st[i]
    BY <1>3
  <2> QED
    BY <2>1 DEF Unread
<1> QED
  BY <1>3, <1>4, <1>5, <1>6, <1>7 DEF new

LEMMA ReadStack ==
  ASSUME NEW st \in Seq(Frames), st # <<>>, NEW e
  PROVE  LET new == [st EXCEPT ![1].todo = @ \ {e}]
         IN  /\ new \in Seq(Frames) /\ new # <<>> /\ Len(new) = Len(st)
             /\ Unread(st) \subseteq Unread(new) \cup {e}
<1> DEFINE f == [st[1] EXCEPT !.todo = @ \ {e}]
           new == [st EXCEPT ![1] = f]
<1>1. Len(st) \in Nat \ {0}
  BY EmptySeq
<1>2. 1 \in 1..Len(st) /\ st[1] \in Frames
  BY <1>1, ElementOfSeq
<1>3. f \in Frames /\ f.todo = st[1].todo \ {e}
  BY <1>2 DEF Frames
<1>4. new = [st EXCEPT ![1].todo = @ \ {e}]
  OBVIOUS
<1> HIDE DEF f
<1>5. /\ new \in Seq(Frames) /\ Len(new) = Len(st)
      /\ \A j \in 1..Len(st) : new[j] = IF j = 1 THEN f ELSE st[j]
  BY <1>2, <1>3, ExceptSeq
<1> HIDE DEF new
<1>6. new # <<>>
  BY <1>1, <1>5, EmptySeq
<1>7. ASSUME NEW i \in 1..Len(st), NEW x \in st[i].todo, x # e  PROVE x \in Unread(new)
  <2>1. x \in new[i].todo
    BY <1>3, <1>5, <1>7
  <2> QED
    BY <1>5, <2>1 DEF Unread
<1>8. Unread(st) \subseteq Unread(new) \cup {e}
  BY <1>7 DEF Unread
<1> QED
  BY <1>4, <1>5, <1>6, <1>8

LEMMA PopStack ==
  ASSUME NEW st \in Seq(Frames), st # <<>>
  PROVE  /\ Tail(st) \in Seq(Frames) /\ Len(Tail(st)) = Len(st) - 1
         /\ Head(st).todo = {} => Unread(st) \subseteq Unread(Tail(st))
<1>1. /\ Tail(st) \in Seq(Frames) /\ Len(Tail(st)) = Len(st) - 1 /\ Len(st) \in Nat
      /\ \A i \in 1..Len(Tail(st)) : Tail(st)[i] = st[i + 1]
  BY HeadTailProperties, LenProperties
<1>2. ASSUME Head(st).todo = {}, NEW i \in 1..Len(st), NEW x \in st[i].todo
      PROVE  x \in Unread(Tail(st))
  <2>1. i # 1
    BY <1>2
  <2>2. i - 1 \in 1..Len(Tail(st)) /\ Tail(st)[i - 1] = st[i]
    BY <1>1, <2>1
  <2> QED
    BY <2>2 DEF Unread
<1> QED
  BY <1>1, <1>2 DEF Unread

-----------------------------------------------------------------------------
(* Types, and what the search is at: a directory to open, or a library to  *)
(* read while its directory is open.  A stream is open for each call of    *)
(* search_for_lib that is reading, and for no other.                       *)

SearchInv ==
  /\ TypeOK
  /\ pc = "open" => target \in Dirs
  /\ pc \in {"load", "walk"} => target \in Libs
  /\ pc \in {"read", "load", "walk"} => stack # <<>>
  /\ streams = Len(stack)
  /\ pc \in {"resolve", "failed"} => stack = <<>>
  /\ pc = "resolve" => rc = "OK"

LEMMA SearchInit == Init => SearchInv
BY TreeAssumption DEF Init, SearchInv, TypeOK, Places

LEMMA ReadsStack ==
  ASSUME SearchInv, NEW e, Reads(e)
  PROVE  /\ stack' \in Seq(Frames) /\ stack' # <<>>
         /\ streams' = Len(stack') /\ streams' \in Int
         /\ Unread(stack) \subseteq Unread(stack') \cup {e}
<1>1. stack \in Seq(Frames) /\ stack # <<>>
  BY DEF Reads, SearchInv, TypeOK, Frames
<1> QED
  BY <1>1, ReadStack DEF Reads, SearchInv, TypeOK

LEMMA SearchStepKeeps ==
  ASSUME SearchInv, SearchStep
  PROVE  SearchInv'
<1> USE DEF SearchInv, TypeOK, Places
<1>0. stack \in Seq(Frames)
  BY DEF Frames
<1>1. CASE OpenDir
  <2>1. stack' \in Seq(Frames) /\ stack' # <<>> /\ streams' = Len(stack')
    BY <1>0, <1>1, PushStack DEF OpenDir
  <2> QED
    BY <1>1, <2>1 DEF OpenDir, cache, Frames
<1>2. CASE OpenFails
  BY <1>2 DEF OpenFails, cache
<1>3. CASE SkipEntry
  <2>1. /\ stack' \in Seq(Frames) /\ stack' # <<>>
        /\ streams' = Len(stack') /\ streams' \in Int
    BY <1>3, ReadsStack DEF SkipEntry
  <2> QED
    BY <1>3, <2>1 DEF SkipEntry, Reads, cache, Frames
<1>4. CASE EnterDir
  <2>1. /\ stack' \in Seq(Frames) /\ stack' # <<>>
        /\ streams' = Len(stack') /\ streams' \in Int
    BY <1>4, ReadsStack DEF EnterDir
  <2> QED
    BY <1>4, <2>1 DEF EnterDir, cache, Frames
<1>5. CASE FoundLib
  <2>1. /\ stack' \in Seq(Frames) /\ stack' # <<>>
        /\ streams' = Len(stack') /\ streams' \in Int
    BY <1>5, ReadsStack DEF FoundLib
  <2> QED
    BY <1>5, <2>1 DEF FoundLib, cache, Frames
<1>6. CASE MatchFails \/ CloseDir \/ Unwind
  <2>1. stack # <<>> /\ Leave
    BY <1>6 DEF MatchFails, CloseDir, Unwind
  <2>2. stack' \in Seq(Frames) /\ streams' = Len(stack') /\ streams' \in Int
    BY <1>0, <2>1, PopStack DEF Leave
  <2>3. rc' \in {"OK", "errno", "regex"}
    BY <1>6 DEF MatchFails, CloseDir, Unwind
  <2> QED
    BY <2>1, <2>2, <2>3 DEF Leave, cache, Frames
<1>7. CASE ResumeCaller \/ Finish
  BY <1>7 DEF ResumeCaller, Finish, cache
<1> QED
  BY <1>1, <1>2, <1>3, <1>4, <1>5, <1>6, <1>7 DEF SearchStep

(* The entry get_sym stands at, when it is exported, is a symbol of its    *)
(* library in the full cache.                                              *)
LEMMA ExportedDefined ==
  ASSUME NEW l \in Libs, l \notin Refused,
         NEW i \in 1..Len(DynSym[l]), Exported(DynSym[l][i])
  PROVE  DynSym[l][i].name \in Syms /\ DynSym[l][i].name \in FullCache[l]
<1>1. DynSym[l][i] \in Entries
  BY FilesAssumption DEF Files
<1> QED
  BY <1>1 DEF Entries, Exported, FullCache, Exports

(* No walker reads a refused library, and whatever is stored is exported, in *)
(* a tree whose library has a node.                                        *)
StoreInv ==
  /\ pc = "walk" => target \notin Refused
  /\ CacheSound
  /\ \A l \in Libs : defined[l] # {} => l \in cached

LEMMA CacheStepKeeps ==
  ASSUME SearchInv, StoreInv, CacheStep
  PROVE  SearchInv' /\ StoreInv'
<1> USE DEF SearchInv, StoreInv, TypeOK, Places
<1>1. CASE StoreSym
  <2>1. target \in Libs /\ pos \in 1..Len(DynSym[target]) /\ Exported(Entry)
    <3>1. target \in Libs /\ Exported(Entry) /\ pos <= Len(DynSym[target])
      BY <1>1 DEF StoreSym, HasEntry
    <3>2. Len(DynSym[target]) \in Nat
      BY <3>1, FilesAssumption DEF Files
    <3> QED
      BY <3>1, <3>2
  <2>2. Entry.name \in Syms /\ Entry.name \in FullCache[target]
    BY <1>1, <2>1, ExportedDefined DEF Entry, StoreSym, HasEntry
  <2>3. /\ cached' = cached \cup {target} /\ pos' = pos + 1
        /\ defined' = [defined EXCEPT ![target] = @ \cup {Entry.name}]
        /\ UNCHANGED <<pc, stack, streams, target, rc>>
    BY <1>1 DEF StoreSym
  <2>4. SearchInv'
    BY <2>1, <2>2, <2>3
  <2>5. StoreInv'
    BY <2>1, <2>2, <2>3 DEF CacheSound
  <2> QED
    BY <2>4, <2>5
<1>2. CASE LoadLib \/ LoadFails \/ WalkDone \/ SkipSym
  BY <1>2 DEF LoadLib, LoadFails, WalkDone, SkipSym, HasEntry, CacheSound, cache
<1>3. CASE StoreFails
  BY <1>3 DEF StoreFails, HasEntry, CacheSound
<1>4. CASE StoreCrashes
  BY <1>4 DEF StoreCrashes, CacheSound, cache
<1> QED
  BY <1>1, <1>2, <1>3, <1>4 DEF CacheStep

LEMMA StoreInvariant == Spec => [](SearchInv /\ StoreInv)
<1>1. Init => SearchInv /\ StoreInv
  BY SearchInit DEF Init, StoreInv, CacheSound
<1>2. SearchInv /\ StoreInv /\ [Next]_vars => SearchInv' /\ StoreInv'
  <2> SUFFICES ASSUME SearchInv, StoreInv, [Next]_vars PROVE SearchInv' /\ StoreInv'
    OBVIOUS
  <2>1. CASE SearchStep
    <3>1. cached' = cached /\ defined' = defined /\ pc' # "walk"
      BY <2>1 DEF SearchStep, OpenDir, OpenFails, SkipEntry, EnterDir, FoundLib, Reads,
                  MatchFails, CloseDir, Leave, ResumeCaller, Unwind, Finish, cache
    <3> QED
      BY <2>1, <3>1, SearchStepKeeps DEF StoreInv, CacheSound
  <2>2. CASE CacheStep
    BY <2>2, CacheStepKeeps
  <2>3. CASE UNCHANGED vars
    BY <2>3 DEF vars, SearchInv, StoreInv, TypeOK, CacheSound
  <2> QED
    BY <2>1, <2>2, <2>3 DEF Next
<1> QED
  BY <1>1, <1>2, PTL DEF Spec

(* The state of the search and of the cache is well typed.                 *)
THEOREM CacheTypes == Spec => []TypeOK
<1>1. SearchInv => TypeOK
  BY DEF SearchInv
<1> QED
  BY <1>1, StoreInvariant, PTL

(* Whatever fails, the cache names a library for a symbol only when the    *)
(* library exports it.                                                     *)
THEOREM CacheIsSound == Spec => []CacheSound
<1>1. StoreInv => CacheSound
  BY DEF StoreInv
<1> QED
  BY <1>1, StoreInvariant, PTL

(* search_for_lib returns to main_thread with every stream closed that was *)
(* opened: wherever a call leaves its loop it closes the one it opened.    *)
THEOREM AllClosed == Spec => []StreamsClosed
<1>1. SearchInv => StreamsClosed
  BY EmptySeq DEF SearchInv, StreamsClosed
<1> QED
  BY <1>1, StoreInvariant, PTL

-----------------------------------------------------------------------------
(* SearchComplete.  The search has covered a set C of directories: each    *)
(* entry of a directory of C is still to be read, or has been dealt with,  *)
(* or is what the search is at.                                            *)

Stored(l) == FullCache[l] \subseteq defined[l]

Opening(d) == pc = "open" /\ target = d
Loading(l) == pc \in {"load", "walk"} /\ target = l

Handled(e, C) ==
  \/ e.item \in Dots \cup Others
  \/ e.item \in Dirs /\ (e.item \in C \/ Opening(e.item))
  \/ e.item \in Libs /\ (Stored(e.item) \/ Loading(e.item))

Covers(C) ==
  /\ Root \in C \/ Opening(Root)
  /\ \A d \in C : \A e \in Listing[d] : e \in Unread(stack) \/ Handled(e, C)

(* What the iterator has passed of the library being read.                 *)
Passed == {i \in 1..pos - 1 : Exported(DynSym[target][i])}

CoverInv ==
  Unnoticed = {} =>
    /\ rc # "OK" => pc \in {"return", "failed"}
    /\ pc = "walk" => /\ pos <= Len(DynSym[target]) + 1
                      /\ \A i \in Passed : DynSym[target][i].name \in defined[target]
    /\ (rc = "OK" /\ pc # "crashed") => \E C \in SUBSET Dirs : Covers(C)

(* Stepping over an entry, or through a library, covers no less.           *)
LEMMA CoversKept ==
  ASSUME NEW C \in SUBSET Dirs, Covers(C), pc # "open",
         \A l \in Libs : Loading(l) => Loading(l)' \/ Stored(l)',
         \A l \in Libs : defined[l] \subseteq defined'[l],
         \A e \in Unread(stack) : e \in Unread(stack') \/ Handled(e, C)'
  PROVE  Covers(C)'
<1>1. Root \in C
  BY DEF Covers, Opening
<1>2. ASSUME NEW d \in C, NEW e \in Listing[d]  PROVE e \in Unread(stack') \/ Handled(e, C)'
  <2>1. CASE e \in Unread(stack)
    BY <2>1
  <2>2. CASE Handled(e, C)
    BY <2>2 DEF Handled, Opening, Stored
  <2> QED
    BY <1>2, <2>1, <2>2 DEF Covers
<1> QED
  BY <1>1, <1>2 DEF Covers

LEMMA SearchCovers ==
  ASSUME SearchInv, CoverInv, SearchStep, Unnoticed = {}
  PROVE  CoverInv'
<1>1. /\ defined' = defined /\ pc' # "walk"
      /\ rc' # "OK" => pc' \in {"return", "failed"}
  BY DEF CoverInv, SearchStep, OpenDir, OpenFails, SkipEntry, EnterDir, FoundLib, Reads,
         MatchFails, CloseDir, Leave, ResumeCaller, Unwind, Finish, cache
<1> SUFFICES ASSUME rc' = "OK" PROVE \E C \in SUBSET Dirs : Covers(C)'
  BY <1>1 DEF CoverInv
<1>2. rc = "OK" /\ pc # "crashed"
  BY DEF Reads, SearchStep, OpenDir, OpenFails, SkipEntry, EnterDir, FoundLib,
         MatchFails, CloseDir, Leave, ResumeCaller, Unwind, Finish
<1>3. PICK C \in SUBSET Dirs : Covers(C)
  BY <1>2 DEF CoverInv
<1>4. stack \in Seq(Frames) /\ (pc = "open" => target \in Dirs)
  BY DEF SearchInv, TypeOK, Frames
<1>5. CASE OpenDir
  <2>1. /\ pc = "open" /\ target \in Dirs
        /\ Unread(stack') = Listing[target] \cup Unread(stack)
    BY <1>4, <1>5, PushStack DEF OpenDir
  <2> PICK D \in SUBSET Dirs : D = C \cup {target}
    BY <2>1
  <2>2. Root \in D
    BY <1>3 DEF Covers, Opening
  <2>3. ASSUME NEW d \in D, NEW e \in Listing[d]
        PROVE  e \in Unread(stack') \/ Handled(e, D)'
    <3>1. CASE d = target
      BY <2>1, <3>1
    <3>2. CASE d \in C
      BY <1>1, <1>3, <2>1, <3>2 DEF Covers, Handled, Opening, Loading, Stored
    <3> QED
      BY <3>1, <3>2
  <2> QED
    BY <2>1, <2>2, <2>3 DEF Covers
<1>6. CASE SkipEntry
  <2>1. PICK e \in DirEntries : Reads(e) /\ e.item \in Dots \cup Others
    BY <1>6 DEF SkipEntry
  <2>2. pc = "read" /\ Unread(stack) \subseteq Unread(stack') \cup {e}
    BY <2>1, ReadsStack DEF Reads
  <2>3. Covers(C)'
    BY <1>1, <1>3, <2>1, <2>2, CoversKept DEF Handled, Loading
  <2> QED
    BY <2>3
<1>7. CASE EnterDir
  <2>1. PICK d \in Dirs : Reads([isDir |-> TRUE, item |-> d]) /\ target' = d
    BY <1>7 DEF EnterDir
  <2>2. /\ pc = "read" /\ pc' = "open"
        /\ Unread(stack) \subseteq Unread(stack') \cup {[isDir |-> TRUE, item |-> d]}
    BY <1>7, <2>1, ReadsStack DEF Reads, EnterDir
  <2>3. Handled([isDir |-> TRUE, item |-> d], C)'
    BY <2>1, <2>2 DEF Handled, Opening
  <2>4. Covers(C)'
    BY <1>1, <1>3, <2>2, <2>3, CoversKept DEF Loading
  <2> QED
    BY <2>4
<1>8. CASE FoundLib
  <2>1. PICK l \in Libs : Reads([isDir |-> FALSE, item |-> l]) /\ target' = l
    BY <1>8 DEF FoundLib
  <2>2. /\ pc = "read" /\ pc' = "load"
        /\ Unread(stack) \subseteq Unread(stack') \cup {[isDir |-> FALSE, item |-> l]}
    BY <1>8, <2>1, ReadsStack DEF Reads, FoundLib
  <2>3. Handled([isDir |-> FALSE, item |-> l], C)'
    BY <2>1, <2>2 DEF Handled, Loading
  <2>4. Covers(C)'
    BY <1>1, <1>3, <2>2, <2>3, CoversKept DEF Loading
  <2> QED
    BY <2>4
<1>9. CASE CloseDir
  <2>1. pc = "read" /\ pc' = "return" /\ Unread(stack) \subseteq Unread(stack')
    BY <1>4, <1>9, PopStack DEF CloseDir, Leave, MayFail, Unnoticed, SearchInv
  <2>2. Covers(C)'
    BY <1>1, <1>3, <2>1, CoversKept DEF Loading
  <2> QED
    BY <2>2
<1>10. CASE ResumeCaller \/ Finish
  <2>1. pc = "return" /\ Unread(stack) = Unread(stack')
    BY <1>10 DEF ResumeCaller, Finish
  <2>2. Covers(C)'
    BY <1>1, <1>3, <2>1, CoversKept DEF Loading
  <2> QED
    BY <2>2
<1>11. CASE OpenFails \/ MatchFails \/ Unwind
  BY <1>2, <1>11 DEF OpenFails, MatchFails, Unwind
<1> QED
  BY <1>5, <1>6, <1>7, <1>8, <1>9, <1>10, <1>11 DEF SearchStep

(* Once the iterator is past its last entry the library is stored.         *)
LEMMA WalkStores ==
  ASSUME NEW l \in Libs, NEW n \in Nat, n > Len(DynSym[l]), NEW known,
         \A i \in {j \in 1..n - 1 : Exported(DynSym[l][j])} : DynSym[l][i].name \in known
  PROVE  FullCache[l] \subseteq known
<1>1. Len(DynSym[l]) \in Nat
  BY FilesAssumption DEF Files
<1>2. \A i \in 1..Len(DynSym[l]) : i \in 1..n - 1
  BY <1>1
<1>3. ASSUME NEW s \in FullCache[l]
      PROVE  \E i \in 1..Len(DynSym[l]) : Exported(DynSym[l][i]) /\ s = DynSym[l][i].name
  BY <1>3 DEF FullCache, Exports
<1> QED
  BY <1>2, <1>3

LEMMA CacheCovers ==
  ASSUME SearchInv, StoreInv, CoverInv, CacheStep, Unnoticed = {}
  PROVE  CoverInv'
<1>0. CASE StoreCrashes
  <2>1. pc # "return" /\ pc # "failed" /\ pc' = "crashed" /\ rc' = rc
    BY <1>0 DEF StoreCrashes, HasEntry
  <2> QED
    BY <2>1 DEF CoverInv
<1> SUFFICES ASSUME ~StoreCrashes  PROVE CoverInv'
  BY <1>0
<1>1. /\ pc \in {"load", "walk"} /\ target \in Libs /\ target' = target
      /\ rc' = rc /\ rc = "OK" /\ stack' = stack /\ pos \in Nat \ {0}
      /\ defined \in [Libs -> SUBSET Syms] /\ Len(DynSym[target]) \in Nat
      /\ pc' \in {"walk", "read"} /\ pc # "open" /\ pc' # "open"
  <2>1. /\ pc \in {"load", "walk"} /\ target' = target /\ rc' = rc /\ stack' = stack
        /\ pc' \in {"walk", "read"}
    BY DEF CacheStep, LoadLib, LoadFails, WalkDone, SkipSym, StoreSym, StoreFails, HasEntry
  <2>2. target \in Libs /\ pos \in Nat \ {0} /\ defined \in [Libs -> SUBSET Syms]
    BY <2>1 DEF SearchInv, TypeOK
  <2>3. Len(DynSym[target]) \in Nat
    BY <2>2, FilesAssumption DEF Files
  <2> QED
    BY <2>1, <2>2, <2>3 DEF CoverInv
<1>2. PICK C \in SUBSET Dirs : Covers(C)
  BY <1>1 DEF CoverInv
<1> SUFFICES /\ \A l \in Libs : Loading(l) => Loading(l)' \/ Stored(l)'
             /\ \A l \in Libs : defined[l] \subseteq defined'[l]
             /\ pc' = "walk" => /\ pos' <= Len(DynSym[target]) + 1
                                /\ \A i \in Passed' : DynSym[target][i].name \in defined'[target]
  <2>1. Covers(C)'
    BY <1>1, <1>2, CoversKept
  <2> QED
    BY <1>1, <2>1 DEF CoverInv
<1>3. CASE LoadLib
  <2>1. pc' = "walk" /\ defined' = defined /\ pos' = 1
    BY <1>3 DEF LoadLib, cache
  <2>2. Passed' = {}
    BY <2>1 DEF Passed
  <2> QED
    BY <1>1, <2>1, <2>2 DEF Loading
<1>4. CASE LoadFails
  <2>1. pc' = "read" /\ defined' = defined /\ target \in Refused
    BY <1>4 DEF LoadFails, MayFail, cache, Unnoticed
  <2>2. FullCache[target] = {}
    BY <1>1, <2>1 DEF FullCache
  <2> QED
    BY <1>1, <2>1, <2>2 DEF Loading, Stored
<1>5. CASE WalkDone
  <2>1. /\ pc = "walk" /\ pos > Len(DynSym[target])
        /\ pc' = "read" /\ defined' = defined
    BY <1>5 DEF WalkDone, cache
  <2>2. \A i \in Passed : DynSym[target][i].name \in defined[target]
    BY <2>1 DEF CoverInv
  <2>3. FullCache[target] \subseteq defined[target]
    BY <1>1, <2>1, <2>2, WalkStores DEF Passed
  <2> QED
    BY <1>1, <2>1, <2>3 DEF Loading, Stored
<1>6. CASE SkipSym \/ StoreSym
  <2>1. /\ pc = "walk" /\ pc' = "walk" /\ pos' = pos + 1 /\ pos <= Len(DynSym[target])
        /\ \A l \in Libs : defined[l] \subseteq defined'[l]
        /\ Exported(DynSym[target][pos]) => DynSym[target][pos].name \in defined'[target]
    BY <1>1, <1>6 DEF SkipSym, StoreSym, HasEntry, Entry, MayFail, cache, Unnoticed
  <2>2. \A i \in Passed : DynSym[target][i].name \in defined[target]
    BY <2>1 DEF CoverInv
  <2>3. ASSUME NEW i \in Passed'  PROVE DynSym[target][i].name \in defined'[target]
    <3>1. i \in 1..pos /\ Exported(DynSym[target][i])
      BY <1>1, <2>1 DEF Passed
    <3>2. CASE i = pos
      BY <2>1, <3>1, <3>2
    <3>3. CASE i # pos
      <4>1. i \in Passed
        BY <1>1, <3>1, <3>3 DEF Passed
      <4> QED
        BY <1>1, <2>1, <2>2, <4>1
    <3> QED
      BY <3>2, <3>3
  <2> QED
    BY <1>1, <2>1, <2>3 DEF Loading
<1>7. CASE StoreFails
  BY <1>7 DEF StoreFails, MayFail, Unnoticed
<1> QED
  BY <1>3, <1>4, <1>5, <1>6, <1>7 DEF CacheStep

(* A search that has run to its end has stored every library: what it      *)
(* covered is closed, so it is the whole tree.                             *)
LEMMA CoveredIsStored ==
  ASSUME SearchInv, CoverInv, pc = "resolve", Unnoticed = {}, NEW l \in Libs
  PROVE  Stored(l)
<1>1. stack = <<>> /\ rc = "OK"
  BY DEF SearchInv
<1>2. PICK C \in SUBSET Dirs : Covers(C)
  BY <1>1 DEF CoverInv
<1>3. Unread(stack) = {}
  BY <1>1 DEF Unread
<1>4. Root \in C /\ \A d \in C : \A e \in Listing[d] : Handled(e, C)
  BY <1>2, <1>3 DEF Covers, Opening
<1>5. SubtreeClosed(C)
  BY <1>4, TreeAssumption DEF SubtreeClosed, Handled, Opening
<1>6. PICK d \in C : [isDir |-> FALSE, item |-> l] \in Listing[d]
  BY <1>5, TreeAssumption
<1>7. Handled([isDir |-> FALSE, item |-> l], C)
  BY <1>4, <1>6
<1> QED
  BY <1>7, TreeAssumption DEF Handled, Loading

(* search_for_lib misses nothing, in any directory tree and in any order   *)
(* of its listings: where no failure goes unnoticed, the cache handed to the resolver   *)
(* answers for each symbol what the .dynsym tables say in path order.      *)
THEOREM SearchIsComplete == Spec => []SearchComplete
<1>1. Init => CoverInv
  <2> SUFFICES ASSUME Init PROVE Covers({}) /\ rc = "OK" /\ pc = "open"
    BY DEF CoverInv
  <2> QED
    BY DEF Init, Covers, Opening
<1>2. SearchInv /\ StoreInv /\ CoverInv /\ [Next]_vars => CoverInv'
  <2> SUFFICES ASSUME SearchInv, StoreInv, CoverInv, [Next]_vars, Unnoticed = {}
               PROVE  CoverInv'
    BY DEF CoverInv
  <2>1. CASE UNCHANGED vars
    BY <2>1 DEF vars, CoverInv, Covers, Handled, Opening, Loading, Stored, Passed
  <2> QED
    BY <2>1, SearchCovers, CacheCovers DEF Next
<1>3. SearchInv /\ StoreInv /\ CoverInv => SearchComplete
  <2> SUFFICES ASSUME SearchInv, StoreInv, CoverInv, pc = "resolve",
                      Unnoticed = {}, NEW s \in Syms
               PROVE  CheckSymCache(s) = AnswersOf(FullCache)[s]
    BY DEF SearchComplete
  <2>1. \A l \in Libs : defined[l] = FullCache[l] /\ (defined[l] # {} => l \in cached)
    BY CoveredIsStored DEF Stored, StoreInv, CacheSound
  <2>2. {l \in cached : s \in defined[l]} = Definers(FullCache, s)
    BY <2>1 DEF Definers, SearchInv, TypeOK
  <2> QED
    BY <2>2 DEF CheckSymCache, AnswersOf
<1> QED
  BY <1>1, <1>2, <1>3, StoreInvariant, PTL DEF Spec

-----------------------------------------------------------------------------
(* The cache only grows, and the first of more libraries is no later.      *)

LEMMA CacheGrows ==
  ASSUME SearchInv, [Next]_vars
  PROVE  cached \subseteq cached' /\ \A l \in Libs : defined[l] \subseteq defined'[l]
<1>1. defined \in [Libs -> SUBSET Syms]
  BY DEF SearchInv, TypeOK
<1>2. CASE SearchStep
  BY <1>2 DEF SearchStep, OpenDir, OpenFails, SkipEntry, EnterDir, FoundLib,
              MatchFails, CloseDir, Leave, ResumeCaller, Unwind, Finish, cache
<1>3. CASE CacheStep
  BY <1>1, <1>3 DEF CacheStep, LoadLib, LoadFails, WalkDone, SkipSym, StoreSym,
                    StoreFails, StoreCrashes, cache
<1>4. CASE UNCHANGED vars
  BY <1>4 DEF vars
<1> QED
  BY <1>2, <1>3, <1>4 DEF Next

(* The libraries in which the cache finds a symbol.                        *)
Finds(s) == {l \in cached : s \in defined[l]}

(* Of more libraries the first one is no later in path order.              *)
LEMMA AnswerSettles ==
  ASSUME SearchInv, SearchInv', [Next]_vars, NEW s \in Syms, CheckSymCache(s) # NoLib
  PROVE  /\ CheckSymCache(s)' # NoLib
         /\ Rank[CheckSymCache(s)'] <= Rank[CheckSymCache(s)]
<1>1. /\ Finds(s) \in SUBSET Libs /\ Finds(s)' \in SUBSET Libs
      /\ Finds(s) \subseteq Finds(s)'
  BY CacheGrows DEF Finds, SearchInv, TypeOK
<1>2. /\ CheckSymCache(s) = FirstOf(Finds(s))
      /\ CheckSymCache(s)' = FirstOf(Finds(s)')
  BY DEF CheckSymCache, Finds, FirstOf
<1>3. FirstOf(Finds(s)) \in Finds(s)
  BY <1>1, <1>2, FirstOfMember
<1>4. /\ FirstOf(Finds(s)') \in Finds(s)'
      /\ \A m \in Finds(s)' : Rank[FirstOf(Finds(s)')] <= Rank[m]
  BY <1>1, <1>3, FirstOfMember
<1> QED
  BY <1>1, <1>2, <1>3, <1>4, FilesAssumption

(* Whatever fails and in whatever order files are found, a symbol that has *)
(* an answer keeps one, and it only moves up in path order.                *)
THEOREM AnswersOnlySettle == Spec => AnswersSettle
<1>1. SearchInv /\ SearchInv' /\ [Next]_vars =>
        [\A s \in Syms : CheckSymCache(s) # NoLib =>
           /\ CheckSymCache(s)' # NoLib
           /\ Rank[CheckSymCache(s)'] <= Rank[CheckSymCache(s)]]_vars
  BY AnswerSettles
<1> QED
  BY <1>1, StoreInvariant, PTL DEF Spec, AnswersSettle

-----------------------------------------------------------------------------
(* ImplementsAnswers.                                                      *)

LEMMA SameTables ==
  /\ Abs!FullCache = FullCache
  /\ Abs!AnswersOf(FullCache) = AnswersOf(FullCache)
BY DEF Abs!AnswersOf, AnswersOf, Abs!FirstOf, FirstOf, Abs!Definers, Definers,
       Abs!FullCache, FullCache, Abs!Exports, Exports, Abs!Exported, Exported

(* Storing an exported symbol is learning an answer: the new one, or the   *)
(* one there was when that is earlier in path order.                       *)
LEMMA StoreLearns ==
  ASSUME SearchInv, SearchInv', StoreInv, StoreInv', StoreSym
  PROVE  \E s \in Syms, l \in Libs : Abs!Learn(s, l)
<1>1. /\ pc = "walk" /\ pc' = "walk" /\ target \in Libs /\ target \notin Refused
      /\ pos \in 1..Len(DynSym[target]) /\ Exported(DynSym[target][pos])
  <2>1. pc = "walk" /\ pc' = "walk" /\ pos <= Len(DynSym[target]) /\ Exported(DynSym[target][pos])
    BY DEF StoreSym, HasEntry, Entry
  <2>2. target \in Libs /\ target \notin Refused /\ pos \in Nat \ {0}
    BY <2>1 DEF SearchInv, StoreInv, TypeOK
  <2>3. Len(DynSym[target]) \in Nat
    BY <2>2, FilesAssumption DEF Files
  <2> QED
    BY <2>1, <2>2, <2>3
<1>2. PICK s \in Syms : s = DynSym[target][pos].name
  BY <1>1, ExportedDefined
<1>3. /\ cached' = cached \cup {target}
      /\ defined' = [defined EXCEPT ![target] = @ \cup {s}]
      /\ defined \in [Libs -> SUBSET Syms]
  BY <1>2 DEF StoreSym, Entry, SearchInv, TypeOK
<1>4. /\ target \in Finds(s)' /\ Finds(s)' \in SUBSET Libs
      /\ \A t \in Syms : t # s => Finds(t)' = Finds(t)
  BY <1>1, <1>3 DEF Finds, StoreInv, SearchInv, TypeOK
<1>5. \A t \in Syms : /\ CheckSymCache(t) = FirstOf(Finds(t))
                     /\ CheckSymCache(t)' = FirstOf(Finds(t)')
  BY DEF CheckSymCache, Finds, FirstOf
<1>6. PICK l \in Libs : l = CheckSymCache(s)' /\ l \in Finds(s)'
  BY <1>4, <1>5, FirstOfMember
<1>7. s \in FullCache[l]
  BY <1>6 DEF StoreInv, CacheSound, Finds
<1>8. CheckSymCache(s) # NoLib => Rank[l] <= Rank[CheckSymCache(s)]
  <2>1. [Next]_vars
    BY DEF Next, CacheStep
  <2> QED
    BY <1>6, <2>1, AnswerSettles
<1>9. [t \in Syms |-> CheckSymCache(t)]' = [[t \in Syms |-> CheckSymCache(t)] EXCEPT ![s] = l]
  <2>1. \A t \in Syms : t # s => CheckSymCache(t)' = CheckSymCache(t)
    BY <1>4, <1>5
  <2> QED
    BY <1>6, <2>1
<1>10. Abs!Learn(s, l)
  BY <1>1, <1>7, <1>8, <1>9, SameTables DEF Abs!Learn
<1> QED
  BY <1>10

(* Every other step leaves the answers as they are, for only StoreSym      *)
(* changes a library's symbols and a library without symbols answers       *)
(* nothing.                                                                *)
LEMMA OthersAnswerSame ==
  ASSUME SearchInv, StoreInv, [Next]_vars, ~StoreSym
  PROVE  \A s \in Syms : CheckSymCache(s)' = CheckSymCache(s)
<1>1. defined' = defined /\ cached \subseteq cached' /\ cached' \in SUBSET Libs
  <2>1. CASE SearchStep
    BY <2>1 DEF SearchStep, OpenDir, OpenFails, SkipEntry, EnterDir, FoundLib,
        MatchFails, CloseDir, Leave, ResumeCaller, Unwind, Finish, cache, SearchInv,
        TypeOK
  <2>2. CASE CacheStep
    <3>1. pc \in {"load", "walk"}
      BY <2>2 DEF CacheStep, LoadLib, LoadFails, WalkDone, SkipSym, StoreSym, StoreFails,
                  StoreCrashes, HasEntry
    <3> QED
      BY <2>2, <3>1 DEF CacheStep, LoadLib, LoadFails, WalkDone, SkipSym, StoreFails,
                        StoreCrashes, cache, SearchInv, TypeOK
  <2>3. CASE UNCHANGED vars
    BY <2>3 DEF vars, SearchInv, TypeOK
  <2> QED
    BY <2>1, <2>2, <2>3 DEF Next
<1>2. ASSUME NEW s \in Syms
      PROVE  {l \in cached' : s \in defined'[l]} = {l \in cached : s \in defined[l]}
  BY <1>1 DEF StoreInv
<1> QED
  BY <1>2 DEF CheckSymCache

(* The places of the search: it is under way until Finish, or a crash.     *)
LEMMA OthersMap ==
  ASSUME SearchInv, StoreInv, SearchComplete', [Next]_vars, ~StoreSym
  PROVE  [Abs!Next]_(Abs!vars)
<1> DEFINE Answer == [s \in Syms |-> CheckSymCache(s)]
<1>1. Answer' = Answer
  BY OthersAnswerSame
<1>2. CASE pc' = "resolve" /\ pc # "resolve"
  <2>1. Finish
    BY <1>2 DEF Next, SearchStep, OpenDir, OpenFails, SkipEntry, EnterDir, FoundLib,
        MatchFails, CloseDir, Leave, ResumeCaller, Unwind, CacheStep, LoadLib,
        LoadFails, WalkDone, SkipSym, StoreSym, StoreFails, StoreCrashes, vars, Reads,
        HasEntry
  <2>2. pc = "return"
    BY <2>1 DEF Finish
  <2>3. Unnoticed # {} \/ Answer = AnswersOf(FullCache)
    <3>1. Unnoticed = {} => \A s \in Syms : CheckSymCache(s)' = AnswersOf(FullCache)[s]
      BY <1>2 DEF SearchComplete
    <3> QED
      BY <3>1, OthersAnswerSame DEF AnswersOf
  <2>4. Abs!HandOver
    BY <1>1, <1>2, <2>2, <2>3, SameTables DEF Abs!HandOver
  <2> QED
    BY <2>4 DEF Abs!Next
<1>3. CASE pc' \in {"failed", "crashed"} /\ pc # pc'
  <2>1. pc \notin {"resolve", "failed", "crashed"}
    BY <1>3 DEF Next, SearchStep, OpenDir, OpenFails, SkipEntry, EnterDir, FoundLib,
        Reads, MatchFails, CloseDir, Leave, ResumeCaller, Unwind, Finish, CacheStep,
        LoadLib, LoadFails, WalkDone, SkipSym, StoreSym, StoreFails, StoreCrashes,
        HasEntry, vars
  <2>2. Abs!GiveUp
    BY <1>1, <1>3, <2>1 DEF Abs!GiveUp
  <2> QED
    BY <2>2 DEF Abs!Next
<1>4. CASE pc' \notin {"resolve", "failed", "crashed"} \/ pc' = pc
  <2>1. pc \in {"resolve", "failed", "crashed"} => pc' = pc
    BY <1>4 DEF Next, SearchStep, OpenDir, OpenFails, SkipEntry, EnterDir, FoundLib,
        Reads, MatchFails, CloseDir, Leave, ResumeCaller, Unwind, Finish, CacheStep,
        LoadLib, LoadFails, WalkDone, SkipSym, StoreSym, StoreFails, StoreCrashes,
        HasEntry, vars
  <2>2. UNCHANGED (Abs!vars)
    BY <1>1, <1>4, <2>1 DEF Abs!vars
  <2> QED
    BY <2>2
<1> QED
  BY <1>2, <1>3, <1>4

(* The search implements the abstract cache, in any tree, any order of its *)
(* listings and whatever fails.                                            *)
THEOREM CacheImplements == Spec => ImplementsAnswers
<1>1. Init => Abs!Init
  <2> SUFFICES ASSUME Init PROVE Abs!Init
    OBVIOUS
  <2>1. \A s \in Syms : CheckSymCache(s) = NoLib
    BY DEF Init, CheckSymCache, FirstOf
  <2> QED
    BY <2>1 DEF Init, Abs!Init
<1>2. (/\ SearchInv /\ SearchInv' /\ StoreInv /\ StoreInv' /\ SearchComplete'
       /\ [Next]_vars) => [Abs!Next]_(Abs!vars)
  <2> SUFFICES ASSUME SearchInv, SearchInv', StoreInv, StoreInv', SearchComplete', [Next]_vars
               PROVE  [Abs!Next]_(Abs!vars)
    OBVIOUS
  <2>1. CASE StoreSym
    BY <2>1, StoreLearns DEF Abs!Next
  <2>2. CASE ~StoreSym
    BY <2>2, OthersMap
  <2> QED
    BY <2>1, <2>2
<1> QED
  BY <1>1, <1>2, StoreInvariant, SearchIsComplete, PTL DEF Spec, ImplementsAnswers, Abs!Spec
=============================================================================
