-------------------------------- MODULE Scout --------------------------------
(***************************************************************************)
(* The whole program: main and main_thread around the threads of           *)
(* SymPipeline, and the memory that main_thread, the consumer and the      *)
(* producers hand to each other.                                           *)
(*                                                                         *)
(* main_thread builds the symbol cache (SymCache, here one step), then the *)
(* consumer's user data and context, starts the consumer, joins it and     *)
(* releases everything.  process_file_sym gives each producer a context    *)
(* and user data of its own, which the producer releases as it ends.  The  *)
(* memory is known by the blocks that are allocated.  A copy of a symbol   *)
(* belongs to the ring until the consumer takes it, and a thread's passing *)
(* copies to the thread; the nodes and copies that outlive the consumer's  *)
(* step are in kept.                                                       *)
(***************************************************************************)
EXTENDS SymPipeline

VARIABLES
  mpc,    \* where main is
  mrc,    \* the rc of main and main_thread
  fresh,  \* the file that process_file_sym was called for last
  heap,   \* the blocks that main_thread and the consumer have allocated
  own,    \* the blocks allocated for each producer
  kept    \* nodes of the consumer's trees, and copies of symbols it lost

mine == <<mpc, mrc, fresh, heap, own, kept>>
all == <<vars, mine>>

(* What main_thread allocates, what the consumer allocates for its work,   *)
(* and what process_file_sym allocates for the producer of a file.         *)
UserData == {"data", "exeName", "libPath"}
Context == {"ctx", "buffer"}
MainBlocks == {"cache", "tree", "regex"} \cup UserData \cup Context
Work == {"array", "dependency", "undefined"}
OwnBlocks == {"ctx", "data"}

(* The node of a library (its name belongs to the cache), the node of an   *)
(* undefined symbol with its copy, and a copy that no tree has taken.      *)
LibraryNode(l) == <<"library", l>>
SymbolNode(s) == <<"symbol", s>>
LostCopy(s) == <<"copy", s>>
LibraryNodes(L) == {LibraryNode(l) : l \in L}
SymbolNodes(S) == {SymbolNode(s) : s \in S}
LostCopies(S) == {LostCopy(s) : s \in S}

InitAll ==
  /\ Init
  /\ mpc = "options" /\ mrc = "OK" /\ fresh = Exe
  /\ heap = {} /\ own = [f \in Files |-> {}] /\ kept = {}

-----------------------------------------------------------------------------
(* main and main_thread.                                                   *)

GoOn(from, to) == mpc = from /\ mpc' = to /\ UNCHANGED <<vars, mrc, fresh, own, kept>>
GiveUp(from, r) ==
  /\ mpc = from /\ mpc' = "release" /\ mrc' = r
  /\ UNCHANGED <<vars, fresh, own, kept>>
Return(r) ==
  /\ mpc' = "over" /\ mrc' = r /\ process' = "exited"
  /\ UNCHANGED <<ring, counts, lockHeld, cpc, sym, trees, nProducers, arrSize, crc, producers>>

(* Both paths must be given, and no option but -e, -l and -h.              *)
ReadOptions == GoOn("options", "cache") /\ UNCHANGED heap
RefuseOptions == mpc = "options" /\ Return("EINVAL") /\ UNCHANGED <<fresh, heap, own, kept>>

AllocCache == GoOn("cache", "tree") /\ heap' = heap \cup {"cache"}
AllocCacheFails ==
  /\ mpc = "cache" /\ MayFail("malloc") /\ Return("ENOMEM") /\ UNCHANGED <<fresh, heap, own, kept>>

InitTree == GoOn("tree", "regex") /\ heap' = heap \cup {"tree"}
InitTreeFails == MayFail("malloc") /\ GiveUp("tree", "ENOMEM") /\ UNCHANGED heap

CompileRegex == GoOn("regex", "search") /\ heap' = heap \cup {"regex"}
CompileFails == MayFail("malloc") /\ GiveUp("regex", "regex") /\ UNCHANGED heap

(* The search (SymCache) ends with what it could store, which is Cache, or *)
(* with an error; the loader may go down over one of the libraries.        *)
SearchLibs ==
  /\ GoOn("search", "data") \/ GiveUp("search", "errno")
  /\ heap' = heap \ {"regex"}
SearchCrashes ==
  /\ mpc = "search"
  /\ Odd \cap Libs # {} \/ MayFail("malloc")
  /\ Crash /\ UNCHANGED mine

AllocUserData == GoOn("data", "ctx") /\ heap' = heap \cup UserData
AllocUserDataFails ==
  /\ MayFail("malloc") /\ GiveUp("data", "ENOMEM")
  /\ heap' \in {heap, heap \cup {"data"}, heap \cup {"data", "exeName"}}

(* create_producer_thread_ctx keeps nothing when it fails.                 *)
CreateCtx == GoOn("ctx", "create") /\ heap' = heap \cup Context
CreateCtxFails == MayFail("malloc") /\ GiveUp("ctx", "ENOMEM") /\ UNCHANGED heap

StartConsumer == GoOn("create", "join") /\ UNCHANGED heap

(* pthread_create's result is not looked at: an id that was never written  *)
(* is joined, and what the join did not write is taken for the result.     *)
NoConsumer ==
  /\ MayFail("pthread_create")
  /\ \E r \in {"OK", "ENOMEM"} : GiveUp("create", r)
  /\ UNCHANGED heap
JoinNoConsumer ==
  /\ MayFail("pthread_create") /\ mpc = "create"
  /\ Crash /\ UNCHANGED mine

JoinNobody ==   \* mutant: main_thread does not wait for the consumer
  GiveUp("join", crc) /\ UNCHANGED heap
JoinConsumer == cpc = "returned" /\ GiveUp("join", crc) /\ UNCHANGED heap

(* The names, then destroy_producer_thread_ctx, which releases the user    *)
(* data because the context points to it.                                  *)
ReleaseKeepsData ==   \* mutant: ctx->user_data is not released
  /\ mpc = "release" /\ mpc' = "uncache"
  /\ heap' = heap \ ({"exeName", "libPath"} \cup Context)
  /\ process' = "destroyed"
  /\ UNCHANGED <<ring, counts, lockHeld, cpc, sym, trees, nProducers, arrSize, crc, producers,
                 mrc, fresh, own, kept>>
Release ==
  /\ mpc = "release" /\ mpc' = "uncache"
  /\ heap' = heap \ ({"exeName", "libPath"} \cup
                     (IF "ctx" \in heap THEN Context \cup {"data"} ELSE {}))
  /\ process' = "destroyed"
  /\ UNCHANGED <<ring, counts, lockHeld, cpc, sym, trees, nProducers, arrSize, crc, producers,
                 mrc, fresh, own, kept>>

(* Of a cache whose tree was never made, the pointer to the tree is what   *)
(* malloc left there.                                                      *)
ReleaseCache ==
  /\ mpc = "uncache" /\ Return(mrc)
  /\ heap' = heap \ {"cache", "tree"}
  /\ UNCHANGED <<fresh, own, kept>>
ReleaseGarbage ==
  /\ mpc = "uncache" /\ "tree" \notin heap
  /\ Crash /\ UNCHANGED mine

MainThread ==
  /\ process \in {"running", "destroyed"}
  /\ \/ ReadOptions \/ RefuseOptions
     \/ AllocCache \/ AllocCacheFails \/ InitTree \/ InitTreeFails
     \/ CompileRegex \/ CompileFails \/ SearchLibs \/ SearchCrashes
     \/ AllocUserData \/ AllocUserDataFails \/ CreateCtx \/ CreateCtxFails
     \/ StartConsumer \/ NoConsumer \/ JoinNoConsumer \/ JoinConsumer
     \/ Release \/ ReleaseCache \/ ReleaseGarbage

-----------------------------------------------------------------------------
(* The consumer, with what it allocates and releases.                      *)

ConsumerStarts ==
  /\ StartExe /\ fresh' = Exe
  /\ heap' = heap \cup Work /\ own' = [own EXCEPT ![Exe] = OwnBlocks]
  /\ UNCHANGED <<mpc, mrc, kept>>

(* What process_file_sym leaves behind when its second or third allocation *)
(* fails.                                                                  *)
Parts == {{"ctx"}, OwnBlocks}

(* Of the consumer's own allocations the first that fails leaves nothing,  *)
(* but when process_file_sym fails it returns past its cleanup.            *)
ConsumerStartFails ==
  /\ StartFails
  /\ \/ UNCHANGED <<heap, own>>
     \/ \E P \in Parts : heap' = heap \cup Work /\ own' = [own EXCEPT ![Exe] = P]
  /\ UNCHANGED <<mpc, mrc, fresh, kept>>

SpawnForSym ==   \* mutant: the producer is given the symbol, not its library
  /\ NewLibrary /\ fresh' = sym
  /\ own' = [own EXCEPT ![Lookup[sym]] = OwnBlocks]
  /\ kept' = kept \cup {LibraryNode(Lookup[sym])}
  /\ UNCHANGED <<mpc, mrc, heap>>
ConsumerSpawns ==
  /\ NewLibrary /\ fresh' = Lookup[sym]
  /\ own' = [own EXCEPT ![Lookup[sym]] = OwnBlocks]
  /\ kept' = kept \cup {LibraryNode(Lookup[sym])}
  /\ UNCHANGED <<mpc, mrc, heap>>

ConsumerSpawnFails ==
  /\ SpawnFails
  /\ own' \in {own} \cup {[own EXCEPT ![Lookup[sym]] = P] : P \in Parts}
  /\ kept' = kept \cup {LibraryNode(Lookup[sym])}
  /\ UNCHANGED <<mpc, mrc, fresh, heap>>

(* The tree takes the copy of a symbol it does not hold, and nobody        *)
(* releases the copy of one it holds.                                      *)
ConsumerKeeps ==
  /\ KeepUndefined
  /\ kept' = kept \cup {IF sym \in undefinedSym THEN LostCopy(sym) ELSE SymbolNode(sym)}
  /\ UNCHANGED <<mpc, mrc, fresh, heap, own>>

(* The copy of an undefined symbol is left where it is, and the node that  *)
(* a tree refused as well.                                                 *)
ConsumerAddFails ==
  /\ AddFails
  /\ \/ NewFound /\ kept' \in {kept, kept \cup {LibraryNode(Lookup[sym])}}
     \/ Lookup[sym] = NoLib /\ kept' = kept \cup {LostCopy(sym)}
  /\ UNCHANGED <<mpc, mrc, fresh, heap, own>>

(* process_file_sym reaches the buffer through the context it has given to *)
(* the producer, which the producer may have released by then.             *)
CountThroughFreed ==
  /\ cpc = "count" /\ ppc[fresh] = "finished"
  /\ Crash /\ UNCHANGED mine

(* A thread can be joined once it has released what it owns.  The tree of  *)
(* undefined symbols goes with its nodes, the tree of libraries without.   *)
ConsumerJoins ==
  /\ JoinProducers
  /\ \A p \in Files : ppc[p] = "finished" => own[p] = {}
  /\ heap' = heap \ Work
  /\ kept' = kept \ SymbolNodes(undefinedSym)
  /\ UNCHANGED <<mpc, mrc, fresh, own>>

ConsumerMoves ==
  /\ \/ CountProducer \/ WaitNotEmpty \/ PopSym \/ PopFails \/ LeaveLoop
     \/ KnownLibrary \/ SpawnCrashes \/ JoinGarbage
  /\ UNCHANGED mine

Consumer ==
  /\ process = "running" /\ mpc = "join"
  /\ \/ ConsumerStarts \/ ConsumerStartFails \/ ConsumerSpawns \/ ConsumerSpawnFails
     \/ ConsumerKeeps \/ ConsumerAddFails \/ CountThroughFreed \/ ConsumerJoins \/ ConsumerMoves

-----------------------------------------------------------------------------
(* A producer, which releases what it owns after its last critical section.*)

ReleaseOwn(p) ==
  /\ process \in {"running", "destroyed"}
  /\ ppc[p] = "finished" /\ own[p] # {}
  /\ own' = [own EXCEPT ![p] = {}]
  /\ UNCHANGED <<vars, mpc, mrc, fresh, heap, kept>>

Producer(p) == (ProducerStep(p) /\ UNCHANGED mine) \/ ReleaseOwn(p)

SpuriousWakeUp ==
  /\ SpuriousConsumer \/ \E p \in Files : SpuriousProducer(p)
  /\ UNCHANGED mine

NextAll ==
  \/ MainThread \/ Consumer
  \/ \E p \in Files : Producer(p)
  \/ SpuriousWakeUp
  \/ (process \in {"exited", "crashed"} /\ UNCHANGED all)

FairnessAll ==
  /\ WF_all(MainThread)
  /\ WF_all(Consumer)
  /\ \A p \in Files : WF_all(Producer(p))

SpecAll == InitAll /\ [][NextAll]_all /\ FairnessAll

-----------------------------------------------------------------------------
MainPlaces == {"options", "cache", "tree", "regex", "search", "data", "ctx", "create", "join",
               "release", "uncache", "over"}

MainTypeOK ==
  /\ TypeOK
  /\ mpc \in MainPlaces
  /\ mrc \in {"OK", "EINVAL", "ENOMEM", "errno", "regex"}
  /\ fresh \in Files
  /\ heap \subseteq MainBlocks \cup Work
  /\ own \in [Files -> SUBSET OwnBlocks]
  /\ kept \subseteq LibraryNodes(Libs) \cup SymbolNodes(Syms) \cup LostCopies(Syms)

(* What is released while a thread can still reach it is known: the buffer *)
(* that main_thread frees when the consumer returned with the mutex locked *)
(* and the context of a producer that ended before process_file_sym has    *)
(* counted it, and nothing else.  main_thread keeps cache, user data,      *)
(* context and buffer until the consumer is done (whose list of libraries  *)
(* is of names inside the cache) and the buffer until every producer is; a *)
(* producer's own blocks live as long as its work, and the nodes of the    *)
(* consumer's trees as long as the trees.                                  *)
ReachableAllocated ==
  /\ (mpc = "join" /\ cpc # "returned") =>
        {"cache", "tree"} \cup UserData \cup Context \subseteq heap
  /\ cpc \notin {"start", "returned"} =>
        /\ Work \subseteq heap
        /\ LibraryNodes(dependency) \cup SymbolNodes(undefinedSym) \subseteq kept
  /\ cpc = "count" => own[fresh] = OwnBlocks \/ ppc[fresh] = "finished"
  /\ \A p \in Files : ppc[p] \in Live =>
        /\ own[p] = OwnBlocks
        /\ (process \in {"running", "destroyed"} /\ ~lockHeld) => "buffer" \in heap

(* What a run loses is known.  One that reports success, and whose threads *)
(* were all created, loses the node of every library it lists and copies   *)
(* of symbols it met more than once and lists as undefined; every other    *)
(* block it has released.  In any other run main_thread loses at most the  *)
(* user data it cannot reach through a context, and the consumer its array *)
(* and trees only when it returned past its cleanup with an error.         *)
AllCreated == cpc = "returned" /\ NoneLost
LossKnown ==
  process = "exited" =>
    /\ (mrc = "OK" /\ AllCreated) =>
          /\ heap = {} /\ \A p \in Files : own[p] = {}
          /\ LibraryNodes(dependency) \subseteq kept
          /\ kept \subseteq LibraryNodes(dependency) \cup LostCopies(undefinedSym)
    /\ heap \cap MainBlocks \subseteq (IF cpc = "returned" THEN {} ELSE {"data"})
    /\ Work \cap heap # {} => crc = "ENOMEM"

(* A run that ends in success, when memory sufficed and nothing was left   *)
(* in the ring, has listed exactly what the executable needs as far as the *)
(* files could be read: the files it found are the least set that holds    *)
(* the executable and is closed under what the heard ones ask for, the     *)
(* symbols are those that set asks for and no library answers for, and a   *)
(* file it did not hear has had its producer's error printed, or its       *)
(* thread was never created.                                               *)
SuccessIsExact ==
  (process = "exited" /\ mrc = "OK" /\ cpc = "returned" /\ IsEmpty /\ "malloc" \notin Faults) =>
    LET S == dependency \cup {Exe} IN
    /\ S \in ClosedSets(Heard) /\ \A T \in ClosedSets(Heard) : S \subseteq T
    /\ undefinedSym = Unresolvable(S, Heard)
    /\ \A f \in S \ Heard : prc[f] = "error" \/ ppc[f] = "lost"

(* While memory lasts five things only bring the program down: the loader  *)
(* meets an odd file, in the search or in a producer; main joins a         *)
(* consumer, or the consumer a producer, that was never created; or        *)
(* process_file_sym counts a producer through the context it has released. *)
(* Nobody meets a buffer that is gone or a cache that never was.           *)
CrashesExplained ==
  (process = "crashed" /\ "malloc" \notin Faults) =>
    \/ mpc = "search" /\ Odd \cap Libs # {}
    \/ \E p \in Odd : ppc[p] \in {"start", "walk"}
    \/ mpc = "create" /\ "pthread_create" \in Faults
    \/ cpc = "join" /\ ~NoneLost
    \/ cpc = "count" /\ ppc[fresh] = "finished"

(* The program ends, whatever fails, if it has the threads it counts, the  *)
(* consumer has not kept the mutex, and it has not left its loop for good  *)
(* with the ring full.                                                     *)
EndsUnlessHarmed ==
  ([](~lockHeld /\ NoneLost) /\ []<>~(cpc = "join" /\ IsFull)) =>
    <>(process \in {"exited", "crashed"})

(* libscout.c:182 "Producer thread has finished, releasing thread specific *)
(* allocations": what a producer releases no other thread still uses, and  *)
(* process_file_sym uses the context until it has counted the producer.    *)
ReleasedIsThreadSpecific == cpc = "count" => "ctx" \in own[fresh]
=============================================================================
