----------------------------- MODULE ScoutProofs -----------------------------
(***************************************************************************)
(* Proofs about the whole program, for every set of files, every ring size *)
(* and every set of failures: what is released while a thread can reach    *)
(* it, what a run loses, what it reports and what brings it down.          *)
(***************************************************************************)
EXTENDS Scout, SymPipelineResultProofs

-----------------------------------------------------------------------------
(* The threads of SymPipeline inside the program.                          *)

(* main_thread may also release the buffer, and main return, before there  *)
(* was a consumer: such steps change nothing that the threads look at.     *)
OnlyProcess ==
  /\ process' \in {"destroyed", "exited", "crashed"}
  /\ UNCHANGED <<ring, counts, lockHeld, cpc, sym, trees, nProducers, arrSize, crc, producers>>

LEMMA PipelineStep ==
  ASSUME NextAll
  PROVE  [Next]_vars \/ OnlyProcess
<1>1. CASE MainThread
  BY <1>1 DEF MainThread, GoOn, GiveUp, Return, ReadOptions, RefuseOptions, AllocCache,
      AllocCacheFails, InitTree, InitTreeFails, CompileRegex, CompileFails, SearchLibs,
      SearchCrashes, AllocUserData, AllocUserDataFails, CreateCtx, CreateCtxFails,
      StartConsumer, NoConsumer, JoinNoConsumer, JoinConsumer, Release, ReleaseCache,
      ReleaseGarbage, Crash, OnlyProcess
<1>2. CASE Consumer
  BY <1>2 DEF Consumer, ConsumerStarts, ConsumerStartFails, ConsumerSpawns,
      ConsumerSpawnFails, ConsumerKeeps, ConsumerAddFails, CountThroughFreed,
      ConsumerJoins, ConsumerMoves, ConsumerStep, Crash, OnlyProcess, Next
<1>3. ASSUME NEW p \in Files, Producer(p)  PROVE [Next]_vars
  BY <1>3 DEF Producer, ReleaseOwn, Next
<1>4. CASE SpuriousWakeUp
  BY <1>4 DEF SpuriousWakeUp, Next
<1>5. CASE UNCHANGED all
  BY <1>5 DEF all
<1> QED
  BY <1>1, <1>2, <1>3, <1>4, <1>5 DEF NextAll

LEMMA RingKept ==
  ASSUME RingInv, NextAll
  PROVE  RingInv'
<1>1. CASE OnlyProcess
  BY <1>1, QuietRing DEF RingInv, OnlyProcess, TypeOK, InHand, ring, counts, trees,
      producers
<1> QED
  BY <1>1, PipelineStep, StepKeepsRing

LEMMA CountKept ==
  ASSUME RingInv, CountInv, NextAll
  PROVE  CountInv'
<1>1. CASE OnlyProcess
  BY <1>1 DEF CountInv, CountAccounts, CreatedDiscovered, Created, Finished, Uncounted,
     OnlyProcess, counts, trees, producers
<1>2. CASE [Next]_vars
  BY <1>2, ConsumerKeepsCount, OthersKeepCount DEF Next, Over
<1> QED
  BY <1>1, <1>2, PipelineStep

-----------------------------------------------------------------------------
(* The inductive invariant.                                                *)

MainTypes ==
  /\ mpc \in MainPlaces
  /\ mrc \in {"OK", "EINVAL", "ENOMEM", "errno", "regex"}
  /\ fresh \in Files
  /\ heap \subseteq MainBlocks \cup Work
  /\ own \in [Files -> SUBSET OwnBlocks]

(* What main_thread has allocated when it is at some place.                *)
Held == heap \cap MainBlocks
HeapInv ==
  /\ mpc \in {"options", "cache"} => Held = {}
  /\ mpc = "tree" => Held = {"cache"}
  /\ mpc \in {"regex", "data"} => Held = {"cache", "tree"}
  /\ mpc = "search" => Held = {"cache", "tree", "regex"}
  /\ mpc = "ctx" => Held = {"cache", "tree"} \cup UserData
  /\ mpc \in {"create", "join"} => Held = {"cache", "tree"} \cup UserData \cup Context
  /\ mpc = "release" => /\ "regex" \notin heap
                        /\ "ctx" \in heap <=> "buffer" \in heap
                        /\ cpc = "returned" => "ctx" \in heap
  /\ mpc = "uncache" => Held \subseteq {"cache", "tree"} \cup
                                       (IF cpc = "returned" THEN {} ELSE {"data"})
  /\ mpc = "over" => Held \subseteq IF cpc = "returned" THEN {} ELSE {"data"}

(* The consumer works only while main_thread joins it, the producers only  *)
(* while the consumer works, unless it kept the mutex, and each has its    *)
(* blocks while it works.  What is left shows in crc.                      *)
Idle == {"start", "returned"}
WorkInv ==
  /\ mpc # "join" => cpc \in Idle
  /\ mpc \notin {"join", "release", "uncache", "over"} => cpc = "start"
  /\ process = "exited" => mpc = "over"
  /\ cpc = "start" => /\ Created = {} /\ crc = "OK" /\ heap \cap Work = {}
                      /\ \A p \in Files : own[p] = {}
  /\ cpc \notin Idle => Work \subseteq heap
  /\ cpc = "count" => own[fresh] = OwnBlocks \/ ppc[fresh] = "finished"
  /\ (cpc \in Idle /\ ~lockHeld) => NoneLive
  /\ \A p \in Files : ppc[p] \in Live => own[p] = OwnBlocks
  /\ crc = "OK" => \A p \in Files : ppc[p] = "none" => own[p] = {}
  /\ (cpc = "returned" /\ crc = "OK") =>
        /\ heap \cap Work = {} /\ NoneLive
        /\ \A p \in Files : ppc[p] # "lost" => own[p] = {}
  /\ (cpc = "returned" /\ mpc # "join") => mrc = crc

(* The trees own their nodes: those of the libraries for good, those of    *)
(* the symbols until the consumer returns.  Without an error there are     *)
(* besides them only copies of symbols the tree held already.              *)
KeptInv ==
  /\ kept \subseteq LibraryNodes(Libs) \cup SymbolNodes(Syms) \cup LostCopies(Syms)
  /\ LibraryNodes(dependency) \subseteq kept
  /\ cpc # "returned" => SymbolNodes(undefinedSym) \subseteq kept
  /\ crc = "OK" =>
        kept \subseteq LibraryNodes(dependency) \cup LostCopies(undefinedSym)
                          \cup (IF cpc = "returned" THEN {} ELSE SymbolNodes(undefinedSym))

ScoutInv == RingInv /\ CountInv /\ MainTypes /\ HeapInv /\ WorkInv /\ KeptInv

-----------------------------------------------------------------------------
(* main_thread leaves the threads alone, and the threads main_thread.      *)

LEMMA MainFrame ==
  ASSUME MainThread
  PROVE  /\ UNCHANGED <<lockHeld, cpc, crc, ppc, own, fresh, kept>> /\ UNCHANGED trees
         /\ heap' \cap Work = heap \cap Work
<1> USE DEF GoOn, GiveUp, Return, vars, mine, trees, producers, Work, UserData, Context
<1>1. CASE ReadOptions \/ RefuseOptions \/ AllocCache \/ AllocCacheFails \/ InitTree
  BY <1>1 DEF ReadOptions, RefuseOptions, AllocCache, AllocCacheFails, InitTree
<1>2. CASE InitTreeFails \/ CompileRegex \/ CompileFails \/ SearchLibs \/ AllocUserData
  BY <1>2 DEF InitTreeFails, CompileRegex, CompileFails, SearchLibs, AllocUserData
<1>3. CASE AllocUserDataFails \/ CreateCtx \/ CreateCtxFails
  BY <1>3 DEF AllocUserDataFails, CreateCtx, CreateCtxFails
<1>4. CASE StartConsumer \/ NoConsumer \/ JoinConsumer
  BY <1>4 DEF StartConsumer, NoConsumer, JoinConsumer
<1>5. CASE SearchCrashes \/ JoinNoConsumer \/ ReleaseGarbage
  BY <1>5 DEF SearchCrashes, JoinNoConsumer, ReleaseGarbage, Crash
<1>6. CASE Release \/ ReleaseCache
  BY <1>6 DEF Release, ReleaseCache
<1> QED
  BY <1>1, <1>2, <1>3, <1>4, <1>5, <1>6 DEF MainThread

LEMMA ThreadFrame ==
  ASSUME Consumer \/ (\E p \in Files : Producer(p)) \/ SpuriousWakeUp
  PROVE  /\ UNCHANGED <<mpc, mrc>> /\ Held' = Held
         /\ "regex" \in heap' <=> "regex" \in heap
         /\ "ctx" \in heap' <=> "ctx" \in heap
         /\ "buffer" \in heap' <=> "buffer" \in heap
<1>1. Work \cap MainBlocks = {} /\ {"regex", "ctx", "buffer"} \cap Work = {}
  BY DEF Work, MainBlocks, UserData, Context
<1> QED
  BY <1>1 DEF Consumer, Producer, SpuriousWakeUp, ConsumerStarts, ConsumerStartFails,
      ConsumerSpawns, ConsumerSpawnFails, ConsumerKeeps, ConsumerAddFails,
      CountThroughFreed, ConsumerJoins, ConsumerMoves, ReleaseOwn, Held, mine

LEMMA HeapKept ==
  ASSUME ScoutInv, NextAll
  PROVE  HeapInv'
<1> USE DEF ScoutInv, HeapInv
<1>1. CASE MainThread
  <2>0. /\ UNCHANGED cpc
        /\ mpc \notin {"join", "release", "uncache", "over"} => cpc = "start"
    BY <1>1, MainFrame DEF WorkInv
  <2> USE <2>0 DEF GoOn, GiveUp, Return, Held, UserData, Context, MainBlocks
  <2>1. CASE ReadOptions \/ RefuseOptions \/ AllocCache \/ AllocCacheFails
    BY <2>1 DEF ReadOptions, RefuseOptions, AllocCache, AllocCacheFails
  <2>2. CASE InitTree \/ InitTreeFails \/ CompileRegex \/ CompileFails
    BY <2>2 DEF InitTree, InitTreeFails, CompileRegex, CompileFails
  <2>3. CASE SearchLibs \/ AllocUserData
    BY <2>3 DEF SearchLibs, AllocUserData
  <2>4. CASE AllocUserDataFails
    BY <2>4 DEF AllocUserDataFails
  <2>5. CASE CreateCtx \/ CreateCtxFails
    BY <2>5 DEF CreateCtx, CreateCtxFails
  <2>6. CASE StartConsumer \/ NoConsumer \/ JoinConsumer
    BY <2>6 DEF StartConsumer, NoConsumer, JoinConsumer
  <2>7. CASE SearchCrashes \/ JoinNoConsumer \/ ReleaseGarbage
    BY <2>7 DEF SearchCrashes, JoinNoConsumer, ReleaseGarbage, Crash, mine
  <2>8. CASE Release
    BY <2>8 DEF Release
  <2>9. CASE ReleaseCache
    BY <2>9 DEF ReleaseCache
  <2> QED
    BY <1>1, <2>1, <2>2, <2>3, <2>4, <2>5, <2>6, <2>7, <2>8, <2>9 DEF MainThread
<1>2. CASE Consumer \/ (\E p \in Files : Producer(p)) \/ SpuriousWakeUp
  <2>1. /\ UNCHANGED <<mpc, mrc>> /\ Held' = Held
        /\ "regex" \in heap' <=> "regex" \in heap
        /\ "ctx" \in heap' <=> "ctx" \in heap
        /\ "buffer" \in heap' <=> "buffer" \in heap
    BY <1>2, ThreadFrame
  <2>2. CASE mpc = "join"
    BY <2>1, <2>2
  <2>3. CASE mpc # "join"
    <3>1. cpc' = "returned" <=> cpc = "returned"
      <4>1. cpc \in Idle /\ ~Consumer
        BY <2>3 DEF WorkInv, Consumer
      <4> QED
        BY <1>2, <4>1 DEF Producer, SpuriousWakeUp, ProducerStep, LoadFile, LoadFails,
            SkipEntry, SendSym, WaitNotFull, FinishProducer, ProducerCrashes,
            TouchFreed, Crash, ReleaseOwn, SpuriousConsumer, SpuriousProducer,
            Signalled, vars, Idle
    <3> QED
      BY <2>1, <3>1
  <2> QED
    BY <2>2, <2>3
<1>3. CASE UNCHANGED all
  BY <1>3 DEF all, vars, mine, Held
<1> QED
  BY <1>1, <1>2, <1>3 DEF NextAll

(* The library the consumer is about to start a producer for is a file     *)
(* that has none.                                                          *)
LEMMA NewHasNone ==
  ASSUME RingInv, CountInv, NewFound
  PROVE  Lookup[sym] \in Files /\ ppc[Lookup[sym]] = "none"
BY LookupType DEF NewFound, RingInv, InHand, TypeOK, CountInv, CreatedDiscovered, Files

LEMMA TypesKept ==
  ASSUME ScoutInv, NextAll
  PROVE  MainTypes'
<1> USE DEF ScoutInv, MainTypes
<1>1. CASE MainThread
  <2>1. mpc' \in MainPlaces
    BY <1>1 DEF MainThread, GoOn, GiveUp, Return, ReadOptions, RefuseOptions,
        AllocCache, AllocCacheFails, InitTree, InitTreeFails, CompileRegex,
        CompileFails, SearchLibs, SearchCrashes, AllocUserData, AllocUserDataFails,
        CreateCtx, CreateCtxFails, StartConsumer, NoConsumer, JoinNoConsumer,
        JoinConsumer, Release, ReleaseCache, ReleaseGarbage, mine, MainPlaces
  <2>2. mrc' \in {"OK", "EINVAL", "ENOMEM", "errno", "regex"}
    BY <1>1 DEF MainThread, GoOn, GiveUp, Return, ReadOptions, RefuseOptions,
        AllocCache, AllocCacheFails, InitTree, InitTreeFails, CompileRegex,
        CompileFails, SearchLibs, SearchCrashes, AllocUserData, AllocUserDataFails,
        CreateCtx, CreateCtxFails, StartConsumer, NoConsumer, JoinNoConsumer,
        JoinConsumer, Release, ReleaseCache, ReleaseGarbage, mine, RingInv, TypeOK
  <2>3. heap' \subseteq MainBlocks \cup Work
    BY <1>1 DEF MainThread, GoOn, GiveUp, Return, ReadOptions, RefuseOptions,
        AllocCache, AllocCacheFails, InitTree, InitTreeFails, CompileRegex,
        CompileFails, SearchLibs, SearchCrashes, AllocUserData, AllocUserDataFails,
        CreateCtx, CreateCtxFails, StartConsumer, NoConsumer, JoinNoConsumer,
        JoinConsumer, Release, ReleaseCache, ReleaseGarbage, mine, MainBlocks, UserData,
        Context
  <2> QED
    BY <1>1, <2>1, <2>2, <2>3, MainFrame
<1>2. CASE Consumer
  <2>1. Exe \in Files /\ (NewFound => Lookup[sym] \in Files)
    BY NewHasNone DEF Files
  <2>2. CASE ConsumerStarts \/ ConsumerStartFails
    BY <2>1, <2>2 DEF ConsumerStarts, ConsumerStartFails, Parts, OwnBlocks
  <2>3. CASE ConsumerSpawns \/ ConsumerSpawnFails
    BY <2>1, <2>3 DEF ConsumerSpawns, ConsumerSpawnFails, NewLibrary, SpawnFails, Parts,
        OwnBlocks
  <2>4. CASE \/ ConsumerKeeps \/ ConsumerAddFails
             \/ CountThroughFreed \/ ConsumerJoins \/ ConsumerMoves
    BY <2>4 DEF ConsumerKeeps, ConsumerAddFails, CountThroughFreed, ConsumerJoins,
                ConsumerMoves, mine
  <2> QED
    BY <1>2, <2>2, <2>3, <2>4 DEF Consumer
<1>3. CASE (\E p \in Files : Producer(p)) \/ SpuriousWakeUp
  BY <1>3 DEF Producer, ReleaseOwn, SpuriousWakeUp, mine
<1>4. CASE UNCHANGED all
  BY <1>4 DEF all, mine
<1> QED
  BY <1>1, <1>2, <1>3, <1>4 DEF NextAll

-----------------------------------------------------------------------------
(* Who works, and with which blocks.                                       *)

(* What a step of a producer, or a wake-up, leaves of the threads.         *)
LEMMA ProducerFrame ==
  ASSUME RingInv,
         \/ \E p \in Files : ProducerStep(p) \/ SpuriousProducer(p)
         \/ SpuriousConsumer
  PROVE  /\ UNCHANGED <<lockHeld, crc>>
         /\ (cpc' = "start" <=> cpc = "start") /\ (cpc' = "returned" <=> cpc = "returned")
         /\ cpc' = "count" => cpc = "count"
         /\ \A q \in Files : /\ ppc'[q] \in Live => ppc[q] \in Live
                             /\ ppc'[q] = "none" <=> ppc[q] = "none"
                             /\ ppc[q] = "finished" => ppc'[q] = "finished"
                             /\ ppc'[q] = "lost" <=> ppc[q] = "lost"
         /\ process' = "exited" => process = "exited"
BY DEF ProducerStep, SpuriousProducer, SpuriousConsumer, LoadFile, LoadFails, SkipEntry,
    SendSym, WaitNotFull, FinishProducer, ProducerCrashes, TouchFreed, Crash, Signalled,
    MoveTo, AtEnd, HasEntry, Live, RingInv, TypeOK, consumerAndMain, producers

LEMMA WorkKept ==
  ASSUME ScoutInv, NextAll
  PROVE  WorkInv'
<1> USE DEF ScoutInv, WorkInv, Idle
<1>0. /\ ppc \in [Files -> ProducerPlaces] /\ Exe \in Files
      /\ own \in [Files -> SUBSET OwnBlocks] /\ fresh \in Files
      /\ Created = {} => \A p \in Files : ppc[p] = "none"
      /\ (\A p \in Files : ppc'[p] = "none") => Created' = {}
      /\ cpc' = "start" => Created' = {}
  BY CountKept DEF RingInv, TypeOK, Created, Files, MainTypes, CountInv, CreatedDiscovered
<1>1. CASE MainThread
  <2>1. /\ UNCHANGED <<lockHeld, cpc, crc, ppc, own, fresh>> /\ heap' \cap Work = heap \cap Work
        /\ Created' = Created /\ (NoneLive => NoneLive')
        /\ process # "exited"
    BY <1>1, MainFrame DEF Created, NoneLive, MainThread
  <2>2. /\ mpc' # "join" => cpc \in Idle
        /\ mpc' \notin {"join", "release", "uncache", "over"} => cpc = "start"
        /\ process' = "exited" => mpc' = "over"
        /\ (cpc = "returned" /\ mpc' # "join") => mrc' = crc
    BY <1>1, <2>1 DEF MainThread, GoOn, GiveUp, Return, ReadOptions, RefuseOptions,
        AllocCache, AllocCacheFails, InitTree, InitTreeFails, CompileRegex,
        CompileFails, SearchLibs, SearchCrashes, AllocUserData, AllocUserDataFails,
        CreateCtx, CreateCtxFails, StartConsumer, NoConsumer, JoinNoConsumer,
        JoinConsumer, Release, ReleaseCache, ReleaseGarbage, Crash, mine, vars
  <2> QED
    BY <2>1, <2>2
<1>2. CASE Consumer
  <2>0. /\ mpc = "join" /\ mpc' = "join" /\ process = "running"
        /\ process' # "exited"
    BY <1>2, ThreadFrame DEF Consumer, ConsumerStarts, ConsumerStartFails,
        ConsumerSpawns, ConsumerSpawnFails, ConsumerKeeps, ConsumerAddFails,
        CountThroughFreed, ConsumerJoins, ConsumerMoves, Crash, StartExe, StartFails,
        CountProducer, WaitNotEmpty, PopSym, PopFails, LeaveLoop, KeepUndefined,
        KnownLibrary, NewLibrary, AddFails, SpawnFails, SpawnCrashes, JoinProducers,
        JoinGarbage
  <2>1. CASE ConsumerStarts
    BY <1>0, <2>0, <2>1 DEF ConsumerStarts, StartExe, CreateThread, Live
  <2>2. CASE ConsumerStartFails
    BY <1>0, <2>0, <2>2 DEF ConsumerStartFails, StartFails, NoneLive, Live, producers
  <2>3. CASE ConsumerSpawns
    BY <1>0, <2>0, <2>3, NewHasNone DEF ConsumerSpawns, NewLibrary, CreateThread,
        NewFound, Live
  <2>4. CASE ConsumerSpawnFails
    BY <1>0, <2>0, <2>4, NewHasNone DEF ConsumerSpawnFails, SpawnFails, NewFound, Live,
        producers
  <2>5. CASE CountThroughFreed
    BY <1>0, <2>0, <2>5 DEF CountThroughFreed, Crash, NoneLive, producers, mine
  <2>6. CASE ConsumerJoins
    BY <1>0, <2>0, <2>6 DEF ConsumerJoins, JoinProducers, NoneLive, Live, producers,
        ProducerPlaces
  <2>7. CASE ConsumerMoves
    BY <1>0, <2>0, <2>7 DEF ConsumerMoves, CountProducer, WaitNotEmpty, PopSym, PopFails,
       LeaveLoop, KnownLibrary, SpawnCrashes, JoinGarbage, NewFound, Crash, Woken, NoneLive,
       Live, producers, mine
  <2>8. CASE ConsumerKeeps \/ ConsumerAddFails
    BY <1>0, <2>0, <2>8 DEF ConsumerKeeps, ConsumerAddFails, KeepUndefined, AddFails,
        NewFound, NoneLive, Live, producers
  <2> QED
    BY <1>2, <2>1, <2>2, <2>3, <2>4, <2>5, <2>6, <2>7, <2>8 DEF Consumer
<1>3. CASE \/ \E p \in Files : ProducerStep(p) /\ UNCHANGED mine
           \/ SpuriousWakeUp
  <2>1. UNCHANGED mine
    BY <1>3 DEF SpuriousWakeUp
  <2> QED
    BY <1>0, <1>3, <2>1, ProducerFrame DEF SpuriousWakeUp, NoneLive, mine
<1>4. ASSUME NEW p \in Files, ReleaseOwn(p)  PROVE WorkInv'
  BY <1>0, <1>4 DEF ReleaseOwn, vars, NoneLive, Live
<1>5. CASE UNCHANGED all
  BY <1>0, <1>5 DEF all, vars, mine, NoneLive
<1> QED
  BY <1>1, <1>2, <1>3, <1>4, <1>5 DEF NextAll, Producer

-----------------------------------------------------------------------------
(* The nodes of the trees, and the copies nobody releases.                 *)

LEMMA NodesGrow ==
  /\ \A L, l : LibraryNodes(L \cup {l}) = LibraryNodes(L) \cup {LibraryNode(l)}
  /\ \A S, s : SymbolNodes(S \cup {s}) = SymbolNodes(S) \cup {SymbolNode(s)}
  /\ \A S, s : s \in S => LostCopy(s) \in LostCopies(S)
  /\ \A S, T : LostCopies(S) \subseteq LostCopies(S \cup T)
  /\ \A L, S : LibraryNodes(L) \cap SymbolNodes(S) = {}
BY DEF LibraryNodes, SymbolNodes, LostCopies, LibraryNode, SymbolNode, LostCopy

(* A step that allocates and releases none of them.                        *)
LEMMA QuietKept ==
  ASSUME KeptInv, kept' = kept, UNCHANGED trees,
         crc' = "OK" => crc = "OK",
         cpc = "returned" => cpc' = "returned",
         cpc' = "returned" => cpc = "returned" \/ crc' # "OK"
  PROVE  KeptInv'
BY DEF KeptInv, trees

LEMMA KeptKept ==
  ASSUME ScoutInv, NextAll
  PROVE  KeptInv'
<1> USE DEF ScoutInv
<1>1. CASE MainThread
  BY <1>1, MainFrame, QuietKept
<1>2. CASE ConsumerStarts \/ ConsumerStartFails \/ CountThroughFreed
  BY <1>2, QuietKept DEF ConsumerStarts, ConsumerStartFails, CountThroughFreed, StartExe,
     StartFails, CreateThread, Crash, mine
<1>3. CASE ConsumerMoves
  BY <1>3, QuietKept DEF ConsumerMoves, CountProducer, WaitNotEmpty, PopSym, PopFails,
     LeaveLoop, KnownLibrary, SpawnCrashes, JoinGarbage, Crash, trees, mine
<1>4. CASE ConsumerSpawns \/ ConsumerSpawnFails
  <2> DEFINE l == Lookup[sym]
  <2>1. /\ l \in Libs /\ dependency' = dependency \cup {l} /\ undefinedSym' = undefinedSym
        /\ kept' = kept \cup {LibraryNode(l)}
        /\ cpc # "returned" /\ cpc' # "returned" /\ (crc' = "OK" => crc = "OK")
    BY <1>4, LookupType DEF ConsumerSpawns, ConsumerSpawnFails, NewLibrary, SpawnFails,
       CreateThread, NewFound, RingInv, InHand, TypeOK
  <2> HIDE DEF l
  <2>2. LibraryNodes(dependency') = LibraryNodes(dependency) \cup {LibraryNode(l)}
    BY <2>1, NodesGrow
  <2>3. LibraryNode(l) \in LibraryNodes(Libs)
    BY <2>1 DEF LibraryNodes
  <2> QED
    BY <2>1, <2>2, <2>3 DEF KeptInv
<1>5. CASE ConsumerKeeps
  <2>1. /\ sym \in Syms /\ undefinedSym' = undefinedSym \cup {sym} /\ dependency' = dependency
        /\ kept' = kept \cup {IF sym \in undefinedSym THEN LostCopy(sym) ELSE SymbolNode(sym)}
        /\ cpc # "returned" /\ cpc' # "returned" /\ crc' = crc
    BY <1>5 DEF ConsumerKeeps, KeepUndefined, RingInv, InHand, TypeOK
  <2>2. /\ SymbolNodes(undefinedSym') = SymbolNodes(undefinedSym) \cup {SymbolNode(sym)}
        /\ LostCopies(undefinedSym) \subseteq LostCopies(undefinedSym')
        /\ sym \in undefinedSym => LostCopy(sym) \in LostCopies(undefinedSym)
        /\ LostCopy(sym) \in LostCopies(Syms) /\ SymbolNode(sym) \in SymbolNodes(Syms)
    BY <2>1, NodesGrow DEF SymbolNodes
  <2>3. CASE sym \in undefinedSym
    <3>1. undefinedSym' = undefinedSym /\ kept' = kept \cup {LostCopy(sym)}
      BY <2>1, <2>3
    <3> QED
      BY <2>1, <2>2, <2>3, <3>1 DEF KeptInv
  <2>4. CASE sym \notin undefinedSym
    <3>1. kept' = kept \cup {SymbolNode(sym)}
      BY <2>1, <2>4
    <3> QED
      BY <2>1, <2>2, <3>1 DEF KeptInv
  <2> QED
    BY <2>3, <2>4
<1>6. CASE ConsumerAddFails
  <2>1. /\ UNCHANGED trees /\ crc' # "OK" /\ cpc # "returned" /\ cpc' # "returned"
        /\ sym \in Syms
    BY <1>6 DEF ConsumerAddFails, AddFails, NewFound, RingInv, InHand, TypeOK
  <2>2. \/ kept' = kept
        \/ kept' = kept \cup {LibraryNode(Lookup[sym])} /\ Lookup[sym] # NoLib
        \/ kept' = kept \cup {LostCopy(sym)}
    BY <1>6 DEF ConsumerAddFails, NewFound
  <2>3. /\ Lookup[sym] # NoLib => LibraryNode(Lookup[sym]) \in LibraryNodes(Libs)
        /\ LostCopy(sym) \in LostCopies(Syms)
    BY <2>1, LookupType DEF LibraryNodes, LostCopies
  <2> QED
    BY <2>1, <2>2, <2>3 DEF KeptInv, trees
<1>7. CASE ConsumerJoins
  <2>1. /\ UNCHANGED trees /\ crc' = crc /\ cpc' = "returned" /\ cpc # "returned"
        /\ kept' = kept \ SymbolNodes(undefinedSym)
    BY <1>7 DEF ConsumerJoins, JoinProducers
  <2>2. LibraryNodes(dependency) \cap SymbolNodes(undefinedSym) = {}
    BY NodesGrow
  <2> QED
    BY <2>1, <2>2 DEF KeptInv, trees
<1>8. ASSUME NEW p \in Files, ProducerStep(p) /\ UNCHANGED mine  PROVE KeptInv'
  <2>1. UNCHANGED trees /\ kept' = kept
    BY <1>8 DEF mine, ProducerStep, LoadFile, LoadFails, SkipEntry, SendSym, WaitNotFull,
       FinishProducer, ProducerCrashes, TouchFreed, Crash, consumerAndMain
  <2> QED
    BY <1>8, <2>1, ProducerFrame, QuietKept
<1>9. CASE SpuriousWakeUp
  <2>1. UNCHANGED trees /\ kept' = kept
    BY <1>9 DEF SpuriousWakeUp, mine, SpuriousConsumer, SpuriousProducer, consumerAndMain
  <2> QED
    BY <1>9, <2>1, ProducerFrame, QuietKept DEF SpuriousWakeUp
<1>10. ASSUME NEW p \in Files, ReleaseOwn(p)  PROVE KeptInv'
  BY <1>10, QuietKept DEF ReleaseOwn, vars, trees
<1>11. CASE UNCHANGED all
  BY <1>11, QuietKept DEF all, vars, mine, trees
<1> QED
  BY <1>1, <1>2, <1>3, <1>4, <1>5, <1>6, <1>7, <1>8, <1>9, <1>10, <1>11
  DEF NextAll, Consumer, Producer

-----------------------------------------------------------------------------
(* The theorems.                                                           *)

LEMMA ScoutInit == InitAll => ScoutInv
<1> SUFFICES ASSUME InitAll  PROVE ScoutInv
  OBVIOUS
<1>1. RingInv
  BY RingInit DEF InitAll
<1>2. Created = {} /\ Finished = {}
  BY DEF InitAll, Init, Created, Finished
<1>3. CountInv
  BY <1>2, FS_EmptySet DEF InitAll, Init, CountInv, CountAccounts, CreatedDiscovered,
      Uncounted, Files
<1>4. MainTypes /\ HeapInv
  BY DEF InitAll, MainTypes, HeapInv, Held, MainPlaces, Files
<1>5. WorkInv
  BY <1>2 DEF InitAll, Init, WorkInv, Idle, NoneLive, Live
<1>6. KeptInv
  BY DEF InitAll, Init, KeptInv, LibraryNodes, SymbolNodes
<1> QED
  BY <1>1, <1>3, <1>4, <1>5, <1>6 DEF ScoutInv

LEMMA ScoutStep == ScoutInv /\ [NextAll]_all => ScoutInv'
<1> SUFFICES ASSUME ScoutInv, [NextAll]_all  PROVE ScoutInv'
  OBVIOUS
<1>1. NextAll \/ UNCHANGED all
  OBVIOUS
<1>2. CASE NextAll
  BY <1>2, RingKept, CountKept, TypesKept, HeapKept, WorkKept, KeptKept DEF ScoutInv
<1>3. CASE UNCHANGED all
  <2>1. UNCHANGED vars /\ UNCHANGED mine
    BY <1>3 DEF all
  <2>2. RingInv' /\ CountInv'
    BY <2>1, StepKeepsRing, OthersKeepCount DEF ScoutInv
  <2>3. MainTypes' /\ HeapInv' /\ WorkInv' /\ KeptInv'
    BY <2>1 DEF ScoutInv, vars, mine, MainTypes, HeapInv, Held, WorkInv, Created, NoneLive,
                KeptInv
  <2> QED
    BY <2>2, <2>3 DEF ScoutInv
<1> QED
  BY <1>1, <1>2, <1>3

LEMMA ScoutAlways == SpecAll => []ScoutInv
BY ScoutInit, ScoutStep, PTL DEF SpecAll

(* Every state of the whole program has its type, whatever fails.          *)
THEOREM WholeTypeCorrect == SpecAll => []MainTypeOK
<1>1. ScoutInv => MainTypeOK
  BY DEF ScoutInv, RingInv, MainTypes, KeptInv, MainTypeOK
<1> QED
  BY <1>1, ScoutAlways, PTL

(* What the threads keep up among themselves they keep up inside the       *)
(* program as well.                                                        *)
ThreadsInv ==
  /\ NoLostWakeup /\ AnnounceInv /\ LockInv
  /\ HeardInv /\ SoundInv /\ AccountInv /\ CleanRun

LEMMA OnlyProcessKeeps ==
  ASSUME ThreadsInv, OnlyProcess
  PROVE  ThreadsInv'
<1> USE DEF OnlyProcess, ThreadsInv, ring, counts, trees, producers
<1>1. NoLostWakeup' /\ AnnounceInv' /\ LockInv'
  BY DEF NoLostWakeup, IsEmpty, IsFull, AnnounceInv, AtWork, SomeoneLive, NoneLost, LockInv
<1>2. HeardInv' /\ SoundInv'
  <2>1. Heard' = Heard
    BY DEF Heard
  <2> QED
    BY <2>1 DEF HeardInv, HeardOf, SoundInv, SoundFor
<1>3. AccountInv'
  BY DEF AccountInv, AllAccounted, Passed, Accounted
<1>4. CleanRun'
  BY DEF CleanRun, CleanInv, Walked
<1> QED
  BY <1>1, <1>2, <1>3, <1>4

LEMMA ThreadsInvKept ==
  ASSUME ScoutInv, ThreadsInv, [NextAll]_all
  PROVE  ThreadsInv'
<1>1. CASE OnlyProcess
  BY <1>1, OnlyProcessKeeps
<1>2. CASE [Next]_vars
  BY <1>2, StepKeepsWakeup, StepAnnounces, StepKeepsLock, StepKeepsHeard, StepKeepsSound,
     StepKeepsAccounted, StepKeepsClean
  DEF ScoutInv, ThreadsInv
<1>3. [Next]_vars \/ OnlyProcess
  BY PipelineStep DEF all
<1> QED
  BY <1>1, <1>2, <1>3

LEMMA ThreadsInit == InitAll => ThreadsInv
BY SoundInit, AccountInit, CleanInit
DEF InitAll, Init, ThreadsInv, NoLostWakeup, AnnounceInv, AtWork, LockInv, HeardInv, HeardOf

LEMMA ThreadsAlways == SpecAll => []ThreadsInv
BY ThreadsInit, ThreadsInvKept, ScoutAlways, PTL DEF SpecAll

(* What SymPipeline's runs show of the threads alone holds of them inside  *)
(* the program, where main_thread may give up before it starts them or     *)
(* release the buffer after them: ring, counts, wake-ups, the last         *)
(* producer, and what is recorded.                                         *)
THEOREM ThreadsKept ==
  SpecAll => [](/\ SlotsMatchWindow /\ CountAccounts /\ NoLostWakeup
                /\ ConsumerNeverOrphaned /\ Sound /\ NoSymbolLost)
<1>1. ScoutInv /\ ThreadsInv => SlotsMatchWindow /\ CountAccounts /\ NoLostWakeup
  BY DEF ScoutInv, RingInv, CountInv, ThreadsInv
<1>2. ScoutInv /\ ThreadsInv => ConsumerNeverOrphaned
  BY SleeperIsWatched DEF ScoutInv, ThreadsInv
<1>3. ThreadsInv => Sound /\ NoSymbolLost
  BY DEF ThreadsInv, SoundInv, SoundFor, Sound, Unresolvable, AccountInv, NoSymbolLost,
      AllAccounted, Passed
<1> QED
  BY <1>1, <1>2, <1>3, ScoutAlways, ThreadsAlways, PTL

(* The program as a whole hangs in no other way than its threads do: main  *)
(* waits for the consumer only, and producers release what they own        *)
(* without waiting for anybody.                                            *)
THEOREM WholeHangsExplained == SpecAll => []HangsInTwoWays
<1>1. ScoutInv /\ ThreadsInv => HangsInTwoWays
  BY StuckExplained DEF ScoutInv, ThreadsInv
<1> QED
  BY <1>1, ScoutAlways, ThreadsAlways, PTL

(* The program implements Resolution, from its options to its exit.        *)
THEOREM WholeImplements ==
  ASSUME "malloc" \notin Faults
  PROVE  SpecAll => ImplementsResolution
<1>1. InitAll => Abs!Init
  BY InitMaps DEF InitAll
<1>2. ScoutInv /\ ScoutInv' /\ ThreadsInv /\ [NextAll]_all => [Abs!Next]_(Abs!vars)
  <2> SUFFICES ASSUME ScoutInv, ScoutInv', ThreadsInv, [NextAll]_all
               PROVE  [Abs!Next]_(Abs!vars)
    OBVIOUS
  <2>1. CASE [Next]_vars
    BY <2>1, StepMaps DEF ScoutInv, ThreadsInv
  <2>2. CASE OnlyProcess
    BY <2>2, QueueKept, StutterMaps DEF OnlyProcess, AbsKept, producers
  <2>3. [Next]_vars \/ OnlyProcess
    BY PipelineStep DEF all
  <2> QED
    BY <2>1, <2>2, <2>3
<1> QED
  BY <1>1, <1>2, ScoutAlways, ThreadsAlways, PTL DEF SpecAll, ImplementsResolution, Abs!Spec

(* A run that ends in success, with memory enough and nothing left in the  *)
(* ring, has listed exactly what the executable needs as far as the files  *)
(* could be read: no library and no symbol more or less than the least     *)
(* closed set of files asks for, and each file that was not heard has left *)
(* an error, or had no thread.                                             *)
THEOREM ReportsExact == SpecAll => []SuccessIsExact
<1>1. ASSUME ScoutInv, ThreadsInv, process = "exited", mrc = "OK", cpc = "returned", IsEmpty,
             "malloc" \notin Faults,
             NEW S, S = dependency \cup {Exe}
      PROVE  /\ S \in ClosedSets(Heard) /\ \A T \in ClosedSets(Heard) : S \subseteq T
             /\ undefinedSym = Unresolvable(S, Heard)
             /\ \A f \in S \ Heard : prc[f] = "error" \/ ppc[f] = "lost"
  <2>1. crc = "OK" /\ NoneLive
    BY <1>1 DEF ScoutInv, WorkInv
  <2>2. MissingOnlyFromRing
    BY <1>1, <2>1, ReportFromRing DEF ScoutInv, ThreadsInv
  <2>3. /\ Complete
        /\ \A f \in S \ Heard : prc[f] = "error" \/ ppc[f] = "lost"
    BY <1>1, <2>1, <2>2 DEF MissingOnlyFromRing, Reported
  <2>4. Closed(S, Heard) /\ Unresolvable(S, Heard) \subseteq undefinedSym
    BY <1>1, <2>3 DEF Complete
  <2>5. S \in ClosedSets(Heard)
    BY <1>1, <2>4 DEF ClosedSets, Files, ScoutInv, RingInv, TypeOK
  <2>6. \A T \in ClosedSets(Heard) :
          dependency \subseteq T /\ undefinedSym \subseteq Unresolvable(T, Heard)
    BY <1>1 DEF ThreadsInv, SoundInv, SoundFor, Unresolvable
  <2>7. \A T \in ClosedSets(Heard) : S \subseteq T
    BY <1>1, <2>6 DEF ClosedSets
  <2> QED
    BY <2>3, <2>4, <2>5, <2>6, <2>7
<1>2. ScoutInv /\ ThreadsInv => SuccessIsExact
  BY <1>1 DEF SuccessIsExact
<1> QED
  BY <1>2, ScoutAlways, ThreadsAlways, PTL

(* What the program can rely on while memory lasts: the tree of the cache  *)
(* is there once it was made, nobody keeps the mutex, and the buffer goes  *)
(* last.                                                                   *)
MemoryInv ==
  "malloc" \notin Faults =>
    /\ ~lockHeld
    /\ mpc \notin {"options", "cache", "tree", "over"} => "tree" \in heap
    /\ process = "destroyed" => mpc \in {"uncache", "over"}
    /\ CrashesExplained

LEMMA MemoryKept ==
  ASSUME ScoutInv, MemoryInv, NextAll, "malloc" \notin Faults
  PROVE  MemoryInv'
<1> USE DEF MemoryInv, MayFail
<1>1. CASE process = "crashed"
  <2>1. UNCHANGED all
    BY <1>1 DEF NextAll, MainThread, Consumer, Producer, ProducerStep, ReleaseOwn,
        SpuriousWakeUp, SpuriousConsumer, SpuriousProducer
  <2> QED
    BY <1>1, <2>1 DEF all, vars, mine, producers, CrashesExplained, NoneLost
<1>2. CASE process # "crashed" /\ MainThread
  <2>1. CASE process' = "crashed"
    <3>1. JoinNoConsumer \/ SearchCrashes
      BY <1>2, <2>1 DEF MainThread, GoOn, GiveUp, Return, ReadOptions, RefuseOptions,
          AllocCache, AllocCacheFails, InitTree, InitTreeFails, CompileRegex,
          CompileFails, SearchLibs, AllocUserData, AllocUserDataFails, CreateCtx,
          CreateCtxFails, StartConsumer, NoConsumer, JoinConsumer, Release,
          ReleaseCache, ReleaseGarbage, vars
    <3> QED
      BY <2>1, <3>1 DEF JoinNoConsumer, SearchCrashes, Crash, mine, CrashesExplained
  <2>2. CASE process' # "crashed"
    <3> USE DEF GoOn, GiveUp, Return, vars
    <3>1. ~lockHeld'
      BY <1>2, MainFrame
    <3>2. CASE ReadOptions \/ RefuseOptions \/ AllocCache \/ InitTree \/ CompileRegex
      BY <2>2, <3>1, <3>2 DEF ReadOptions, RefuseOptions, AllocCache, InitTree,
          CompileRegex, CrashesExplained
    <3>3. CASE SearchLibs \/ AllocUserData \/ CreateCtx \/ StartConsumer
      BY <2>2, <3>1, <3>3 DEF SearchLibs, AllocUserData, CreateCtx, StartConsumer,
          CrashesExplained
    <3>4. CASE NoConsumer \/ JoinConsumer
      BY <2>2, <3>1, <3>4 DEF NoConsumer, JoinConsumer, CrashesExplained
    <3>5. CASE Release
      BY <2>2, <3>1, <3>5 DEF Release, UserData, Context, CrashesExplained
    <3>6. CASE ReleaseCache
      BY <2>2, <3>1, <3>6 DEF ReleaseCache, CrashesExplained
    <3>7. CASE SearchCrashes \/ JoinNoConsumer \/ ReleaseGarbage
      BY <2>2, <3>7 DEF SearchCrashes, JoinNoConsumer, ReleaseGarbage, Crash
    <3> QED
      BY <1>2, <3>2, <3>3, <3>4, <3>5, <3>6, <3>7
      DEF MainThread, AllocCacheFails, InitTreeFails, CompileFails, AllocUserDataFails,
          CreateCtxFails
  <2> QED
    BY <2>1, <2>2
<1>3. CASE process # "crashed" /\ Consumer
  <2>1. mpc' = mpc /\ ("tree" \in heap' <=> "tree" \in heap)
    BY <1>3, ThreadFrame DEF Held, MainBlocks
  <2>2. lockHeld' = lockHeld /\ process' \in {process, "crashed"}
    BY <1>3 DEF Consumer, ConsumerStarts, ConsumerStartFails, ConsumerSpawns,
        ConsumerSpawnFails, ConsumerKeeps, ConsumerAddFails, CountThroughFreed,
        ConsumerJoins, ConsumerMoves, StartExe, StartFails, NewLibrary, SpawnFails,
        JoinProducers, CountProducer, WaitNotEmpty, PopSym, PopFails, LeaveLoop,
        KeepUndefined, KnownLibrary, AddFails, SpawnCrashes, JoinGarbage, Crash
  <2>3. CASE process' = process
    BY <1>3, <2>1, <2>2, <2>3 DEF CrashesExplained
  <2>4. CASE process' = "crashed" /\ process # "crashed"
    <3>1. CountThroughFreed \/ (JoinGarbage /\ UNCHANGED mine)
      <4>1. ~(\/ ConsumerStarts \/ ConsumerStartFails \/ ConsumerSpawns
              \/ ConsumerSpawnFails \/ ConsumerKeeps \/ ConsumerAddFails \/ ConsumerJoins)
        BY <2>4 DEF ConsumerStarts, ConsumerStartFails, ConsumerSpawns, ConsumerSpawnFails,
           ConsumerKeeps, ConsumerAddFails, ConsumerJoins, StartExe, StartFails, NewLibrary,
           SpawnFails, KeepUndefined, AddFails, JoinProducers
      <4>2. ~(\/ CountProducer \/ WaitNotEmpty \/ PopSym \/ PopFails \/ LeaveLoop
              \/ KnownLibrary \/ SpawnCrashes)
        BY <2>4 DEF CountProducer, WaitNotEmpty, PopSym, PopFails, LeaveLoop, KnownLibrary,
           SpawnCrashes
      <4> QED
        BY <1>3, <4>1, <4>2 DEF Consumer, ConsumerMoves
    <3>2. CrashesExplained'
      BY <3>1 DEF CountThroughFreed, JoinGarbage, Crash, mine, producers,
          CrashesExplained, NoneLost
    <3> QED
      BY <2>1, <2>2, <2>4, <3>2
  <2> QED
    BY <1>3, <2>2, <2>3, <2>4
<1>4. ASSUME NEW p \in Files, process # "crashed", Producer(p)  PROVE MemoryInv'
  <2>1. CASE ReleaseOwn(p)
    <3>1. UNCHANGED <<lockHeld, process, mpc, heap>> /\ process # "crashed"
      BY <1>4, <2>1 DEF ReleaseOwn, vars
    <3> QED
      BY <3>1 DEF CrashesExplained
  <2>2. CASE ProducerStep(p) /\ UNCHANGED mine
    <3>1. ~TouchFreed(p)
      <4> SUFFICES ASSUME TouchFreed(p) PROVE FALSE
        OBVIOUS
      <4>1. process = "destroyed" /\ ppc[p] \in Live
        BY DEF TouchFreed, AtEnd, HasEntry, Live
      <4>2. cpc \in Idle /\ ~lockHeld
        BY <4>1 DEF ScoutInv, WorkInv
      <4>3. NoneLive
        BY <4>2 DEF ScoutInv, WorkInv
      <4> QED
        BY <4>1, <4>3 DEF NoneLive
    <3>2. CASE ProducerCrashes(p)
      <4>1. p \in Odd /\ ppc[p] \in {"start", "walk"}
        BY <3>2 DEF ProducerCrashes
      <4>2. UNCHANGED <<lockHeld, ppc, mpc, heap>> /\ process' = "crashed"
        BY <2>2, <3>2 DEF ProducerCrashes, Crash, producers, mine
      <4>3. Odd \in SUBSET Files
        BY FilesAssumption
      <4> QED
        BY <4>1, <4>2, <4>3 DEF CrashesExplained
    <3>3. CASE ~ProducerCrashes(p)
      <4>1. UNCHANGED <<lockHeld, process>>
        BY <2>2, <3>1, <3>3 DEF ProducerStep, LoadFile, LoadFails, SkipEntry, SendSym,
           WaitNotFull, FinishProducer, consumerAndMain
      <4> QED
        BY <1>4, <2>2, <4>1 DEF mine, CrashesExplained
    <3> QED
      BY <3>2, <3>3
  <2> QED
    BY <1>4, <2>1, <2>2 DEF Producer
<1>5. CASE process # "crashed" /\ SpuriousWakeUp
  BY <1>5 DEF SpuriousWakeUp, SpuriousConsumer, SpuriousProducer, mine, consumerAndMain,
              CrashesExplained
<1>6. CASE UNCHANGED all
  BY <1>6 DEF all, vars, mine, producers, CrashesExplained, NoneLost
<1> QED
  BY <1>1, <1>2, <1>3, <1>4, <1>5, <1>6 DEF NextAll

(* While memory lasts the program comes down over an odd file, where it    *)
(* joins a thread that was never created, or in the race of                *)
(* libscout.c:304, and nowhere else.                                       *)
THEOREM CrashesCorrect == SpecAll => []CrashesExplained
<1>1. InitAll => MemoryInv
  BY DEF InitAll, Init, MemoryInv, CrashesExplained
<1>2. ScoutInv /\ MemoryInv /\ [NextAll]_all => MemoryInv'
  <2> SUFFICES ASSUME ScoutInv, MemoryInv, [NextAll]_all, "malloc" \notin Faults
               PROVE  MemoryInv'
    BY DEF MemoryInv
  <2>1. CASE UNCHANGED all
    BY <2>1 DEF all, vars, mine, producers, MemoryInv, CrashesExplained, NoneLost
  <2> QED
    BY <2>1, MemoryKept
<1>3. MemoryInv => CrashesExplained
  BY DEF MemoryInv, CrashesExplained
<1> QED
  BY <1>1, <1>2, <1>3, ScoutAlways, PTL DEF SpecAll

(* What main_thread, the consumer and the producers share stays allocated  *)
(* while a thread can reach it, but for the buffer after the one return    *)
(* that leaves write_mutex locked and the context of a producer that ends  *)
(* before process_file_sym has counted it.                                 *)
THEOREM ReachableCorrect == SpecAll => []ReachableAllocated
<1>1. ASSUME ScoutInv
      PROVE  /\ (mpc = "join" /\ cpc # "returned") =>
                   {"cache", "tree"} \cup UserData \cup Context \subseteq heap
             /\ \A p \in Files : (ppc[p] \in Live /\ process \in {"running", "destroyed"}
                                 /\ ~lockHeld) => "buffer" \in heap
  <2>1. mpc = "join" => {"cache", "tree"} \cup UserData \cup Context \subseteq heap
    BY <1>1 DEF ScoutInv, HeapInv, Held
  <2>2. (~lockHeld /\ ~NoneLive) => mpc = "join"
    BY <1>1 DEF ScoutInv, WorkInv
  <2> QED
    BY <2>1, <2>2 DEF NoneLive, Context
<1>2. ASSUME ScoutInv, cpc = "count"
      PROVE  own[fresh] = OwnBlocks \/ ppc[fresh] = "finished"
  BY <1>2 DEF ScoutInv, WorkInv
<1>3. ScoutInv => ReachableAllocated
  BY <1>1, <1>2 DEF ScoutInv, ReachableAllocated, WorkInv, KeptInv, Idle
<1> QED
  BY <1>3, ScoutAlways, PTL

(* What a run loses is known: one that reports success loses the nodes of  *)
(* the libraries it lists and second copies of the symbols it lists, and   *)
(* nothing else; one that fails besides at most what the code has no way   *)
(* to release.                                                             *)
THEOREM LossBounded == SpecAll => []LossKnown
<1>1. ASSUME ScoutInv, process = "exited"
      PROVE  /\ (mrc = "OK" /\ AllCreated) =>
                   /\ heap = {} /\ \A p \in Files : own[p] = {}
                   /\ LibraryNodes(dependency) \subseteq kept
                   /\ kept \subseteq LibraryNodes(dependency) \cup LostCopies(undefinedSym)
             /\ heap \cap MainBlocks \subseteq (IF cpc = "returned" THEN {} ELSE {"data"})
             /\ Work \cap heap # {} => crc = "ENOMEM"
  <2>1. /\ mpc = "over" /\ crc \in {"OK", "ENOMEM"} /\ cpc \in Idle
        /\ heap \subseteq MainBlocks \cup Work
    BY <1>1 DEF ScoutInv, WorkInv, RingInv, TypeOK, MainTypes
  <2>2. heap \cap MainBlocks \subseteq (IF cpc = "returned" THEN {} ELSE {"data"})
    BY <1>1, <2>1 DEF ScoutInv, HeapInv, Held
  <2>3. Work \cap heap # {} => crc = "ENOMEM"
    BY <1>1, <2>1 DEF ScoutInv, WorkInv, Idle
  <2>4. ASSUME mrc = "OK", AllCreated
        PROVE  /\ heap = {} /\ \A p \in Files : own[p] = {}
               /\ LibraryNodes(dependency) \subseteq kept
               /\ kept \subseteq LibraryNodes(dependency) \cup LostCopies(undefinedSym)
    <3>1. cpc = "returned" /\ crc = "OK"
      BY <1>1, <2>1, <2>4 DEF AllCreated, ScoutInv, WorkInv
    <3>2. heap \cap Work = {} /\ \A p \in Files : own[p] = {}
      BY <1>1, <2>4, <3>1 DEF AllCreated, NoneLost, ScoutInv, WorkInv
    <3>3. /\ LibraryNodes(dependency) \subseteq kept
          /\ kept \subseteq LibraryNodes(dependency) \cup LostCopies(undefinedSym)
      BY <1>1, <3>1 DEF ScoutInv, KeptInv
    <3> QED
      BY <2>1, <2>2, <3>1, <3>2, <3>3
  <2> QED
    BY <2>2, <2>3, <2>4
<1>2. ScoutInv => LossKnown
  BY <1>1 DEF LossKnown
<1> QED
  BY <1>2, ScoutAlways, PTL
=============================================================================
