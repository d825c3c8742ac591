----------------------- MODULE SymPipelineThreadsProofs -----------------------
(***************************************************************************)
(* Proofs about the producer threads of SymPipeline: how they are counted, *)
(* that the last one to finish releases the consumer, where their ids are  *)
(* written, and that none of them outlives the buffer unnoticed.           *)
(***************************************************************************)
EXTENDS SymPipelineProofs

LEMMA FilesFinite == IsFiniteSet(Files)
BY FilesAssumption, FS_AddElement DEF Files

LEMMA ThreadSetsFinite ==
  /\ IsFiniteSet(Created) /\ Cardinality(Created) \in Nat
  /\ IsFiniteSet(Finished) /\ Cardinality(Finished) \in Nat
<1>1. Created \subseteq Files /\ Finished \subseteq Files
  BY DEF Created, Finished
<1> QED
  BY <1>1, FilesFinite, FS_Subset, FS_CardinalityType

(* Only files the consumer has discovered have a thread.                   *)
CreatedDiscovered ==
  /\ cpc = "start" => Created = {}
  /\ \A l \in Libs : ppc[l] # "none" => l \in dependency

CountInv == CountAccounts /\ CreatedDiscovered

(* A step that creates, finishes and counts no thread.                     *)
LEMMA QuietCount ==
  ASSUME CountAccounts, Created' = Created, Finished' = Finished,
         cpc' = "count" <=> cpc = "count", producerCount' = producerCount
  PROVE  CountAccounts'
BY DEF CountAccounts, Uncounted

LEMMA QuietDiscovered ==
  ASSUME CreatedDiscovered, cpc' = "start" => cpc = "start", Created' = Created,
         dependency \subseteq dependency', Libs \subseteq Files
  PROVE  CreatedDiscovered'
BY DEF CreatedDiscovered, Created

(* A new thread is created and not yet counted.                            *)
LEMMA CreateKeepsCount ==
  ASSUME RingInv, CountInv, NEW f \in Files, ppc[f] = "none", CreateThread(f),
         cpc # "count", producerCount' = producerCount
  PROVE  CountAccounts' /\ Created' = Created \cup {f}
<1>1. ppc' = [ppc EXCEPT ![f] = "start"] \/ ppc' = [ppc EXCEPT ![f] = "lost"]
  BY DEF CreateThread
<1>2. Created' = Created \cup {f} /\ f \notin Created /\ Finished' = Finished
  BY <1>1 DEF Created, Finished, RingInv, TypeOK
<1>3. Cardinality(Created') = Cardinality(Created) + 1
  BY <1>2, ThreadSetsFinite, FS_AddElement
<1>4. cpc' = "count"
  BY DEF CreateThread
<1> QED
  BY <1>2, <1>3, <1>4, ThreadSetsFinite DEF CountInv, CountAccounts, Uncounted, RingInv,
      TypeOK

LEMMA FinishKeepsCount ==
  ASSUME RingInv, CountInv, NEW p \in Files, FinishProducer(p)
  PROVE  CountInv' /\ Created' = Created /\ Finished' = Finished \cup {p}
<1>1. ppc[p] \in {"finish", "walk"} /\ ppc' = [ppc EXCEPT ![p] = "finished"]
  BY DEF FinishProducer, AtEnd, MoveTo
<1>2. Created' = Created /\ Finished' = Finished \cup {p} /\ p \notin Finished
  BY <1>1 DEF Created, Finished, RingInv, TypeOK
<1>3. Cardinality(Finished') = Cardinality(Finished) + 1
  BY <1>2, ThreadSetsFinite, FS_AddElement
<1>4. producerCount' = producerCount - 1 /\ producerCount \in Int
  BY DEF FinishProducer, RingInv, TypeOK
<1>5. (cpc' = "count" <=> cpc = "count") /\ (cpc' = "start" => cpc = "start")
  BY DEF FinishProducer, Signalled
<1>6. CountAccounts'
  BY <1>2, <1>3, <1>4, <1>5, ThreadSetsFinite DEF CountInv, CountAccounts, Uncounted
<1>7. CreatedDiscovered'
  BY <1>2, <1>5, QuietDiscovered
  DEF CountInv, FinishProducer, consumerAndMain, trees, Files
<1> QED
  BY <1>2, <1>6, <1>7 DEF CountInv

LEMMA ConsumerKeepsCount ==
  ASSUME RingInv, CountInv, ConsumerStep
  PROVE  CountInv'
<1> USE DEF CountInv, RingInv
<1>0. Libs \subseteq Files /\ Exe \in Files
  BY DEF Files
<1>1. CASE StartExe
  <2>1. Created = {} /\ ppc[Exe] = "none" /\ Created \subseteq Files
    BY <1>0, <1>1 DEF StartExe, CreatedDiscovered, Created
  <2>2. CountAccounts' /\ Created' = Created \cup {Exe}
    BY <1>0, <1>1, <2>1, CreateKeepsCount DEF StartExe, counts
  <2>3. CreatedDiscovered'
    <3>1. cpc' = "count"
      BY <1>1 DEF StartExe, CreateThread
    <3>2. \A l \in Libs : l \notin Created'
      BY <2>1, <2>2, FilesAssumption
    <3> QED
      BY <1>0, <3>1, <3>2 DEF CreatedDiscovered, Created
  <2> QED
    BY <2>2, <2>3
<1>2. CASE NewLibrary
  <2> DEFINE l == Lookup[sym]
  <2>1. l \in Libs /\ l \notin dependency /\ cpc = "check"
    BY <1>2, LookupType DEF NewLibrary, NewFound, TypeOK, InHand
  <2>2. ppc[l] = "none"
    BY <2>1 DEF CreatedDiscovered
  <2>3. CreateThread(l) /\ producerCount' = producerCount
    BY <1>2 DEF NewLibrary, counts
  <2>4. dependency' = dependency \cup {l}
    BY <1>2 DEF NewLibrary
  <2> HIDE DEF l
  <2>5. CountAccounts' /\ Created' = Created \cup {l}
    BY <1>0, <2>1, <2>2, <2>3, CreateKeepsCount
  <2>6. CreatedDiscovered'
    <3>1. cpc' = "count"
      BY <2>3 DEF CreateThread
    <3>2. \A m \in Libs : m \in Created' => m \in dependency'
      BY <1>0, <2>4, <2>5 DEF CreatedDiscovered, Created
    <3> QED
      BY <1>0, <3>1, <3>2 DEF CreatedDiscovered, Created
  <2> QED
    BY <2>5, <2>6
<1>3. CASE CountProducer
  <2>1. Created' = Created /\ Finished' = Finished
    BY <1>3 DEF CountProducer, producers, Created, Finished
  <2>2. CountAccounts'
    BY <1>3, <2>1, ThreadSetsFinite DEF CountProducer, CountAccounts, Uncounted, TypeOK
  <2> QED
    BY <1>0, <1>3, <2>1, <2>2, QuietDiscovered DEF CountProducer, trees
<1>4. CASE PopSym
  <2>1. Created' = Created /\ Finished' = Finished
    BY <1>4 DEF PopSym, Woken, Created, Finished
  <2> QED
    BY <1>0, <1>4, <2>1, QuietCount, QuietDiscovered DEF PopSym, counts, trees
<1>5. CASE \/ StartFails \/ WaitNotEmpty \/ PopFails \/ LeaveLoop \/ KeepUndefined
           \/ KnownLibrary \/ AddFails \/ SpawnFails \/ JoinProducers
  <2>1. Created' = Created /\ Finished' = Finished
    BY <1>5 DEF StartFails, WaitNotEmpty, PopFails, LeaveLoop, KeepUndefined, KnownLibrary,
                AddFails, SpawnFails, JoinProducers, producers, Created, Finished
  <2>2. /\ producerCount' = producerCount
        /\ cpc # "count" /\ cpc' # "count" /\ cpc' # "start"
        /\ dependency \subseteq dependency'
    BY <1>5 DEF StartFails, WaitNotEmpty, PopFails, LeaveLoop, KeepUndefined, KnownLibrary,
                AddFails, SpawnFails, JoinProducers, NewFound, counts, trees
  <2> QED
    BY <1>0, <2>1, <2>2, QuietCount, QuietDiscovered
<1>6. CASE Crash
  <2>1. Created' = Created /\ Finished' = Finished
    BY <1>6 DEF Crash, producers, Created, Finished
  <2> QED
    BY <1>0, <1>6, <2>1, QuietCount, QuietDiscovered DEF Crash, counts, trees
<1> QED
  BY <1>1, <1>2, <1>3, <1>4, <1>5, <1>6 DEF ConsumerStep, SpawnCrashes, JoinGarbage

LEMMA OthersKeepCount ==
  ASSUME RingInv, CountInv,
         \/ SpuriousConsumer \/ MainStep \/ UNCHANGED vars
         \/ \E p \in Files : ProducerStep(p) \/ SpuriousProducer(p)
  PROVE  CountInv'
<1> USE DEF CountInv, RingInv
<1>0. Libs \subseteq Files
  BY DEF Files
<1>1. CASE SpuriousConsumer \/ MainStep \/ Crash \/ UNCHANGED vars
  <2>1. /\ Created' = Created /\ Finished' = Finished
        /\ producerCount' = producerCount /\ dependency' = dependency
    BY <1>1 DEF SpuriousConsumer, MainStep, DestroyBuffer, Exit, Crash, vars, counts, trees,
                producers, consumerAndMain, Created, Finished
  <2>2. (cpc' = "count" <=> cpc = "count") /\ (cpc' = "start" => cpc = "start")
    BY <1>1 DEF SpuriousConsumer, MainStep, DestroyBuffer, Exit, Crash, vars
  <2> QED
    BY <1>0, <2>1, <2>2, QuietCount, QuietDiscovered
<1>2. ASSUME NEW p \in Files,
             \/ LoadFile(p) \/ LoadFails(p) \/ SkipEntry(p) \/ SendSym(p) \/ WaitNotFull(p)
             \/ SpuriousProducer(p)
      PROVE  CountInv'
  <2>1. Created' = Created /\ Finished' = Finished
    BY <1>2 DEF LoadFile, LoadFails, SkipEntry, SendSym, WaitNotFull, SpuriousProducer,
        HasEntry, MoveTo, Created, Finished, TypeOK
  <2>2. producerCount' = producerCount /\ dependency' = dependency
    BY <1>2 DEF LoadFile, LoadFails, SkipEntry, SendSym, WaitNotFull, SpuriousProducer,
                consumerAndMain, counts, trees
  <2>3. (cpc' = "count" <=> cpc = "count") /\ (cpc' = "start" => cpc = "start")
    BY <1>2 DEF LoadFile, LoadFails, SkipEntry, SendSym, WaitNotFull, SpuriousProducer,
        Signalled
  <2> QED
    BY <1>0, <2>1, <2>2, <2>3, QuietCount, QuietDiscovered
<1>3. ASSUME NEW p \in Files, FinishProducer(p)  PROVE CountInv'
  BY <1>3, FinishKeepsCount
<1> QED
  BY <1>1, <1>2, <1>3 DEF ProducerStep, ProducerCrashes, TouchFreed

LEMMA CountInvariant == Spec => []CountInv
<1>1. Init => CountInv
  <2> SUFFICES ASSUME Init PROVE CountInv
    OBVIOUS
  <2>1. Created = {} /\ Finished = {}
    BY DEF Init, Created, Finished
  <2> QED
    BY <2>1, FS_EmptySet DEF Init, CountInv, CountAccounts, CreatedDiscovered,
        Uncounted, Files
<1>2. RingInv /\ CountInv /\ [Next]_vars => CountInv'
  BY ConsumerKeepsCount, OthersKeepCount DEF Next, Over
<1> QED
  BY <1>1, <1>2, RingInvariant, PTL DEF Spec

(* producer_count is at every moment the number of threads started and     *)
(* counted less those that have finished.                                  *)
THEOREM CountIsExact == Spec => []CountAccounts
<1>1. CountInv => CountAccounts
  BY DEF CountInv
<1> QED
  BY CountInvariant, <1>1, PTL

-----------------------------------------------------------------------------
(* The last producer.                                                      *)

(* While the consumer is at work a thread is live, or the end of           *)
(* production has been announced, or a counted thread was never created.   *)
SomeoneLive == \E p \in Files : ppc[p] \in Live
AtWork == cpc \in {"count", "loop", "waiting", "check"}
AnnounceInv == AtWork => (producerDone \/ SomeoneLive \/ ~NoneLost)

(* A step that leaves every live thread live and every lost one lost.      *)
LEMMA QuietAnnounce ==
  ASSUME AnnounceInv, AtWork' => AtWork, producerDone' = producerDone,
         \A p \in Files : /\ ppc[p] \in Live => ppc'[p] \in Live
                          /\ ppc[p] = "lost" => ppc'[p] = "lost"
  PROVE  AnnounceInv'
BY DEF AnnounceInv, NoneLost, SomeoneLive

LEMMA CreateAnnounces ==
  ASSUME RingInv, NEW f \in Files, CreateThread(f)
  PROVE  AnnounceInv'
<1>1. ppc'[f] \in {"start", "lost"}
  BY DEF CreateThread, RingInv, TypeOK
<1> QED
  BY <1>1 DEF AnnounceInv, SomeoneLive, NoneLost, Live

(* The thread that finishes last finds producer_count at zero, or below    *)
(* when it is not counted yet.                                             *)
LEMMA FinishAnnounces ==
  ASSUME RingInv, CountInv, NEW p \in Files, FinishProducer(p)
  PROVE  AnnounceInv'
<1> SUFFICES ASSUME ~SomeoneLive', NoneLost' PROVE producerDone'
  BY DEF AnnounceInv
<1>1. ppc' = [ppc EXCEPT ![p] = "finished"]
  BY DEF FinishProducer, MoveTo
<1>2. \A q \in Files : ppc'[q] \in {"none", "finished"}
  <2>1. ppc' \in [Files -> ProducerPlaces]
    BY <1>1 DEF RingInv, TypeOK, ProducerPlaces
  <2> QED
    BY <2>1 DEF SomeoneLive, NoneLost, Live, ProducerPlaces
<1>3. Created' = Finished'
  BY <1>2 DEF Created, Finished
<1>4. CountAccounts' /\ Cardinality(Created') \in Nat
  BY FinishKeepsCount, ThreadSetsFinite DEF CountInv
<1>5. producerCount' <= 0
  BY <1>3, <1>4 DEF CountAccounts, Uncounted
<1> QED
  BY <1>5 DEF FinishProducer, LastProducer

LEMMA StepAnnounces ==
  ASSUME RingInv, CountInv, AnnounceInv, [Next]_vars
  PROVE  AnnounceInv'
<1> USE DEF RingInv
<1>1. CASE StartExe
  BY <1>1, CreateAnnounces DEF StartExe, Files
<1>2. CASE NewLibrary
  <2>1. Lookup[sym] \in Files
    BY <1>2, LookupType DEF NewLibrary, NewFound, TypeOK, InHand, Files
  <2> QED
    BY <1>2, <2>1, CreateAnnounces DEF NewLibrary
<1>3. CASE PopSym
  BY <1>3, QuietAnnounce DEF PopSym, Woken, Live, AtWork, counts
<1>4. CASE \/ StartFails \/ CountProducer \/ WaitNotEmpty \/ PopFails \/ LeaveLoop
           \/ KeepUndefined \/ KnownLibrary \/ AddFails \/ SpawnFails \/ JoinProducers
  <2>1. ppc' = ppc /\ producerDone' = producerDone
    BY <1>4 DEF StartFails, CountProducer, WaitNotEmpty, PopFails, LeaveLoop, KeepUndefined,
                KnownLibrary, AddFails, SpawnFails, JoinProducers, counts, producers
  <2>2. AtWork' => AtWork
    BY <1>4 DEF StartFails, CountProducer, WaitNotEmpty, PopFails, LeaveLoop, KeepUndefined,
                KnownLibrary, AddFails, SpawnFails, JoinProducers, AtWork
  <2> QED
    BY <2>1, <2>2, QuietAnnounce
<1>5. CASE SpuriousConsumer \/ MainStep \/ Crash \/ UNCHANGED vars
  <2>1. ppc' = ppc /\ producerDone' = producerDone /\ (AtWork' => AtWork)
    BY <1>5 DEF SpuriousConsumer, MainStep, DestroyBuffer, Exit, Crash, vars, counts,
                producers, consumerAndMain, AtWork
  <2> QED
    BY <2>1, QuietAnnounce
<1>6. ASSUME NEW p \in Files,
             \/ LoadFile(p) \/ LoadFails(p) \/ SkipEntry(p) \/ SendSym(p) \/ WaitNotFull(p)
             \/ SpuriousProducer(p)
      PROVE  AnnounceInv'
  <2>1. \A q \in Files : /\ ppc[q] \in Live => ppc'[q] \in Live
                         /\ ppc[q] = "lost" => ppc'[q] = "lost"
    BY <1>6 DEF LoadFile, LoadFails, SkipEntry, SendSym, WaitNotFull, SpuriousProducer,
        HasEntry, MoveTo, Live, TypeOK
  <2>2. producerDone' = producerDone /\ (AtWork' => AtWork)
    BY <1>6 DEF LoadFile, LoadFails, SkipEntry, SendSym, WaitNotFull, SpuriousProducer,
        Signalled, counts, AtWork
  <2> QED
    BY <2>1, <2>2, QuietAnnounce
<1>7. ASSUME NEW p \in Files, FinishProducer(p)  PROVE AnnounceInv'
  BY <1>7, FinishAnnounces
<1> QED
  BY <1>1, <1>2, <1>3, <1>4, <1>5, <1>6, <1>7
  DEF Next, Over, ConsumerStep, SpawnCrashes, JoinGarbage, ProducerStep, ProducerCrashes,
      TouchFreed

LEMMA AnnounceInvariant == Spec => []AnnounceInv
<1>1. Init => AnnounceInv
  BY DEF Init, AnnounceInv, AtWork
<1>2. RingInv /\ CountInv /\ AnnounceInv /\ [Next]_vars => AnnounceInv'
  BY StepAnnounces
<1> QED
  BY <1>1, <1>2, RingInvariant, CountInvariant, PTL DEF Spec

(* A consumer asleep on not_empty always has a producer that can run and   *)
(* will wake it, although the threads are created before they are counted, *)
(* unless it waits for one that was never created.                         *)
LEMMA SleeperIsWatched ==
  ASSUME RingInv, NoLostWakeup, AnnounceInv
  PROVE  ConsumerNeverOrphaned
<1> SUFFICES ASSUME cpc = "waiting"
             PROVE  \E p \in Files : ppc[p] \in {"start", "walk", "finish", "lost"}
  BY DEF ConsumerNeverOrphaned
<1>1. IsEmpty /\ ~producerDone
  BY DEF NoLostWakeup
<1>2. PICK p \in Files : ppc[p] \in Live \cup {"lost"}
  BY <1>1 DEF AnnounceInv, SomeoneLive, NoneLost, AtWork
<1>3. ppc[p] # "waiting"
  BY <1>1, FullNotEmpty DEF RingInv, NoLostWakeup
<1> QED
  BY <1>2, <1>3 DEF Live

THEOREM NeverOrphaned == Spec => []ConsumerNeverOrphaned
BY SleeperIsWatched, RingInvariant, AnnounceInvariant, WakeupsKept, PTL

(* Nobody waits for ever for the mutex: it is kept locked only by a        *)
(* consumer that has returned.                                             *)
LockInv == lockHeld => cpc = "returned"

LEMMA StepKeepsLock ==
  ASSUME LockInv, [Next]_vars
  PROVE  LockInv'
BY DEF LockInv, Next, Over, vars, ConsumerStep, StartExe, CreateThread, StartFails,
    CountProducer, WaitNotEmpty, PopSym, PopFails, LeaveLoop, KeepUndefined,
    KnownLibrary, NewLibrary, NewFound, AddFails, SpawnFails, SpawnCrashes,
    JoinProducers, JoinGarbage, Crash, ProducerStep, LoadFile, LoadFails, SkipEntry,
    SendSym, WaitNotFull, FinishProducer, ProducerCrashes, TouchFreed, Signalled,
    SpuriousConsumer, SpuriousProducer, MainStep, DestroyBuffer, Exit, consumerAndMain

LEMMA StuckExplained ==
  ASSUME RingInv, NoLostWakeup, AnnounceInv, LockInv
  PROVE  HangsInTwoWays
<1> SUFFICES ASSUME Stuck
             PROVE  \/ cpc = "waiting" /\ \E p \in Files : ppc[p] = "lost"
                    \/ cpc = "join" /\ IsFull /\ \E p \in Files : ppc[p] = "waiting"
  BY DEF HangsInTwoWays
<1>1. ~lockHeld
  BY DEF Stuck, LockInv
<1>2. CASE cpc = "waiting"
  BY <1>1, <1>2, SleeperIsWatched DEF ConsumerNeverOrphaned, Stuck
<1>3. CASE cpc = "join"
  <2>1. PICK p \in Files : ppc[p] \in Live
    BY <1>3 DEF Stuck
  <2>2. ppc[p] = "waiting"
    BY <1>1, <2>1 DEF Stuck, Live
  <2> QED
    BY <1>3, <2>2 DEF NoLostWakeup
<1> QED
  BY <1>2, <1>3 DEF Stuck

(* However the threads interleave and whatever fails, they come to a stop  *)
(* in two ways only: waiting for a thread that does not exist, or joining  *)
(* producers that a full ring holds up.                                    *)
THEOREM HangsExplained == Spec => []HangsInTwoWays
<1>1. Init => LockInv
  BY DEF Init, LockInv
<1>2. LockInv /\ [Next]_vars => LockInv'
  BY StepKeepsLock
<1> QED
  BY <1>1, <1>2, StuckExplained, RingInvariant, AnnounceInvariant, WakeupsKept, PTL DEF Spec

-----------------------------------------------------------------------------
(* The array of thread ids.                                                *)

(* The array has room for every counted thread, and for one more whenever  *)
(* process_file_sym is about to write an id.                               *)
ArrayInv ==
  /\ nProducers <= arrSize
  /\ cpc \in {"start", "count"} => nProducers < arrSize

LEMMA GrownHasRoom ==
  ASSUME TypeOK, nProducers <= arrSize
  PROVE  nProducers < Grown
BY DEF TypeOK, Grown

LEMMA StepKeepsArray ==
  ASSUME RingInv, ArrayInv, [Next]_vars
  PROVE  ArrayInv'
<1> USE DEF RingInv, ArrayInv
<1>1. CASE StartExe
  BY <1>1 DEF StartExe, TypeOK
<1>2. CASE NewLibrary
  BY <1>2, GrownHasRoom, GrownType DEF NewLibrary, TypeOK
<1>3. CASE SpawnFails
  BY <1>3, GrownHasRoom, GrownType DEF SpawnFails, TypeOK
<1>4. CASE CountProducer
  BY <1>4 DEF CountProducer, TypeOK
<1>5. CASE \/ StartFails \/ PopSym \/ WaitNotEmpty \/ PopFails \/ LeaveLoop
           \/ KeepUndefined \/ KnownLibrary \/ AddFails \/ JoinProducers
  BY <1>5 DEF StartFails, PopSym, WaitNotEmpty, PopFails, LeaveLoop, KeepUndefined,
              KnownLibrary, AddFails, JoinProducers
<1>6. CASE SpuriousConsumer \/ MainStep \/ Crash \/ UNCHANGED vars
  BY <1>6 DEF SpuriousConsumer, MainStep, DestroyBuffer, Exit, Crash, vars, consumerAndMain
<1>7. ASSUME NEW p \in Files, ProducerStep(p) \/ SpuriousProducer(p), ~Crash  PROVE ArrayInv'
  <2>1. nProducers' = nProducers /\ arrSize' = arrSize
    BY <1>7 DEF ProducerStep, LoadFile, LoadFails, SkipEntry, SendSym, WaitNotFull,
        FinishProducer, ProducerCrashes, TouchFreed, SpuriousProducer, consumerAndMain
  <2>2. cpc' \in {"start", "count"} => cpc' = cpc
    BY <1>7 DEF ProducerStep, LoadFile, LoadFails, SkipEntry, SendSym, WaitNotFull,
        FinishProducer, ProducerCrashes, TouchFreed, SpuriousProducer, Signalled
  <2> QED
    BY <2>1, <2>2
<1> QED
  BY <1>1, <1>2, <1>3, <1>4, <1>5, <1>6, <1>7
  DEF Next, Over, ConsumerStep, SpawnCrashes, JoinGarbage

(* However many libraries are discovered, the id of a new thread is        *)
(* written inside producer_thread_arr.                                     *)
THEOREM IdsFit == Spec => []SlotInArray
<1>1. Init => ArrayInv
  BY PipelineAssumption DEF Init, ArrayInv
<1>2. RingInv /\ ArrayInv /\ [Next]_vars => ArrayInv'
  BY StepKeepsArray
<1>3. ArrayInv => SlotInArray
  BY DEF ArrayInv, SlotInArray
<1> QED
  BY <1>1, <1>2, <1>3, RingInvariant, PTL DEF Spec

-----------------------------------------------------------------------------
(* One thread for a file.                                                  *)

LEMMA StepStartsOnce ==
  ASSUME RingInv, CountInv, [Next]_vars, NEW p \in Files, ppc'[p] \in {"start", "lost"}
  PROVE  ppc[p] \in {"none", ppc'[p]}
<1> USE DEF RingInv
<1>1. CASE StartExe
  <2>1. ppc[Exe] = "none" /\ Exe \in Files
    BY <1>1 DEF StartExe, CountInv, CreatedDiscovered, Created, Files
  <2> QED
    BY <1>1, <2>1 DEF StartExe, CreateThread, TypeOK
<1>2. CASE NewLibrary
  <2>1. Lookup[sym] \in Libs /\ Lookup[sym] \notin dependency
    BY <1>2, LookupType DEF NewLibrary, NewFound, TypeOK, InHand
  <2>2. ppc[Lookup[sym]] = "none"
    BY <2>1 DEF CountInv, CreatedDiscovered
  <2>3. CreateThread(Lookup[sym])
    BY <1>2 DEF NewLibrary
  <2> QED
    BY <2>2, <2>3 DEF CreateThread, TypeOK
<1>3. CASE PopSym
  BY <1>3 DEF PopSym, Woken
<1>4. CASE \/ StartFails \/ CountProducer \/ WaitNotEmpty \/ PopFails \/ LeaveLoop
           \/ KeepUndefined \/ KnownLibrary \/ AddFails \/ SpawnFails \/ JoinProducers
  BY <1>4 DEF StartFails, CountProducer, WaitNotEmpty, PopFails, LeaveLoop, KeepUndefined,
              KnownLibrary, AddFails, SpawnFails, JoinProducers, producers
<1>5. CASE SpuriousConsumer \/ MainStep \/ Crash \/ UNCHANGED vars
  BY <1>5 DEF SpuriousConsumer, MainStep, DestroyBuffer, Exit, Crash, vars, producers
<1>6. ASSUME NEW q \in Files,
             \/ LoadFile(q) \/ LoadFails(q) \/ WaitNotFull(q)
             \/ FinishProducer(q) \/ SpuriousProducer(q)
      PROVE  ppc'[p] = ppc[p]
  BY <1>6 DEF LoadFile, LoadFails, WaitNotFull, FinishProducer, SpuriousProducer,
      MoveTo, TypeOK
<1>7. ASSUME NEW q \in Files, SkipEntry(q) \/ SendSym(q)
      PROVE  ppc'[p] = ppc[p]
  BY <1>7 DEF SkipEntry, SendSym
<1> QED
  BY <1>1, <1>2, <1>3, <1>4, <1>5, <1>6, <1>7
  DEF Next, Over, ConsumerStep, SpawnCrashes, JoinGarbage, ProducerStep, ProducerCrashes,
      TouchFreed

(* However often the symbols of a library are looked up, from however many *)
(* files, its file is handed to one thread only; so is the executable.     *)
THEOREM ThreadsStartOnce == Spec => StartedOnce
<1>1. RingInv /\ CountInv /\ [Next]_vars =>
        [\A p \in Files : ppc'[p] \in {"start", "lost"} => ppc[p] \in {"none", ppc'[p]}]_vars
  BY StepStartsOnce
<1> QED
  BY <1>1, RingInvariant, CountInvariant, PTL DEF Spec, StartedOnce

(* While the consumer has met no error each library of the tree has its    *)
(* thread, or is taken to have one.                                        *)
ListedInv == crc = "OK" => \A l \in dependency : ppc[l] # "none"

LEMMA StepKeepsListed ==
  ASSUME RingInv, ListedInv, [Next]_vars
  PROVE  ListedInv'
<1> USE DEF RingInv, ListedInv
<1>0. dependency \subseteq Files
  BY DEF TypeOK, Files
<1>1. CASE StartExe
  BY <1>0, <1>1 DEF StartExe, CreateThread, trees, TypeOK
<1>2. CASE NewLibrary
  <2> DEFINE l == Lookup[sym]
  <2>1. l \in Files
    BY <1>2, LookupType DEF NewLibrary, NewFound, TypeOK, InHand, Files
  <2>2. CreateThread(l) /\ dependency' = dependency \cup {l} /\ crc' = crc
    BY <1>2 DEF NewLibrary
  <2> HIDE DEF l
  <2> QED
    BY <1>0, <2>1, <2>2 DEF CreateThread, TypeOK
<1>3. CASE PopSym
  BY <1>0, <1>3 DEF PopSym, Woken, trees
<1>4. CASE \/ CountProducer \/ WaitNotEmpty \/ LeaveLoop
           \/ KeepUndefined \/ KnownLibrary \/ JoinProducers
  BY <1>4 DEF CountProducer, WaitNotEmpty, LeaveLoop, KeepUndefined, KnownLibrary,
              JoinProducers, producers, trees
<1>5. CASE StartFails \/ PopFails \/ AddFails \/ SpawnFails
  BY <1>5 DEF StartFails, PopFails, AddFails, SpawnFails
<1>6. CASE SpuriousConsumer \/ MainStep \/ Crash \/ UNCHANGED vars
  BY <1>6 DEF SpuriousConsumer, MainStep, DestroyBuffer, Exit, Crash, vars, producers,
              consumerAndMain, trees
<1>7. ASSUME NEW q \in Files,
             \/ LoadFile(q) \/ LoadFails(q) \/ WaitNotFull(q)
             \/ FinishProducer(q) \/ SpuriousProducer(q)
      PROVE  ListedInv'
  <2>1. /\ UNCHANGED <<crc, dependency>>
        /\ \E place \in ProducerPlaces \ {"none"} : ppc' = [ppc EXCEPT ![q] = place]
    BY <1>7 DEF LoadFile, LoadFails, WaitNotFull, FinishProducer, SpuriousProducer, MoveTo,
                consumerAndMain, trees, ProducerPlaces
  <2> QED
    BY <1>0, <2>1 DEF TypeOK
<1>8. ASSUME NEW q \in Files, SkipEntry(q) \/ SendSym(q)
      PROVE  ListedInv'
  BY <1>8 DEF SkipEntry, SendSym, consumerAndMain, trees
<1> QED
  BY <1>1, <1>2, <1>3, <1>4, <1>5, <1>6, <1>7, <1>8
  DEF Next, Over, ConsumerStep, SpawnCrashes, JoinGarbage, ProducerStep, ProducerCrashes,
      TouchFreed

(* A library enters the tree before its thread is started, and what fails  *)
(* in between is noted in rc: no report lists a library that was never     *)
(* handed to a thread.                                                     *)
THEOREM ListedAreStarted == Spec => []ListedHaveThreads
<1>1. Init => ListedInv
  BY DEF Init, ListedInv
<1>2. RingInv /\ ListedInv /\ [Next]_vars => ListedInv'
  BY StepKeepsListed
<1>3. ListedInv => ListedHaveThreads
  BY DEF ListedInv, ListedHaveThreads, Reported
<1> QED
  BY <1>1, <1>2, <1>3, RingInvariant, PTL DEF Spec

-----------------------------------------------------------------------------
(* The life of the buffer.                                                 *)

(* The buffer is destroyed after the consumer's return, and no producer is *)
(* live then unless the consumer kept the mutex.                           *)
NoneLive == \A p \in Files : ppc[p] \notin Live
OutliveInv ==
  /\ process = "destroyed" => cpc = "returned"
  /\ (cpc = "returned" /\ ~lockHeld) => NoneLive

LEMMA StepKeepsBuffer ==
  ASSUME RingInv, CountInv, OutliveInv, [Next]_vars
  PROVE  OutliveInv'
<1> USE DEF RingInv, OutliveInv
<1>1. CASE ConsumerStep
  <2>1. process' = "destroyed" => process = "destroyed"
    BY <1>1 DEF ConsumerStep, StartExe, StartFails, CountProducer, WaitNotEmpty, PopSym,
                PopFails, LeaveLoop, KeepUndefined, KnownLibrary, NewLibrary, AddFails,
                SpawnFails, SpawnCrashes, JoinProducers, JoinGarbage, Crash
  <2>2. ASSUME cpc' = "returned", ~lockHeld'  PROVE NoneLive'
    <3>1. CASE StartFails
      <4>1. Created = {}
        BY <3>1 DEF StartFails, CountInv, CreatedDiscovered
      <4> QED
        BY <3>1, <4>1 DEF StartFails, NoneLive, Created, Live, producers
    <3>2. CASE JoinProducers
      BY <3>2 DEF JoinProducers, NoneLive, producers
    <3>3. CASE Crash
      BY <2>2, <3>3 DEF Crash, NoneLive, producers
    <3> QED
      BY <1>1, <2>2, <3>1, <3>2, <3>3
      DEF ConsumerStep, StartExe, CreateThread, CountProducer, WaitNotEmpty, PopSym,
          PopFails, LeaveLoop, KeepUndefined, KnownLibrary, NewLibrary, AddFails,
          SpawnFails, SpawnCrashes, JoinGarbage
  <2>3. process = "running"
    BY <1>1 DEF ConsumerStep
  <2> QED
    BY <2>1, <2>2, <2>3
<1>2. ASSUME NEW p \in Files, ProducerStep(p) \/ SpuriousProducer(p)  PROVE OutliveInv'
  <2>1. CASE Crash
    BY <2>1 DEF Crash, NoneLive, producers
  <2>2. CASE ~Crash
    <3>1. process' = process /\ lockHeld' = lockHeld
      BY <1>2, <2>2 DEF ProducerStep, LoadFile, LoadFails, SkipEntry, SendSym,
          WaitNotFull, FinishProducer, ProducerCrashes, TouchFreed, SpuriousProducer,
          consumerAndMain
    <3>2. cpc' = "returned" <=> cpc = "returned"
      BY <1>2, <2>2 DEF ProducerStep, LoadFile, LoadFails, SkipEntry, SendSym,
          WaitNotFull, FinishProducer, ProducerCrashes, TouchFreed, SpuriousProducer,
          Signalled
    <3>3. NoneLive => NoneLive'
      BY <1>2, <2>2 DEF ProducerStep, LoadFile, LoadFails, SkipEntry, SendSym,
          WaitNotFull, FinishProducer, ProducerCrashes, TouchFreed, SpuriousProducer,
          HasEntry, AtEnd, Live, NoneLive
    <3> QED
      BY <3>1, <3>2, <3>3
  <2> QED
    BY <2>1, <2>2
<1>3. CASE SpuriousConsumer
  BY <1>3 DEF SpuriousConsumer, consumerAndMain
<1>4. CASE MainStep
  BY <1>4 DEF MainStep, DestroyBuffer, Exit, NoneLive, producers
<1>5. CASE UNCHANGED vars
  BY <1>5 DEF vars, NoneLive
<1> QED
  BY <1>1, <1>2, <1>3, <1>4, <1>5 DEF Next, Over

LEMMA OutliveInvariant == Spec => []OutliveInv
<1>1. Init => OutliveInv
  BY DEF Init, OutliveInv
<1>2. RingInv /\ CountInv /\ OutliveInv /\ [Next]_vars => OutliveInv'
  BY StepKeepsBuffer
<1> QED
  BY <1>1, <1>2, RingInvariant, CountInvariant, PTL DEF Spec

(* main_thread frees a buffer that no producer can touch any more, except  *)
(* after the one return that leaves write_mutex locked.                    *)
THEOREM BufferSafe == Spec => []BufferOutlivesProducers
<1>1. OutliveInv => BufferOutlivesProducers
  BY DEF OutliveInv, BufferOutlivesProducers, NoneLive
<1> QED
  BY <1>1, OutliveInvariant, PTL
=============================================================================
