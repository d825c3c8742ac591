-------------------------- MODULE SymPipelineProofs --------------------------
(***************************************************************************)
(* Proofs that the safety properties of SymPipeline hold for every ring    *)
(* size, every set of files and every .dynsym table.                       *)
(***************************************************************************)
EXTENDS SymPipeline, SymFilesProofs

-----------------------------------------------------------------------------
(* The ring.                                                               *)

(* The full test's modulus and the advance's comparison agree on what the  *)
(* next slot is, and the advance stays inside the array.                   *)
LEMMA NextIndexIsMod ==
  ASSUME NEW i \in Slots
  PROVE  /\ NextIndex(i) \in Slots
         /\ (i + 1) % Cap = NextIndex(i)
<1>1. i \in Int /\ Cap \in Int /\ Cap >= 2 /\ 0 <= i /\ i < Cap
  BY PipelineAssumption DEF Slots
<1>2. CASE i + 1 < Cap
  <2>1. (i + 1) % Cap = i + 1
    BY <1>1, <1>2
  <2> QED
    BY <1>1, <1>2, <2>1 DEF NextIndex, Slots
<1>3. CASE i + 1 = Cap
  <2>1. Cap % Cap = 0
    BY <1>1
  <2> QED
    BY <1>1, <1>3, <2>1 DEF NextIndex, Slots
<1> QED
  BY <1>1, <1>2, <1>3

(* The entry a producer stands at, when it wants it, names a symbol.       *)
LEMMA EntryIsSymbol ==
  ASSUME TypeOK, NEW p \in Files, HasEntry(p), Wanted(Entry(p))
  PROVE  Entry(p).name \in Syms
<1>1. ppos[p] \in 1..Len(DynSym[p])
  <2>1. ppos[p] \in Nat \ {0} /\ Len(DynSym[p]) \in Nat
    BY FilesAssumption DEF TypeOK
  <2> QED
    BY <2>1 DEF HasEntry
<1> QED
  BY <1>1, WantedNeeded DEF Entry

(* check_sym_cache answers with a library of the cache, or with NULL.      *)
LEMMA LookupType ==
  ASSUME NEW s \in Syms
  PROVE  Lookup[s] \in Libs \cup {NoLib} /\ (Lookup[s] # NoLib => s \in Cache[Lookup[s]])
BY AnswerType, CacheAssumption DEF Lookup, Definers

(* What the ring and the consumer's hand hold, with the types they need.   *)
InHand == cpc = "check" => sym # NoSym
RingInv == TypeOK /\ SlotsMatchWindow /\ InHand

(* The ring starts empty and well typed.                                   *)
LEMMA RingInit == Init => RingInv
<1> SUFFICES ASSUME Init PROVE RingInv
  OBVIOUS
<1> USE DEF Init
<1>1. head \in Slots /\ tail \in Slots
  BY PipelineAssumption DEF Slots
<1>2. TypeOK
  <2>1. /\ ppc \in [Files -> ProducerPlaces] /\ ppos \in [Files -> Nat \ {0}]
        /\ prc \in [Files -> {"none", "OK", "error"}]
    BY DEF ProducerPlaces
  <2>2. slot \in [Slots -> Syms \cup {NoSym}]
    OBVIOUS
  <2>3. arrSize \in Nat \ {0} /\ nProducers \in Nat /\ producerCount \in Int
    BY PipelineAssumption
  <2>4. cpc \in ConsumerPlaces
    BY DEF ConsumerPlaces
  <2>5. /\ sym \in Syms \cup {NoSym} /\ crc \in {"OK", "ENOMEM"}
        /\ dependency \in SUBSET Libs /\ undefinedSym \in SUBSET Syms
        /\ producerDone \in BOOLEAN /\ lockHeld \in BOOLEAN
        /\ process \in {"running", "destroyed", "exited", "crashed"}
    OBVIOUS
  <2> QED
    BY <1>1, <2>1, <2>2, <2>3, <2>4, <2>5 DEF TypeOK
<1>3. SlotsMatchWindow
  BY DEF SlotsMatchWindow, InWindow, Slots
<1>4. InHand
  BY DEF InHand
<1> QED
  BY <1>2, <1>3, <1>4 DEF RingInv

(* Taking a symbol: the slot at head held one, and the window shrinks by   *)
(* exactly that slot.                                                      *)
LEMMA PopKeepsRing ==
  ASSUME RingInv, PopSym
  PROVE  RingInv'
<1> USE DEF PopSym, counts, trees
<1>1. head \in Slots /\ tail \in Slots /\ NextIndex(head) \in Slots
  BY NextIndexIsMod DEF RingInv, TypeOK
<1>2. slot[head] # NoSym
  BY <1>1 DEF RingInv, SlotsMatchWindow, InWindow, IsEmpty, Slots
<1>3. TypeOK'
  <2>1. slot' \in [Slots -> Syms \cup {NoSym}] /\ sym' \in Syms \cup {NoSym}
    BY <1>1 DEF RingInv, TypeOK
  <2>2. ppc' \in [Files -> ProducerPlaces]
    BY DEF RingInv, TypeOK, Woken, ProducerPlaces
  <2> QED
    BY <1>1, <2>1, <2>2 DEF RingInv, TypeOK, ConsumerPlaces
<1>4. SlotsMatchWindow'
  <2> SUFFICES ASSUME NEW i \in Slots
               PROVE  slot'[i] # NoSym <=> InWindow(i)'
    BY DEF SlotsMatchWindow
  <2>1. slot'[i] = IF i = head THEN NoSym ELSE slot[i]
    BY DEF RingInv, TypeOK
  <2>2. slot[i] # NoSym <=> InWindow(i)
    BY DEF RingInv, SlotsMatchWindow
  <2>3. InWindow(i)' <=> InWindow(i) /\ i # head
    BY <1>1, PipelineAssumption DEF InWindow, NextIndex, Slots, IsEmpty
  <2> QED
    BY <2>1, <2>2, <2>3
<1>5. InHand'
  BY <1>2 DEF InHand
<1> QED
  BY <1>3, <1>4, <1>5 DEF RingInv

(* Putting a symbol: the slot at tail was free, and the window grows by    *)
(* exactly that slot.                                                      *)
LEMMA SendKeepsRing ==
  ASSUME RingInv, NEW p \in Files, SendSym(p)
  PROVE  RingInv'
<1> USE DEF SendSym, consumerAndMain, counts, trees
<1>1. head \in Slots /\ tail \in Slots /\ NextIndex(tail) \in Slots
  BY NextIndexIsMod DEF RingInv, TypeOK
<1>2. Entry(p).name \in Syms /\ Entry(p).name # NoSym
  BY EntryIsSymbol, FilesAssumption DEF RingInv
<1>3. TypeOK'
  BY <1>1, <1>2 DEF RingInv, TypeOK, Signalled, ConsumerPlaces
<1>4. SlotsMatchWindow'
  <2> SUFFICES ASSUME NEW i \in Slots
               PROVE  slot'[i] # NoSym <=> InWindow(i)'
    BY DEF SlotsMatchWindow
  <2>1. slot'[i] = IF i = tail THEN Entry(p).name ELSE slot[i]
    BY DEF RingInv, TypeOK
  <2>2. slot[i] # NoSym <=> InWindow(i)
    BY DEF RingInv, SlotsMatchWindow
  <2>3. NextIndex(tail) # head
    BY <1>1, NextIndexIsMod DEF IsFull
  <2>4. InWindow(i)' <=> InWindow(i) \/ i = tail
    BY <1>1, <2>3, PipelineAssumption DEF InWindow, NextIndex, Slots
  <2> QED
    BY <1>2, <2>1, <2>2, <2>4
<1>5. InHand'
  BY DEF InHand, Signalled, RingInv
<1> QED
  BY <1>3, <1>4, <1>5 DEF RingInv

(* A step that leaves the ring's array and indices alone leaves the window *)
(* alone.                                                                  *)
LEMMA QuietRing ==
  ASSUME SlotsMatchWindow, UNCHANGED ring
  PROVE  SlotsMatchWindow'
BY DEF SlotsMatchWindow, InWindow, ring

(* Creating a thread moves the consumer and at most one producer.          *)
LEMMA CreateThreadType ==
  ASSUME TypeOK, NEW f \in Files, CreateThread(f)
  PROVE  /\ cpc' = "count"
         /\ ppc' \in [Files -> ProducerPlaces]
         /\ ppos' = ppos /\ prc' = prc
BY DEF TypeOK, CreateThread, ProducerPlaces

(* Growing the array of thread ids keeps its size positive.                *)
LEMMA GrownType ==
  ASSUME TypeOK
  PROVE  Grown \in Nat \ {0}
BY DEF TypeOK, Grown

(* Every step of the consumer keeps the ring.                              *)
LEMMA ConsumerKeepsRing ==
  ASSUME RingInv, ConsumerStep
  PROVE  RingInv'
<1> USE DEF RingInv
<1>1. Exe \in Files
  BY DEF Files
<1>2. NewFound => Lookup[sym] \in Libs /\ Lookup[sym] \in Files
  <2> SUFFICES ASSUME NewFound PROVE Lookup[sym] \in Libs
    BY DEF Files
  <2>1. sym \in Syms
    BY DEF TypeOK, InHand, NewFound
  <2> QED
    BY <2>1, LookupType DEF NewFound
<1>3. CASE StartExe
  <2>1. TypeOK'
    BY <1>1, <1>3, CreateThreadType
    DEF StartExe, TypeOK, ConsumerPlaces, ring, counts, trees
  <2> QED
    BY <1>3, <2>1, QuietRing, CreateThreadType, <1>1 DEF StartExe, InHand
<1>4. CASE StartFails
  BY <1>4, QuietRing
  DEF StartFails, TypeOK, ConsumerPlaces, InHand, ring, counts, trees, producers
<1>5. CASE CountProducer
  BY <1>5, QuietRing
  DEF CountProducer, TypeOK, ConsumerPlaces, InHand, ring, trees, producers
<1>6. CASE WaitNotEmpty
  BY <1>6, QuietRing
  DEF WaitNotEmpty, TypeOK, ConsumerPlaces, InHand, ring, counts, trees, producers
<1>7. CASE PopSym
  BY <1>7, PopKeepsRing
<1>8. CASE PopFails
  BY <1>8, QuietRing
  DEF PopFails, TypeOK, ConsumerPlaces, InHand, ring, counts, trees, producers
<1>9. CASE LeaveLoop
  BY <1>9, QuietRing
  DEF LeaveLoop, TypeOK, ConsumerPlaces, InHand, ring, counts, trees, producers
<1>10. CASE KeepUndefined
  <2>1. sym \in Syms
    BY <1>10 DEF TypeOK, InHand, KeepUndefined
  <2> QED
    BY <1>10, <2>1, QuietRing
    DEF KeepUndefined, TypeOK, ConsumerPlaces, InHand, ring, counts, producers
<1>11. CASE KnownLibrary
  BY <1>11, QuietRing
  DEF KnownLibrary, TypeOK, ConsumerPlaces, InHand, ring, counts, trees, producers
<1>12. CASE NewLibrary
  <2>1. Lookup[sym] \in Libs /\ Lookup[sym] \in Files
    BY <1>2, <1>12 DEF NewLibrary
  <2>2. /\ cpc' = "count" /\ ppc' \in [Files -> ProducerPlaces]
        /\ ppos' = ppos /\ prc' = prc
    BY <1>12, <2>1, CreateThreadType DEF NewLibrary
  <2>3. TypeOK'
    BY <1>12, <2>1, <2>2, GrownType
    DEF NewLibrary, TypeOK, ConsumerPlaces, ring, counts
  <2> QED
    BY <1>12, <2>2, <2>3, QuietRing DEF NewLibrary, InHand
<1>13. CASE AddFails
  BY <1>13, QuietRing
  DEF AddFails, TypeOK, ConsumerPlaces, InHand, ring, counts, trees, producers
<1>14. CASE SpawnFails
  BY <1>2, <1>14, QuietRing, GrownType
  DEF SpawnFails, TypeOK, ConsumerPlaces, InHand, ring, counts, producers
<1>15. CASE Crash
  BY <1>15, QuietRing
  DEF Crash, TypeOK, InHand, ring, counts, trees, producers
<1>16. CASE JoinProducers
  BY <1>16, QuietRing
  DEF JoinProducers, TypeOK, ConsumerPlaces, InHand, ring, counts, trees, producers
<1> QED
  BY <1>3, <1>4, <1>5, <1>6, <1>7, <1>8, <1>9, <1>10, <1>11, <1>12, <1>13,
     <1>14, <1>15, <1>16
  DEF ConsumerStep, SpawnCrashes, JoinGarbage

(* Every step of a producer keeps the ring.                                *)
LEMMA ProducerKeepsRing ==
  ASSUME RingInv, NEW p \in Files, ProducerStep(p)
  PROVE  RingInv'
<1> USE DEF RingInv
<1>1. CASE LoadFile(p)
  BY <1>1, QuietRing
  DEF LoadFile, MoveTo, TypeOK, ProducerPlaces, InHand, consumerAndMain, ring, counts, trees
<1>2. CASE SkipEntry(p)
  BY <1>2, QuietRing
  DEF SkipEntry, TypeOK, InHand, consumerAndMain, ring, counts, trees
<1>3. CASE SendSym(p)
  BY <1>3, SendKeepsRing
<1>4. CASE WaitNotFull(p)
  BY <1>4, QuietRing
  DEF WaitNotFull, MoveTo, TypeOK, ProducerPlaces, InHand, consumerAndMain, ring, counts, trees
<1>5. CASE FinishProducer(p)
  <2>1. cpc' \in ConsumerPlaces /\ producerDone' \in BOOLEAN /\ producerCount' \in Int
    <3>1. cpc' \in ConsumerPlaces
      BY <1>5 DEF FinishProducer, Signalled, TypeOK, ConsumerPlaces
    <3>2. producerDone' \in BOOLEAN
      BY <1>5 DEF FinishProducer, TypeOK
    <3>3. producerCount' \in Int
      BY <1>5 DEF FinishProducer, TypeOK
    <3> QED
      BY <3>1, <3>2, <3>3
  <2>2. cpc' = "check" => cpc = "check"
    BY <1>5 DEF FinishProducer, Signalled
  <2>3. TypeOK'
    BY <1>5, <2>1
    DEF FinishProducer, MoveTo, TypeOK, ProducerPlaces, consumerAndMain, ring, trees
  <2> QED
    BY <1>5, <2>2, <2>3, QuietRing DEF FinishProducer, InHand, consumerAndMain
<1>6. CASE Crash
  BY <1>6, QuietRing
  DEF Crash, TypeOK, InHand, ring, counts, trees, producers
<1>7. CASE LoadFails(p)
  BY <1>7, QuietRing
  DEF LoadFails, MoveTo, TypeOK, ProducerPlaces, InHand, consumerAndMain, ring, counts, trees
<1> QED
  BY <1>1, <1>2, <1>3, <1>4, <1>5, <1>6, <1>7 DEF ProducerStep, ProducerCrashes, TouchFreed

(* Every step of the system keeps the ring.                                *)
LEMMA StepKeepsRing ==
  ASSUME RingInv, [Next]_vars
  PROVE  RingInv'
<1> USE DEF RingInv
<1>1. CASE ConsumerStep
  BY <1>1, ConsumerKeepsRing
<1>2. ASSUME NEW p \in Files, ProducerStep(p)  PROVE RingInv'
  BY <1>2, ProducerKeepsRing
<1>3. CASE SpuriousConsumer
  BY <1>3, QuietRing
  DEF SpuriousConsumer, TypeOK, ConsumerPlaces, InHand, consumerAndMain, ring, counts,
      trees, producers
<1>4. ASSUME NEW p \in Files, SpuriousProducer(p)  PROVE RingInv'
  BY <1>4, QuietRing
  DEF SpuriousProducer, MoveTo, TypeOK, ProducerPlaces, InHand, consumerAndMain, ring,
      counts, trees
<1>5. CASE MainStep
  BY <1>5, QuietRing
  DEF MainStep, DestroyBuffer, Exit, TypeOK, InHand, ring, counts, trees, producers
<1>6. CASE UNCHANGED vars
  BY <1>6, QuietRing DEF vars, TypeOK, InHand, ring
<1> QED
  BY <1>1, <1>2, <1>3, <1>4, <1>5, <1>6 DEF Next, Over

(* The ring's types and its window hold in every reachable state.          *)
LEMMA RingInvariant == Spec => []RingInv
<1>1. RingInv /\ [Next]_vars => RingInv'
  BY StepKeepsRing
<1> QED
  BY RingInit, <1>1, PTL DEF Spec

(* The state of the threads, of the ring and of the trees is always well   *)
(* typed, whatever fails: no index of the ring leaves its array.           *)
THEOREM TypeCorrect == Spec => []TypeOK
<1>1. RingInv => TypeOK
  BY DEF RingInv
<1> QED
  BY RingInvariant, <1>1, PTL

(* For every ring size, a slot of the ring holds a symbol exactly when it  *)
(* lies between head and tail: send_sym_to_buffer overwrites no symbol and *)
(* resolve_undefined_sym never takes a NULL slot.                          *)
THEOREM RingConsistent == Spec => []SlotsMatchWindow
<1>1. RingInv => SlotsMatchWindow
  BY DEF RingInv
<1> QED
  BY RingInvariant, <1>1, PTL

-----------------------------------------------------------------------------
(* Waking up.                                                              *)

(* Taking a symbol from the ring leaves it not full, putting one leaves it *)
(* not empty.                                                              *)
LEMMA FullNotEmpty ==
  ASSUME TypeOK, IsFull
  PROVE  ~IsEmpty
<1>1. tail \in Slots /\ NextIndex(tail) = head
  BY NextIndexIsMod DEF TypeOK, IsFull
<1> QED
  BY <1>1, PipelineAssumption DEF NextIndex, Slots, IsEmpty

(* No step of the consumer loses a wake-up: the only one that changes the  *)
(* ring wakes every blocked producer.                                      *)
LEMMA ConsumerKeepsWakeup ==
  ASSUME RingInv, NoLostWakeup, ConsumerStep
  PROVE  NoLostWakeup'
<1> USE DEF NoLostWakeup, IsEmpty, IsFull, RingInv
<1>1. CASE StartExe
  <2>1. cpc' = "count" /\ \A p \in Files : ppc'[p] = "waiting" => ppc[p] = "waiting"
    BY <1>1 DEF StartExe, CreateThread, TypeOK
  <2> QED
    BY <1>1, <2>1 DEF StartExe, ring
<1>2. CASE NewLibrary
  <2>1. cpc' = "count" /\ \A p \in Files : ppc'[p] = "waiting" => ppc[p] = "waiting"
    BY <1>2 DEF NewLibrary, CreateThread, TypeOK
  <2> QED
    BY <1>2, <2>1 DEF NewLibrary, ring
<1>3. CASE PopSym
  BY <1>3 DEF PopSym, Woken
<1>4. CASE WaitNotEmpty
  BY <1>4 DEF WaitNotEmpty, ring, counts, producers
<1>5. CASE StartFails \/ CountProducer \/ PopFails \/ LeaveLoop
  BY <1>5 DEF StartFails, CountProducer, PopFails, LeaveLoop, ring, producers
<1>6. CASE KeepUndefined \/ KnownLibrary \/ AddFails \/ SpawnFails \/ JoinProducers
  BY <1>6 DEF KeepUndefined, KnownLibrary, AddFails, SpawnFails, JoinProducers,
              ring, producers
<1>7. CASE Crash
  BY <1>7 DEF Crash, ring, counts, producers
<1> QED
  BY <1>1, <1>2, <1>3, <1>4, <1>5, <1>6, <1>7
  DEF ConsumerStep, SpawnCrashes, JoinGarbage

(* No step of a producer loses a wake-up: a producer that fills the ring   *)
(* or ends production wakes the consumer, and it puts a symbol only where  *)
(* nobody is blocked on a full ring.                                       *)
LEMMA ProducerKeepsWakeup ==
  ASSUME RingInv, NoLostWakeup, NEW p \in Files, ProducerStep(p)
  PROVE  NoLostWakeup'
<1> USE DEF NoLostWakeup, IsEmpty, IsFull, RingInv
<1>1. CASE LoadFile(p)
  BY <1>1 DEF LoadFile, MoveTo, TypeOK, ring, counts
<1>2. CASE SkipEntry(p)
  BY <1>2 DEF SkipEntry, ring, counts
<1>3. CASE SendSym(p)
  BY <1>3 DEF SendSym, Signalled
<1>4. CASE WaitNotFull(p)
  BY <1>4 DEF WaitNotFull, MoveTo, TypeOK, ring, counts
<1>5. CASE FinishProducer(p)
  <2>1. cpc' = "waiting" => cpc = "waiting" /\ producerDone' = producerDone
    BY <1>5 DEF FinishProducer, Signalled
  <2>2. \A q \in Files : ppc'[q] = "waiting" => ppc[q] = "waiting"
    BY <1>5 DEF FinishProducer, MoveTo, TypeOK
  <2> QED
    BY <1>5, <2>1, <2>2 DEF FinishProducer, ring
<1>6. CASE Crash
  BY <1>6 DEF Crash, ring, counts, producers
<1>7. CASE LoadFails(p)
  BY <1>7 DEF LoadFails, MoveTo, TypeOK, ring, counts
<1> QED
  BY <1>1, <1>2, <1>3, <1>4, <1>5, <1>6, <1>7 DEF ProducerStep, ProducerCrashes, TouchFreed

LEMMA StepKeepsWakeup ==
  ASSUME RingInv, NoLostWakeup, [Next]_vars
  PROVE  NoLostWakeup'
<1> USE DEF NoLostWakeup, IsEmpty, IsFull
<1>1. CASE ConsumerStep
  BY <1>1, ConsumerKeepsWakeup
<1>2. ASSUME NEW p \in Files, ProducerStep(p)  PROVE NoLostWakeup'
  BY <1>2, ProducerKeepsWakeup
<1>3. CASE SpuriousConsumer
  BY <1>3 DEF SpuriousConsumer, ring, counts, producers
<1>4. ASSUME NEW p \in Files, SpuriousProducer(p)  PROVE NoLostWakeup'
  BY <1>4 DEF SpuriousProducer, MoveTo, RingInv, TypeOK, ring, counts
<1>5. CASE MainStep
  BY <1>5 DEF MainStep, DestroyBuffer, Exit, ring, counts, producers
<1>6. CASE UNCHANGED vars
  BY <1>6 DEF vars
<1> QED
  BY <1>1, <1>2, <1>3, <1>4, <1>5, <1>6 DEF Next, Over

(* A thread blocked on not_empty or not_full waits for what is still not   *)
(* so: no signal or broadcast of libscout.c is missing, whatever fails.    *)
THEOREM WakeupsKept == Spec => []NoLostWakeup
<1>1. Init => NoLostWakeup
  BY DEF Init, NoLostWakeup
<1>2. RingInv /\ NoLostWakeup /\ [Next]_vars => NoLostWakeup'
  BY StepKeepsWakeup
<1> QED
  BY <1>1, <1>2, RingInvariant, PTL DEF Spec
=============================================================================
