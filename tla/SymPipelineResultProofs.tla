----------------------- MODULE SymPipelineResultProofs -----------------------
(***************************************************************************)
(* Proofs about what SymPipeline reports: nothing the executable does not  *)
(* need, no symbol dropped on its way from a producer to the trees, and    *)
(* each looked up once and in order, as Resolution says.                   *)
(***************************************************************************)
EXTENDS SymPipelineThreadsProofs, SequenceTheorems

-----------------------------------------------------------------------------
(* The files whose tables were read.                                       *)

(* What process_elf_file returned to a thread, by where the thread is.     *)
HeardOf(p) ==
  /\ ppc[p] \in {"none", "start", "lost"} => prc[p] = "none"
  /\ ppc[p] \in {"walk", "waiting"} => prc[p] = "OK"
  /\ ppc[p] = "finish" => prc[p] = "error"
  /\ ppc[p] = "finished" => prc[p] \in {"OK", "error"}
  /\ prc[p] = "OK" => p \notin Refused
HeardInv == \A p \in Files : HeardOf(p)

LEMMA StepKeepsHeard ==
  ASSUME RingInv, CountInv, HeardInv, [Next]_vars
  PROVE  HeardInv' /\ Heard \subseteq Heard'
<1> SUFFICES ASSUME NEW p \in Files
             PROVE  HeardOf(p)' /\ (prc[p] = "OK" => prc'[p] = "OK")
  BY DEF HeardInv, Heard
<1> USE DEF HeardOf, RingInv
<1>0. HeardOf(p)
  BY DEF HeardInv
<1>1. CASE StartExe \/ NewLibrary
  <2>1. ppc'[p] \in {"start", "lost"} \/ ppc'[p] = ppc[p]
    BY <1>1 DEF StartExe, NewLibrary, CreateThread, TypeOK
  <2>2. ppc'[p] \in {"start", "lost"} => ppc[p] \in {"none", ppc'[p]}
    BY StepStartsOnce
  <2>3. prc' = prc
    BY <1>1 DEF StartExe, NewLibrary, CreateThread
  <2> QED
    BY <1>0, <2>1, <2>2, <2>3
<1>2. CASE PopSym
  BY <1>0, <1>2 DEF PopSym, Woken
<1>3. CASE \/ StartFails \/ CountProducer \/ WaitNotEmpty \/ PopFails \/ LeaveLoop
           \/ KeepUndefined \/ KnownLibrary \/ AddFails \/ SpawnFails \/ JoinProducers
  BY <1>0, <1>3 DEF StartFails, CountProducer, WaitNotEmpty, PopFails, LeaveLoop,
     KeepUndefined, KnownLibrary, AddFails, SpawnFails, JoinProducers, producers
<1>4. CASE SpuriousConsumer \/ MainStep \/ Crash \/ UNCHANGED vars
  BY <1>0, <1>4 DEF SpuriousConsumer, MainStep, DestroyBuffer, Exit, Crash, vars, producers
<1>5. ASSUME NEW q \in Files, LoadFile(q)  PROVE HeardOf(p)' /\ (prc[p] = "OK" => prc'[p] = "OK")
  BY <1>0, <1>5 DEF LoadFile, MoveTo, TypeOK
<1>6. ASSUME NEW q \in Files, LoadFails(q)  PROVE HeardOf(p)' /\ (prc[p] = "OK" => prc'[p] = "OK")
  BY <1>0, <1>6 DEF LoadFails, MoveTo, TypeOK
<1>7. ASSUME NEW q \in Files, WaitNotFull(q) \/ SpuriousProducer(q)
      PROVE  HeardOf(p)' /\ (prc[p] = "OK" => prc'[p] = "OK")
  BY <1>0, <1>7 DEF WaitNotFull, SpuriousProducer, HasEntry, MoveTo, TypeOK
<1>8. ASSUME NEW q \in Files, FinishProducer(q)
      PROVE  HeardOf(p)' /\ (prc[p] = "OK" => prc'[p] = "OK")
  BY <1>0, <1>8 DEF FinishProducer, AtEnd, MoveTo, TypeOK
<1>9. ASSUME NEW q \in Files, SkipEntry(q) \/ SendSym(q)
      PROVE  HeardOf(p)' /\ (prc[p] = "OK" => prc'[p] = "OK")
  BY <1>0, <1>9 DEF SkipEntry, SendSym
<1> QED
  BY <1>1, <1>2, <1>3, <1>4, <1>5, <1>6, <1>7, <1>8, <1>9
  DEF Next, Over, ConsumerStep, SpawnCrashes, JoinGarbage, ProducerStep, ProducerCrashes,
      TouchFreed

LEMMA HeardInvariant == Spec => []HeardInv
<1>1. Init => HeardInv
  BY DEF Init, HeardInv, HeardOf
<1>2. RingInv /\ CountInv /\ HeardInv /\ [Next]_vars => HeardInv'
  BY StepKeepsHeard
<1> QED
  BY <1>1, <1>2, RingInvariant, CountInvariant, PTL DEF Spec

-----------------------------------------------------------------------------
(* Soundness.                                                              *)

(* What is known of a set S of files that holds the executable and the     *)
(* answer to each symbol of A, where A is what the heard files in S ask    *)
(* for: only files of S have threads, only symbols of A travel, and so     *)
(* only their libraries and symbols are recorded.                          *)
SoundFor(S, A) ==
  /\ dependency \subseteq S
  /\ \A s \in undefinedSym : s \in A /\ Lookup[s] = NoLib
  /\ \A i \in Slots : slot[i] # NoSym => slot[i] \in A
  /\ sym # NoSym => sym \in A
  /\ \A p \in Files : ppc[p] # "none" => p \in S

SoundInv == \A S \in ClosedSets(Heard) : SoundFor(S, Asked(S, Heard))

(* A set that is closed when more files have been heard was closed before, *)
(* and the more files are heard the more is asked for.                     *)
LEMMA HeardMonotone ==
  ASSUME NEW H, NEW J, H \subseteq J, NEW S \in ClosedSets(J)
  PROVE  S \in ClosedSets(H) /\ Asked(S, H) \subseteq Asked(S, J)
BY DEF ClosedSets, Closed, Asked

(* A step that touches neither the ring nor the trees, and creates no      *)
(* thread.                                                                 *)
LEMMA QuietSound ==
  ASSUME NEW S, NEW A, SoundFor(S, A), slot' = slot, sym' \in {sym, NoSym}, UNCHANGED trees,
         \A p \in Files : ppc'[p] # "none" => ppc[p] # "none"
  PROVE  SoundFor(S, A)'
BY DEF SoundFor, trees

LEMMA ConsumerKeepsSound ==
  ASSUME RingInv, NEW S, NEW A, Exe \in S, \A s \in A : Lookup[s] # NoLib => Lookup[s] \in S,
         SoundFor(S, A), ConsumerStep
  PROVE  SoundFor(S, A)'
<1> USE DEF RingInv
<1>0. Exe \in Files /\ Libs \subseteq Files
  BY DEF Files
<1>1. CASE StartExe
  <2>1. \A p \in Files : ppc'[p] # "none" => ppc[p] # "none" \/ p = Exe
    BY <1>1 DEF StartExe, CreateThread, TypeOK
  <2> QED
    BY <1>1, <2>1 DEF StartExe, SoundFor, ring, trees
<1>2. CASE PopSym
  <2>1. slot[head] # NoSym => slot[head] \in A
    BY DEF SoundFor, TypeOK
  <2>2. \A i \in Slots : slot'[i] # NoSym => slot[i] # NoSym /\ slot'[i] = slot[i]
    BY <1>2 DEF PopSym, TypeOK
  <2>3. \A p \in Files : ppc'[p] # "none" => ppc[p] # "none"
    BY <1>2 DEF PopSym, Woken
  <2> QED
    BY <1>2, <2>1, <2>2, <2>3 DEF PopSym, SoundFor, trees
<1>3. CASE KeepUndefined
  <2>1. sym \in A /\ Lookup[sym] = NoLib
    BY <1>3 DEF KeepUndefined, InHand, SoundFor
  <2> QED
    BY <1>3, <2>1 DEF KeepUndefined, SoundFor, ring, producers
<1>4. CASE NewLibrary \/ SpawnFails
  <2>1. sym \in A /\ Lookup[sym] # NoLib
    BY <1>4 DEF NewLibrary, SpawnFails, NewFound, InHand, SoundFor
  <2>2. Lookup[sym] \in S
    BY <2>1
  <2>3. \A p \in Files : ppc'[p] # "none" => ppc[p] # "none" \/ p = Lookup[sym]
    BY <1>4 DEF NewLibrary, SpawnFails, CreateThread, producers, TypeOK
  <2> QED
    BY <1>4, <2>2, <2>3 DEF NewLibrary, SpawnFails, SoundFor, ring
<1>5. CASE \/ StartFails \/ CountProducer \/ WaitNotEmpty \/ PopFails \/ LeaveLoop
           \/ KnownLibrary \/ AddFails \/ JoinProducers \/ Crash
  BY <1>5, QuietSound
  DEF StartFails, CountProducer, WaitNotEmpty, PopFails, LeaveLoop, KnownLibrary,
      AddFails, JoinProducers, Crash, ring, producers
<1> QED
  BY <1>1, <1>2, <1>3, <1>4, <1>5 DEF ConsumerStep, SpawnCrashes, JoinGarbage

LEMMA ProducerKeepsSound ==
  ASSUME RingInv, NEW S, NEW A, SoundFor(S, A), NEW p \in Files,
         ProducerStep(p) \/ SpuriousProducer(p),
         SendSym(p) => Entry(p).name \in A
  PROVE  SoundFor(S, A)'
<1> USE DEF RingInv
<1>1. CASE SendSym(p)
  <2>1. \A i \in Slots : slot'[i] = slot[i] \/ slot'[i] = Entry(p).name
    BY <1>1 DEF SendSym, TypeOK
  <2> QED
    BY <1>1, <2>1 DEF SendSym, SoundFor, consumerAndMain, trees
<1>2. CASE ~SendSym(p)
  <2>1. slot' = slot /\ sym' = sym /\ UNCHANGED trees
    BY <1>2 DEF ProducerStep, LoadFile, LoadFails, SkipEntry, WaitNotFull, FinishProducer,
                ProducerCrashes, TouchFreed, Crash, SpuriousProducer, consumerAndMain, ring
  <2>2. \A q \in Files : ppc'[q] # "none" => ppc[q] # "none"
    BY <1>2 DEF ProducerStep, LoadFile, LoadFails, SkipEntry, WaitNotFull, FinishProducer,
                AtEnd, HasEntry, ProducerCrashes, TouchFreed, Crash, SpuriousProducer,
                MoveTo, producers, TypeOK
  <2> QED
    BY <2>1, <2>2, QuietSound
<1> QED
  BY <1>1, <1>2

LEMMA StepKeepsSound ==
  ASSUME RingInv, CountInv, HeardInv, SoundInv, [Next]_vars
  PROVE  SoundInv'
<1> SUFFICES ASSUME NEW S \in ClosedSets(Heard')
             PROVE  SoundFor(S, Asked(S, Heard))'
  BY DEF SoundInv
<1>1. PICK A : A = Asked(S, Heard)
  OBVIOUS
<1>2. /\ S \in ClosedSets(Heard) /\ A \subseteq Asked(S, Heard')
  BY <1>1, StepKeepsHeard, HeardMonotone
<1>3. SoundFor(S, A) /\ Exe \in S /\ \A s \in A : Lookup[s] # NoLib => Lookup[s] \in S
  BY <1>1, <1>2 DEF SoundInv, ClosedSets, Closed
<1>4. SoundFor(S, A)'
  <2>1. CASE ConsumerStep
    BY <1>3, <2>1, ConsumerKeepsSound
  <2>2. ASSUME NEW p \in Files, ProducerStep(p) \/ SpuriousProducer(p)
        PROVE  SoundFor(S, A)'
    <3>1. ASSUME SendSym(p)  PROVE Entry(p).name \in A
      <4>1. p \in Heard /\ ppc[p] # "none"
        BY <3>1 DEF SendSym, HasEntry, HeardInv, HeardOf, Heard
      <4>2. p \in S
        BY <1>3, <4>1 DEF SoundFor
      <4>3. ppos[p] \in 1..Len(DynSym[p])
        <5>1. ppos[p] \in Nat \ {0} /\ Len(DynSym[p]) \in Nat
          BY FilesAssumption DEF RingInv, TypeOK
        <5> QED
          BY <3>1, <5>1 DEF SendSym, HasEntry
      <4>4. Entry(p).name \in Needs[p]
        BY <3>1, <4>3, WantedNeeded DEF SendSym, Entry
      <4> QED
        BY <1>1, <4>1, <4>2, <4>4 DEF Asked
    <3> QED
      BY <1>3, <2>2, <3>1, ProducerKeepsSound
  <2>3. CASE SpuriousConsumer \/ MainStep \/ UNCHANGED vars
    BY <1>3, <2>3, QuietSound
    DEF SpuriousConsumer, MainStep, DestroyBuffer, Exit, vars, ring, trees, producers,
        consumerAndMain
  <2> QED
    BY <2>1, <2>2, <2>3 DEF Next, Over
<1>5. PICK B : B = Asked(S, Heard')
  OBVIOUS
<1>6. SoundFor(S, B)'
  BY <1>2, <1>4, <1>5 DEF SoundFor
<1> QED
  BY <1>5, <1>6 DEF SoundFor

LEMMA SoundInit == Init => SoundInv
BY DEF Init, SoundInv, SoundFor

LEMMA SoundInvariant == Spec => []SoundInv
BY SoundInit, StepKeepsSound, RingInvariant, CountInvariant, HeardInvariant, PTL DEF Spec

(* Whatever fails and however the threads interleave, only libraries and   *)
(* unresolved symbols are recorded that the executable needs, directly or  *)
(* through libraries whose tables were read.                               *)
THEOREM OnlyNeeded == Spec => []Sound
<1>1. SoundInv => Sound
  BY DEF SoundInv, SoundFor, Sound, Unresolvable
<1> QED
  BY <1>1, SoundInvariant, PTL

-----------------------------------------------------------------------------
(* Nothing is dropped.                                                     *)

Passed(p, i) == i < ppos[p] /\ Wanted(DynSym[p][i])
AllAccounted ==
  \A p \in Files : \A i \in 1..Len(DynSym[p]) : Passed(p, i) => Accounted(DynSym[p][i].name)

(* A step that keeps every accounted symbol accounted for, while no        *)
(* producer moves on.                                                      *)
LEMMA AccountedKept ==
  ASSUME AllAccounted, ppos' = ppos,
         \A s \in Syms : Accounted(s) => Accounted(s)'
  PROVE  AllAccounted'
<1> SUFFICES ASSUME NEW p \in Files, NEW i \in 1..Len(DynSym[p]), Passed(p, i)'
             PROVE  Accounted(DynSym[p][i].name)'
  BY DEF AllAccounted
<1>1. Passed(p, i) /\ DynSym[p][i].name \in Syms
  BY WantedNeeded DEF Passed
<1> QED
  BY <1>1 DEF AllAccounted

(* Every place a symbol can be moves it on to another.                     *)
LEMMA ConsumerKeepsAccounted ==
  ASSUME RingInv, AllAccounted, "malloc" \notin Faults, ConsumerStep
  PROVE  AllAccounted'
<1> USE DEF RingInv
<1>1. ppos' = ppos
  BY DEF ConsumerStep, StartExe, CreateThread, StartFails, CountProducer, WaitNotEmpty,
         PopSym, PopFails, LeaveLoop, KeepUndefined, KnownLibrary, NewLibrary, AddFails,
         SpawnFails, SpawnCrashes, JoinProducers, JoinGarbage, Crash, producers
<1>2. ASSUME NEW s \in Syms, Accounted(s)  PROVE Accounted(s)'
  <2> USE DEF Accounted
  <2>1. CASE PopSym
    <3>1. ASSUME NEW i \in Slots, slot[i] = s  PROVE Accounted(s)'
      <4>1. CASE i = head
        BY <2>1, <3>1, <4>1 DEF PopSym
      <4>2. CASE i # head
        <5>1. slot'[i] = s
          BY <2>1, <3>1, <4>2 DEF PopSym, TypeOK
        <5> QED
          BY <5>1
      <4> QED
        BY <4>1, <4>2
    <3>2. cpc # "check" /\ UNCHANGED trees
      BY <2>1 DEF PopSym
    <3> QED
      BY <1>2, <3>1, <3>2 DEF trees
  <2>2. CASE KeepUndefined
    BY <1>2, <2>2 DEF KeepUndefined, ring
  <2>3. CASE KnownLibrary
    BY <1>2, <2>3 DEF KnownLibrary, ring, trees
  <2>4. CASE NewLibrary
    BY <1>2, <2>4 DEF NewLibrary, NewFound, ring
  <2>5. CASE StartExe \/ CountProducer \/ WaitNotEmpty \/ LeaveLoop \/ JoinProducers
    BY <1>2, <2>5
    DEF StartExe, CountProducer, WaitNotEmpty, LeaveLoop, JoinProducers, ring, trees
  <2>6. CASE Crash
    BY <1>2, <2>6 DEF Crash, ring, trees
  <2> QED
    BY <2>1, <2>2, <2>3, <2>4, <2>5, <2>6
    DEF ConsumerStep, StartFails, PopFails, AddFails, SpawnFails, SpawnCrashes,
        JoinGarbage, MayFail
<1> QED
  BY <1>1, <1>2, AccountedKept

LEMMA ProducerKeepsAccounted ==
  ASSUME RingInv, AllAccounted, "malloc" \notin Faults,
         NEW p \in Files, ProducerStep(p) \/ SpuriousProducer(p)
  PROVE  AllAccounted'
<1> USE DEF RingInv
<1>1. ASSUME NEW s \in Syms, Accounted(s)  PROVE Accounted(s)'
  <2>1. CASE SendSym(p)
    <3>1. slot[tail] = NoSym
      BY DEF SlotsMatchWindow, InWindow, TypeOK, Slots
    <3>2. \A i \in Slots : slot[i] = s => slot'[i] = s
      BY <2>1, <3>1, FilesAssumption DEF SendSym, TypeOK
    <3>3. (cpc = "check" => cpc' = "check") /\ sym' = sym /\ UNCHANGED trees
      BY <2>1 DEF SendSym, Signalled, consumerAndMain
    <3> QED
      BY <1>1, <3>2, <3>3 DEF Accounted, trees
  <2>2. CASE ~SendSym(p)
    <3>1. slot' = slot /\ sym' = sym /\ UNCHANGED trees /\ (cpc = "check" => cpc' = "check")
      BY <2>2 DEF ProducerStep, LoadFile, LoadFails, SkipEntry, WaitNotFull,
          FinishProducer, Signalled, ProducerCrashes, TouchFreed, Crash,
          SpuriousProducer, consumerAndMain, ring
    <3> QED
      BY <1>1, <3>1 DEF Accounted, trees
  <2> QED
    BY <2>1, <2>2
<1>2. CASE SendSym(p) \/ SkipEntry(p)
  <2> SUFFICES ASSUME NEW q \in Files, NEW i \in 1..Len(DynSym[q]), Passed(q, i)'
               PROVE  Accounted(DynSym[q][i].name)'
    BY DEF AllAccounted
  <2>1. DynSym[q][i].name \in Syms
    BY WantedNeeded DEF Passed
  <2>2. CASE Passed(q, i)
    BY <1>1, <2>1, <2>2 DEF AllAccounted
  <2>3. CASE ~Passed(q, i)
    <3>1. q = p /\ i = ppos[p]
      <4>1. ppos' = [ppos EXCEPT ![p] = ppos[p] + 1] /\ ppos \in [Files -> Nat \ {0}]
        BY <1>2 DEF SendSym, SkipEntry, TypeOK
      <4>2. i < ppos'[q] /\ ~(i < ppos[q]) /\ i \in Nat
        BY <2>3 DEF Passed
      <4>3. CASE q = p
        BY <4>1, <4>2, <4>3
      <4>4. CASE q # p
        BY <4>1, <4>2, <4>4
      <4> QED
        BY <4>3, <4>4
    <3>2. Wanted(Entry(p)) /\ Entry(p) = DynSym[q][i]
      BY <3>1 DEF Passed, Entry
    <3>3. SendSym(p)
      BY <1>2, <3>2 DEF SkipEntry, MayFail
    <3>4. tail \in Slots /\ slot'[tail] = DynSym[q][i].name
      BY <3>2, <3>3 DEF SendSym, TypeOK
    <3> QED
      BY <3>4 DEF Accounted
  <2> QED
    BY <2>2, <2>3
<1>3. CASE ~(SendSym(p) \/ SkipEntry(p))
  <2>1. ppos' = ppos
    BY <1>3 DEF ProducerStep, LoadFile, LoadFails, WaitNotFull, FinishProducer,
        ProducerCrashes, TouchFreed, Crash, SpuriousProducer, producers
  <2> QED
    BY <1>1, <2>1, AccountedKept
<1> QED
  BY <1>2, <1>3

AccountInv == "malloc" \notin Faults => AllAccounted

LEMMA StepKeepsAccounted ==
  ASSUME RingInv, AccountInv, [Next]_vars
  PROVE  AccountInv'
<1> SUFFICES ASSUME "malloc" \notin Faults, AllAccounted PROVE AllAccounted'
  BY DEF AccountInv
<1>1. CASE ConsumerStep
  BY <1>1, ConsumerKeepsAccounted
<1>2. ASSUME NEW p \in Files, ProducerStep(p) \/ SpuriousProducer(p)  PROVE AllAccounted'
  BY <1>2, ProducerKeepsAccounted
<1>3. CASE SpuriousConsumer \/ MainStep \/ UNCHANGED vars
  <2>1. ppos' = ppos /\ \A s \in Syms : Accounted(s) => Accounted(s)'
    BY <1>3 DEF SpuriousConsumer, MainStep, DestroyBuffer, Exit, vars, ring, trees,
                producers, consumerAndMain, Accounted
  <2> QED
    BY <2>1, AccountedKept
<1> QED
  BY <1>1, <1>2, <1>3 DEF Next, Over

LEMMA AccountInit == Init => AccountInv
<1> SUFFICES ASSUME Init PROVE AllAccounted
  BY DEF AccountInv
<1>1. \A p \in Files : \A i \in 1..Len(DynSym[p]) : ~(i < ppos[p])
  BY DEF Init
<1> QED
  BY <1>1 DEF AllAccounted, Passed

LEMMA AccountInvariant == Spec => []AccountInv
BY AccountInit, StepKeepsAccounted, RingInvariant, PTL DEF Spec

(* No interleaving drops a symbol between the producer that reads it and   *)
(* the trees, as long as allocations succeed.                              *)
THEOREM NothingDropped == Spec => []NoSymbolLost
<1>1. AccountInv => NoSymbolLost
  BY DEF AccountInv, NoSymbolLost, AllAccounted, Passed
<1> QED
  BY <1>1, AccountInvariant, PTL

-----------------------------------------------------------------------------
(* Reports.                                                                *)

(* When allocations succeed the consumer keeps no lock, every library in   *)
(* the tree has a thread, and a thread past its walk has been through its  *)
(* whole table, unless it could not be read.                               *)
Walked(p) == prc[p] = "error" \/ ppos[p] > Len(DynSym[p])
CleanInv ==
  /\ ~lockHeld
  /\ cpc # "start" => ppc[Exe] # "none"
  /\ \A l \in dependency : ppc[l] # "none"
  /\ \A p \in Files : ppc[p] \in {"finish", "finished"} => Walked(p)

LEMMA ConsumerKeepsClean ==
  ASSUME RingInv, CleanInv, "malloc" \notin Faults, ConsumerStep
  PROVE  CleanInv'
<1> USE DEF RingInv, CleanInv
<1>0. Exe \in Files /\ Libs \subseteq Files
  BY DEF Files
<1>1. CASE StartExe
  <2>1. /\ ppc'[Exe] # "none" /\ ppos' = ppos /\ prc' = prc
        /\ \A p \in Files : ppc[p] # "none" => ppc'[p] # "none"
        /\ \A p \in Files : ppc'[p] \in {"finish", "finished"} => ppc[p] = ppc'[p]
    BY <1>0, <1>1 DEF StartExe, CreateThread, TypeOK
  <2> QED
    BY <1>0, <1>1, <2>1 DEF StartExe, trees, TypeOK, Walked
<1>2. CASE NewLibrary
  <2> DEFINE l == Lookup[sym]
  <2>1. l \in Libs
    BY <1>2, LookupType DEF NewLibrary, NewFound, TypeOK, InHand
  <2>2. CreateThread(l) /\ dependency' = dependency \cup {l} /\ lockHeld' = lockHeld
    BY <1>2 DEF NewLibrary
  <2> HIDE DEF l
  <2>3. /\ ppc'[l] # "none" /\ ppos' = ppos /\ prc' = prc
        /\ \A p \in Files : ppc[p] # "none" => ppc'[p] # "none"
        /\ \A p \in Files : ppc'[p] \in {"finish", "finished"} => ppc[p] = ppc'[p]
    BY <1>0, <2>1, <2>2 DEF CreateThread, TypeOK
  <2>4. cpc = "check"
    BY <1>2 DEF NewLibrary, NewFound
  <2> QED
    BY <1>0, <2>2, <2>3, <2>4 DEF TypeOK, Walked
<1>3. CASE PopSym
  <2>1. /\ \A p \in Files : ppc[p] # "none" => ppc'[p] # "none"
        /\ \A p \in Files : ppc'[p] \in {"finish", "finished"} => ppc[p] = ppc'[p]
    BY <1>3 DEF PopSym, Woken
  <2> QED
    BY <1>0, <1>3, <2>1 DEF PopSym, trees, TypeOK, Walked
<1>4. CASE \/ CountProducer \/ WaitNotEmpty \/ LeaveLoop \/ KeepUndefined
           \/ KnownLibrary \/ JoinProducers \/ Crash
  <2>1. /\ UNCHANGED producers /\ lockHeld' = lockHeld
        /\ dependency' = dependency /\ (cpc = "start" => cpc' = "start")
    BY <1>4 DEF CountProducer, WaitNotEmpty, LeaveLoop, KeepUndefined, KnownLibrary,
                JoinProducers, Crash, producers, trees
  <2> QED
    BY <1>4, <2>1
    DEF CountProducer, WaitNotEmpty, LeaveLoop, KeepUndefined, KnownLibrary,
        JoinProducers, Crash, Walked, producers
<1> QED
  BY <1>1, <1>2, <1>3, <1>4
  DEF ConsumerStep, StartFails, PopFails, AddFails, SpawnFails, SpawnCrashes,
      JoinGarbage, MayFail

LEMMA ProducerKeepsClean ==
  ASSUME RingInv, CleanInv, HeardInv, "malloc" \notin Faults,
         NEW p \in Files, ProducerStep(p) \/ SpuriousProducer(p)
  PROVE  CleanInv'
<1> USE DEF RingInv, CleanInv
<1>0. Exe \in Files /\ Libs \subseteq Files
  BY DEF Files
<1>1. ~lockHeld' /\ dependency' = dependency /\ (cpc' # "start" => cpc # "start")
  BY DEF ProducerStep, LoadFile, LoadFails, SkipEntry, SendSym, WaitNotFull,
      FinishProducer, Signalled, ProducerCrashes, TouchFreed, Crash, SpuriousProducer,
      consumerAndMain, trees
<1>2. \A q \in Files : ppc[q] # "none" => ppc'[q] # "none"
  BY DEF ProducerStep, LoadFile, LoadFails, SkipEntry, SendSym, WaitNotFull, FinishProducer,
         ProducerCrashes, TouchFreed, Crash, SpuriousProducer, MoveTo, producers, TypeOK
<1>3. ASSUME NEW q \in Files, ppc'[q] \in {"finish", "finished"}  PROVE Walked(q)'
  <2>1. ppos'[q] = ppos[q] \/ ppos'[q] = ppos[q] + 1
    BY DEF ProducerStep, LoadFile, LoadFails, SkipEntry, SendSym, WaitNotFull,
        FinishProducer, ProducerCrashes, TouchFreed, Crash, SpuriousProducer, producers,
        TypeOK
  <2>2. prc'[q] = "error" \/ (prc'[q] = prc[q] /\ Walked(q))
    <3>1. CASE LoadFails(p)
      BY <1>3, <3>1 DEF LoadFails, MoveTo, TypeOK
    <3>2. CASE LoadFile(p)
      BY <1>3, <3>2 DEF LoadFile, MoveTo, TypeOK
    <3>3. CASE FinishProducer(p)
      BY <1>3, <3>3 DEF FinishProducer, AtEnd, MoveTo, TypeOK, Walked
    <3>4. CASE ~LoadFails(p) /\ ~LoadFile(p) /\ ~FinishProducer(p)
      <4>1. prc' = prc /\ ppc[q] = ppc'[q]
        BY <1>3, <3>4
        DEF ProducerStep, SkipEntry, SendSym, WaitNotFull, ProducerCrashes, TouchFreed,
            Crash, SpuriousProducer, MoveTo, producers, TypeOK
      <4> QED
        BY <1>3, <4>1
    <3> QED
      BY <3>1, <3>2, <3>3, <3>4
  <2>3. ppos[q] \in Nat /\ Len(DynSym[q]) \in Nat
    BY FilesAssumption DEF TypeOK
  <2> QED
    BY <2>1, <2>2, <2>3 DEF Walked
<1> QED
  BY <1>0, <1>1, <1>2, <1>3 DEF TypeOK

(* What a file that was heard asks for is resolved once its thread is done *)
(* and the ring is empty, and the consumer's hand too.                     *)
LEMMA DrainedMeansComplete ==
  ASSUME RingInv, AllAccounted, CleanInv, HeardInv, IsEmpty, cpc = "returned", NoneLive
  PROVE  Complete
<1> USE DEF RingInv
<1> DEFINE S == dependency \cup {Exe}
<1>1. ASSUME NEW f \in S \cap Heard, NEW s \in Needs[f]
      PROVE  /\ s \in Syms
             /\ Lookup[s] \in dependency \/ (Lookup[s] = NoLib /\ s \in undefinedSym)
  <2>1. f \in Files /\ prc[f] = "OK"
    BY DEF Heard
  <2>2. ppc[f] \in {"finish", "finished"}
    BY <2>1 DEF HeardInv, HeardOf, NoneLive, Live, TypeOK, ProducerPlaces
  <2>3. PICK i \in 1..Len(DynSym[f]) : Wanted(DynSym[f][i]) /\ s = DynSym[f][i].name
    BY <2>1, NeedsWanted
  <2>4. Len(DynSym[f]) \in Nat /\ ppos[f] \in Nat
    BY <2>1, FilesAssumption DEF TypeOK
  <2>5. i < ppos[f]
    BY <2>1, <2>2, <2>4 DEF CleanInv, Walked
  <2>6. s \in Syms /\ Accounted(s)
    BY <2>1, <2>3, <2>5, NeedsWanted DEF AllAccounted, Passed
  <2>7. \A k \in Slots : slot[k] = NoSym
    BY DEF SlotsMatchWindow, InWindow, IsEmpty, TypeOK, Slots
  <2> QED
    BY <2>6, <2>7, FilesAssumption DEF Accounted
<1>2. \A s \in Asked(S, Heard) : \E f \in S \cap Heard : s \in Needs[f]
  BY DEF Asked
<1>3. Closed(S, Heard)
  BY <1>1, <1>2 DEF Closed
<1>4. Unresolvable(S, Heard) \subseteq undefinedSym
  <2> SUFFICES ASSUME NEW s \in Unresolvable(S, Heard) PROVE s \in undefinedSym
    OBVIOUS
  <2>1. Lookup[s] = NoLib /\ NoLib \notin dependency
    BY FilesAssumption DEF Unresolvable, TypeOK
  <2>2. PICK f \in S \cap Heard : s \in Needs[f]
    BY <1>2 DEF Unresolvable
  <2> QED
    BY <1>1, <2>1, <2>2
<1> QED
  BY <1>3, <1>4 DEF Complete

CleanRun == "malloc" \notin Faults => CleanInv

LEMMA StepKeepsClean ==
  ASSUME RingInv, HeardInv, CleanRun, [Next]_vars
  PROVE  CleanRun'
<1> SUFFICES ASSUME "malloc" \notin Faults, CleanInv PROVE CleanInv'
  BY DEF CleanRun
<1>1. CASE ConsumerStep
  BY <1>1, ConsumerKeepsClean
<1>2. ASSUME NEW p \in Files, ProducerStep(p) \/ SpuriousProducer(p)  PROVE CleanInv'
  BY <1>2, ProducerKeepsClean
<1>3. CASE SpuriousConsumer \/ MainStep \/ UNCHANGED vars
  BY <1>3 DEF SpuriousConsumer, MainStep, DestroyBuffer, Exit, vars, trees, producers,
              consumerAndMain, CleanInv, Walked
<1> QED
  BY <1>1, <1>2, <1>3 DEF Next, Over

LEMMA CleanInit == Init => CleanRun
BY DEF Init, CleanRun, CleanInv

LEMMA ReportFromRing ==
  ASSUME RingInv, AccountInv, CleanRun, HeardInv, cpc = "returned" => NoneLive \/ lockHeld
  PROVE  MissingOnlyFromRing
<1> SUFFICES ASSUME "malloc" \notin Faults, Reported, IsEmpty
             PROVE  /\ Complete
                    /\ \A f \in (dependency \cup {Exe}) \ Heard :
                         prc[f] = "error" \/ ppc[f] = "lost"
  BY DEF MissingOnlyFromRing
<1>1. AllAccounted /\ CleanInv /\ cpc = "returned"
  BY DEF AccountInv, CleanRun, Reported
<1>2. NoneLive
  BY <1>1 DEF CleanInv
<1>3. ASSUME NEW f \in (dependency \cup {Exe}) \ Heard
      PROVE  prc[f] = "error" \/ ppc[f] = "lost"
  <2>1. f \in Files /\ prc[f] # "OK"
    BY DEF Heard, RingInv, TypeOK, Files
  <2>2. ppc[f] # "none"
    BY <1>1 DEF CleanInv
  <2>3. ppc[f] \in {"finished", "lost"}
    BY <1>2, <2>1, <2>2 DEF NoneLive, Live, RingInv, TypeOK, ProducerPlaces
  <2> QED
    BY <2>1, <2>3 DEF HeardInv, HeardOf
<1> QED
  BY <1>1, <1>2, <1>3, DrainedMeansComplete

(* While allocations succeed, whatever else fails, a report lacks nothing  *)
(* that a file which was read asks for, unless symbols were left in the    *)
(* ring; and a file of the report that was not read has left its error     *)
(* with its thread, or never had a thread.                                 *)
THEOREM OnlyRingIsMissed == Spec => []MissingOnlyFromRing
<1>1. RingInv /\ AccountInv /\ CleanRun /\ HeardInv /\ OutliveInv => MissingOnlyFromRing
  BY ReportFromRing DEF OutliveInv
<1> QED
  BY <1>1, CleanInit, StepKeepsClean, RingInvariant, HeardInvariant, AccountInvariant,
     OutliveInvariant, PTL DEF Spec

-----------------------------------------------------------------------------
(* The implementation of Resolution.                                       *)

(* What is on its way from the producers to the trees.                     *)
Hand == IF cpc = "check" THEN <<sym>> ELSE <<>>
Queue == Hand \o RingContents

Names == Syms \cup {NoSym}

(* The ring's contents are a sequence of as many symbols as the window     *)
(* has slots.                                                              *)
RingShape ==
  /\ Used \in Nat /\ Used < Cap
  /\ RingContents \in Seq(Names) /\ Len(RingContents) = Used
  /\ \A k \in 1..Used : SlotAt(k - 1) \in Slots /\ RingContents[k] = slot[SlotAt(k - 1)]

LEMMA RingHasShape == RingInv => RingShape
<1> SUFFICES ASSUME RingInv PROVE RingShape
  OBVIOUS
<1>1. /\ head \in Int /\ tail \in Int /\ Cap \in Int
      /\ 0 <= head /\ head < Cap /\ 0 <= tail /\ tail < Cap
  BY PipelineAssumption DEF RingInv, TypeOK, Slots
<1>2. Used \in Nat /\ Used < Cap
  BY <1>1 DEF Used
<1>3. ASSUME NEW k \in 1..Used
      PROVE  SlotAt(k - 1) \in Slots
  BY <1>1, <1>2 DEF SlotAt, Slots
<1>4. \A i \in Slots : slot[i] \in Names
  BY DEF RingInv, TypeOK, Names
<1>5. RingContents \in [1..Used -> Names]
  BY <1>3, <1>4 DEF RingContents
<1>6. RingContents \in Seq(Names) /\ Len(RingContents) = Used
  BY <1>2, <1>5
<1>7. \A k \in 1..Used : RingContents[k] = slot[SlotAt(k - 1)]
  BY DEF RingContents
<1> QED
  BY <1>2, <1>3, <1>6, <1>7 DEF RingShape

LEMMA RingKeepsShape == RingInv' => RingShape'
BY RingHasShape, PTL

(* A symbol sent joins the end of the queue.                               *)
LEMMA SendAppends ==
  ASSUME RingInv, RingInv', NEW p \in Files, SendSym(p)
  PROVE  RingContents' = Append(RingContents, Entry(p).name)
<1> DEFINE n == Entry(p).name
           new == Append(RingContents, n)
<1>1. RingShape /\ RingShape'
  BY RingHasShape, RingKeepsShape
<1>2. /\ head \in Int /\ tail \in Int /\ Cap \in Int
      /\ 0 <= head /\ head < Cap /\ 0 <= tail /\ tail < Cap
  BY PipelineAssumption DEF RingInv, TypeOK, Slots
<1>3. head' = head /\ tail' = NextIndex(tail) /\ NextIndex(tail) # head
  BY NextIndexIsMod DEF SendSym, IsFull, RingInv, TypeOK
<1>4. Used' = Used + 1
  BY <1>2, <1>3 DEF Used, NextIndex
<1>5. SlotAt(Used) = tail /\ \A k \in 1..Used : SlotAt(k - 1) # tail
  BY <1>1, <1>2 DEF Used, SlotAt, RingShape
<1>6. n \in Names
  BY EntryIsSymbol DEF RingInv, SendSym, Names
<1> HIDE DEF n
<1>7. /\ new \in Seq(Names) /\ Len(new) = Used + 1
      /\ \A k \in 1..Used : new[k] = RingContents[k]
      /\ new[Used + 1] = n
  BY <1>1, <1>6 DEF RingShape
<1> HIDE DEF new
<1>8. \A k \in 1..(Used + 1) : SlotAt(k - 1)' = SlotAt(k - 1)
  BY <1>3 DEF SlotAt
<1>9. slot' = [slot EXCEPT ![tail] = n] /\ slot \in [Slots -> Names] /\ tail \in Slots
  BY DEF SendSym, RingInv, TypeOK, Names, n
<1>10. ASSUME NEW k \in 1..(Used + 1)
       PROVE  RingContents'[k] = new[k]
  <2>1. RingContents'[k] = slot'[SlotAt(k - 1)]
    BY <1>1, <1>4, <1>8 DEF RingShape
  <2>2. CASE k \in 1..Used
    <3>1. slot'[SlotAt(k - 1)] = slot[SlotAt(k - 1)]
      BY <1>1, <1>5, <1>9, <2>2 DEF RingShape
    <3> QED
      BY <1>1, <1>7, <2>1, <2>2, <3>1 DEF RingShape
  <2>3. CASE k = Used + 1
    <3>1. k - 1 = Used
      BY <1>1, <2>3 DEF RingShape
    <3> QED
      BY <1>5, <1>7, <1>9, <2>1, <2>3, <3>1
  <2> QED
    BY <1>1, <2>2, <2>3 DEF RingShape
<1>11. RingContents' \in Seq(Names) /\ Len(RingContents') = Used + 1
  BY <1>1, <1>4 DEF RingShape, Names
<1> QED
  BY <1>7, <1>10, <1>11, SeqEqual DEF new, n

(* The symbol taken was the first of the ring.                             *)
LEMMA PopTakesFirst ==
  ASSUME RingInv, RingInv', PopSym
  PROVE  <<slot[head]>> \o RingContents' = RingContents
<1> DEFINE one == <<slot[head]>>
           all == one \o RingContents'
<1>1. RingShape /\ RingShape'
  BY RingHasShape, RingKeepsShape
<1>2. /\ head \in Int /\ tail \in Int /\ Cap \in Int
      /\ 0 <= head /\ head < Cap /\ 0 <= tail /\ tail < Cap
  BY PipelineAssumption DEF RingInv, TypeOK, Slots
<1>3. head' = NextIndex(head) /\ tail' = tail /\ head # tail
  BY DEF PopSym, IsEmpty
<1>4. Used' = Used - 1 /\ Used >= 1
  BY <1>2, <1>3 DEF Used, NextIndex
<1>5. /\ SlotAt(0) = head
      /\ \A k \in 2..Used : SlotAt(k - 2)' = SlotAt(k - 1) /\ SlotAt(k - 1) # head
  BY <1>1, <1>2, <1>3 DEF SlotAt, NextIndex, RingShape
<1>6. /\ slot' = [slot EXCEPT ![head] = NoSym] /\ slot \in [Slots -> Names] /\ head \in Slots
      /\ slot[head] \in Names
  BY DEF PopSym, RingInv, TypeOK, Names
<1>7. one \in Seq(Names) /\ Len(one) = 1 /\ one[1] = slot[head]
  BY <1>6
<1>8. RingContents' \in Seq(Names) /\ Len(RingContents') = Used - 1
  BY <1>1, <1>4 DEF RingShape, Names
<1> HIDE DEF one
<1>9. /\ all \in Seq(Names) /\ Len(all) = Used
      /\ \A k \in 1..Used : all[k] = IF k <= 1 THEN one[k] ELSE RingContents'[k - 1]
  <2>1. /\ all \in Seq(Names) /\ Len(all) = Len(one) + Len(RingContents')
        /\ \A k \in 1..(Len(one) + Len(RingContents')) :
             all[k] = IF k <= Len(one) THEN one[k] ELSE RingContents'[k - Len(one)]
    BY <1>7, <1>8, ConcatProperties
  <2>2. 1 + (Used - 1) = Used
    BY <1>1 DEF RingShape
  <2> QED
    BY <1>7, <1>8, <2>1, <2>2
<1> HIDE DEF all
<1>10. ASSUME NEW k \in 1..Used
       PROVE  all[k] = RingContents[k]
  <2>1. CASE k = 1
    BY <1>1, <1>5, <1>7, <1>9, <2>1 DEF RingShape
  <2>2. CASE k \in 2..Used
    <3>1. k - 1 \in 1..Used' /\ (k - 1) - 1 = k - 2
      BY <1>1, <1>4, <2>2 DEF RingShape
    <3>2. RingContents'[k - 1] = slot'[SlotAt(k - 2)']
      BY <1>1, <3>1 DEF RingShape
    <3>3. slot'[SlotAt(k - 1)] = slot[SlotAt(k - 1)]
      BY <1>1, <1>5, <1>6, <2>2 DEF RingShape
    <3> QED
      BY <1>1, <1>5, <1>9, <2>2, <3>2, <3>3 DEF RingShape
  <2> QED
    BY <1>1, <2>1, <2>2 DEF RingShape
<1> QED
  BY <1>1, <1>9, <1>10, SeqEqual DEF RingShape, all, one

LEMMA QueueShape ==
  ASSUME RingInv
  PROVE  /\ Queue \in Seq(Names)
         /\ cpc # "check" => Queue = RingContents
         /\ cpc = "check" => /\ Queue # <<>> /\ Head(Queue) = sym
                             /\ Tail(Queue) = RingContents
<1>1. RingContents \in Seq(Names) /\ sym \in Names
  BY RingHasShape DEF RingShape, RingInv, TypeOK, Names
<1>2. CASE cpc # "check"
  BY <1>1, <1>2, ConcatEmptySeq DEF Queue, Hand
<1>3. CASE cpc = "check"
  <2> DEFINE one == <<sym>>
  <2>1. one \in Seq(Names) /\ Len(one) = 1 /\ one[1] = sym
    BY <1>1
  <2> HIDE DEF one
  <2>2. Len(RingContents) \in Nat
    BY <1>1
  <2>3. /\ Queue \in Seq(Names) /\ Len(Queue) = Len(one) + Len(RingContents)
        /\ \A i \in 1..(Len(one) + Len(RingContents)) :
             Queue[i] = IF i <= Len(one) THEN one[i] ELSE RingContents[i - Len(one)]
    <3>1. Queue = one \o RingContents
      BY <1>3 DEF Queue, Hand, one
    <3> QED
      BY <1>1, <2>1, <3>1, ConcatProperties
  <2>4. Queue # <<>> /\ Queue[1] = sym /\ Len(Queue) = Len(RingContents) + 1
    BY <2>1, <2>2, <2>3, EmptySeq
  <2>5. /\ Tail(Queue) \in Seq(Names) /\ Len(Tail(Queue)) = Len(RingContents)
        /\ \A i \in 1..Len(RingContents) : Tail(Queue)[i] = Queue[i + 1]
    BY <2>2, <2>3, <2>4, HeadTailProperties
  <2>6. \A i \in 1..Len(RingContents) : Tail(Queue)[i] = RingContents[i]
    BY <2>1, <2>2, <2>3, <2>5
  <2>7. Tail(Queue) = RingContents
    BY <1>1, <2>5, <2>6, SeqEqual
  <2>8. Head(Queue) = Queue[1]
    BY <2>3, <2>4
  <2> QED
    BY <1>3, <2>3, <2>4, <2>7, <2>8
<1> QED
  BY <1>2, <1>3

(* The queue is as it was while the ring and the consumer's hand are.      *)
LEMMA QueueKept ==
  ASSUME UNCHANGED ring, sym' = sym, cpc' = "check" <=> cpc = "check"
  PROVE  Queue' = Queue
BY DEF Queue, Hand, RingContents, Used, SlotAt, ring

(* The abstract specification speaks of the same files.                    *)
LEMMA SameFiles ==
  /\ Abs!Files = Files /\ Abs!Lookup = Lookup
  /\ \A e : Abs!Wanted(e) <=> Wanted(e)
BY DEF Abs!Files, Files, Abs!Wanted, Wanted, Abs!Lookup, Lookup, Abs!AnswersOf, AnswersOf,
       Abs!FirstOf, FirstOf, Abs!Definers, Definers

LEMMA InitMaps == Init => Abs!Init
<1> SUFFICES ASSUME Init PROVE Abs!Init
  OBVIOUS
<1>1. RingInv
  BY RingInit
<1>2. Used = 0
  BY DEF Init, Used
<1>3. RingContents = <<>>
  BY <1>1, <1>2, RingHasShape, EmptySeq DEF RingShape
<1>4. Queue = <<>>
  BY <1>1, <1>3, QueueShape DEF Init
<1> QED
  BY <1>4, SameFiles DEF Abs!Init, Init, Queue, Hand

(* Each step of a producer that moves it on is a step of Resolution.       *)
LEMMA SendContributes ==
  ASSUME RingInv, RingInv', CountInv, HeardInv, NEW p \in Files, SendSym(p)
  PROVE  Abs!Contribute(p)
<1> DEFINE n == Entry(p).name
<1>1. p = Exe \/ p \in dependency
  BY DEF CountInv, CreatedDiscovered, SendSym, HasEntry, Files
<1>2. p \notin Refused /\ ppos[p] <= Len(DynSym[p]) /\ Wanted(DynSym[p][ppos[p]])
  BY DEF SendSym, HasEntry, HeardInv, HeardOf, Entry
<1>3. Hand' = Hand /\ (cpc' \notin {"join", "returned"} <=> cpc \notin {"join", "returned"})
  BY DEF SendSym, Signalled, Hand, consumerAndMain
<1>4. n \in Names
  BY EntryIsSymbol DEF RingInv, SendSym, Names
<1>5. Hand \in Seq(Names)
  <2>1. sym \in Names
    BY DEF RingInv, TypeOK, Names
  <2>2. <<sym>> \in Seq(Names) /\ <<>> \in Seq(Names)
    BY <2>1
  <2> QED
    BY <2>2 DEF Hand
<1>6. RingContents' = Append(RingContents, n)
  BY SendAppends
<1>7. Hand \o Append(RingContents, n) = Append(Queue, n)
  <2> DEFINE last == <<n>>
  <2>1. RingContents \in Seq(Names) /\ last \in Seq(Names)
    BY <1>4, RingHasShape DEF RingShape
  <2>2. Append(RingContents, n) = RingContents \o last
    BY <1>4, <2>1, AppendIsConcat
  <2>3. Append(Queue, n) = Queue \o last
    BY <1>4, QueueShape, AppendIsConcat
  <2> HIDE DEF last
  <2>4. (Hand \o RingContents) \o last = Hand \o (RingContents \o last)
    BY <1>5, <2>1, ConcatAssociative
  <2> QED
    BY <2>2, <2>3, <2>4 DEF Queue
<1>8. Queue' = Append(Queue, n)
  BY <1>3, <1>6, <1>7 DEF Queue
<1> HIDE DEF n
<1>9. ppos' = [ppos EXCEPT ![p] = @ + 1] /\ UNCHANGED trees
  BY DEF SendSym, consumerAndMain, trees
<1> QED
  BY <1>1, <1>2, <1>3, <1>8, <1>9, SameFiles
  DEF Abs!Contribute, Abs!Discovered, Abs!HasNext, Abs!Advance, Queue, Hand, n, Entry, trees

LEMMA SkipPasses ==
  ASSUME RingInv, CountInv, HeardInv, "malloc" \notin Faults,
         NEW p \in Files, SkipEntry(p)
  PROVE  Abs!Pass(p)
<1>1. p = Exe \/ p \in dependency
  BY DEF CountInv, CreatedDiscovered, SkipEntry, HasEntry, Files
<1>2. p \notin Refused /\ ppos[p] <= Len(DynSym[p]) /\ ~Wanted(DynSym[p][ppos[p]])
  BY DEF SkipEntry, HasEntry, HeardInv, HeardOf, Entry, MayFail
<1>3. Queue' = Queue
  BY QueueKept DEF SkipEntry, consumerAndMain
<1>4. cpc' = cpc /\ ppos' = [ppos EXCEPT ![p] = @ + 1] /\ UNCHANGED trees
  BY DEF SkipEntry, consumerAndMain, trees
<1> QED
  BY <1>1, <1>2, <1>3, <1>4, SameFiles
  DEF Abs!Pass, Abs!Discovered, Abs!HasNext, Abs!Advance, Queue, Hand, trees

(* What the consumer does with the symbol in its hand is a lookup of the   *)
(* first of the queue.                                                     *)
LEMMA LookupResolves ==
  ASSUME RingInv, RingInv', KeepUndefined \/ KnownLibrary \/ NewLibrary
  PROVE  Abs!Resolve
<1>1. cpc = "check" /\ cpc' \in {"loop", "count"} /\ ppos' = ppos /\ UNCHANGED ring
  BY DEF KeepUndefined, KnownLibrary, NewLibrary, NewFound, CreateThread, producers
<1>2. Queue # <<>> /\ Head(Queue) = sym /\ Tail(Queue) = RingContents
  BY <1>1, QueueShape
<1>3. Queue' = RingContents
  <2>1. RingContents' = RingContents
    BY <1>1 DEF RingContents, Used, SlotAt, ring
  <2>2. Hand' = <<>>
    BY <1>1 DEF Hand
  <2> QED
    BY <2>1, <2>2, RingHasShape, ConcatEmptySeq DEF Queue, RingShape
<1>4. IF Lookup[sym] = NoLib
      THEN undefinedSym' = undefinedSym \cup {sym} /\ UNCHANGED dependency
      ELSE dependency' = dependency \cup {Lookup[sym]} /\ UNCHANGED undefinedSym
  BY DEF KeepUndefined, KnownLibrary, NewLibrary, NewFound, trees
<1> QED
  BY <1>1, <1>2, <1>3, <1>4, SameFiles DEF Abs!Resolve, Queue, Hand

(* Resolution closes as the consumer leaves its loop, or never enters it.  *)
LEMMA LeaveCloses ==
  ASSUME RingInv, LeaveLoop
  PROVE  Abs!Close
<1>1. Used = 0
  BY DEF LeaveLoop, IsEmpty, Used, RingInv, TypeOK, Slots
<1>2. Queue = <<>>
  BY <1>1, RingHasShape, QueueShape, EmptySeq DEF RingShape, LeaveLoop
<1>3. Queue' = Queue
  BY QueueKept DEF LeaveLoop
<1> QED
  BY <1>2, <1>3 DEF Abs!Close, LeaveLoop, Queue, Hand, trees, producers

(* A step Resolution does not see.                                         *)
AbsKept ==
  /\ Queue' = Queue /\ ppos' = ppos /\ UNCHANGED trees
  /\ cpc' \notin {"join", "returned"} <=> cpc \notin {"join", "returned"}

LEMMA StutterMaps == ASSUME AbsKept PROVE UNCHANGED Abs!vars
BY DEF AbsKept, Abs!vars, Queue, Hand, trees

LEMMA ConsumerMaps ==
  ASSUME RingInv, RingInv', "malloc" \notin Faults, ConsumerStep
  PROVE  Abs!Resolve \/ Abs!Close \/ UNCHANGED Abs!vars
<1>1. CASE KeepUndefined \/ KnownLibrary \/ NewLibrary
  BY <1>1, LookupResolves
<1>2. CASE LeaveLoop
  BY <1>2, LeaveCloses
<1>3. CASE PopSym
  <2>1. cpc = "loop" /\ cpc' = "check" /\ sym' = slot[head] /\ ppos' = ppos /\ UNCHANGED trees
    BY <1>3 DEF PopSym
  <2>2. Queue' = RingContents
    BY <1>3, <2>1, PopTakesFirst DEF Queue, Hand
  <2>3. Queue = RingContents
    BY <2>1, QueueShape
  <2> QED
    BY <2>1, <2>2, <2>3, StutterMaps DEF AbsKept
<1>4. CASE StartExe \/ CountProducer \/ WaitNotEmpty \/ JoinProducers \/ Crash
  <2>1. /\ UNCHANGED ring /\ sym' = sym /\ (cpc' = "check" <=> cpc = "check")
        /\ ppos' = ppos /\ UNCHANGED trees
        /\ cpc' \notin {"join", "returned"} <=> cpc \notin {"join", "returned"}
    BY <1>4 DEF StartExe, CreateThread, CountProducer, WaitNotEmpty, JoinProducers, Crash,
                producers
  <2> QED
    BY <2>1, QueueKept, StutterMaps DEF AbsKept
<1> QED
  BY <1>1, <1>2, <1>3, <1>4
  DEF ConsumerStep, StartFails, PopFails, AddFails, SpawnFails, SpawnCrashes, JoinGarbage,
      MayFail

LEMMA ProducerMaps ==
  ASSUME RingInv, RingInv', CountInv, HeardInv, "malloc" \notin Faults,
         NEW p \in Files, ProducerStep(p) \/ SpuriousProducer(p)
  PROVE  Abs!Contribute(p) \/ Abs!Pass(p) \/ UNCHANGED Abs!vars
<1>1. CASE SendSym(p)
  BY <1>1, SendContributes
<1>2. CASE SkipEntry(p)
  BY <1>2, SkipPasses
<1>3. CASE \/ LoadFile(p) \/ LoadFails(p) \/ WaitNotFull(p) \/ FinishProducer(p) \/ Crash
           \/ SpuriousProducer(p)
  <2>1. /\ UNCHANGED ring /\ sym' = sym /\ (cpc' = "check" <=> cpc = "check")
        /\ ppos' = ppos /\ UNCHANGED trees
        /\ cpc' \notin {"join", "returned"} <=> cpc \notin {"join", "returned"}
    BY <1>3 DEF LoadFile, LoadFails, WaitNotFull, FinishProducer, Signalled, Crash,
        SpuriousProducer, producers, consumerAndMain
  <2> QED
    BY <2>1, QueueKept, StutterMaps DEF AbsKept
<1> QED
  BY <1>1, <1>2, <1>3 DEF ProducerStep, ProducerCrashes, TouchFreed

LEMMA StepMaps ==
  ASSUME RingInv, RingInv', CountInv, HeardInv, "malloc" \notin Faults, [Next]_vars
  PROVE  [Abs!Next]_(Abs!vars)
<1>1. CASE ConsumerStep
  BY <1>1, ConsumerMaps DEF Abs!Next
<1>2. ASSUME NEW p \in Files, ProducerStep(p) \/ SpuriousProducer(p)
      PROVE  [Abs!Next]_(Abs!vars)
  BY <1>2, ProducerMaps, SameFiles DEF Abs!Next
<1>3. CASE SpuriousConsumer \/ MainStep \/ UNCHANGED vars
  <2>1. /\ UNCHANGED ring /\ sym' = sym /\ (cpc' = "check" <=> cpc = "check")
        /\ ppos' = ppos /\ UNCHANGED trees
        /\ cpc' \notin {"join", "returned"} <=> cpc \notin {"join", "returned"}
    BY <1>3 DEF SpuriousConsumer, MainStep, DestroyBuffer, Exit, vars, ring, trees,
                producers, consumerAndMain
  <2> QED
    BY <2>1, QueueKept, StutterMaps DEF AbsKept
<1> QED
  BY <1>1, <1>2, <1>3 DEF Next, Over

(* The threads, the bounded ring and the condition variables implement     *)
(* resolution with one queue: every symbol is looked up exactly once, in   *)
(* the order it was handed over, as long as allocations succeed.           *)
THEOREM Implements ==
  ASSUME "malloc" \notin Faults
  PROVE  Spec => ImplementsResolution
<1>1. RingInv /\ RingInv' /\ CountInv /\ HeardInv /\ [Next]_vars => [Abs!Next]_(Abs!vars)
  BY StepMaps
<1> QED
  BY <1>1, InitMaps, RingInvariant, CountInvariant, HeardInvariant, PTL
  DEF Spec, ImplementsResolution, Abs!Spec
=============================================================================
