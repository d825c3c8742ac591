----------------------------- MODULE SymPipeline -----------------------------
(***************************************************************************)
(* The threads of libscout.c that resolve an executable's symbols.         *)
(*                                                                         *)
(* One consumer (resolve_undefined_sym) takes symbols from a ring buffer,  *)
(* looks each up in the symbol cache and starts a producer thread          *)
(* (get_undefined_sym) for every library it discovers; producers walk the  *)
(* .dynsym table of their file and put the symbols they need into the ring *)
(* (send_sym_to_buffer).  main_thread waits for the consumer and frees the *)
(* buffer.  A producer is named by the file it reads: the executable has   *)
(* one, and a library gets one when it enters the dependency tree.         *)
(*                                                                         *)
(* The ring, producer_count and producer_done are touched only with        *)
(* write_mutex held, so each section between lock and unlock (or           *)
(* pthread_cond_wait) is one action.  The mutex itself shows only when the *)
(* consumer returns without unlocking it (lockHeld).                       *)
(***************************************************************************)
EXTENDS SymNeeds, Integers

CONSTANTS
  Cap,      \* MAX_LIB_ENTRY: slots of the ring, one of which stays free
  InitArr,  \* INITIAL_PRODUCER_ARRAY_SIZE
  Faults    \* what may fail: "malloc" (any allocation), "pthread_create",
            \* "file" (opening, seeking in or reading any file)

ASSUME PipelineAssumption ==
  /\ Cap \in Nat /\ Cap >= 2
  /\ InitArr \in Nat /\ InitArr >= 1
  /\ Faults \in SUBSET {"malloc", "pthread_create", "file"}

VARIABLES
  slot, head, tail,             \* mpsc_buffer_t: buffer, head, tail
  producerCount, producerDone,  \* mpsc_buffer_t: producer_count, producer_done
  lockHeld,      \* the consumer returned with write_mutex locked
  cpc,           \* where the consumer is
  sym,           \* the symbol the consumer has taken and not yet looked up
  dependency,    \* tree of discovered libraries
  undefinedSym,  \* tree of symbols no library defines
  nProducers,    \* number_of_producers
  arrSize,       \* producer_arr_size
  crc,           \* the consumer's rc
  ppc,           \* where each producer thread is
  ppos,          \* the .dynsym entry each producer's iterator is at
  prc,           \* what process_elf_file returned to each producer
  process        \* the process: running, buffer destroyed, exited, crashed

ring == <<slot, head, tail>>
counts == <<producerCount, producerDone>>
trees == <<dependency, undefinedSym>>
producers == <<ppc, ppos, prc>>
vars == <<slot, head, tail, producerCount, producerDone, lockHeld, cpc, sym,
          dependency, undefinedSym, nProducers, arrSize, crc, ppc, ppos, prc, process>>

Slots == 0..(Cap - 1)

(* Places a producer thread can be: not created; created; at an entry;     *)
(* blocked on not_full; done with its file; past its last critical         *)
(* section; or never started because pthread_create failed.                *)
ProducerPlaces == {"none", "start", "walk", "waiting", "finish", "finished", "lost"}

(* Places the consumer can be: before the executable's thread; between     *)
(* pthread_create and the increment of producer_count; at the head of its  *)
(* loop; blocked on not_empty; with a symbol in hand; joining; returned.   *)
ConsumerPlaces == {"start", "count", "loop", "waiting", "check", "join", "returned"}

Live == {"start", "walk", "waiting", "finish"}

Init ==
  /\ slot = [i \in Slots |-> NoSym] /\ head = 0 /\ tail = 0
  /\ producerCount = 0 /\ producerDone = FALSE
  /\ lockHeld = FALSE
  /\ cpc = "start" /\ sym = NoSym /\ crc = "OK"
  /\ dependency = {} /\ undefinedSym = {}
  /\ nProducers = 0 /\ arrSize = InitArr
  /\ ppc = [p \in Files |-> "none"]
  /\ ppos = [p \in Files |-> 1]
  /\ prc = [p \in Files |-> "none"]
  /\ process = "running"

MayFail(what) == what \in Faults

(* A NULL dereference or other fatal use of bad memory ends the process.   *)
Crash ==
  /\ process' = "crashed"
  /\ UNCHANGED <<ring, counts, lockHeld, cpc, sym, trees, nProducers, arrSize, crc, producers>>

-----------------------------------------------------------------------------
(* The ring.                                                               *)

NextIndexNoWrap(i) == i + 1   \* mutant: the reset to 0 forgotten
NextIndex(i) == IF i + 1 < Cap THEN i + 1 ELSE 0

IsEmpty == head = tail

IsFullNoWrap == tail + 1 = head   \* mutant: the modulus forgotten
IsFull == (tail + 1) % Cap = head

(* pthread_cond_signal/broadcast(not_empty): the one consumer re-tests.    *)
SignalledNobody == cpc   \* mutant: no signal
Signalled == IF cpc = "waiting" THEN "loop" ELSE cpc

(* pthread_cond_broadcast(not_full): every blocked producer re-tests.      *)
WokenNobody == ppc   \* mutant: no broadcast
Woken == [p \in Files |-> IF ppc[p] = "waiting" THEN "walk" ELSE ppc[p]]

-----------------------------------------------------------------------------
(* The consumer thread, resolve_undefined_sym.                             *)

(* pthread_create in process_file_sym.  Its result is not looked at, so a  *)
(* failure goes on like a success, with no thread behind it.               *)
CreateThread(f) ==
  /\ cpc' = "count"
  /\ \/ ppc' = [ppc EXCEPT ![f] = "start"]
     \/ MayFail("pthread_create") /\ ppc' = [ppc EXCEPT ![f] = "lost"]
  /\ UNCHANGED <<ppos, prc>>

(* The consumer allocates its array and trees, then starts the thread that *)
(* reads the executable.                                                   *)
StartExe ==
  /\ cpc = "start"
  /\ CreateThread(Exe)
  /\ UNCHANGED <<ring, counts, lockHeld, sym, trees, nProducers, arrSize, crc, process>>

StartFails ==
  /\ cpc = "start" /\ MayFail("malloc")
  /\ cpc' = "returned" /\ crc' = "ENOMEM"
  /\ UNCHANGED <<ring, counts, lockHeld, sym, trees, nProducers, arrSize, producers, process>>

(* process_file_sym counts the thread it has already started.              *)
CountStarted ==   \* mutant: the count set to the threads started so far
  /\ cpc = "count"
  /\ producerCount' = nProducers + 1
  /\ nProducers' = nProducers + 1
  /\ cpc' = "loop"
  /\ UNCHANGED <<ring, producerDone, lockHeld, sym, trees, arrSize, crc, producers, process>>
CountProducer ==
  /\ cpc = "count"
  /\ producerCount' = producerCount + 1
  /\ nProducers' = nProducers + 1
  /\ cpc' = "loop"
  /\ UNCHANGED <<ring, producerDone, lockHeld, sym, trees, arrSize, crc, producers, process>>

WaitNotEmpty ==
  /\ cpc = "loop" /\ IsEmpty /\ ~producerDone
  /\ cpc' = "waiting"
  /\ UNCHANGED <<ring, counts, lockHeld, sym, trees, nProducers, arrSize, crc, producers, process>>

PopSym ==
  /\ cpc = "loop" /\ ~IsEmpty
  /\ sym' = slot[head]
  /\ slot' = [slot EXCEPT ![head] = NoSym]
  /\ head' = NextIndex(head)
  /\ ppc' = Woken
  /\ cpc' = "check"
  /\ UNCHANGED <<tail, counts, lockHeld, trees, nProducers, arrSize, crc, ppos, prc, process>>

(* The copy of the symbol cannot be allocated: the thread returns at once, *)
(* with the mutex locked and its producers running.                        *)
PopFails ==
  /\ cpc = "loop" /\ ~IsEmpty /\ MayFail("malloc")
  /\ lockHeld' = TRUE
  /\ cpc' = "returned" /\ crc' = "ENOMEM"
  /\ UNCHANGED <<ring, counts, sym, trees, nProducers, arrSize, producers, process>>

LeaveLoop ==
  /\ cpc = "loop" /\ IsEmpty /\ producerDone
  /\ cpc' = "join"
  /\ UNCHANGED <<ring, counts, lockHeld, sym, trees, nProducers, arrSize, crc, producers, process>>

(* No cached library defines the symbol: it goes to the undefined tree,    *)
(* where a second insertion is EEXIST and ignored.                         *)
KeepFirstUndefined ==   \* mutant: a comparison that finds every symbol equal
  /\ cpc = "check" /\ Lookup[sym] = NoLib
  /\ undefinedSym' = (IF undefinedSym = {} THEN {sym} ELSE undefinedSym)
  /\ sym' = NoSym /\ cpc' = "loop"
  /\ UNCHANGED <<ring, counts, lockHeld, dependency, nProducers, arrSize, crc, producers, process>>
KeepUndefined ==
  /\ cpc = "check" /\ Lookup[sym] = NoLib
  /\ undefinedSym' = undefinedSym \cup {sym}
  /\ sym' = NoSym /\ cpc' = "loop"
  /\ UNCHANGED <<ring, counts, lockHeld, dependency, nProducers, arrSize, crc, producers, process>>

(* The library is in the dependency tree already (EEXIST).                 *)
KnownLibrary ==
  /\ cpc = "check" /\ Lookup[sym] # NoLib /\ Lookup[sym] \in dependency
  /\ sym' = NoSym /\ cpc' = "loop"
  /\ UNCHANGED <<ring, counts, lockHeld, trees, nProducers, arrSize, crc, producers, process>>

NewFoundAgain == cpc = "check" /\ Lookup[sym] # NoLib   \* mutant: a known library is new again
NewFound == cpc = "check" /\ Lookup[sym] # NoLib /\ Lookup[sym] \notin dependency

GrownLate == IF nProducers > arrSize THEN (arrSize + 1) * 2 ELSE arrSize   \* mutant
Grown == IF nProducers + 1 >= arrSize THEN (arrSize + 1) * 2 ELSE arrSize

(* A library seen for the first time enters the tree, the thread array     *)
(* grows when it must, and the library's own thread is started.            *)
NewLibrary ==
  /\ NewFound
  /\ dependency' = dependency \cup {Lookup[sym]}
  /\ arrSize' = Grown
  /\ CreateThread(Lookup[sym])
  /\ sym' = NoSym
  /\ UNCHANGED <<ring, counts, lockHeld, undefinedSym, nProducers, crc, process>>

(* Either tree refuses the new node (out of memory, or avl2_insert fails). *)
AddFails ==
  /\ MayFail("malloc")
  /\ NewFound \/ (cpc = "check" /\ Lookup[sym] = NoLib /\ sym \notin undefinedSym)
  /\ crc' = "ENOMEM"
  /\ sym' = NoSym /\ cpc' = "join"
  /\ UNCHANGED <<ring, counts, lockHeld, trees, nProducers, arrSize, producers, process>>

(* realloc, or an allocation in process_file_sym, fails when the library   *)
(* is in the tree already.                                                 *)
SpawnFailsUnseen ==   \* mutant: the failure is not noted in rc
  /\ MayFail("malloc") /\ NewFound
  /\ dependency' = dependency \cup {Lookup[sym]}
  /\ arrSize' \in {arrSize, Grown}
  /\ sym' = NoSym /\ cpc' = "loop"
  /\ UNCHANGED <<ring, counts, lockHeld, undefinedSym, nProducers, crc, producers, process>>
SpawnFails ==
  /\ MayFail("malloc") /\ NewFound
  /\ dependency' = dependency \cup {Lookup[sym]}
  /\ arrSize' \in {arrSize, Grown}
  /\ crc' = "ENOMEM"
  /\ sym' = NoSym /\ cpc' = "join"
  /\ UNCHANGED <<ring, counts, lockHeld, undefinedSym, nProducers, producers, process>>

(* process_file_sym stores through the context malloc did not give it.     *)
SpawnCrashes ==
  /\ MayFail("malloc")
  /\ cpc = "start" \/ NewFound
  /\ Crash

(* pthread_join on every thread, then the two lists are printed when rc is *)
(* still EXIT_SUCCESS, and the trees and the array are released.           *)
JoinFirstOnly ==   \* mutant: only the executable's thread is joined
  /\ cpc = "join"
  /\ ppc[Exe] \notin Live
  /\ cpc' = "returned"
  /\ UNCHANGED <<ring, counts, lockHeld, sym, trees, nProducers, arrSize, crc, producers, process>>
JoinProducers ==
  /\ cpc = "join"
  /\ \A p \in Files : ppc[p] \notin Live
  /\ cpc' = "returned"
  /\ UNCHANGED <<ring, counts, lockHeld, sym, trees, nProducers, arrSize, crc, producers, process>>

(* Joining a thread id pthread_create never wrote is undefined.            *)
JoinGarbage ==
  /\ cpc = "join" /\ \E p \in Files : ppc[p] = "lost"
  /\ Crash

ConsumerStep ==
  /\ process = "running"
  /\ \/ StartExe \/ StartFails \/ CountProducer
     \/ WaitNotEmpty \/ PopSym \/ PopFails \/ LeaveLoop
     \/ KeepUndefined \/ KnownLibrary \/ NewLibrary
     \/ AddFails \/ SpawnFails \/ SpawnCrashes
     \/ JoinProducers \/ JoinGarbage

-----------------------------------------------------------------------------
(* A producer thread, get_undefined_sym.                                   *)

Entry(p) == DynSym[p][ppos[p]]

HasEntry(p) == ppc[p] = "walk" /\ ppos[p] <= Len(DynSym[p])

MoveTo(p, place) == ppc' = [ppc EXCEPT ![p] = place]

consumerAndMain == <<lockHeld, sym, trees, nProducers, arrSize, crc, process>>

(* process_elf_file.  An error leaves the thread nothing to send; it is    *)
(* the thread's result, which the consumer only prints after the join.     *)
LoadFile(p) ==
  /\ ppc[p] = "start" /\ p \notin Refused
  /\ MoveTo(p, "walk") /\ prc' = [prc EXCEPT ![p] = "OK"]
  /\ UNCHANGED <<ring, counts, cpc, ppos, consumerAndMain>>

LoadFailsUnseen(p) ==   \* mutant: the error is not the thread's result
  /\ ppc[p] = "start"
  /\ p \in Refused \/ MayFail("file") \/ MayFail("malloc")
  /\ MoveTo(p, "finish") /\ prc' = [prc EXCEPT ![p] = "OK"]
  /\ UNCHANGED <<ring, counts, cpc, ppos, consumerAndMain>>
LoadFails(p) ==
  /\ ppc[p] = "start"
  /\ p \in Refused \/ MayFail("file") \/ MayFail("malloc")
  /\ MoveTo(p, "finish") /\ prc' = [prc EXCEPT ![p] = "error"]
  /\ UNCHANGED <<ring, counts, cpc, ppos, consumerAndMain>>

(* Entries that are not wanted are passed over; so is a wanted one whose   *)
(* name elf_sym_get_string fails to allocate.                              *)
SkipEntry(p) ==
  /\ HasEntry(p)
  /\ ~Wanted(Entry(p)) \/ MayFail("malloc")
  /\ ppos' = [ppos EXCEPT ![p] = @ + 1]
  /\ UNCHANGED <<ring, counts, cpc, ppc, prc, consumerAndMain>>

(* The producer can enter its critical section on a buffer that exists.    *)
CanLock == ~lockHeld /\ process = "running"

SendAnySym(p) ==   \* mutant: weak references are sent too
  /\ HasEntry(p) /\ ~Entry(p).def /\ Entry(p).name # NoSym /\ CanLock /\ ~IsFull
  /\ slot' = [slot EXCEPT ![tail] = Entry(p).name]
  /\ tail' = NextIndex(tail)
  /\ cpc' = Signalled
  /\ ppos' = [ppos EXCEPT ![p] = @ + 1]
  /\ UNCHANGED <<head, counts, ppc, prc, consumerAndMain>>
SendSym(p) ==
  /\ HasEntry(p) /\ Wanted(Entry(p)) /\ CanLock /\ ~IsFull
  /\ slot' = [slot EXCEPT ![tail] = Entry(p).name]
  /\ tail' = NextIndex(tail)
  /\ cpc' = Signalled
  /\ ppos' = [ppos EXCEPT ![p] = @ + 1]
  /\ UNCHANGED <<head, counts, ppc, prc, consumerAndMain>>

WaitNotFullOnce(p) ==   \* mutant: an entry met with the ring full is dropped
  /\ HasEntry(p) /\ Wanted(Entry(p)) /\ CanLock /\ IsFull
  /\ MoveTo(p, "waiting")
  /\ ppos' = [ppos EXCEPT ![p] = @ + 1]
  /\ UNCHANGED <<ring, counts, cpc, prc, consumerAndMain>>
WaitNotFull(p) ==
  /\ HasEntry(p) /\ Wanted(Entry(p)) /\ CanLock /\ IsFull
  /\ MoveTo(p, "waiting")
  /\ UNCHANGED <<ring, counts, cpc, ppos, prc, consumerAndMain>>

AtEnd(p) == ppc[p] = "finish" \/ (ppc[p] = "walk" /\ ppos[p] > Len(DynSym[p]))

LastProducerExact(count) == count = 0   \* mutant: an exact test
LastProducerLate(count) == count < 0   \* mutant: off by one
LastProducer(count) == count <= 0

(* The last critical section: the thread uncounts itself, and announces    *)
(* the end of production when no counted producer is left.                 *)
FinishProducer(p) ==
  /\ AtEnd(p) /\ CanLock
  /\ producerCount' = producerCount - 1
  /\ IF LastProducer(producerCount - 1)
     THEN producerDone' = TRUE /\ cpc' = Signalled
     ELSE UNCHANGED <<producerDone, cpc>>
  /\ MoveTo(p, "finished")
  /\ UNCHANGED <<ring, ppos, prc, consumerAndMain>>

(* The file brings the loader, or the walk over its table, down (ElfLoad). *)
(* Two allocations are used unchecked: the iterator over .dynsym, and the  *)
(* copy of the symbol in send_sym_to_buffer.                               *)
ProducerCrashes(p) ==
  /\ \/ p \in Odd /\ ppc[p] \in {"start", "walk"}
     \/ MayFail("malloc") /\ ppc[p] = "start" /\ p \notin Refused
     \/ MayFail("malloc") /\ HasEntry(p) /\ Wanted(Entry(p)) /\ CanLock /\ ~IsFull
  /\ Crash

(* The producer outlived the buffer and uses it.                           *)
TouchFreed(p) ==
  /\ process = "destroyed"
  /\ AtEnd(p) \/ (HasEntry(p) /\ Wanted(Entry(p)))
  /\ Crash

ProducerStep(p) ==
  /\ process \in {"running", "destroyed"}
  /\ \/ LoadFile(p) \/ LoadFails(p) \/ SkipEntry(p) \/ SendSym(p) \/ WaitNotFull(p)
     \/ FinishProducer(p) \/ ProducerCrashes(p) \/ TouchFreed(p)

-----------------------------------------------------------------------------
(* pthread_cond_wait may return unasked; both loops then test again.       *)
SpuriousConsumer ==
  /\ process = "running" /\ cpc = "waiting"
  /\ cpc' = "loop"
  /\ UNCHANGED <<ring, counts, producers, consumerAndMain>>

SpuriousProducer(p) ==
  /\ process = "running" /\ ppc[p] = "waiting"
  /\ MoveTo(p, "walk")
  /\ UNCHANGED <<ring, counts, cpc, ppos, prc, consumerAndMain>>

(* main_thread, once the consumer has been joined.                         *)
DestroyBuffer ==
  /\ process = "running" /\ cpc = "returned"
  /\ process' = "destroyed"
  /\ UNCHANGED <<ring, counts, lockHeld, cpc, sym, trees, nProducers, arrSize, crc, producers>>

(* main returns, which ends every thread still running.                    *)
Exit ==
  /\ process = "destroyed"
  /\ process' = "exited"
  /\ UNCHANGED <<ring, counts, lockHeld, cpc, sym, trees, nProducers, arrSize, crc, producers>>

MainStep == DestroyBuffer \/ Exit

Over == process \in {"exited", "crashed"} /\ UNCHANGED vars

Next ==
  \/ ConsumerStep \/ SpuriousConsumer
  \/ \E p \in Files : ProducerStep(p) \/ SpuriousProducer(p)
  \/ MainStep
  \/ Over

(* Every thread that can take a step takes one: the kernel schedules all   *)
(* of them, and a thread asking for write_mutex gets it.  No one is owed a *)
(* spurious wake-up.                                                       *)
Fairness ==
  /\ WF_vars(ConsumerStep)
  /\ WF_vars(MainStep)
  /\ \A p \in Files : WF_vars(ProducerStep(p))

Spec == Init /\ [][Next]_vars /\ Fairness

-----------------------------------------------------------------------------
TypeOK ==
  /\ slot \in [Slots -> Syms \cup {NoSym}]
  /\ head \in Slots /\ tail \in Slots
  /\ producerCount \in Int /\ producerDone \in BOOLEAN
  /\ lockHeld \in BOOLEAN
  /\ cpc \in ConsumerPlaces
  /\ sym \in Syms \cup {NoSym}
  /\ dependency \in SUBSET Libs /\ undefinedSym \in SUBSET Syms
  /\ nProducers \in Nat
  /\ arrSize \in Nat \ {0}
  /\ crc \in {"OK", "ENOMEM"}
  /\ ppc \in [Files -> ProducerPlaces]
  /\ ppos \in [Files -> Nat \ {0}]
  /\ prc \in [Files -> {"none", "OK", "error"}]
  /\ process \in {"running", "destroyed", "exited", "crashed"}

(* The slots from head up to tail, around the end of the array.            *)
InWindow(i) ==
  IF head <= tail THEN head <= i /\ i < tail ELSE head <= i \/ i < tail

(* A slot holds a symbol exactly when it lies between head and tail: no    *)
(* producer overwrites a symbol still to be taken, and the consumer never  *)
(* takes strlen of a NULL slot, whatever the wrap-around.                  *)
SlotsMatchWindow == \A i \in Slots : slot[i] # NoSym <=> InWindow(i)

(* A thread blocked on a condition variable is waiting for something that  *)
(* is still not so: every change that could let it go on has signalled it. *)
NoLostWakeup ==
  /\ cpc = "waiting" => IsEmpty /\ ~producerDone
  /\ \A p \in Files : ppc[p] = "waiting" => IsFull

(* producer_count is the number of counted threads less the finished ones, *)
(* where the newest thread is not counted between its creation and the     *)
(* increment: the count may drop below zero there, and nowhere else.       *)
Created == {p \in Files : ppc[p] # "none"}
Finished == {p \in Files : ppc[p] = "finished"}
Uncounted == IF cpc = "count" THEN 1 ELSE 0
CountAccounts ==
  producerCount = Cardinality(Created) - Uncounted - Cardinality(Finished)

(* While the consumer sleeps on not_empty there is a producer thread that  *)
(* can run and will wake it: the last thread to finish always finds        *)
(* producer_count at zero or below, even when it finished before it was    *)
(* counted.  Only a thread that was counted and never created can leave it *)
(* asleep.                                                                 *)
ConsumerNeverOrphaned ==
  cpc = "waiting" => \E p \in Files : ppc[p] \in {"start", "walk", "finish", "lost"}

(* No thread can go on of its own accord: the consumer sleeps, or joins    *)
(* producers of which some are not done, and no producer can run or take   *)
(* the mutex.                                                              *)
Stuck ==
  /\ process = "running"
  /\ cpc = "waiting" \/ (cpc = "join" /\ \E p \in Files : ppc[p] \in Live)
  /\ \A p \in Files : ppc[p] # "start" /\ (ppc[p] \in {"walk", "finish"} => lockHeld)

(* The threads hang in two ways only: the consumer waits for a thread that *)
(* was counted and never created, or it has left its loop for good and     *)
(* joins producers that wait for room in a full ring.                      *)
HangsInTwoWays ==
  Stuck =>
    \/ cpc = "waiting" /\ \E p \in Files : ppc[p] = "lost"
    \/ cpc = "join" /\ IsFull /\ \E p \in Files : ppc[p] = "waiting"

(* The thread id of a producer is written inside producer_thread_arr.      *)
SlotInArray == cpc = "count" => nProducers < arrSize

(* A symbol a producer has passed is in the ring, in the consumer's hand,  *)
(* in the undefined tree, or resolved to a library in the dependency tree: *)
(* none is dropped between the threads.                                    *)
Accounted(s) ==
  \/ \E i \in Slots : slot[i] = s
  \/ cpc = "check" /\ sym = s
  \/ Lookup[s] = NoLib /\ s \in undefinedSym
  \/ Lookup[s] \in dependency
NoSymbolLost ==
  "malloc" \notin Faults =>
    \A p \in Files : \A i \in 1..Len(DynSym[p]) :
      (i < ppos[p] /\ Wanted(DynSym[p][i])) => Accounted(DynSym[p][i].name)

(* The files whose tables were read.                                       *)
Heard == {p \in Files : prc[p] = "OK"}

(* Only what the executable needs, directly or through libraries it needs, *)
(* is ever listed: the dependency tree lies inside every set of files that *)
(* holds the executable and is closed under what the files heard so far    *)
(* ask for, and the undefined tree holds only symbols that such files ask  *)
(* for and no library answers for.                                         *)
Sound ==
  \A S \in ClosedSets(Heard) :
    dependency \subseteq S /\ undefinedSym \subseteq Unresolvable(S, Heard)

Reported == cpc = "returned" /\ crc = "OK"

Complete ==
  LET S == dependency \cup {Exe} IN
  Closed(S, Heard) /\ Unresolvable(S, Heard) \subseteq undefinedSym

(* Every producer thread that was counted was created.                     *)
NoneLost == \A p \in Files : ppc[p] # "lost"

(* While memory lasts, a report printed over a ring that ended up empty    *)
(* lists all that the files that were heard ask for, whatever failed: what *)
(* is missing from a report is still in the ring when it is printed, or    *)
(* behind a file whose producer could not read it, so that its error has   *)
(* been printed, or whose producer was never created.                      *)
MissingOnlyFromRing ==
  ("malloc" \notin Faults /\ Reported /\ IsEmpty) =>
    /\ Complete
    /\ \A f \in (dependency \cup {Exe}) \ Heard : prc[f] = "error" \/ ppc[f] = "lost"

(* A report is printed only when a thread was started, or thought to be,   *)
(* for every library in it: a library is in the tree before the array      *)
(* grows and the context of its thread is allocated, and a failure in      *)
(* between withholds the report.                                           *)
ListedHaveThreads == Reported => \A l \in dependency : ppc[l] # "none"

(* A file gets a producer thread at most once, however often and along     *)
(* however many paths its library is discovered.                           *)
StartedOnce ==
  [][\A p \in Files : ppc'[p] \in {"start", "lost"} => ppc[p] \in {"none", ppc'[p]}]_vars

(* When main_thread frees the buffer no producer thread can still touch    *)
(* it, except after the one return that leaves write_mutex locked.         *)
BufferOutlivesProducers ==
  (process = "destroyed" /\ ~lockHeld) => \A p \in Files : ppc[p] \notin Live

(* The detailed threads implement the abstract resolution: the queue is    *)
(* the symbol in the consumer's hand followed by the ring's contents.      *)
Used == IF head <= tail THEN tail - head ELSE tail - head + Cap
SlotAt(k) == IF head + k < Cap THEN head + k ELSE head + k - Cap
RingContents == [k \in 1..Used |-> slot[SlotAt(k - 1)]]
Abs == INSTANCE Resolution WITH
         queue <- (IF cpc = "check" THEN <<sym>> ELSE <<>>) \o RingContents,
         sent <- ppos,
         deps <- dependency,
         unresolved <- undefinedSym,
         open <- cpc \notin {"join", "returned"}
ImplementsResolution == Abs!Spec

(* The consumer always gets out of its loop.                               *)
LeavesLoop == <>(cpc \in {"join", "returned"})

(* A producer blocked on a full ring is let go, unless the consumer has    *)
(* stopped taking symbols.                                                 *)
BlockedProducerReleased ==
  \A p \in Files : ppc[p] = "waiting" ~> (ppc[p] # "waiting" \/ cpc \in {"join", "returned"})

(* The program ends, unless the consumer has left its loop for good with   *)
(* the ring full.                                                          *)
EndsUnlessRingFills == <>(process = "exited") \/ <>[](cpc = "join" /\ IsFull)

-----------------------------------------------------------------------------
(* Claims of the source's comments that the code does not keep.            *)

(* libscout.c:174 "Sending broadcast to the consumer only if no more       *)
(* producers left": producer_done is raised only by the last producer.     *)
DoneOnlyAfterLastProducer ==
  [][(~producerDone /\ producerDone') => \A p \in Files : ppc'[p] \notin Live]_vars

(* libscout.c:418 "record the library name and add this library's          *)
(* undefined symbols to the Undefined Symbol Buffer, for further           *)
(* resolution": a report lists all that the executable needs.              *)
ReportComplete == Reported => Complete

(* libscout.c:432 "Adding library's Undefined symbols for further          *)
(* processing": a discovered library's symbols all get into the buffer.    *)
LibrarySymbolsAdded ==
  \A l \in Libs : l \in dependency ~> (ppos[l] > Len(DynSym[l]))
=============================================================================
