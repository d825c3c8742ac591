----------------------------- MODULE ElfLoadProofs -----------------------------
(***************************************************************************)
(* Proofs about the ELF loader for every set of files, of any length and   *)
(* any contents, and every set of calls that may fail: types, what can be  *)
(* released when the load fails, what is left, and how the loops go on.    *)
(***************************************************************************)
EXTENDS ElfLoad, SequenceTheorems, TLAPS

-----------------------------------------------------------------------------
(* The inductive invariant.  Places of the program by what the tables are  *)
(* then: none yet, being filled, or handed to the caller.                  *)

Early == {"open", "alloc", "header", "programs", "segment", "note", "headers"}
Filling == {"fill", "read", "name"}
Loading == Filling \cup {"grow", "sections"}
Walking == {"walk", "lookup", "scan", "named"}

(* While tables are loaded the arrays hold the counted tables, and the one *)
(* that is being filled; counted tables come from sections.                *)
LenInv ==
  /\ pc \in Early => \A k \in Kinds : tbls[k] = <<>> /\ num[k] = 0
  /\ pc \in Loading =>
       \A k \in Kinds : Len(tbls[k]) = IF pc \in Filling /\ k = kind THEN New ELSE num[k]
  /\ \A k \in Kinds : num[k] <= Len(tbls[k]) /\ num[k] <= Len(file.sections)
  /\ \A k \in Kinds : \A i \in 1..num[k] : tbls[k][i].sec \in 1..Len(file.sections)

(* A section becomes one table at most, and the section of names the first *)
(* one, before its turn comes: never are there more tables than sections.  *)
PlaceInv ==
  pc \in Loading =>
    /\ pc # "sections" =>
         \/ at = 0 /\ kind = "str" /\ sec = file.shstrndx
         \/ at \in 1..Len(file.sections) /\ sec = at /\ IsTable(at, kind)
    /\ pc \in Filling => sec # 0
    /\ pc = "sections" => at # 0
    /\ at # 0 => file.shstrndx # 0
    /\ at = 0 => num["sym"] = 0 /\ num["str"] = 0
    /\ at # 0 => num["sym"] <= at - 1
    /\ num["str"] <= IF at <= file.shstrndx THEN at ELSE at - 1

(* The counted tables can be released, and the one to be counted next has  *)
(* its data.                                                               *)
SetTable(k, i) ==
  /\ tbls[k][i].data \in {"blank", "part", "whole"} /\ Block("data", k, i) \in heap
  /\ tbls[k][i].name # "unset"
  /\ tbls[k][i].name # "null" => Block("name", k, i) \in heap
CountedInv ==
  /\ ~Ended => \A k \in Kinds : \A i \in 1..num[k] : SetTable(k, i)
  /\ pc \in {"read", "name"} => /\ tbls[kind][New].data \in {"blank", "part", "whole"}
                                /\ Block("data", kind, New) \in heap

(* What free_elf_file_descr would not reach.                               *)
Stray == heap \ Reached
StrayInv ==
  /\ pc \notin {"note", "read", "name", "close", "refused", "crashed"} => Stray = {}
  /\ pc = "note" => Stray \subseteq {One("data")}
  /\ pc \in {"read", "name"} => Stray \subseteq {Block("data", kind, New)}
  /\ pc \in {"close", "refused"} =>
       \/ Stray = {}
       \/ Stray = {One("note")} /\ rc = "ENOMEM"
       \/ Stray = {Block("data", kind, New)} /\ rc = "errno" /\ "read" \in failed
  /\ pc \in Walking \cup {"refused", "released"} => ~fd
  /\ pc = "released" => heap = {}
  /\ pc = "refused" => heap = Stray

NoteInv ==
  /\ pc \in {"segment", "note"} => at # 0
  /\ pc = "note" => /\ at \in 1..Len(file.segments) /\ Segment(at) = file.segments[at]
                    /\ file.segments[at].note /\ CanAlloc(Segment(at).size)

WalkInv ==
  /\ pc \in Walking => at # 0
  /\ pc \in {"lookup", "scan", "named"} => entry # 0

LoadInv == TypeOK /\ LenInv /\ PlaceInv /\ CountedInv /\ StrayInv /\ NoteInv /\ WalkInv

-----------------------------------------------------------------------------
(* What the assumptions say of a file.                                     *)

LEMMA FileFacts ==
  ASSUME file \in Inputs
  PROVE  /\ IntMax \in Nat /\ IntMax > 15
         /\ file \in Files
         /\ Len(file.sections) \in Nat /\ Len(file.segments) \in Nat
         /\ file.shstrndx \in 0..Len(file.sections)
         /\ file.shoff \in Nat /\ file.phoff \in Nat /\ file.length \in Nat
         /\ \A i \in 1..Len(file.sections) : file.sections[i] \in Sections
         /\ \A i \in 1..Len(file.segments) : file.segments[i] \in Segments
         /\ Len(file.bytes) \in Nat /\ file.stNames \in Seq(Nat)
<1>1. file \in Files
  BY ElfAssumption
<1>2. /\ file.sections \in Seq(Sections) /\ file.segments \in Seq(Segments)
      /\ file.bytes \in Seq({0, 1})
      /\ file.shstrndx \in Nat /\ file.stNames \in Seq(Nat)
      /\ file.shoff \in Positions /\ file.phoff \in Positions /\ file.length \in Positions
  BY <1>1 DEF Files
<1>3. IntMax \in Nat /\ IntMax > 15 /\ file.shstrndx <= Len(file.sections)
  BY ElfAssumption
<1>4. file.shoff \in Nat /\ file.phoff \in Nat /\ file.length \in Nat
  BY <1>2, <1>3 DEF Positions, Word
<1>5. /\ Len(file.sections) \in Nat
      /\ \A i \in 1..Len(file.sections) : file.sections[i] \in Sections
  BY <1>2, LenProperties, ElementOfSeq
<1>6. /\ Len(file.segments) \in Nat
      /\ \A i \in 1..Len(file.segments) : file.segments[i] \in Segments
  BY <1>2, LenProperties, ElementOfSeq
<1>7. Len(file.bytes) \in Nat
  BY <1>2, LenProperties
<1> QED
  BY <1>1, <1>2, <1>3, <1>4, <1>5, <1>6, <1>7

LEMMA SectionFacts ==
  ASSUME file \in Inputs, NEW i \in 1..Len(file.sections)
  PROVE  /\ Section(i) \in [type : {"NULL", "STRTAB", "SYMTAB", "DYNSYM", "OTHER"},
                            name : Names, offset : Nat, size : Nat, link : Nat]
         /\ Section(i) \in {file.sections[i], ZeroSection}
<1> DEFINE Headers == [type : {"NULL", "STRTAB", "SYMTAB", "DYNSYM", "OTHER"},
                       name : Names, offset : Nat, size : Nat, link : Nat]
<1>1. file.sections[i] \in Sections /\ IntMax \in Nat
  BY FileFacts
<1>2. file.sections[i] \in Headers
  BY <1>1 DEF Sections, Positions, Word
<1>3. ZeroSection \in Headers
  BY ElfAssumption DEF ZeroSection
<1>4. Section(i) \in {file.sections[i], ZeroSection}
  BY DEF Section
<1> QED
  BY <1>2, <1>3, <1>4

LEMMA BlockFacts ==
  /\ \A w \in {"descr", "hdr", "pgs", "secs", "data", "note"} \cup Kinds : One(w) \in Blocks
  /\ \A w \in {"data", "name"}, k \in Kinds, i \in 1..Len(file.sections) : Block(w, k, i) \in Blocks
BY DEF Blocks

-----------------------------------------------------------------------------
(* The two changes of the arrays of tables.                                *)

LEMMA AppendTable ==
  ASSUME NEW t \in [Kinds -> Seq(Slots)], NEW k \in Kinds, NEW e \in Slots
  PROVE  LET u == [t EXCEPT ![k] = Append(@, e)]
         IN  /\ u \in [Kinds -> Seq(Slots)]
             /\ \A j \in Kinds : Len(u[j]) = IF j = k THEN Len(t[j]) + 1 ELSE Len(t[j])
             /\ \A j \in Kinds : \A i \in 1..Len(t[j]) : u[j][i] = t[j][i]
<1>1. t[k] \in Seq(Slots)
  OBVIOUS
<1>2. /\ Append(t[k], e) \in Seq(Slots)
      /\ Len(Append(t[k], e)) = Len(t[k]) + 1
      /\ \A i \in 1..Len(t[k]) : Append(t[k], e)[i] = t[k][i]
  BY <1>1, AppendProperties
<1> QED
  BY <1>2

LEMMA SetSlot ==
  ASSUME NEW t \in [Kinds -> Seq(Slots)], NEW k \in Kinds, NEW i \in 1..Len(t[k]),
         NEW e \in Slots
  PROVE  LET u == [t EXCEPT ![k][i] = e]
         IN  /\ u \in [Kinds -> Seq(Slots)]
             /\ \A j \in Kinds : Len(u[j]) = Len(t[j])
             /\ u[k][i] = e
             /\ \A j \in Kinds : \A m \in 1..Len(t[j]) : <<j, m>> # <<k, i>> => u[j][m] = t[j][m]
<1> DEFINE s == [t[k] EXCEPT ![i] = e]
           u == [t EXCEPT ![k] = s]
<1>1. t[k] \in Seq(Slots)
  OBVIOUS
<1>2. /\ s \in Seq(Slots) /\ Len(s) = Len(t[k])
      /\ \A m \in 1..Len(t[k]) : s[m] = IF m = i THEN e ELSE t[k][m]
  BY <1>1, ExceptSeq
<1>3. u = [t EXCEPT ![k][i] = e]
  OBVIOUS
<1> HIDE DEF s
<1>4. \A j \in Kinds : u[j] = IF j = k THEN s ELSE t[j]
  OBVIOUS
<1>5. u \in [Kinds -> Seq(Slots)]
  BY <1>2
<1>6. u[k][i] = e /\ \A j \in Kinds : Len(u[j]) = Len(t[j])
  BY <1>2, <1>4
<1>7. ASSUME NEW j \in Kinds, NEW m \in 1..Len(t[j]), <<j, m>> # <<k, i>>
      PROVE  u[j][m] = t[j][m]
  BY <1>2, <1>4, <1>7
<1> HIDE DEF u
<1> QED
  BY <1>3, <1>5, <1>6, <1>7

-----------------------------------------------------------------------------
LEMMA FileKept == Next => file' = file /\ Blocks' = Blocks
<1> SUFFICES ASSUME Next  PROVE file' = file /\ Blocks' = Blocks
  OBVIOUS
<1> USE DEF Fails, Stop, KeepTable
<1>1. ASSUME Load  PROVE file' = file
  BY <1>1 DEF Load, OpenFile, OpenFails, AllocDescr, AllocDescrFails, ReadHeader,
     RefuseHeader, HeaderFails, ReadHeaders, HeadersFail, PickSection, SkipSection,
     LastSection, Refuse, Accept
<1>2. ASSUME Programs  PROVE file' = file
  BY <1>2 DEF Programs, ReadPrograms, ProgramsFail, ProgramsCrash, SkipSegment,
     LastSegment, ReadSegment, SegmentFails, GarbledNotes, ReadNote, NoteCrashes, NoteFails, LastNote
<1>3. ASSUME Table  PROVE file' = file
  BY <1>3 DEF Table, Grow, GrowFails, GrowCrashes, Fill, FillFails, ReadTable, ReadFails,
     NameTable, NameFails, NameCrashes
<1>4. ASSUME Walk  PROVE file' = file
  BY <1>4 DEF Walk, SkipStatic, WalkTable, WalkNameless, WalkCrashes, LookUp, LastEntry, ScanByte,
     ScanEnd, DropEntry, ScanOutside, NextEntry, Release
<1>5. file' = file
  BY <1>1, <1>2, <1>3, <1>4 DEF Next, Step, vars
<1>6. Blocks' = Blocks
  BY <1>5 DEF Blocks
<1> QED
  BY <1>5, <1>6

(* Where the table being filled lies, and what its three changes leave as  *)
(* it was: the tables that are counted.                                    *)

LEMMA RoomForNew ==
  ASSUME LoadInv, pc \in {"grow"} \cup Filling, sec # 0
  PROVE  /\ kind \in Kinds /\ sec \in 1..Len(file.sections)
         /\ New \in 1..Len(file.sections) /\ New = num[kind] + 1 /\ num[kind] \in Nat
<1>1. /\ kind \in Kinds /\ sec \in 0..Len(file.sections) /\ at \in Nat
      /\ num \in [Kinds -> Nat] /\ file \in Inputs
  BY DEF LoadInv, TypeOK
<1>2. Len(file.sections) \in Nat /\ file.shstrndx \in 0..Len(file.sections)
  BY <1>1, FileFacts
<1>3. num[kind] \in Nat /\ num["sym"] \in Nat /\ num["str"] \in Nat
  BY <1>1 DEF Kinds
<1>4. pc \in Loading /\ pc # "sections"
  BY DEF Loading, Filling
<1>5. num[kind] + 1 <= Len(file.sections)
  <2>1. CASE at = 0
    BY <1>1, <1>2, <1>3, <1>4, <2>1 DEF LoadInv, PlaceInv, Kinds
  <2>2. CASE at # 0 /\ kind = "sym"
    BY <1>1, <1>2, <1>3, <1>4, <2>2 DEF LoadInv, PlaceInv
  <2>3. CASE at # 0 /\ kind = "str"
    <3>1. at \in 1..Len(file.sections) /\ at # file.shstrndx
      BY <1>4, <2>3 DEF LoadInv, PlaceInv, IsTable
    <3> QED
      BY <1>1, <1>2, <1>3, <1>4, <2>3, <3>1 DEF LoadInv, PlaceInv
  <2> QED
    BY <1>1, <2>1, <2>2, <2>3 DEF Kinds
<1> QED
  BY <1>1, <1>2, <1>3, <1>5 DEF New

LEMMA NewIsLast ==
  ASSUME LoadInv, pc \in Filling
  PROVE  /\ sec \in 1..Len(file.sections) /\ kind \in Kinds
         /\ New \in 1..Len(file.sections) /\ New = num[kind] + 1 /\ num[kind] \in Nat
         /\ Len(tbls[kind]) = New
         /\ tbls \in [Kinds -> Seq(Slots)] /\ num \in [Kinds -> Nat]
         /\ tbls[kind][New] \in Slots
<1>1. pc \in Loading /\ sec # 0
  BY DEF LoadInv, PlaceInv, Loading
<1>2. /\ kind \in Kinds /\ tbls \in [Kinds -> Seq(Slots)] /\ num \in [Kinds -> Nat]
  BY DEF LoadInv, TypeOK
<1>3. Len(tbls[kind]) = New
  BY <1>1, <1>2 DEF LoadInv, LenInv
<1>4. New \in 1..New /\ New = num[kind] + 1
  BY <1>2 DEF New
<1>5. tbls[kind][New] \in Slots
  BY <1>2, <1>3, <1>4, ElementOfSeq
<1> QED
  BY <1>1, <1>2, <1>3, <1>5, RoomForNew

LEMMA GrowKeeps ==
  ASSUME LoadInv, Grow
  PROVE  /\ tbls' \in [Kinds -> Seq(Slots)]
         /\ \A k \in Kinds : Len(tbls'[k]) = IF k = kind THEN New ELSE num[k]
         /\ \A k \in Kinds : \A i \in 1..num[k] : tbls'[k][i] = tbls[k][i]
<1>1. /\ tbls \in [Kinds -> Seq(Slots)] /\ kind \in Kinds /\ sec \in Nat
      /\ num \in [Kinds -> Nat]
  BY RoomForNew DEF LoadInv, TypeOK, Grow
<1>2. \A k \in Kinds : Len(tbls[k]) = num[k]
  BY DEF LoadInv, LenInv, Grow, Loading, Filling
<1>3. Slot("null", "null") \in Slots /\ Slot("unset", "unset") \in Slots
  BY <1>1 DEF Slot, Slots
<1>4. PICK e \in Slots : tbls' = [tbls EXCEPT ![kind] = Append(@, e)]
  BY <1>1, <1>3 DEF Grow
<1>5. /\ tbls' \in [Kinds -> Seq(Slots)]
      /\ \A k \in Kinds : Len(tbls'[k]) = IF k = kind THEN Len(tbls[k]) + 1 ELSE Len(tbls[k])
      /\ \A k \in Kinds : \A i \in 1..Len(tbls[k]) : tbls'[k][i] = tbls[k][i]
  BY <1>1, <1>4, AppendTable
<1> QED
  BY <1>1, <1>2, <1>5 DEF New

LEMMA SlotKeeps ==
  ASSUME LoadInv, pc \in Filling, NEW e \in Slots, tbls' = [tbls EXCEPT ![kind][New] = e]
  PROVE  /\ tbls' \in [Kinds -> Seq(Slots)]
         /\ \A k \in Kinds : Len(tbls'[k]) = IF k = kind THEN New ELSE num[k]
         /\ tbls'[kind][New] = e
         /\ \A k \in Kinds : \A i \in 1..num[k] : tbls'[k][i] = tbls[k][i]
<1>1. /\ tbls \in [Kinds -> Seq(Slots)] /\ kind \in Kinds /\ num \in [Kinds -> Nat]
      /\ New \in 1..Len(tbls[kind]) /\ New = num[kind] + 1
  BY NewIsLast
<1>2. \A k \in Kinds : Len(tbls[k]) = IF k = kind THEN New ELSE num[k]
  BY DEF LoadInv, LenInv, Loading
<1>3. /\ tbls' \in [Kinds -> Seq(Slots)]
      /\ \A k \in Kinds : Len(tbls'[k]) = Len(tbls[k])
      /\ tbls'[kind][New] = e
      /\ \A k \in Kinds : \A i \in 1..Len(tbls[k]) :
           <<k, i>> # <<kind, New>> => tbls'[k][i] = tbls[k][i]
  BY <1>1, SetSlot
<1>4. ASSUME NEW k \in Kinds, NEW i \in 1..num[k]  PROVE tbls'[k][i] = tbls[k][i]
  <2>1. i \in 1..Len(tbls[k]) /\ (k = kind => i # New)
    BY <1>1, <1>2, <1>4
  <2> QED
    BY <1>3, <2>1
<1> QED
  BY <1>2, <1>3, <1>4

LEMMA DataKeeps ==
  ASSUME LoadInv, pc \in Filling, NEW d \in {"null", "blank", "part", "whole"},
         tbls' = [tbls EXCEPT ![kind][New].data = d]
  PROVE  /\ tbls' \in [Kinds -> Seq(Slots)]
         /\ \A k \in Kinds : Len(tbls'[k]) = IF k = kind THEN New ELSE num[k]
         /\ tbls'[kind][New].data = d
         /\ \A k \in Kinds : \A i \in 1..num[k] : tbls'[k][i] = tbls[k][i]
<1> DEFINE e == [tbls[kind][New] EXCEPT !.data = d]
<1>1. tbls[kind][New] \in Slots
  BY NewIsLast
<1>2. e \in Slots /\ e.data = d
  BY <1>1 DEF Slots
<1>3. tbls' = [tbls EXCEPT ![kind][New] = e]
  OBVIOUS
<1> HIDE DEF e
<1> QED
  BY <1>2, <1>3, SlotKeeps

LEMMA KeepKeeps ==
  ASSUME LoadInv, pc = "name", NEW n \in Names \cup {"null"}, KeepTable(n)
  PROVE  /\ tbls' \in [Kinds -> Seq(Slots)]
         /\ \A k \in Kinds : Len(tbls'[k]) = num'[k]
         /\ tbls'[kind][New].sec = sec /\ tbls'[kind][New].name = n
         /\ tbls'[kind][New].data = tbls[kind][New].data
         /\ \A k \in Kinds : \A i \in 1..num[k] : tbls'[k][i] = tbls[k][i]
         /\ num' \in [Kinds -> Nat]
         /\ \A k \in Kinds : num'[k] = IF k = kind THEN New ELSE num[k]
<1> DEFINE t == tbls[kind][New]
           e == [t EXCEPT !.sec = sec, !.name = n]
<1>1. /\ t \in Slots /\ sec \in Nat /\ kind \in Kinds
      /\ New \in Nat /\ num \in [Kinds -> Nat]
  BY NewIsLast, FileFacts DEF Filling, LoadInv, TypeOK
<1>2. tbls' = [tbls EXCEPT ![kind][New] = e]
  BY DEF KeepTable
<1> HIDE DEF t
<1>3. e \in Slots /\ e.sec = sec /\ e.data = t.data /\ e.name = n
  BY <1>1 DEF Slots
<1>4. num' \in [Kinds -> Nat] /\ \A k \in Kinds : num'[k] = IF k = kind THEN New ELSE num[k]
  BY <1>1 DEF KeepTable
<1> HIDE DEF e
<1>5. /\ tbls' \in [Kinds -> Seq(Slots)]
      /\ \A k \in Kinds : Len(tbls'[k]) = IF k = kind THEN New ELSE num[k]
      /\ tbls'[kind][New] = e
      /\ \A k \in Kinds : \A i \in 1..num[k] : tbls'[k][i] = tbls[k][i]
  BY <1>2, <1>3, SlotKeeps DEF Filling
<1> QED
  BY <1>3, <1>4, <1>5 DEF t

LEMMA NamesAreNames ==
  ASSUME LoadInv, pc = "name"
  PROVE  NamesOf(Section(sec)) \subseteq Names \cup {"null"}
<1>1. Section(sec).name \in Names
  BY NewIsLast, SectionFacts DEF Filling, LoadInv, TypeOK
<1> QED
  BY <1>1 DEF NamesOf

-----------------------------------------------------------------------------
(* The walk over notes: the note at the offset, the sizes a word can hold, *)
(* and the offset behind a note that stays inside of its segment.          *)

LEMMA WordFacts ==
  /\ Word \in Nat /\ Word > 0 /\ Word > IntMax + 15
  /\ \A n \in Positions : n \in Nat
  /\ \A n \in Int : n % Word \in Positions
  /\ \A n \in 0..Word - 1 : n % Word = n
<1>1. IntMax \in Nat /\ IntMax > 15
  BY ElfAssumption
<1>2. Word \in Nat /\ Word > 0 /\ Word > IntMax + 15
  BY <1>1 DEF Word
<1>3. \A n \in Positions : n \in Nat
  BY <1>2 DEF Positions
<1>4. \A w \in Nat \ {0} : \A n \in Int : n % w \in 0..w - 1
  OBVIOUS
<1>5. \A w \in Nat \ {0} : \A n \in 0..w - 1 : n % w = n
  OBVIOUS
<1> QED
  BY <1>1, <1>2, <1>3, <1>4, <1>5 DEF Positions

LEMMA PadFacts ==
  ASSUME NEW n \in Positions
  PROVE  /\ Pad(n) \in Nat
         /\ n <= IntMax => n <= Pad(n) /\ Pad(n) <= n + 3
         /\ n = 0 => Pad(n) = 0
<1> DEFINE m == (n + 3) % Word
<1>1. n \in Nat /\ IntMax \in Nat
  BY WordFacts, ElfAssumption
<1>2. m \in Nat
  BY <1>1, WordFacts
<1>3. n <= IntMax => m = n + 3
  BY <1>1, WordFacts
<1>4. \A k \in Nat : 4 * (k \div 4) \in Nat /\ 4 * (k \div 4) <= k /\ k <= 4 * (k \div 4) + 3
  OBVIOUS
<1>5. Pad(n) = 4 * (m \div 4)
  BY DEF Pad
<1>7. \A k \in Nat : k = 3 => 4 * (k \div 4) = 0
  OBVIOUS
<1> HIDE DEF m
<1>6. Pad(n) \in Nat /\ Pad(n) <= m /\ m <= Pad(n) + 3
  BY <1>2, <1>4, <1>5
<1>8. n = 0 => Pad(n) = 0
  BY <1>1, <1>2, <1>3, <1>5, <1>7
<1> QED
  BY <1>1, <1>2, <1>3, <1>6, <1>8

LEMMA NoteFacts ==
  ASSUME LoadInv, pc = "note"
  PROVE  /\ Note.at = noff /\ Note.name \in Positions /\ Note.desc \in Positions
         /\ noff \in Positions /\ Segment(at).size \in 0..IntMax
<1> DEFINE s == file.segments[at]
<1>1. /\ file \in Inputs /\ at \in 1..Len(file.segments) /\ Segment(at) = s
      /\ CanAlloc(s.size) /\ noff \in Positions
  BY DEF LoadInv, NoteInv, TypeOK
<1>2. /\ s \in Segments /\ IntMax \in Nat
  BY <1>1, FileFacts
<1>3. s.size \in Positions /\ s.notes \subseteq Notes
  BY <1>2 DEF Segments
<1>4. s.size \in 0..IntMax
  BY <1>1, <1>2, <1>3 DEF CanAlloc, AsInt, Positions, Word
<1>5. CASE \E n \in s.notes : n.at = noff
  <2>1. Note \in s.notes /\ Note.at = noff
    BY <1>1, <1>5 DEF Note, NoteAt
  <2> QED
    BY <1>1, <1>3, <1>4, <2>1 DEF Notes
<1>6. CASE ~\E n \in s.notes : n.at = noff
  <2>1. Note = ZeroNote(noff) /\ 0 \in Positions
    BY <1>1, <1>6, WordFacts DEF Note, NoteAt, Positions
  <2> QED
    BY <1>1, <1>4, <2>1 DEF ZeroNote
<1> QED
  BY <1>5, <1>6

LEMMA NextNote ==
  ASSUME LoadInv, AtNote, HeaderInside
  PROVE  /\ NoteEnd(Note) \in Positions
         /\ NoteInside => NoteEnd(Note) > noff /\ NoteEnd(Note) <= Segment(at).size + 3
<1> DEFINE name == Note.name
           desc == Note.desc
           size == Segment(at).size
           end == noff + 12 + Pad(name) + Pad(desc)
<1>1. /\ Note.at = noff /\ name \in Positions /\ desc \in Positions
      /\ noff \in Nat /\ size \in 0..IntMax /\ IntMax \in Nat
  BY NoteFacts, WordFacts, ElfAssumption DEF AtNote
<1>2. /\ Pad(name) \in Nat /\ Pad(desc) \in Nat /\ name \in Nat /\ desc \in Nat
      /\ name <= IntMax => name <= Pad(name) /\ Pad(name) <= name + 3
      /\ desc <= IntMax => desc <= Pad(desc) /\ Pad(desc) <= desc + 3
      /\ desc = 0 => Pad(desc) = 0
  BY <1>1, PadFacts, WordFacts
<1>3. end \in Nat /\ NoteEnd(Note) = end % Word
  BY <1>1, <1>2 DEF NoteEnd
<1>4. NoteEnd(Note) \in Positions
  BY <1>3, WordFacts
<1>5. ASSUME NoteInside  PROVE end > noff /\ end <= size + 3 /\ size + 3 < Word
  <2>1. /\ noff + 12 < size
        /\ name > 0 => noff + 12 + name <= size
        /\ desc > 0 => noff + 12 + Pad(name) + desc <= size
    BY <1>1, <1>5 DEF NoteInside, Fits, HeaderInside
  <2>2. name <= IntMax /\ desc <= IntMax
    <3> HIDE DEF name, desc, size, end
    <3> QED
      BY <1>1, <1>2, <2>1
  <2>3. size + 3 < Word
    BY <1>1, WordFacts
  <2> HIDE DEF name, desc, size
  <2>4. CASE desc = 0
    BY <1>1, <1>2, <2>1, <2>2, <2>3, <2>4
  <2>5. CASE desc > 0
    BY <1>1, <1>2, <2>1, <2>2, <2>3, <2>5
  <2> QED
    BY <1>2, <2>4, <2>5
<1>6. ASSUME NoteInside  PROVE NoteEnd(Note) = end
  <2> HIDE DEF end, size
  <2>1. end \in 0..Word - 1
    BY <1>1, <1>3, <1>5, <1>6, WordFacts
  <2> QED
    BY <1>3, <2>1, WordFacts
<1> HIDE DEF name, desc, size, end
<1> QED
  BY <1>4, <1>5, <1>6 DEF size

-----------------------------------------------------------------------------
(* Types.                                                                  *)

LEMMA TypeInit == Init => TypeOK
<1> SUFFICES ASSUME Init  PROVE TypeOK
  OBVIOUS
<1>1. <<>> \in Seq(Slots)
  OBVIOUS
<1>2. tbls \in [Kinds -> Seq(Slots)] /\ num \in [Kinds -> Nat]
  BY <1>1 DEF Init
<1>3. 0 \in 0..Len(file.sections) /\ 0 \in Positions
  BY FileFacts, WordFacts DEF Init, Positions
<1> QED
  BY <1>2, <1>3 DEF Init, TypeOK, Where, Kinds

LEMMA TypeStep ==
  ASSUME LoadInv, Next
  PROVE  TypeOK'
<1> USE DEF Fails, Stop, table, reading
<1>f. file' = file /\ Blocks' = Blocks
  BY FileKept
<1>1. CASE OpenFile
  BY <1>1, <1>f, BlockFacts DEF OpenFile, LoadInv, TypeOK, Where
<1>2. CASE OpenFails
  BY <1>2, <1>f, BlockFacts DEF OpenFails, LoadInv, TypeOK, Where
<1>3. CASE AllocDescr
  BY <1>3, <1>f, BlockFacts DEF AllocDescr, LoadInv, TypeOK, Where
<1>4. CASE AllocDescrFails
  BY <1>4, <1>f, BlockFacts DEF AllocDescrFails, LoadInv, TypeOK, Where
<1>5. CASE ReadHeader
  BY <1>5, <1>f, BlockFacts DEF ReadHeader, LoadInv, TypeOK, Where, AfterPrograms
<1>6. CASE RefuseHeader
  BY <1>6, <1>f, BlockFacts DEF RefuseHeader, LoadInv, TypeOK, Where
<1>7. CASE HeaderFails
  BY <1>7, <1>f, BlockFacts DEF HeaderFails, LoadInv, TypeOK, Where
<1>8. CASE ReadHeaders
  BY <1>8, <1>f, BlockFacts, FileFacts DEF ReadHeaders, LoadInv, TypeOK, Where, Kinds
<1>9. CASE HeadersFail
  BY <1>9, <1>f, BlockFacts DEF HeadersFail, LoadInv, TypeOK, Where
<1>10. CASE PickSection
  <2>1. at \in 0..Len(file.sections)
    BY <1>10, FileFacts DEF PickSection, AtSection, LoadInv, TypeOK
  <2> QED
    BY <1>10, <1>f, <2>1 DEF PickSection, LoadInv, TypeOK, Where
<1>11. CASE SkipSection
  BY <1>11, <1>f, BlockFacts DEF SkipSection, LoadInv, TypeOK, Where
<1>12. CASE LastSection
  BY <1>12, <1>f, BlockFacts DEF LastSection, LoadInv, TypeOK, Where
<1>13. CASE Refuse
  BY <1>13, <1>f, BlockFacts DEF Refuse, LoadInv, TypeOK, Where
<1>14. CASE Accept
  BY <1>14, <1>f, BlockFacts DEF Accept, LoadInv, TypeOK, Where
<1>15. CASE ReadPrograms
  BY <1>15, <1>f, BlockFacts DEF ReadPrograms, LoadInv, TypeOK, Where
<1>16. CASE ProgramsFail
  BY <1>16, <1>f, BlockFacts DEF ProgramsFail, LoadInv, TypeOK, Where
<1>17. CASE ProgramsCrash
  BY <1>17, <1>f, BlockFacts DEF ProgramsCrash, LoadInv, TypeOK, Where
<1>18. CASE SkipSegment
  BY <1>18, <1>f, BlockFacts DEF SkipSegment, LoadInv, TypeOK, Where
<1>19. CASE LastSegment
  BY <1>19, <1>f, BlockFacts DEF LastSegment, LoadInv, TypeOK, Where, AfterPrograms
<1>20. CASE ReadSegment
  <2>1. 0 \in Positions
    BY WordFacts DEF Positions
  <2> QED
    BY <1>20, <1>f, <2>1, BlockFacts DEF ReadSegment, LoadInv, TypeOK, Where
<1>21. CASE SegmentFails
  BY <1>21, <1>f, BlockFacts DEF SegmentFails, LoadInv, TypeOK, Where
<1>22. CASE GarbledNotes
  BY <1>22, <1>f, BlockFacts DEF GarbledNotes, LoadInv, TypeOK, Where
<1>23. CASE ReadNote
  <2>1. noff' \in Positions
    BY <1>23, NextNote DEF ReadNote
  <2> QED
    BY <1>23, <1>f, <2>1, BlockFacts DEF ReadNote, LoadInv, TypeOK, Where
<1>24. CASE NoteFails
  BY <1>24, <1>f, BlockFacts DEF NoteFails, LoadInv, TypeOK, Where
<1>48. CASE NoteCrashes
  BY <1>48, <1>f, BlockFacts DEF NoteCrashes, LoadInv, TypeOK, Where
<1>25. CASE LastNote
  BY <1>25, <1>f, BlockFacts DEF LastNote, LoadInv, TypeOK, Where
<1>26. CASE Grow
  <2>1. tbls' \in [Kinds -> Seq(Slots)]
    BY <1>26, GrowKeeps
  <2>2. heap' \subseteq Blocks
    BY <1>26, BlockFacts DEF Grow, LoadInv, TypeOK
  <2> QED
    BY <1>26, <1>f, <2>1, <2>2 DEF Grow, LoadInv, TypeOK, Where
<1>27. CASE GrowFails
  BY <1>27, <1>f, BlockFacts DEF GrowFails, LoadInv, TypeOK, Where
<1>28. CASE GrowCrashes
  BY <1>28, <1>f, BlockFacts DEF GrowCrashes, LoadInv, TypeOK, Where
<1>29. CASE Fill
  <2>1. tbls' \in [Kinds -> Seq(Slots)]
    BY <1>29, DataKeeps DEF Fill, Filling
  <2>2. New \in 1..Len(file.sections) /\ kind \in Kinds
    BY <1>29, NewIsLast DEF Fill, Filling
  <2>3. heap' \subseteq Blocks
    BY <1>29, <2>2, BlockFacts DEF Fill, LoadInv, TypeOK
  <2> QED
    BY <1>29, <1>f, <2>1, <2>3 DEF Fill, LoadInv, TypeOK, Where
<1>30. CASE FillFails
  <2>1. tbls' \in [Kinds -> Seq(Slots)]
    BY <1>30, DataKeeps DEF FillFails, Filling
  <2> QED
    BY <1>30, <1>f, <2>1 DEF FillFails, LoadInv, TypeOK, Where
<1>31. CASE ReadTable
  <2>1. Content(Section(sec)) \in {"blank", "part", "whole"}
    BY DEF Content
  <2>2. tbls' \in [Kinds -> Seq(Slots)]
    BY <1>31, <2>1, DataKeeps DEF ReadTable, Filling
  <2> QED
    BY <1>31, <1>f, <2>2 DEF ReadTable, LoadInv, TypeOK, Where
<1>32. CASE ReadFails
  BY <1>32, <1>f, BlockFacts DEF ReadFails, LoadInv, TypeOK, Where
<1>33. CASE NameTable
  <2>1. PICK n \in Names \cup {"null"} : KeepTable(n)
    BY <1>33, NamesAreNames DEF NameTable
  <2>2. tbls' \in [Kinds -> Seq(Slots)] /\ num' \in [Kinds -> Nat]
    BY <1>33, <2>1, KeepKeeps DEF NameTable
  <2>3. New \in 1..Len(file.sections) /\ kind \in Kinds
    BY <1>33, NewIsLast DEF NameTable, Filling
  <2>4. heap' \subseteq Blocks
    BY <2>1, <2>3, BlockFacts DEF KeepTable, LoadInv, TypeOK
  <2> QED
    BY <1>33, <1>f, <2>1, <2>2, <2>4 DEF NameTable, KeepTable, LoadInv, TypeOK, Where
<1>34. CASE NameFails
  <2>1. PICK n \in Names \cup {"null"} : KeepTable(n)
    BY <1>34, NamesAreNames DEF NameFails
  <2>2. tbls' \in [Kinds -> Seq(Slots)] /\ num' \in [Kinds -> Nat]
    BY <1>34, <2>1, KeepKeeps DEF NameFails
  <2>3. New \in 1..Len(file.sections) /\ kind \in Kinds
    BY <1>34, NewIsLast DEF NameFails, Filling
  <2>4. heap' \subseteq Blocks
    BY <2>1, <2>3, BlockFacts DEF KeepTable, LoadInv, TypeOK
  <2> QED
    BY <1>34, <1>f, <2>1, <2>2, <2>4 DEF NameFails, KeepTable, LoadInv, TypeOK, Where
<1>35. CASE NameCrashes
  BY <1>35, <1>f, BlockFacts DEF NameCrashes, LoadInv, TypeOK, Where
<1>36. CASE SkipStatic
  BY <1>36, <1>f, BlockFacts DEF SkipStatic, LoadInv, TypeOK, Where
<1>37. CASE WalkTable
  <2>1. at \in 1..num["sym"]
    BY <1>37 DEF WalkTable, HasEntries, AtTable, LoadInv, TypeOK, WalkInv, Walking, Kinds
  <2>2. tbls["sym"][at].sec \in 1..Len(file.sections)
    BY <2>1 DEF LoadInv, LenInv, Kinds
  <2>3. PICK i \in 1..num["str"] :
          /\ walked' = walked \cup {[sym |-> tbls["sym"][at].sec, str |-> tbls["str"][i].sec,
                                     whole |-> Whole(i)]}
          /\ IF Whole(i) THEN pc' = "lookup" /\ entry' = 1 /\ at' = at
             ELSE at' = at + 1 /\ pc' = pc /\ entry' = entry
    BY <1>37 DEF WalkTable
  <2>4. tbls["str"][i].sec \in 1..Len(file.sections) /\ Whole(i) \in BOOLEAN
    BY DEF LoadInv, LenInv, Kinds, Whole
  <2> DEFINE R == [sym : 1..Len(file.sections), str : 1..Len(file.sections), whole : BOOLEAN]
             r == [sym |-> tbls["sym"][at].sec, str |-> tbls["str"][i].sec, whole |-> Whole(i)]
  <2>5. r \in R
    BY <2>2, <2>4, Zenon
  <2>6. walked' = walked \cup {r} /\ walked \subseteq R
    BY <2>3 DEF LoadInv, TypeOK
  <2> HIDE DEF r, R
  <2>7. walked' \subseteq R
    BY <2>5, <2>6
  <2>8. pc' \in Where /\ at' \in Nat /\ entry' \in Nat
    BY <2>3 DEF Where, LoadInv, TypeOK
  <2> QED
    BY <1>37, <1>f, <2>7, <2>8 DEF WalkTable, LoadInv, TypeOK, R
<1>38. CASE WalkNameless
  BY <1>38, <1>f, BlockFacts DEF WalkNameless, LoadInv, TypeOK, Where
<1>39. CASE WalkCrashes
  BY <1>39, <1>f, BlockFacts DEF WalkCrashes, LoadInv, TypeOK, Where
<1>40. CASE LookUp
  <2>1. StName(entry) \in Nat
    <3>1. entry \in Nat /\ file.stNames \in Seq(Nat) /\ entry # 0
      BY <1>40, FileFacts DEF LoadInv, TypeOK, WalkInv, LookUp
    <3>2. Len(file.stNames) \in Nat /\ \A i \in 1..Len(file.stNames) : file.stNames[i] \in Nat
      BY <3>1, LenProperties, ElementOfSeq
    <3> QED
      BY <3>1, <3>2 DEF StName
  <2> QED
    BY <1>40, <1>f, <2>1 DEF LookUp, LoadInv, TypeOK, Where
<1>41. CASE ScanByte
  BY <1>41, <1>f, BlockFacts DEF ScanByte, LoadInv, TypeOK, Where
<1>42. CASE ScanEnd
  BY <1>42, <1>f, BlockFacts DEF ScanEnd, LoadInv, TypeOK, Where
<1>43. CASE DropEntry
  BY <1>43, <1>f, BlockFacts DEF DropEntry, LoadInv, TypeOK, Where
<1>44. CASE ScanOutside
  BY <1>44, <1>f, BlockFacts DEF ScanOutside, LoadInv, TypeOK, Where
<1>45. CASE NextEntry
  BY <1>45, <1>f, BlockFacts DEF NextEntry, LoadInv, TypeOK, Where
<1>49. CASE LastEntry
  BY <1>49, <1>f, BlockFacts DEF LastEntry, LoadInv, TypeOK, Where
<1>46. CASE Release
  BY <1>46, <1>f, BlockFacts DEF Release, LoadInv, TypeOK, Where
<1>47. CASE UNCHANGED vars
  BY <1>47, <1>f DEF vars, LoadInv, TypeOK
<1> QED
  BY <1>1, <1>2, <1>3, <1>4, <1>5, <1>6, <1>7, <1>8, <1>9, <1>10, <1>11, <1>12, <1>13,
     <1>14, <1>15, <1>16, <1>17, <1>18, <1>19, <1>20, <1>21, <1>22, <1>23, <1>24, <1>25,
     <1>26, <1>27, <1>28, <1>29, <1>30, <1>31, <1>32, <1>33, <1>34, <1>35, <1>36, <1>37,
     <1>38, <1>39, <1>40, <1>41, <1>42, <1>43, <1>44, <1>45, <1>46, <1>47, <1>48, <1>49 DEF Next, Step,
     Load, Programs, Table, Walk

-----------------------------------------------------------------------------
(* Lengths.                                                                *)

LEMMA LenStep ==
  ASSUME LoadInv, Next
  PROVE  LenInv'
<1> USE DEF Fails, Stop, table, reading, LoadInv, TypeOK, LenInv, Early,
    Filling, Loading, New
<1>0. file' = file /\ Len(<<>>) = 0
  BY FileKept
<1>1. CASE Load
  BY <1>1, <1>0 DEF Load, OpenFile, OpenFails, AllocDescr, AllocDescrFails,
      ReadHeader, RefuseHeader, HeaderFails, ReadHeaders, HeadersFail,
      PickSection, SkipSection, LastSection, Refuse, Accept, AfterPrograms,
      AtSection
<1>2. CASE Programs
  BY <1>2, <1>0 DEF Programs, ReadPrograms, ProgramsFail, ProgramsCrash,
      SkipSegment, LastSegment, ReadSegment, SegmentFails, GarbledNotes,
      ReadNote, NoteCrashes, NoteFails, LastNote, AfterPrograms, AtSegment, HasNotes, AtNote
<1>3. CASE Walk
  BY <1>3, <1>0 DEF Walk, SkipStatic, WalkTable, WalkNameless, WalkCrashes,
      LookUp, LastEntry, ScanByte, ScanEnd, DropEntry, ScanOutside, NextEntry, Release
<1>4. CASE GrowFails \/ GrowCrashes \/ ReadFails \/ NameCrashes
  BY <1>4, <1>0 DEF GrowFails, GrowCrashes, ReadFails, NameCrashes
<1>5. CASE Grow
  BY <1>5, <1>0, GrowKeeps DEF Grow
<1>6. CASE Fill
  BY <1>6, <1>0, DataKeeps DEF Fill
<1>7. CASE FillFails
  BY <1>7, <1>0, DataKeeps DEF FillFails
<1>8. CASE ReadTable
  <2>1. Content(Section(sec)) \in {"blank", "part", "whole"}
    BY DEF Content
  <2> QED
    BY <1>8, <1>0, <2>1, DataKeeps DEF ReadTable
<1>9. ASSUME pc = "name", NEW n \in Names \cup {"null"}, KeepTable(n)
      PROVE  LenInv'
  <2>1. /\ \A k \in Kinds : Len(tbls'[k]) = num'[k]
        /\ tbls'[kind][New].sec = sec
        /\ \A k \in Kinds : \A i \in 1..num[k] : tbls'[k][i] = tbls[k][i]
        /\ \A k \in Kinds : num'[k] = IF k = kind THEN New ELSE num[k]
    BY <1>9, KeepKeeps
  <2>2. sec \in 1..Len(file.sections) /\ New \in 1..Len(file.sections) /\ New
      = num[kind] + 1
    BY <1>9, NewIsLast
  <2>3. \A k \in Kinds : \A i \in 1..num'[k] : i \in 1..num[k] \/ (k = kind /\
      i = New)
    BY <2>1, <2>2
  <2> QED
    BY <1>9, <1>0, <2>1, <2>2, <2>3 DEF KeepTable
<1>10. CASE NameTable \/ NameFails
  BY <1>9, <1>10, NamesAreNames DEF NameTable, NameFails
<1>11. CASE UNCHANGED vars
  BY <1>11 DEF vars
<1> QED
  BY <1>1, <1>2, <1>3, <1>4, <1>5, <1>6, <1>7, <1>8, <1>9, <1>10, <1>11 DEF
      Next, Step, Table

-----------------------------------------------------------------------------
(* Places.                                                                 *)

LEMMA PlaceStep ==
  ASSUME LoadInv, Next
  PROVE  PlaceInv'
<1> USE DEF Fails, Stop, table, reading, LoadInv, TypeOK, PlaceInv, Filling,
    Loading, Kinds
<1>0. /\ file' = file /\ file.shstrndx \in Nat /\ Len(file.sections) \in Nat
      /\ \A i, k : IsTable(i, k)' = IsTable(i, k)
  BY FileKept, FileFacts DEF IsTable, Section
<1>1. CASE Load
  <2>1. CASE ReadHeaders
    BY <1>0, <2>1 DEF ReadHeaders, LenInv, Early
  <2>2. CASE PickSection
    BY <1>0, <2>2 DEF PickSection, AtSection
  <2>3. CASE SkipSection
    BY <1>0, <2>3 DEF SkipSection, AtSection
  <2>4. CASE pc' \notin Loading
    BY <2>4
  <2> QED
    BY <1>1, <2>1, <2>2, <2>3, <2>4 DEF Load, OpenFile, OpenFails, AllocDescr,
        AllocDescrFails, ReadHeader, RefuseHeader, HeaderFails, ReadHeaders,
        HeadersFail, PickSection, SkipSection, LastSection, Refuse, Accept,
        AfterPrograms, AtSection
<1>2. CASE Programs
  BY <1>2, <1>0 DEF Programs, ReadPrograms, ProgramsFail, ProgramsCrash,
      SkipSegment, LastSegment, ReadSegment, SegmentFails, GarbledNotes,
      ReadNote, NoteCrashes, NoteFails, LastNote, AfterPrograms, AtSegment, HasNotes, AtNote
<1>3. CASE Walk
  BY <1>3, <1>0 DEF Walk, AtTable, HasEntries, SkipStatic, WalkTable,
      WalkNameless, WalkCrashes, LookUp, LastEntry, ScanByte, ScanEnd, DropEntry,
      ScanOutside, NextEntry, Release
<1>4. CASE GrowFails \/ GrowCrashes \/ ReadFails \/ NameCrashes
  BY <1>4, <1>0 DEF GrowFails, GrowCrashes, ReadFails, NameCrashes
<1>5. CASE Grow
  BY <1>5, <1>0 DEF Grow
<1>6. CASE Fill
  BY <1>6, <1>0 DEF Fill
<1>7. CASE FillFails
  BY <1>7, <1>0 DEF FillFails
<1>8. CASE ReadTable
  BY <1>8, <1>0 DEF ReadTable
<1>9. ASSUME pc = "name", NEW n \in Names \cup {"null"}, KeepTable(n)
      PROVE  PlaceInv'
  <2>1. /\ \A k \in Kinds : num'[k] = IF k = kind THEN New ELSE num[k]
        /\ New = num[kind] + 1 /\ num["str"] \in Nat /\ num["sym"] \in Nat
        /\ sec # 0 /\ at' = at + 1 /\ pc' = "sections" /\ at \in Nat
    BY <1>9, KeepKeeps, NewIsLast DEF KeepTable
  <2>2. CASE at = 0
    BY <1>0, <1>9, <2>1, <2>2
  <2>3. CASE at # 0 /\ kind = "sym"
    BY <1>0, <1>9, <2>1, <2>3
  <2>4. CASE at # 0 /\ kind = "str"
    <3>1. at # file.shstrndx
      BY <1>9, <2>4 DEF IsTable
    <3> QED
      BY <1>0, <1>9, <2>1, <2>4, <3>1
  <2> QED
    BY <2>2, <2>3, <2>4
<1>10. CASE NameTable \/ NameFails
  BY <1>9, <1>10, NamesAreNames DEF NameTable, NameFails
<1>11. CASE UNCHANGED vars
  BY <1>0, <1>11 DEF vars
<1> QED
  BY <1>1, <1>2, <1>3, <1>4, <1>5, <1>6, <1>7, <1>8, <1>9, <1>10, <1>11 DEF
      Next, Step, Table

-----------------------------------------------------------------------------
(* Notes, and the walk.                                                    *)

LEMMA NoteStep ==
  ASSUME LoadInv, Next
  PROVE  NoteInv'
<1> USE DEF Fails, Stop, table, reading, LoadInv, TypeOK, NoteInv
<1>0. /\ file' = file /\ file \in Inputs /\ Len(file.segments) \in Nat
      /\ \A i : Segment(i)' = Segment(i)
  BY FileKept, FileFacts DEF Segment
<1>1. CASE Load
  BY <1>1, <1>0 DEF Load, OpenFile, OpenFails, AllocDescr, AllocDescrFails,
      ReadHeader, RefuseHeader, HeaderFails, ReadHeaders, HeadersFail,
      PickSection, SkipSection, LastSection, Refuse, Accept, AfterPrograms,
      AtSection
<1>2. CASE ReadSegment
  <2>1. at \in 1..Len(file.segments)
    BY <1>0, <1>2 DEF ReadSegment, HasNotes, AtSegment
  <2>2. Segment(at).note /\ Segment(at) = file.segments[at]
    BY <1>2 DEF ReadSegment, HasNotes, Segment, ZeroSegment
  <2> QED
    BY <1>0, <1>2, <2>1, <2>2 DEF ReadSegment, CanAlloc
<1>3. CASE ReadNote
  BY <1>0, <1>3 DEF ReadNote, AtNote, CanAlloc
<1>4. CASE Programs /\ ~ReadSegment /\ ~ReadNote
  BY <1>0, <1>4 DEF Programs, ReadPrograms, ProgramsFail, ProgramsCrash,
      SkipSegment, LastSegment, ReadSegment, SegmentFails, GarbledNotes,
      ReadNote, NoteCrashes, NoteFails, LastNote, AfterPrograms, AtSegment, HasNotes, AtNote
<1>5. CASE Table
  BY <1>0, <1>5 DEF Table, Grow, GrowFails, GrowCrashes, Fill, FillFails,
      ReadTable, ReadFails, NameTable, NameFails, NameCrashes, KeepTable
<1>6. CASE Walk
  BY <1>0, <1>6 DEF Walk, SkipStatic, WalkTable, WalkNameless, WalkCrashes,
      LookUp, LastEntry, ScanByte, ScanEnd, DropEntry, ScanOutside, NextEntry, Release,
      AtTable, HasEntries
<1>7. CASE UNCHANGED vars
  BY <1>0, <1>7 DEF vars
<1> QED
  BY <1>1, <1>2, <1>3, <1>4, <1>5, <1>6, <1>7 DEF Next, Step

LEMMA WalkStep ==
  ASSUME LoadInv, Next
  PROVE  WalkInv'
<1> USE DEF Fails, Stop, table, reading, LoadInv, TypeOK, WalkInv, Walking
<1>1. CASE Load
  BY <1>1 DEF Load, OpenFile, OpenFails, AllocDescr, AllocDescrFails,
      ReadHeader, RefuseHeader, HeaderFails, ReadHeaders, HeadersFail,
      PickSection, SkipSection, LastSection, Refuse, Accept, AfterPrograms,
      AtSection
<1>2. CASE Programs
  BY <1>2 DEF Programs, ReadPrograms, ProgramsFail, ProgramsCrash,
      SkipSegment, LastSegment, ReadSegment, SegmentFails, GarbledNotes,
      ReadNote, NoteCrashes, NoteFails, LastNote, AfterPrograms, AtSegment, HasNotes, AtNote
<1>3. CASE Table
  BY <1>3 DEF Table, Grow, GrowFails, GrowCrashes, Fill, FillFails, ReadTable,
      ReadFails, NameTable, NameFails, NameCrashes, KeepTable
<1>4. CASE Walk
  BY <1>4 DEF Walk, SkipStatic, WalkTable, WalkNameless, WalkCrashes, LookUp, LastEntry,
      ScanByte, ScanEnd, DropEntry, ScanOutside, NextEntry, Release, AtTable,
      HasEntries
<1>5. CASE UNCHANGED vars
  BY <1>5 DEF vars
<1> QED
  BY <1>1, <1>2, <1>3, <1>4, <1>5 DEF Next, Step

-----------------------------------------------------------------------------
(* The counted tables can be released.                                     *)

LEMMA StillSet ==
  ASSUME CountedInv, ~Ended,
         \A k \in Kinds : \A i \in 1..num[k] : tbls'[k][i] = tbls[k][i],
         heap \ {One("data")} \subseteq heap'
  PROVE  \A k \in Kinds : \A i \in 1..num[k] : SetTable(k, i)'
<1> SUFFICES ASSUME NEW k \in Kinds, NEW i \in 1..num[k]
             PROVE  SetTable(k, i)'
  OBVIOUS
<1>1. SetTable(k, i) /\ tbls'[k][i] = tbls[k][i]
  BY DEF CountedInv
<1>2. \A w : Block(w, k, i) # One("data")
  BY DEF Block, One, Kinds
<1> QED
  BY <1>1, <1>2 DEF SetTable

LEMMA CountedStep ==
  ASSUME LoadInv, Next
  PROVE  CountedInv'
<1> USE DEF Fails, Stop, table, reading, LoadInv, Filling
<1>0. /\ kind \in Kinds /\ num \in [Kinds -> Nat]
      /\ \A k \in Kinds : \A i \in 1..num[k] : tbls[k][i] = tbls[k][i]
  BY DEF TypeOK
<1>1. CASE Load
  <2>1. /\ UNCHANGED <<tbls, num>> /\ pc' \notin {"read", "name"}
        /\ Ended' \/ (~Ended /\ heap \subseteq heap')
    BY <1>1 DEF Load, Ended, OpenFile, OpenFails, AllocDescr, AllocDescrFails,
        ReadHeader, RefuseHeader, HeaderFails, ReadHeaders, HeadersFail,
        PickSection, SkipSection, LastSection, Refuse, Accept, AfterPrograms,
        AtSection
  <2> QED
    BY <1>0, <2>1, StillSet DEF CountedInv
<1>2. CASE Programs
  <2>1. /\ UNCHANGED <<tbls, num>> /\ pc' \notin {"read", "name"}
        /\ Ended' \/ (~Ended /\ heap \ {One("data")} \subseteq heap')
    BY <1>2 DEF Programs, Ended, ReadPrograms, ProgramsFail, ProgramsCrash,
        SkipSegment, LastSegment, ReadSegment, SegmentFails, GarbledNotes,
        ReadNote, NoteCrashes, NoteFails, LastNote, AfterPrograms, AtSegment, HasNotes,
        AtNote
  <2> QED
    BY <1>0, <2>1, StillSet DEF CountedInv
<1>3. CASE Walk
  <2>1. /\ UNCHANGED <<tbls, num>> /\ pc' \notin {"read", "name"}
        /\ Ended' \/ (~Ended /\ heap \ {One("data")} \subseteq heap')
    BY <1>3 DEF Walk, Ended, SkipStatic, WalkTable, WalkNameless, WalkCrashes,
        LookUp, LastEntry, ScanByte, ScanEnd, DropEntry, ScanOutside, NextEntry, Release,
        AtTable, HasEntries
  <2> QED
    BY <1>0, <2>1, StillSet DEF CountedInv
<1>4. CASE GrowFails \/ GrowCrashes \/ ReadFails \/ NameCrashes
  <2>1. /\ UNCHANGED <<tbls, num>> /\ pc' \notin {"read", "name"}
        /\ Ended' \/ (~Ended /\ heap \ {One("data")} \subseteq heap')
    BY <1>4 DEF Ended, GrowFails, GrowCrashes, ReadFails, NameCrashes
  <2> QED
    BY <1>0, <2>1, StillSet DEF CountedInv
<1>5. CASE Grow
  BY <1>0, <1>5, GrowKeeps, StillSet DEF Grow, CountedInv, Ended
<1>6. CASE Fill
  <2>1. /\ \A k \in Kinds : \A i \in 1..num[k] : tbls'[k][i] = tbls[k][i]
        /\ tbls'[kind][New].data = "blank"
    BY <1>6, DataKeeps DEF Fill
  <2>2. UNCHANGED <<num, kind>> /\ New' = New /\ heap \subseteq heap' /\ ~Ended
        /\ Block("data", kind, New) \in heap'
    BY <1>6 DEF Fill, Ended, New
  <2> QED
    BY <2>1, <2>2, StillSet DEF CountedInv
<1>7. CASE FillFails
  <2>1. \A k \in Kinds : \A i \in 1..num[k] : tbls'[k][i] = tbls[k][i]
    BY <1>7, DataKeeps DEF FillFails
  <2> QED
    BY <1>7, <2>1, StillSet DEF CountedInv, FillFails, Ended
<1>8. CASE ReadTable
  <2>1. Content(Section(sec)) \in {"blank", "part", "whole"}
    BY DEF Content
  <2>2. /\ \A k \in Kinds : \A i \in 1..num[k] : tbls'[k][i] = tbls[k][i]
        /\ tbls'[kind][New].data = Content(Section(sec))
    BY <1>8, <2>1, DataKeeps DEF ReadTable
  <2>3. UNCHANGED <<num, kind>> /\ New' = New /\ heap' = heap /\ ~Ended
        /\ Block("data", kind, New) \in heap
    BY <1>8 DEF ReadTable, Ended, New, CountedInv
  <2> QED
    BY <2>1, <2>2, <2>3, StillSet DEF CountedInv
<1>9. ASSUME pc = "name", NEW n \in Names \cup {"null"}, KeepTable(n)
      PROVE  CountedInv'
  <2>1. /\ \A k \in Kinds : \A i \in 1..num[k] : tbls'[k][i] = tbls[k][i]
        /\ tbls'[kind][New].name = n /\ tbls'[kind][New].data =
            tbls[kind][New].data
        /\ \A k \in Kinds : num'[k] = IF k = kind THEN New ELSE num[k]
    BY <1>9, KeepKeeps
  <2>2. heap \subseteq heap' /\ (n # "null" => Block("name", kind, New) \in
      heap')
        /\ ~Ended /\ pc' = "sections"
    BY <1>9 DEF KeepTable, Ended
  <2>3. \A k \in Kinds : \A i \in 1..num[k] : SetTable(k, i)'
    BY <2>1, <2>2, StillSet
  <2>4. n # "unset"
    BY ElfAssumption
  <2>5. \A k, i : k = kind /\ i = New => SetTable(k, i)'
    BY <1>9, <2>1, <2>2, <2>4 DEF SetTable, CountedInv
  <2>6. \A k \in Kinds : \A i \in 1..num'[k] : i \in 1..num[k] \/ (k = kind /\
      i = New)
    BY <1>0, <1>9, <2>1, NewIsLast
  <2> QED
    BY <2>2, <2>3, <2>5, <2>6 DEF CountedInv
<1>10. CASE NameTable \/ NameFails
  BY <1>9, <1>10, NamesAreNames DEF NameTable, NameFails
<1>11. CASE UNCHANGED vars
  BY <1>11 DEF vars, CountedInv, SetTable, Ended, New
<1> QED
  BY <1>1, <1>2, <1>3, <1>4, <1>5, <1>6, <1>7, <1>8, <1>9, <1>10, <1>11 DEF
      Next, Step, Table

-----------------------------------------------------------------------------
(* What is not reached.                                                    *)

LEMMA ReachedFacts ==
  /\ \A w \in {"descr", "hdr", "pgs", "secs"} \cup Kinds : One(w) \in Reached
  /\ \A w \in {"data", "name"}, k \in Kinds : \A i \in 1..num[k] : Block(w, k,
      i) \in Reached
BY DEF Reached

LEMMA StrayStep ==
  ASSUME LoadInv, Next
  PROVE  StrayInv'
<1> USE DEF Fails, Stop, table, reading, LoadInv, StrayInv, Stray, Walking
<1>0. /\ kind \in Kinds
      /\ \A w \in {"descr", "hdr", "pgs", "secs"} \cup Kinds : One(w) \in
          Reached
      /\ num' = num => Reached' = Reached
      /\ num' = num /\ kind' = kind => New' = New
  BY ReachedFacts DEF TypeOK, Reached, New
<1>1. CASE Load
  BY <1>0, <1>1 DEF Load, OpenFile, OpenFails, AllocDescr, AllocDescrFails,
      ReadHeader, RefuseHeader, HeaderFails, ReadHeaders, HeadersFail,
      PickSection, SkipSection, LastSection, Refuse, Accept, AfterPrograms,
      AtSection
<1>2. CASE Programs
  BY <1>0, <1>2 DEF Programs, ReadPrograms, ProgramsFail, ProgramsCrash,
      SkipSegment, LastSegment, ReadSegment, SegmentFails, GarbledNotes,
      ReadNote, NoteCrashes, NoteFails, LastNote, AfterPrograms, AtSegment, HasNotes, AtNote
<1>3. CASE Walk
  BY <1>0, <1>3 DEF Walk, SkipStatic, WalkTable, WalkNameless, WalkCrashes,
      LookUp, LastEntry, ScanByte, ScanEnd, DropEntry, ScanOutside, NextEntry, Release,
      AtTable, HasEntries
<1>4. CASE GrowFails \/ GrowCrashes \/ ReadFails \/ NameCrashes
  BY <1>0, <1>4 DEF GrowFails, GrowCrashes, ReadFails, NameCrashes
<1>5. CASE Grow
  BY <1>0, <1>5 DEF Grow
<1>6. CASE Fill \/ FillFails
  BY <1>0, <1>6 DEF Fill, FillFails
<1>7. CASE ReadTable
  BY <1>0, <1>7 DEF ReadTable
<1>8. ASSUME pc = "name", NEW n \in Names \cup {"null"}, KeepTable(n)
      PROVE  StrayInv'
  <2>1. /\ num \in [Kinds -> Nat] /\ New \in Nat \ {0} /\ num'[kind] = New
        /\ \A k \in Kinds : num'[k] \in Nat /\ num[k] <= num'[k]
    BY <1>0, <1>8, KeepKeeps, NewIsLast DEF Filling
  <2>2. Reached \cup {Block("data", kind, New), Block("name", kind, New)}
      \subseteq Reached'
    BY <1>0, <2>1 DEF Reached
  <2>3. heap' \subseteq heap \cup {Block("name", kind, New)} /\ pc' =
      "sections"
    BY <1>8 DEF KeepTable
  <2> QED
    BY <1>8, <2>2, <2>3
<1>9. CASE NameTable \/ NameFails
  BY <1>8, <1>9, NamesAreNames DEF NameTable, NameFails
<1>10. CASE UNCHANGED vars
  BY <1>0, <1>10 DEF vars
<1> QED
  BY <1>1, <1>2, <1>3, <1>4, <1>5, <1>6, <1>7, <1>8, <1>9, <1>10 DEF Next,
      Step, Table

-----------------------------------------------------------------------------
(* The theorems.                                                           *)

LEMMA LoadInit == Init => LoadInv
<1> SUFFICES ASSUME Init  PROVE LoadInv
  OBVIOUS
<1>1. TypeOK
  BY TypeInit
<1>2. /\ \A k \in Kinds : tbls[k] = <<>> /\ num[k] = 0
      /\ Len(<<>>) = 0 /\ Len(file.sections) \in Nat
  BY FileFacts DEF Init
<1>3. LenInv
  BY <1>2 DEF Init, LenInv, Loading, Filling
<1>4. PlaceInv /\ NoteInv /\ WalkInv
  BY DEF Init, PlaceInv, NoteInv, WalkInv, Loading, Filling, Walking
<1>5. CountedInv
  BY <1>2 DEF Init, CountedInv
<1>6. StrayInv
  BY DEF Init, StrayInv, Stray, Walking
<1> QED
  BY <1>1, <1>3, <1>4, <1>5, <1>6 DEF LoadInv

LEMMA LoadStep == LoadInv /\ [Next]_vars => LoadInv'
<1> SUFFICES ASSUME LoadInv, [Next]_vars  PROVE LoadInv'
  OBVIOUS
<1>1. CASE Next
  BY <1>1, TypeStep, LenStep, PlaceStep, CountedStep, StrayStep, NoteStep,
      WalkStep DEF LoadInv
<1>2. CASE UNCHANGED vars
  <2> USE <1>2 DEF vars, table, reading, LoadInv
  <2>1. TypeOK'
    <3>1. Blocks' = Blocks
      BY DEF Blocks
    <3> QED
      BY <3>1 DEF TypeOK
  <2>2. LenInv'
    BY DEF LenInv, New
  <2>3. PlaceInv'
    BY DEF PlaceInv, IsTable, Section
  <2>4. CountedInv'
    BY DEF CountedInv, SetTable, Ended, New
  <2>5. StrayInv'
    BY DEF StrayInv, Stray, Reached, New
  <2>6. NoteInv' /\ WalkInv'
    BY DEF NoteInv, Segment, CanAlloc, WalkInv
  <2> QED
    BY <2>1, <2>2, <2>3, <2>4, <2>5, <2>6
<1> QED
  BY <1>1, <1>2

LEMMA LoadAlways == Spec => []LoadInv
BY LoadInit, LoadStep, PTL DEF Spec

(* Every state of the loader has its type, whatever files it is given: in  *)
(* particular no section becomes two tables of a kind, so that the arrays  *)
(* never outgrow the number of sections.                                   *)
THEOREM TypeCorrect == Spec => []TypeOK
<1>1. LoadInv => TypeOK
  BY DEF LoadInv
<1> QED
  BY <1>1, LoadAlways, PTL

(* free_elf_file_descr finds every table it counts set: process_elf_file   *)
(* counts a table only when its data and its name are in place, so that a  *)
(* failure anywhere leaves nothing half filled behind the counters.        *)
THEOREM CountedCorrect == Spec => []CountedAreSet
<1>1. LoadInv => CountedAreSet
  BY DEF LoadInv, CountedInv, CountedAreSet, SetTable, LenInv, TypeOK
<1> QED
  BY <1>1, LoadAlways, PTL

(* The file is closed and its memory released, but for one block in the    *)
(* two places where process_elf_file drops one on its way out.             *)
THEOREM ReleaseCorrect == Spec => []NothingLeft
<1>1. LoadInv => NothingLeft
  BY DEF LoadInv, StrayInv, NothingLeft, Walking
<1> QED
  BY <1>1, LoadAlways, PTL

-----------------------------------------------------------------------------
(* AlwaysOnward.  Inside a round of a loop the loop is not at its end.     *)

BoundInv ==
  /\ Stage = 4 => at <= Len(file.segments) + 1
  /\ Stage = 6 => at <= Len(file.sections) + 1
  /\ Stage = 8 => at <= num["sym"] + 1
  /\ pc \in {"lookup", "scan", "named"} => at <= num["sym"] /\ entry <= NumEntries + 1
  /\ pc \in {"scan", "named"} => entry <= NumEntries
  /\ pc = "scan" => pos <= Len(file.bytes)

LEMMA EntriesNat ==
  ASSUME LoadInv, pc \in Walking, at <= num["sym"]
  PROVE  NumEntries \in Nat
<1>1. at \in 1..num["sym"] /\ file \in Inputs
  BY DEF LoadInv, TypeOK, WalkInv, Kinds
<1>2. tbls["sym"][at].sec \in 1..Len(file.sections)
  BY <1>1 DEF LoadInv, LenInv, Kinds
<1> QED
  BY <1>1, <1>2, SectionFacts DEF NumEntries

LEMMA NoteOnward ==
  ASSUME LoadInv, BoundInv, ReadNote, NoteInside
  PROVE  Onward /\ BoundInv' /\ InBounds'
<1>1. /\ pc = "note" /\ pc' = "note" /\ UNCHANGED <<file, at>> /\ noff' = NoteEnd(Note)
      /\ noff' > noff /\ noff' <= Segment(at).size + 3
  BY NextNote DEF ReadNote, AtNote, NoteInside
<1>2. Segment(at)' = Segment(at)
  BY <1>1 DEF Segment
<1> QED
  BY <1>1, <1>2 DEF Onward, BoundInv, InBounds, Stage, Round, Phase, Inner

LEMMA StepIsOnward ==
  ASSUME LoadInv, BoundInv, Step
  PROVE  ((Onward /\ InBounds') \/ AtStrayNote) /\ BoundInv'
<1> USE DEF Fails, Stop, table, reading, BoundInv, InBounds, Onward, Stage, Round, Phase, Inner
<1>0. /\ at \in Nat /\ noff \in Nat /\ pos \in Nat /\ ix \in Nat /\ num["sym"] \in Nat
      /\ entry \in Nat
      /\ file' = file /\ file \in Inputs
      /\ Len(file.segments) \in Nat /\ Len(file.sections) \in Nat /\ Len(file.bytes) \in Nat
      /\ \A i : Segment(i)' = Segment(i)
      /\ pc = "note" => at <= Len(file.segments)
      /\ pc \in {"grow", "fill", "read", "name"} => at <= Len(file.sections)
  <2>1. file' = file /\ file \in Inputs
    BY FileKept DEF Next, LoadInv, TypeOK
  <2>2. \A i : Segment(i)' = Segment(i)
    BY <2>1 DEF Segment
  <2>3. /\ at \in Nat /\ noff \in Nat /\ pos \in Nat /\ ix \in Nat /\ num["sym"] \in Nat
        /\ entry \in Nat
    BY WordFacts DEF LoadInv, TypeOK, Kinds
  <2>4. pc = "note" => at <= Len(file.segments)
    BY <2>1, FileFacts DEF LoadInv, NoteInv
  <2>5. pc \in {"grow", "fill", "read", "name"} => at <= Len(file.sections)
    BY <2>1, FileFacts DEF LoadInv, PlaceInv, Loading, Filling
  <2> QED
    BY <2>1, <2>2, <2>3, <2>4, <2>5, FileFacts
<1>1. CASE OpenFile \/ OpenFails \/ AllocDescr \/ AllocDescrFails
  <2>1. CASE OpenFile
    BY <1>0, <2>1 DEF OpenFile
  <2>2. CASE OpenFails
    BY <1>0, <2>2 DEF OpenFails
  <2>3. CASE AllocDescr
    BY <1>0, <2>3 DEF AllocDescr
  <2>4. CASE AllocDescrFails
    BY <1>0, <2>4 DEF AllocDescrFails
  <2> QED
    BY <1>1, <2>1, <2>2, <2>3, <2>4
<1>2. CASE ReadHeader \/ RefuseHeader \/ HeaderFails
  <2>1. CASE ReadHeader
    BY <1>0, <2>1 DEF ReadHeader, AfterPrograms
  <2>2. CASE RefuseHeader
    BY <1>0, <2>2 DEF RefuseHeader
  <2>3. CASE HeaderFails
    BY <1>0, <2>3 DEF HeaderFails
  <2> QED
    BY <1>2, <2>1, <2>2, <2>3
<1>3. CASE ReadHeaders \/ HeadersFail
  <2>1. CASE ReadHeaders
    BY <1>0, <2>1 DEF ReadHeaders
  <2>2. CASE HeadersFail
    BY <1>0, <2>2 DEF HeadersFail
  <2> QED
    BY <1>3, <2>1, <2>2
<1>4. CASE PickSection \/ SkipSection \/ LastSection
  <2>1. CASE PickSection
    BY <1>0, <2>1 DEF PickSection, AtSection
  <2>2. CASE SkipSection
    BY <1>0, <2>2 DEF SkipSection, AtSection
  <2>3. CASE LastSection
    BY <1>0, <2>3 DEF LastSection
  <2> QED
    BY <1>4, <2>1, <2>2, <2>3
<1>5. CASE Refuse \/ Accept
  <2>1. CASE Refuse
    BY <1>0, <2>1 DEF Refuse
  <2>2. CASE Accept
    BY <1>0, <2>2 DEF Accept
  <2> QED
    BY <1>5, <2>1, <2>2
<1>6. CASE ReadPrograms \/ ProgramsFail \/ ProgramsCrash
  <2>1. CASE ReadPrograms
    BY <1>0, <2>1 DEF ReadPrograms
  <2>2. CASE ProgramsFail
    BY <1>0, <2>2 DEF ProgramsFail
  <2>3. CASE ProgramsCrash
    BY <1>0, <2>3 DEF ProgramsCrash
  <2> QED
    BY <1>6, <2>1, <2>2, <2>3
<1>7. CASE SkipSegment \/ LastSegment \/ ReadSegment
  <2>1. CASE SkipSegment
    BY <1>0, <2>1 DEF SkipSegment, AtSegment
  <2>2. CASE LastSegment
    BY <1>0, <2>2 DEF LastSegment, AfterPrograms
  <2>3. CASE ReadSegment
    <3>1. /\ pc = "segment" /\ pc' = "note" /\ noff' = 0 /\ UNCHANGED <<at, num>>
          /\ at <= Len(file.segments) /\ Segment(at).note
      BY <2>3 DEF ReadSegment, HasNotes, AtSegment
    <3>2. at \in 1..Len(file.segments) /\ Segment(at) = file.segments[at]
      BY <1>0, <3>1 DEF LoadInv, NoteInv, Segment, ZeroSegment
    <3>3. Segment(at)' = Segment(at) /\ file.segments[at] \in Segments /\ IntMax \in Nat
      BY <1>0, <3>1, <3>2, FileFacts
    <3>4. Segment(at)'.size \in Nat
      BY <3>2, <3>3 DEF Segments, Positions, Word
    <3>5. noff' <= Segment(at)'.size + 3
      BY <3>1, <3>4
    <3> QED
      BY <1>0, <3>1, <3>5
  <2> QED
    BY <1>7, <2>1, <2>2, <2>3
<1>8. CASE SegmentFails \/ GarbledNotes
  <2>1. CASE SegmentFails
    BY <1>0, <2>1 DEF SegmentFails, HasNotes, AtSegment
  <2>2. CASE GarbledNotes
    BY <1>0, <2>2 DEF GarbledNotes, HasNotes, AtSegment
  <2> QED
    BY <1>8, <2>1, <2>2
<1>9. CASE ReadNote
  <2>1. CASE NoteInside
    BY <1>9, <2>1, NoteOnward
  <2>2. CASE ~NoteInside
    BY <1>0, <1>9, <2>2 DEF ReadNote, AtNote, AtStrayNote
  <2> QED
    BY <2>1, <2>2
<1>10. CASE NoteCrashes \/ NoteFails \/ LastNote
  <2>1. CASE NoteFails
    BY <1>0, <2>1 DEF NoteFails, AtNote
  <2>2. CASE LastNote
    BY <1>0, <2>2 DEF LastNote
  <2>3. CASE NoteCrashes
    BY <1>0, <2>3 DEF NoteCrashes, AtNote
  <2> QED
    BY <1>10, <2>1, <2>2, <2>3
<1>11. CASE Grow \/ GrowFails \/ GrowCrashes
  <2>1. CASE Grow
    BY <1>0, <2>1 DEF Grow
  <2>2. CASE GrowFails
    BY <1>0, <2>2 DEF GrowFails
  <2>3. CASE GrowCrashes
    BY <1>0, <2>3 DEF GrowCrashes
  <2> QED
    BY <1>11, <2>1, <2>2, <2>3
<1>12. CASE Fill \/ FillFails \/ ReadTable \/ ReadFails
  <2>1. CASE Fill
    BY <1>0, <2>1 DEF Fill
  <2>2. CASE FillFails
    BY <1>0, <2>2 DEF FillFails
  <2>3. CASE ReadTable
    BY <1>0, <2>3 DEF ReadTable
  <2>4. CASE ReadFails
    BY <1>0, <2>4 DEF ReadFails
  <2> QED
    BY <1>12, <2>1, <2>2, <2>3, <2>4
<1>13. CASE NameTable \/ NameFails
  <2>1. pc = "name" /\ pc' = "sections" /\ at' = at + 1
    BY <1>13 DEF NameTable, NameFails, KeepTable
  <2> QED
    BY <1>0, <2>1
<1>14. CASE NameCrashes
  BY <1>0, <1>14 DEF NameCrashes
<1>15. CASE SkipStatic \/ WalkTable \/ WalkNameless
  <2>1. CASE SkipStatic
    BY <1>0, <2>1 DEF SkipStatic, AtTable
  <2>2. CASE WalkTable
    <3>1. /\ pc = "walk" /\ at <= num["sym"] /\ UNCHANGED <<tbls, num>>
          /\ \/ pc' = "lookup" /\ entry' = 1 /\ at' = at
             \/ pc' = pc /\ at' = at + 1
      BY <2>2 DEF WalkTable, HasEntries, AtTable
    <3>2. NumEntries \in Nat /\ (at' = at => NumEntries' = NumEntries)
      BY <1>0, <3>1, EntriesNat DEF Walking, NumEntries, Section
    <3>3. CASE pc' = "lookup" /\ entry' = 1 /\ at' = at
      BY <1>0, <3>1, <3>2, <3>3
    <3>4. CASE pc' = pc /\ at' = at + 1
      BY <1>0, <3>1, <3>4
    <3> QED
      BY <3>1, <3>3, <3>4
  <2>3. CASE WalkNameless
    BY <1>0, <2>3 DEF WalkNameless, HasEntries, AtTable
  <2> QED
    BY <1>15, <2>1, <2>2, <2>3
<1>16. CASE WalkCrashes
  BY <1>0, <1>16 DEF WalkCrashes, AtTable
<1>e. ASSUME pc \in {"lookup", "scan", "named"}, UNCHANGED <<tbls, at>>
      PROVE  NumEntries \in Nat /\ NumEntries' = NumEntries
  BY <1>0, <1>e, EntriesNat DEF Walking, NumEntries, Section
<1>17. CASE LookUp \/ LastEntry \/ ScanByte \/ ScanEnd
  <2>1. CASE LookUp
    <3>1. NumEntries \in Nat /\ NumEntries' = NumEntries
      BY <1>e, <2>1 DEF LookUp
    <3> QED
      BY <1>0, <2>1, <3>1 DEF LookUp
  <2>2. CASE LastEntry
    BY <1>0, <2>2 DEF LastEntry
  <2>3. CASE ScanByte
    <3>1. NumEntries \in Nat /\ NumEntries' = NumEntries
      BY <1>e, <2>3 DEF ScanByte
    <3> QED
      BY <1>0, <2>3, <3>1 DEF ScanByte, InTable
  <2>4. CASE ScanEnd
    <3>1. NumEntries \in Nat /\ NumEntries' = NumEntries
      BY <1>e, <2>4 DEF ScanEnd
    <3> QED
      BY <1>0, <2>4, <3>1 DEF ScanEnd, InTable
  <2> QED
    BY <1>17, <2>1, <2>2, <2>3, <2>4
<1>18. CASE DropEntry \/ ScanOutside \/ NextEntry \/ Release
  <2>1. CASE DropEntry
    <3>1. NumEntries \in Nat /\ NumEntries' = NumEntries
      BY <1>e, <2>1 DEF DropEntry
    <3> QED
      BY <1>0, <2>1, <3>1 DEF DropEntry, InTable
  <2>2. CASE ScanOutside
    <3>1. NumEntries \in Nat /\ NumEntries' = NumEntries
      BY <1>e, <2>2 DEF ScanOutside
    <3> QED
      BY <1>0, <2>2, <3>1 DEF ScanOutside, InTable
  <2>3. CASE NextEntry
    <3>1. NumEntries \in Nat /\ NumEntries' = NumEntries
      BY <1>e, <2>3 DEF NextEntry
    <3> QED
      BY <1>0, <2>3, <3>1 DEF NextEntry
  <2>4. CASE Release
    BY <1>0, <2>4 DEF Release
  <2> QED
    BY <1>18, <2>1, <2>2, <2>3, <2>4
<1> QED
  BY <1>1, <1>2, <1>3, <1>4, <1>5, <1>6, <1>7, <1>8, <1>9, <1>10, <1>11, <1>12, <1>13, <1>14, <1>15, <1>16, <1>17, <1>18
  DEF Step, Load, Programs, Table, Walk

(* No loop of the loader stands still, goes back or runs on, whatever the *)
(* file, but the loop over notes at a note that reaches out of its         *)
(* segment: every other step moves on in the order of stages, rounds,      *)
(* phases and positions, inside the bounds the file sets.                  *)
THEOREM LoadGoesOn == Spec => AlwaysOnward
<1>1. Init => BoundInv
  <2> SUFFICES ASSUME Init PROVE BoundInv
    OBVIOUS
  <2> QED
    BY DEF Init, BoundInv, Stage
<1>2. LoadInv /\ BoundInv /\ [Next]_vars => BoundInv' /\ [(Onward /\ InBounds') \/ AtStrayNote]_vars
  <2> SUFFICES ASSUME LoadInv, BoundInv, [Next]_vars
               PROVE  BoundInv' /\ [(Onward /\ InBounds') \/ AtStrayNote]_vars
    OBVIOUS
  <2>1. CASE Step
    BY <2>1, StepIsOnward
  <2>2. CASE UNCHANGED vars
    BY <2>2 DEF vars, table, reading, BoundInv, Stage, NumEntries, Section
  <2> QED
    BY <2>1, <2>2 DEF Next
<1> QED
  BY <1>1, <1>2, LoadAlways, PTL DEF Spec, AlwaysOnward
=============================================================================
