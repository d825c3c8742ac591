------------------------- MODULE ElfLoadIntactProofs -------------------------
(***************************************************************************)
(* Proofs about files as a linker leaves them, of any number of segments   *)
(* and sections in any order: nothing but a failing call stops the loader, *)
(* and its caller reads every dynamic symbol with its name.                *)
(***************************************************************************)
EXTENDS ElfLoadProofs, FiniteSetTheorems

-----------------------------------------------------------------------------
(* The inductive invariant, on top of LoadInv.                             *)

Types(k) == IF k = "sym" THEN {"SYMTAB", "DYNSYM"} ELSE {"STRTAB"}

StopInv ==
  /\ rc # "OK" => failed # {}
  /\ pc = "refused" => rc # "OK"
  /\ pc = "crashed" => "malloc" \in failed
  /\ pc = "programs" => file.phoff > 0

(* A counted table was read whole, from a section of its kind whose name   *)
(* it has, but for a string table whose name could not be copied.          *)
RightTable(k, i) ==
  /\ tbls[k][i].data = "whole"
  /\ file.sections[tbls[k][i].sec].type \in Types(k)
  /\ \/ tbls[k][i].name = file.sections[tbls[k][i].sec].name
     \/ k = "str" /\ tbls[k][i].name = "null" /\ "malloc" \in failed
TablesInv ==
  /\ pc \in Loading \cup {"headers"} => file.shoff > 0
  /\ \A k \in Kinds : \A i \in 1..num[k] : RightTable(k, i)
  /\ pc = "name" => tbls[kind][New].data = "whole"
  /\ (pc \in Loading /\ at # 0) => num["str"] >= 1

(* Every section that the loop has passed has its table.                   *)
HasTable(k, s) == \E i \in 1..num[k] : tbls[k][i].sec = s
Passed(s) ==
  \/ pc \in Loading /\ at # 0 /\ (s < at \/ s = file.shstrndx)
  \/ pc = "close" /\ rc = "OK"
  \/ pc \in Walking \cup {"released"}
PassedInv ==
  \A k \in Kinds : \A s \in 1..Len(file.sections) :
    file.sections[s].type \in Types(k) /\ Passed(s) => HasTable(k, s)

(* The caller has read the dynamic tables up to the one it is at, each     *)
(* with the strings it is linked to.                                       *)
Reading == {"lookup", "scan", "named"}
Right(d) == [sym |-> d, str |-> file.sections[d].link, whole |-> TRUE]
WalkedInv ==
  /\ walked \subseteq {Right(d) : d \in Dynamic(file)}
  /\ pc \in Reading => at <= num["sym"] /\ IsDynamic(at)
  /\ pc \in Walking \cup {"released"} =>
       \A j \in 1..num["sym"] :
         IsDynamic(j) /\ (j < at \/ (pc \in Reading /\ j = at)) =>
           Right(tbls["sym"][j].sec) \in walked
  /\ pc = "released" => at > num["sym"]

NameInv ==
  /\ pc \in {"scan", "named"} => /\ ix + pos < Len(file.bytes)
                                 /\ \A i \in 1..pos : file.bytes[ix + i] # 0
  /\ pc = "named" => Byte = 0

(* The notes of a segment fill it, but for the padding of the last one.    *)
OffsetInv == pc = "note" => noff <= Segment(at).size + 3

GoodInv == StopInv /\ TablesInv /\ PassedInv /\ WalkedInv /\ NameInv /\ OffsetInv

-----------------------------------------------------------------------------
(* What a good file is.                                                    *)

LEMMA AsIntSmall == \A n : n <= IntMax => AsInt(n) = n
BY DEF AsInt

LEMMA SegmentGood ==
  ASSUME file \in Inputs, Intact(file), NEW i \in 1..Len(file.segments), Segment(i).note
  PROVE  /\ CanAlloc(Segment(i).size) /\ CanSeek(Segment(i).offset)
         /\ Segment(i).offset + Segment(i).size <= file.length
<1>1. Segment(i) = file.segments[i]
  BY DEF Segment, ZeroSegment
<1>2. file.segments[i] \in Segments /\ IntMax \in Nat
  BY FileFacts
<1>3. file.segments[i].offset \in Nat /\ file.segments[i].size \in Nat
  BY <1>2 DEF Segments, Positions
<1>4. Within(file, file.segments[i])
  BY <1>1 DEF Intact, NotesIntact
<1> QED
  BY <1>1, <1>3, <1>4, AsIntSmall DEF Within, CanAlloc, CanSeek

(* No note takes the walk over notes out of its segment.                   *)
LEMMA NotesGood ==
  ASSUME LoadInv, OffsetInv, Intact(file), AtNote
  PROVE  NoteInside /\ Usable(Note)
<1> DEFINE s == file.segments[at]
<1>1. /\ pc = "note" /\ file \in Inputs /\ at \in 1..Len(file.segments)
      /\ Segment(at) = s /\ s.note
  BY DEF AtNote, LoadInv, NoteInv, TypeOK
<1>2. NotesIntact(file, s)
  BY <1>1 DEF Intact
<1>3. Note.at = noff /\ noff \in Positions /\ s.size \in 0..IntMax /\ IntMax \in Nat
  BY <1>1, NoteFacts, ElfAssumption
<1>4. noff \in Nat /\ noff + 12 \in 0..Word - 1
  BY <1>1, <1>3, WordFacts DEF OffsetInv
<1>5. (noff + 12) % Word = noff + 12
  BY <1>4, WordFacts
<1>6. HeaderInside
  BY <1>5 DEF HeaderInside, AtNote
<1>7. CASE \E n \in s.notes : n.at = noff
  <2>1. Note \in s.notes
    BY <1>1, <1>7 DEF Note, NoteAt
  <2> QED
    BY <1>1, <1>2, <1>6, <2>1 DEF NotesIntact, NoteInside
<1>8. CASE ~\E n \in s.notes : n.at = noff
  <2>1. Note = ZeroNote(noff)
    BY <1>1, <1>8 DEF Note, NoteAt
  <2> QED
    BY <1>6, <2>1 DEF ZeroNote, NoteInside, Fits, Usable
<1> QED
  BY <1>7, <1>8

LEMMA HeaderGood ==
  ASSUME file \in Inputs, Intact(file)
  PROVE  /\ file.valid /\ AsInt(file.phoff) = file.phoff /\ AsInt(file.shoff) = file.shoff
         /\ file.phoff > 0 => file.segments # <<>>
         /\ file.shoff = 0 => Len(file.sections) = 0
         /\ file.shoff > 0 => file.shstrndx \in 1..Len(file.sections)
         /\ file.shoff > 0 => TablesIntact(file)
         /\ file.shoff \in Nat
<1>1. /\ file.shoff \in Nat /\ file.phoff \in Nat /\ Len(file.sections) \in Nat
      /\ file.shstrndx \in 0..Len(file.sections)
  BY FileFacts
<1>2. file.shoff = 0 => file.sections = <<>>
  BY <1>1 DEF Intact
<1>3. file.shoff > 0 => TablesIntact(file)
  BY DEF Intact
<1>4. file.shoff > 0 => file.shstrndx # 0
  BY <1>3 DEF TablesIntact
<1> QED
  BY <1>1, <1>2, <1>3, <1>4, AsIntSmall DEF Intact

LEMMA SectionGood ==
  ASSUME file \in Inputs, Intact(file), NEW i \in 1..Len(file.sections)
  PROVE  /\ file.shoff > 0 /\ Section(i) = file.sections[i]
         /\ file.sections[i].type \in {"STRTAB", "SYMTAB", "DYNSYM"} =>
              /\ CanAlloc(Section(i).size) /\ Content(Section(i)) = "whole"
              /\ AsInt(Section(i).size) # 0 /\ Section(i).size # 0
         /\ file.sections[i].type = "DYNSYM" <=> file.sections[i].name = ".dynsym"
         /\ file.sections[i].name \in Names
<1>1. /\ file.shoff \in Nat /\ Len(file.sections) \in Nat /\ file.length \in Nat
      /\ file.sections[i] \in Sections /\ IntMax \in Nat
  BY FileFacts
<1>2. file.shoff > 0 /\ TablesIntact(file)
  BY <1>1, HeaderGood
<1>3. Section(i) = file.sections[i]
  BY <1>1, <1>2 DEF TablesIntact, Section
<1>4. /\ file.sections[i].offset \in Nat
      /\ file.sections[i].size \in Nat
      /\ file.sections[i].name \in Names
  BY <1>1 DEF Sections, Positions
<1>5. file.sections[i].type \in {"STRTAB", "SYMTAB", "DYNSYM"} =>
         Within(file, file.sections[i]) /\ file.sections[i].offset > 0 /\ file.sections[i].size > 0
  BY <1>2 DEF TablesIntact
<1>6. file.sections[i].type = "DYNSYM" <=> file.sections[i].name = ".dynsym"
  BY <1>2 DEF TablesIntact
<1> QED
  BY <1>2, <1>3, <1>4, <1>5, <1>6, AsIntSmall DEF Within, CanAlloc, Content

(* The section being made a table is of its kind.                          *)
LEMMA SecGood ==
  ASSUME LoadInv, TablesInv, Intact(file), pc \in {"grow"} \cup Filling
  PROVE  /\ sec \in 1..Len(file.sections)
         /\ file.sections[sec].type \in Types(kind)
         /\ CanAlloc(Section(sec).size) /\ Content(Section(sec)) = "whole"
         /\ at = 0 \/ at = sec
<1>1. /\ file \in Inputs /\ kind \in Kinds /\ sec \in 0..Len(file.sections)
      /\ Len(file.sections) \in Nat
  BY FileFacts DEF LoadInv, TypeOK
<1>2. \/ at = 0 /\ kind = "str" /\ sec = file.shstrndx
      \/ at \in 1..Len(file.sections) /\ sec = at /\ IsTable(at, kind)
  BY DEF LoadInv, PlaceInv, Loading, Filling
<1>3. CASE at = 0 /\ kind = "str" /\ sec = file.shstrndx
  <2>1. sec \in 1..Len(file.sections) /\ file.sections[sec].type = "STRTAB"
    BY <1>1, <1>3, HeaderGood DEF TablesIntact, TablesInv, Loading
  <2> QED
    BY <1>1, <1>3, <2>1, SectionGood DEF Types
<1>4. CASE at \in 1..Len(file.sections) /\ sec = at /\ IsTable(at, kind)
  BY <1>1, <1>4, SectionGood DEF Types, IsTable
<1> QED
  BY <1>2, <1>3, <1>4

(* The names of sections are known once the first table is filled.         *)
LEMMA NamesGood ==
  ASSUME LoadInv, TablesInv, Intact(file), pc = "name"
  PROVE  NamesOf(Section(sec)) = {file.sections[sec].name} /\ file.sections[sec].name \in Names
<1>1. /\ file \in Inputs /\ kind \in Kinds /\ num \in [Kinds -> Nat] /\ at \in Nat
      /\ sec \in 1..Len(file.sections)
  BY NewIsLast DEF Filling, LoadInv, TypeOK
<1>2. file.shstrndx \in 1..Len(file.sections) /\ file.sections[file.shstrndx].type = "STRTAB"
  BY <1>1, HeaderGood DEF TablesInv, TablesIntact, Loading, Filling
<1>3. AsInt(Section(file.shstrndx).size) # 0
  BY <1>1, <1>2, SectionGood
<1>4. Section(sec) = file.sections[sec] /\ file.sections[sec].name \in Names
  BY <1>1, SectionGood
<1>5. tbls["str"][1].data = "whole"
  <2>1. CASE num["str"] >= 1
    <3>1. "str" \in Kinds /\ 1 \in 1..num["str"]
      BY <1>1, <2>1 DEF Kinds
    <3> QED
      BY <3>1 DEF TablesInv, RightTable
  <2>2. CASE num["str"] = 0
    <3>1. kind = "str" /\ New = 1
      BY <2>2 DEF TablesInv, Loading, Filling, LoadInv, PlaceInv, New
    <3> QED
      BY <3>1 DEF TablesInv
  <2> QED
    BY <1>1, <2>1, <2>2 DEF Kinds
<1> QED
  BY <1>3, <1>4, <1>5 DEF NamesOf

(* The string table a dynamic symbol table is linked to.                   *)
LEMMA LinkGood ==
  ASSUME file \in Inputs, Intact(file), NEW d \in Dynamic(file)
  PROVE  LET l == file.sections[d].link
         IN  /\ l \in 1..Len(file.sections)
             /\ file.sections[l].type = "STRTAB" /\ file.sections[l].name = ".dynstr"
             /\ \A i \in 1..Len(file.sections) : file.sections[i].name = ".dynstr" => i = l
<1>1. d \in 1..Len(file.sections)
  BY DEF Dynamic
<1>2. TablesIntact(file)
  BY <1>1, SectionGood DEF Intact
<1> QED
  BY <1>2 DEF TablesIntact

(* What is in a dynamic string table.                                      *)
LEMMA BytesGood ==
  ASSUME file \in Inputs, Intact(file), Dynamic(file) # {}
  PROVE  /\ Len(file.bytes) \in Nat \ {0} /\ file.bytes[Len(file.bytes)] = 0
         /\ \A e \in Nat \ {0} : StName(e) \in Nat /\ StName(e) < Len(file.bytes)
<1>1. PICK d \in 1..Len(file.sections) : d \in Dynamic(file)
  BY DEF Dynamic
<1>2. TablesIntact(file)
  BY <1>1, SectionGood DEF Intact
<1>3. file.bytes \in Seq({0, 1}) /\ file.bytes # <<>> /\ Len(file.bytes) \in Nat
  BY <1>2, ElfAssumption, FileFacts DEF TablesIntact, Files
<1>4. Len(file.bytes) # 0
  BY <1>3, EmptySeq
<1>5. Len(file.bytes) > 0
  BY <1>3, <1>4
<1>6. file.stNames \in Seq(Nat) /\ Len(file.stNames) \in Nat
  BY FileFacts, LenProperties
<1>7. ASSUME NEW e \in Nat \ {0}, e <= Len(file.stNames)
      PROVE  file.stNames[e] \in Nat /\ file.stNames[e] < Len(file.bytes)
  <2>1. e \in 1..Len(file.stNames)
    BY <1>6, <1>7
  <2> QED
    BY <1>2, <1>6, <2>1 DEF TablesIntact
<1>8. \A e \in Nat \ {0} : StName(e) \in Nat /\ StName(e) < Len(file.bytes)
  BY <1>5, <1>7 DEF StName
<1> QED
  BY <1>2, <1>3, <1>4, <1>8 DEF TablesIntact

(* The dynamic table the walk is at, and the strings it finds for it.      *)
LEMMA WalkGood ==
  ASSUME LoadInv, GoodInv, Intact(file), AtTable, IsDynamic(at)
  PROVE  LET d == tbls["sym"][at].sec
         IN  /\ d \in Dynamic(file) /\ HasEntries
             /\ \A i \in 1..num["str"] : /\ DynStr(i) => tbls["str"][i].sec = file.sections[d].link
                                         /\ Whole(i)
             /\ \E i \in 1..num["str"] : \/ tbls["str"][i].name = ".dynstr"
                                         \/ tbls["str"][i].name = "null"
             /\ (\E i \in 1..num["str"] : tbls["str"][i].name = "null") => "malloc" \in failed
<1> DEFINE d == tbls["sym"][at].sec
           l == file.sections[d].link
<1>1. /\ file \in Inputs /\ pc = "walk" /\ "sym" \in Kinds /\ "str" \in Kinds
      /\ at \in 1..num["sym"]
  BY DEF LoadInv, TypeOK, WalkInv, Walking, AtTable, Kinds
<1>2. /\ d \in 1..Len(file.sections)
      /\ \A i \in 1..num["str"] : tbls["str"][i].sec \in 1..Len(file.sections)
  BY <1>1 DEF LoadInv, LenInv
<1>3. RightTable("sym", at) /\ \A i \in 1..num["str"] : RightTable("str", i)
  BY <1>1 DEF GoodInv, TablesInv
<1>4. file.sections[d].name = ".dynsym" /\ file.sections[d].type = "DYNSYM"
  BY <1>1, <1>2, <1>3, SectionGood DEF RightTable, IsDynamic
<1>5. d \in Dynamic(file)
  BY <1>2, <1>4 DEF Dynamic
<1>6. /\ l \in 1..Len(file.sections)
      /\ file.sections[l].type = "STRTAB" /\ file.sections[l].name = ".dynstr"
      /\ \A i \in 1..Len(file.sections) : file.sections[i].name = ".dynstr" => i = l
  BY <1>1, <1>5, LinkGood
<1>7. HasEntries
  BY <1>1, <1>2, <1>4, SectionGood DEF HasEntries, NumEntries
<1>8. HasTable("str", l)
  BY <1>1, <1>6 DEF GoodInv, PassedInv, Passed, Types, Walking
<1>9. ASSUME NEW i \in 1..num["str"]
      PROVE  /\ DynStr(i) => tbls["str"][i].sec = l
             /\ Whole(i)
             /\ tbls["str"][i].sec = l => tbls["str"][i].name \in {".dynstr", "null"}
             /\ tbls["str"][i].name = "null" => "malloc" \in failed
  <2>1. file.sections[tbls["str"][i].sec].name \in Names /\ "null" \notin Names
    BY <1>1, <1>2, SectionGood, ElfAssumption
  <2> QED
    BY <1>2, <1>3, <1>6, <2>1 DEF RightTable, DynStr, Whole
<1> QED
  BY <1>5, <1>7, <1>8, <1>9 DEF HasTable

-----------------------------------------------------------------------------
(* What stops the loader.                                                  *)

LEMMA StopStep ==
  ASSUME LoadInv, GoodInv, Intact(file), Next
  PROVE  StopInv'
<1> USE DEF Fails, Stop, table, reading, LoadInv, GoodInv, StopInv
<1>0. file' = file /\ file \in Inputs
  BY FileKept DEF TypeOK
<1>1. CASE Load
  BY <1>0, <1>1, HeaderGood DEF Load, OpenFile, OpenFails, AllocDescr, AllocDescrFails,
      ReadHeader, RefuseHeader, HeaderFails, ReadHeaders, HeadersFail, PickSection,
      SkipSection, LastSection, Refuse, Accept, AfterPrograms, AtSection
<1>2. CASE ProgramsCrash \/ SegmentFails \/ GarbledNotes
  <2>1. HasNotes => at \in 1..Len(file.segments) /\ Segment(at).note
    BY <1>0, FileFacts DEF HasNotes, AtSegment, NoteInv, TypeOK
  <2>2. HasNotes => CanAlloc(Segment(at).size) /\ CanSeek(Segment(at).offset) /\
      SegmentWhole
    BY <1>0, <2>1, SegmentGood DEF SegmentWhole
  <2> QED
    BY <1>0, <1>2, <2>2, HeaderGood DEF ProgramsCrash, SegmentFails, GarbledNotes, HasNotes,
       AtSegment
<1>12. ~NoteCrashes
  BY NotesGood DEF NoteCrashes
<1>3. CASE Programs /\ ~ProgramsCrash /\ ~SegmentFails /\ ~GarbledNotes
  BY <1>0, <1>3, <1>12 DEF Programs, ReadPrograms, ProgramsFail, ProgramsCrash,
      SkipSegment, LastSegment, ReadSegment, SegmentFails, GarbledNotes, ReadNote,
      NoteCrashes, NoteFails, LastNote, AfterPrograms, AtSegment, HasNotes, AtNote
<1>4. CASE GrowCrashes
  BY <1>0, <1>4, SecGood DEF GrowCrashes
<1>5. CASE FillFails
  BY <1>0, <1>5, SecGood DEF FillFails, Filling
<1>6. CASE NameCrashes
  <2>1. Cardinality({file.sections[sec].name}) = 1
    BY FS_Singleton
  <2>2. /\ NamesOf(Section(sec)) = {file.sections[sec].name}
        /\ file.sections[sec].name \in Names
    BY <1>6, NamesGood DEF NameCrashes
  <2>3. "null" \notin Names
    BY ElfAssumption
  <2> QED
    BY <1>0, <1>6, <2>1, <2>2, <2>3 DEF NameCrashes
<1>7. CASE Table /\ ~GrowCrashes /\ ~FillFails /\ ~NameCrashes
  BY <1>0, <1>7 DEF Table, Grow, GrowFails, GrowCrashes, Fill, FillFails, ReadTable,
      ReadFails, NameTable, NameFails, NameCrashes, KeepTable
<1>8. CASE WalkCrashes
  BY <1>0, <1>8, WalkGood DEF WalkCrashes
<1>9. CASE ScanOutside
  BY <1>0, <1>9 DEF ScanOutside, NameInv, InTable
<1>10. CASE Walk /\ ~WalkCrashes /\ ~ScanOutside
  BY <1>0, <1>10 DEF Walk, SkipStatic, WalkTable, WalkNameless, WalkCrashes, LookUp,
      LastEntry, ScanByte, ScanEnd, DropEntry, ScanOutside, NextEntry, Release, AtTable,
      HasEntries
<1>11. CASE UNCHANGED vars
  BY <1>11 DEF vars
<1> QED
  BY <1>1, <1>2, <1>3, <1>4, <1>5, <1>6, <1>7, <1>8, <1>9, <1>10, <1>11 DEF Next, Step

-----------------------------------------------------------------------------
(* The tables.                                                             *)

LEMMA FailedGrows == Next => failed \subseteq failed'
<1> SUFFICES ASSUME Next  PROVE failed \subseteq failed'
  OBVIOUS
<1> USE DEF Fails, Stop
<1>1. CASE Load
  BY <1>1 DEF Load, OpenFile, OpenFails, AllocDescr, AllocDescrFails, ReadHeader,
      RefuseHeader, HeaderFails, ReadHeaders, HeadersFail, PickSection, SkipSection,
      LastSection, Refuse, Accept, AfterPrograms, AtSection
<1>2. CASE Programs
  BY <1>2 DEF Programs, ReadPrograms, ProgramsFail, ProgramsCrash, SkipSegment,
      LastSegment, ReadSegment, SegmentFails, GarbledNotes, ReadNote, NoteCrashes,
      NoteFails, LastNote, AfterPrograms, AtSegment, HasNotes, AtNote
<1>3. CASE Table
  BY <1>3 DEF Table, Grow, GrowFails, GrowCrashes, Fill, FillFails, ReadTable, ReadFails,
      NameTable, NameFails, NameCrashes, KeepTable
<1>4. CASE Walk
  BY <1>4 DEF Walk, SkipStatic, WalkTable, WalkNameless, WalkCrashes, LookUp, LastEntry,
      ScanByte, ScanEnd, DropEntry, ScanOutside, NextEntry, Release, AtTable, HasEntries
<1> QED
  BY <1>1, <1>2, <1>3, <1>4 DEF Next, Step, vars

(* A step that counts no table leaves the counted ones as they are.        *)
LEMMA TablesQuiet ==
  ASSUME LoadInv, Next
  PROVE  \/ /\ num' = num
            /\ \A k \in Kinds : \A i \in 1..num[k] : tbls'[k][i] = tbls[k][i]
         \/ /\ pc = "name"
            /\ \/ \E n \in NamesOf(Section(sec)) : KeepTable(n)
               \/ kind = "str" /\ "malloc" \in failed' /\ KeepTable("null")
<1> USE DEF Fails, Stop, table, reading
<1>1. CASE Load
  BY <1>1 DEF Load, OpenFile, OpenFails, AllocDescr, AllocDescrFails, ReadHeader,
      RefuseHeader, HeaderFails, ReadHeaders, HeadersFail, PickSection, SkipSection,
      LastSection, Refuse, Accept, AfterPrograms, AtSection
<1>2. CASE Programs
  BY <1>2 DEF Programs, ReadPrograms, ProgramsFail, ProgramsCrash, SkipSegment,
      LastSegment, ReadSegment, SegmentFails, GarbledNotes, ReadNote, NoteCrashes,
      NoteFails, LastNote, AfterPrograms, AtSegment, HasNotes, AtNote
<1>3. CASE Walk
  BY <1>3 DEF Walk, SkipStatic, WalkTable, WalkNameless, WalkCrashes, LookUp, LastEntry,
      ScanByte, ScanEnd, DropEntry, ScanOutside, NextEntry, Release, AtTable, HasEntries
<1>4. CASE GrowFails \/ GrowCrashes \/ ReadFails \/ NameCrashes
  BY <1>4 DEF GrowFails, GrowCrashes, ReadFails, NameCrashes
<1>5. CASE Grow
  BY <1>5, GrowKeeps DEF Grow
<1>6. CASE Fill \/ FillFails
  BY <1>6, DataKeeps DEF Fill, FillFails, Filling
<1>7. CASE ReadTable
  <2>1. Content(Section(sec)) \in {"blank", "part", "whole"}
    BY DEF Content
  <2> QED
    BY <1>7, <2>1, DataKeeps DEF ReadTable, Filling
<1>8. CASE NameTable \/ NameFails
  BY <1>8 DEF NameTable, NameFails
<1>9. CASE UNCHANGED vars
  BY <1>9 DEF vars
<1> QED
  BY <1>1, <1>2, <1>3, <1>4, <1>5, <1>6, <1>7, <1>8, <1>9 DEF Next, Step, Table

(* What counting a table changes.                                          *)
LEMMA KeepGood ==
  ASSUME LoadInv, GoodInv, Intact(file), Next, pc = "name", NEW n \in Names \cup {"null"},
         KeepTable(n),
         n = file.sections[sec].name \/ (n = "null" /\ kind = "str" /\ "malloc" \in failed')
  PROVE  /\ \A k \in Kinds : \A i \in 1..num'[k] : RightTable(k, i)'
         /\ pc' = "sections" /\ at' = at + 1 /\ num'["str"] >= 1
         /\ \A k \in Kinds : \A s : HasTable(k, s)' <=> HasTable(k, s) \/ (k = kind /\ s = sec)
<1>1. /\ \A k \in Kinds : num'[k] = IF k = kind THEN New ELSE num[k]
      /\ tbls'[kind][New].sec = sec /\ tbls'[kind][New].name = n
      /\ tbls'[kind][New].data = tbls[kind][New].data
      /\ \A k \in Kinds : \A i \in 1..num[k] : tbls'[k][i] = tbls[k][i]
  BY KeepKeeps
<1>2. /\ New = num[kind] + 1 /\ num \in [Kinds -> Nat] /\ kind \in Kinds
      /\ sec \in 1..Len(file.sections)
  BY NewIsLast DEF Filling
<1>3. file' = file /\ failed \subseteq failed'
  BY FileKept, FailedGrows
<1>4. \A k \in Kinds : \A i \in 1..num'[k] : i \in 1..num[k] \/ (k = kind /\ i = New)
  BY <1>1, <1>2
<1>5. \A k \in Kinds : \A i \in 1..num[k] : i \in 1..num'[k]
  BY <1>1, <1>2
<1>6. New \in 1..num'[kind]
  BY <1>1, <1>2
<1>7. ASSUME NEW k \in Kinds, NEW i \in 1..num'[k]  PROVE RightTable(k, i)'
  <2>1. CASE i \in 1..num[k]
    <3>1. RightTable(k, i) /\ tbls'[k][i] = tbls[k][i]
      BY <1>1, <2>1 DEF GoodInv, TablesInv
    <3> QED
      BY <1>3, <3>1 DEF RightTable
  <2>2. CASE k = kind /\ i = New
    <3>1. /\ tbls'[k][i].data = "whole" /\ tbls'[k][i].sec = sec /\ tbls'[k][i].name = n
          /\ file.sections[sec].type \in Types(k)
      BY <1>1, <2>2, SecGood DEF GoodInv, TablesInv, Filling
    <3> QED
      BY <1>3, <2>2, <3>1 DEF RightTable
  <2> QED
    BY <1>4, <2>1, <2>2
<1>8. pc' = "sections" /\ at' = at + 1
  BY DEF KeepTable
<1>9. num'["str"] >= 1
  BY <1>1, <1>2 DEF GoodInv, TablesInv, LoadInv, PlaceInv, Loading, Filling, Kinds
<1>10. ASSUME NEW k \in Kinds, NEW s
       PROVE  HasTable(k, s)' <=> HasTable(k, s) \/ (k = kind /\ s = sec)
  BY <1>1, <1>2, <1>4, <1>5, <1>6 DEF HasTable
<1> QED
  BY <1>7, <1>8, <1>9, <1>10

LEMMA KeepCases ==
  ASSUME LoadInv, GoodInv, Intact(file), Next
  PROVE  \/ /\ num' = num
            /\ \A k \in Kinds : \A i \in 1..num[k] : tbls'[k][i] = tbls[k][i]
         \/ /\ pc = "name"
            /\ \A k \in Kinds : \A i \in 1..num'[k] : RightTable(k, i)'
            /\ pc' = "sections" /\ at' = at + 1 /\ num'["str"] >= 1
            /\ \A k \in Kinds : \A s :
                    HasTable(k, s)' <=> HasTable(k, s) \/ (k = kind /\ s = sec)
<1>1. ASSUME pc = "name", NEW n \in NamesOf(Section(sec)), KeepTable(n)
      PROVE  /\ \A k \in Kinds : \A i \in 1..num'[k] : RightTable(k, i)'
             /\ pc' = "sections" /\ at' = at + 1 /\ num'["str"] >= 1
             /\ \A k \in Kinds : \A s :
                     HasTable(k, s)' <=> HasTable(k, s) \/ (k = kind /\ s = sec)
  <2>1. n = file.sections[sec].name /\ n \in Names
    BY <1>1, NamesGood DEF GoodInv
  <2> QED
    BY <1>1, <2>1, KeepGood
<1>2. ASSUME pc = "name", kind = "str", "malloc" \in failed', KeepTable("null")
      PROVE  /\ \A k \in Kinds : \A i \in 1..num'[k] : RightTable(k, i)'
             /\ pc' = "sections" /\ at' = at + 1 /\ num'["str"] >= 1
             /\ \A k \in Kinds : \A s :
                     HasTable(k, s)' <=> HasTable(k, s) \/ (k = kind /\ s = sec)
  BY <1>2, KeepGood
<1> QED
  BY <1>1, <1>2, TablesQuiet

LEMMA TablesStep ==
  ASSUME LoadInv, GoodInv, Intact(file), Next
  PROVE  TablesInv'
<1> USE DEF Fails, Stop, table, reading
<1>0. /\ file' = file /\ file \in Inputs /\ failed \subseteq failed'
      /\ num \in [Kinds -> Nat] /\ at \in Nat /\ kind \in Kinds
  BY FileKept, FailedGrows DEF LoadInv, TypeOK
<1>1. pc' \in Loading \cup {"headers"} => file.shoff > 0
  <2> USE DEF GoodInv, TablesInv, Loading, Filling
  <2>1. CASE Load
    BY <1>0, <2>1, HeaderGood DEF Load, OpenFile, OpenFails, AllocDescr, AllocDescrFails,
        ReadHeader, RefuseHeader, HeaderFails, ReadHeaders, HeadersFail, PickSection,
        SkipSection, LastSection, Refuse, Accept, AfterPrograms, AtSection
  <2>2. CASE Programs
    BY <1>0, <2>2, HeaderGood DEF Programs, ReadPrograms, ProgramsFail, ProgramsCrash,
        SkipSegment, LastSegment, ReadSegment, SegmentFails, GarbledNotes, ReadNote,
        NoteCrashes, NoteFails, LastNote, AfterPrograms, AtSegment, HasNotes, AtNote
  <2>3. CASE Table
    BY <2>3 DEF Table, Grow, GrowFails, GrowCrashes, Fill, FillFails, ReadTable, ReadFails,
        NameTable, NameFails, NameCrashes, KeepTable
  <2>4. CASE Walk
    BY <2>4 DEF Walk, SkipStatic, WalkTable, WalkNameless, WalkCrashes, LookUp,
        LastEntry, ScanByte, ScanEnd, DropEntry, ScanOutside, NextEntry, Release,
        AtTable, HasEntries
  <2> QED
    BY <2>1, <2>2, <2>3, <2>4 DEF Next, Step, vars
<1>2. CASE /\ num' = num
           /\ \A k \in Kinds : \A i \in 1..num[k] : tbls'[k][i] = tbls[k][i]
  <2>1. ASSUME NEW k \in Kinds, NEW i \in 1..num'[k]  PROVE RightTable(k, i)'
    <3>1. RightTable(k, i) /\ tbls'[k][i] = tbls[k][i]
      BY <1>2 DEF GoodInv, TablesInv
    <3> QED
      BY <1>0, <3>1 DEF RightTable
  <2>2. pc' = "name" => tbls'[kind'][New'].data = "whole"
    <3>1. CASE ReadTable
      <4>1. Content(Section(sec)) = "whole"
        BY <3>1, SecGood DEF ReadTable, Filling, GoodInv
      <4>2. tbls'[kind][New].data = "whole" /\ kind' = kind /\ New' = New
        BY <1>2, <3>1, <4>1, DataKeeps DEF ReadTable, Filling, New
      <4> QED
        BY <4>2
    <3>2. CASE ~ReadTable /\ pc' = "name"
      <4>1. pc = "name" /\ UNCHANGED <<kind, tbls>>
        <5>1. CASE Load
          BY <3>2, <5>1 DEF Load, OpenFile, OpenFails, AllocDescr, AllocDescrFails,
              ReadHeader, RefuseHeader, HeaderFails, ReadHeaders, HeadersFail, PickSection,
              SkipSection, LastSection, Refuse, Accept, AfterPrograms, AtSection
        <5>2. CASE Programs
          BY <3>2, <5>2 DEF Programs, ReadPrograms, ProgramsFail, ProgramsCrash,
              SkipSegment, LastSegment, ReadSegment, SegmentFails, GarbledNotes,
              ReadNote, NoteCrashes, NoteFails, LastNote, AfterPrograms, AtSegment,
              HasNotes, AtNote
        <5>3. CASE Table
          BY <3>2, <5>3 DEF Table, Grow, GrowFails, GrowCrashes, Fill, FillFails,
              ReadTable, ReadFails, NameTable, NameFails, NameCrashes, KeepTable
        <5>4. CASE Walk
          BY <3>2, <5>4 DEF Walk, SkipStatic, WalkTable, WalkNameless, WalkCrashes,
              LookUp, LastEntry, ScanByte, ScanEnd, DropEntry, ScanOutside, NextEntry,
              Release, AtTable, HasEntries
        <5> QED
          BY <3>2, <5>1, <5>2, <5>3, <5>4 DEF Next, Step, vars
      <4> QED
        BY <1>2, <4>1 DEF GoodInv, TablesInv, New
    <3> QED
      BY <3>1, <3>2
  <2>3. (pc' \in Loading /\ at' # 0) => num["str"] >= 1
    <3> USE DEF GoodInv, TablesInv, Loading, Filling
    <3>1. CASE Load
      BY <1>0, <3>1 DEF Load, LoadInv, PlaceInv, OpenFile, OpenFails, AllocDescr,
          AllocDescrFails, ReadHeader, RefuseHeader, HeaderFails, ReadHeaders, HeadersFail,
          PickSection, SkipSection, LastSection, Refuse, Accept, AfterPrograms, AtSection
    <3>2. CASE Programs
      BY <1>0, <3>2 DEF Programs, ReadPrograms, ProgramsFail, ProgramsCrash,
          SkipSegment, LastSegment, ReadSegment, SegmentFails, GarbledNotes, ReadNote,
          NoteCrashes, NoteFails, LastNote, AfterPrograms, AtSegment, HasNotes, AtNote
    <3>3. ~NameTable /\ ~NameFails
      <4>1. New = num[kind] + 1 /\ num[kind] \in Nat
        BY <1>0 DEF New
      <4>2. [num EXCEPT ![kind] = New][kind] = New
        BY <1>0
      <4>3. NameTable \/ NameFails => num' = [num EXCEPT ![kind] = New]
        BY DEF NameTable, NameFails, KeepTable
      <4>4. num' # [num EXCEPT ![kind] = New]
        BY <1>2, <4>1, <4>2
      <4> QED
        BY <4>3, <4>4
    <3>4. CASE Table
      BY <1>0, <3>3, <3>4 DEF Table, Grow, GrowFails, GrowCrashes, Fill, FillFails,
          ReadTable, ReadFails, NameTable, NameFails, NameCrashes, KeepTable
    <3>5. CASE Walk
      BY <1>0, <3>5 DEF Walk, SkipStatic, WalkTable, WalkNameless, WalkCrashes, LookUp,
          LastEntry, ScanByte, ScanEnd, DropEntry, ScanOutside, NextEntry, Release,
          AtTable, HasEntries
    <3> QED
      BY <3>1, <3>2, <3>4, <3>5 DEF Next, Step, vars, GoodInv, TablesInv
  <2> QED
    BY <1>0, <1>1, <1>2, <2>1, <2>2, <2>3 DEF TablesInv
<1>3. CASE /\ pc' = "sections" /\ num'["str"] >= 1
           /\ \A k \in Kinds : \A i \in 1..num'[k] : RightTable(k, i)'
  BY <1>0, <1>1, <1>3 DEF TablesInv
<1> QED
  BY <1>2, <1>3, KeepCases

LEMMA PassedStep ==
  ASSUME LoadInv, GoodInv, Intact(file), Next
  PROVE  PassedInv'
<1> USE DEF Fails, Stop, table, reading
<1>0. /\ file' = file /\ file \in Inputs /\ at \in Nat /\ kind \in Kinds
      /\ Len(file.sections) \in Nat
  BY FileKept, FileFacts DEF LoadInv, TypeOK
<1> SUFFICES ASSUME NEW k \in Kinds, NEW s \in 1..Len(file.sections),
                    file.sections[s].type \in Types(k), Passed(s)'
             PROVE  HasTable(k, s)'
  BY <1>0 DEF PassedInv
<1>1. Passed(s) => HasTable(k, s)
  BY DEF GoodInv, PassedInv
<1>2. CASE /\ num' = num
           /\ \A j \in Kinds : \A i \in 1..num[j] : tbls'[j][i] = tbls[j][i]
  <2>1. HasTable(k, s)' <=> HasTable(k, s)
    BY <1>2 DEF HasTable
  <2>2. Passed(s)
    <3> USE DEF Passed, Loading, Filling, Walking
    <3>1. CASE SkipSection
      <4>1. pc = "sections" /\ at # 0 /\ (s = at => IsTable(s, k) \/ s = file.shstrndx)
        BY <3>1, SectionGood, <1>0 DEF SkipSection, AtSection, LoadInv, PlaceInv, IsTable,
            Types, Kinds
      <4> QED
        BY <1>0, <3>1, <4>1 DEF SkipSection
    <3>2. CASE Load /\ ~SkipSection
      BY <1>0, <3>2, HeaderGood DEF Load, LoadInv, PlaceInv, OpenFile, OpenFails,
          AllocDescr, AllocDescrFails, ReadHeader, RefuseHeader, HeaderFails, ReadHeaders,
          HeadersFail, PickSection, SkipSection, LastSection, Refuse, Accept,
          AfterPrograms, AtSection
    <3>3. CASE Programs
      BY <1>0, <3>3, HeaderGood DEF Programs, ReadPrograms, ProgramsFail, ProgramsCrash,
          SkipSegment, LastSegment, ReadSegment, SegmentFails, GarbledNotes, ReadNote,
          NoteCrashes, NoteFails, LastNote, AfterPrograms, AtSegment, HasNotes, AtNote
    <3>4. ~NameTable /\ ~NameFails
      <4>1. New = num[kind] + 1 /\ num[kind] \in Nat /\ [num EXCEPT ![kind] = New][kind] =
          New
        BY <1>0 DEF New, LoadInv, TypeOK
      <4>2. NameTable \/ NameFails => num' = [num EXCEPT ![kind] = New]
        BY DEF NameTable, NameFails, KeepTable
      <4>3. num' # [num EXCEPT ![kind] = New]
        BY <1>2, <4>1
      <4> QED
        BY <4>2, <4>3
    <3>5. CASE Table
      BY <1>0, <3>4, <3>5 DEF Table, Grow, GrowFails, GrowCrashes, Fill, FillFails,
          ReadTable, ReadFails, NameTable, NameFails, NameCrashes, KeepTable
    <3>6. CASE Walk
      BY <1>0, <3>6 DEF Walk, SkipStatic, WalkTable, WalkNameless, WalkCrashes, LookUp,
          LastEntry, ScanByte, ScanEnd, DropEntry, ScanOutside, NextEntry, Release,
          AtTable, HasEntries
    <3>7. CASE UNCHANGED vars
      BY <1>0, <3>7 DEF vars
    <3> QED
      BY <3>1, <3>2, <3>3, <3>5, <3>6, <3>7 DEF Next, Step
  <2> QED
    BY <1>1, <2>1, <2>2
<1>3. CASE /\ pc = "name" /\ pc' = "sections" /\ at' = at + 1
           /\ \A j \in Kinds : \A r :
                   HasTable(j, r)' <=> HasTable(j, r) \/ (j = kind /\ r = sec)
  <2>1. /\ file.sections[sec].type \in Types(kind)
        /\ at = 0 \/ at = sec
        /\ at = 0 => sec = file.shstrndx
    BY <1>3, SecGood DEF Filling, Loading, GoodInv, LoadInv, PlaceInv
  <2>2. s = sec => k = kind
    BY <1>0, <2>1 DEF Types, Kinds
  <2>3. s = sec \/ Passed(s)
    BY <1>0, <1>3, <2>1 DEF Passed, Loading, Filling, Walking
  <2> QED
    BY <1>1, <1>3, <2>2, <2>3
<1> QED
  BY <1>2, <1>3, KeepCases

-----------------------------------------------------------------------------
(* The walk and the names.                                                 *)

LEMMA WalkedStep ==
  ASSUME LoadInv, GoodInv, Intact(file), Next
  PROVE  WalkedInv'
<1> USE DEF Fails, Stop, table, reading, Walking, Reading
<1>0. /\ file' = file /\ file \in Inputs /\ at \in Nat /\ num["sym"] \in Nat
      /\ Dynamic(file)' = Dynamic(file) /\ \A d : Right(d)' = Right(d)
      /\ tbls' = tbls => \A j : IsDynamic(j)' = IsDynamic(j)
  BY FileKept DEF LoadInv, TypeOK, Kinds, Dynamic, Right, IsDynamic
<1>1. CASE Load
  <2>1. UNCHANGED walked /\ pc' \notin Reading \cup {"released"} /\ (pc' = "walk" => at' =
      1)
    BY <1>1 DEF Load, OpenFile, OpenFails, AllocDescr, AllocDescrFails, ReadHeader,
        RefuseHeader, HeaderFails, ReadHeaders, HeadersFail, PickSection, SkipSection,
        LastSection, Refuse, Accept, AfterPrograms, AtSection
  <2>2. pc' = "walk" => num' = num
    BY <1>1 DEF Load, OpenFile, OpenFails, AllocDescr, AllocDescrFails, ReadHeader,
        RefuseHeader, HeaderFails, ReadHeaders, HeadersFail, PickSection, SkipSection,
        LastSection, Refuse, Accept, AfterPrograms, AtSection
  <2> QED
    BY <1>0, <2>1, <2>2 DEF WalkedInv, GoodInv
<1>2. CASE Programs
  <2>1. UNCHANGED walked /\ pc' \notin Walking \cup {"released"}
    BY <1>2 DEF Programs, ReadPrograms, ProgramsFail, ProgramsCrash, SkipSegment,
        LastSegment, ReadSegment, SegmentFails, GarbledNotes, ReadNote, NoteCrashes,
        NoteFails, LastNote, AfterPrograms, AtSegment, HasNotes, AtNote
  <2> QED
    BY <1>0, <2>1 DEF WalkedInv, GoodInv
<1>3. CASE Table
  <2>1. UNCHANGED walked /\ pc' \notin Walking \cup {"released"}
    BY <1>3 DEF Table, Grow, GrowFails, GrowCrashes, Fill, FillFails, ReadTable, ReadFails,
        NameTable, NameFails, NameCrashes, KeepTable
  <2> QED
    BY <1>0, <2>1 DEF WalkedInv, GoodInv
<1>4. CASE WalkTable
  <2>1. AtTable /\ IsDynamic(at) /\ pc = "walk"
    BY <1>4 DEF WalkTable, HasEntries, AtTable
  <2>2. PICK i \in 1..num["str"] :
          /\ DynStr(i)
          /\ walked' = walked \cup {[sym |-> tbls["sym"][at].sec,
                                     str |-> tbls["str"][i].sec, whole |-> Whole(i)]}
          /\ IF Whole(i) THEN pc' = "lookup" /\ entry' = 1 /\ UNCHANGED at
             ELSE at' = at + 1 /\ UNCHANGED <<pc, entry>>
    BY <1>4 DEF WalkTable
  <2>3. /\ tbls["sym"][at].sec \in Dynamic(file) /\ Whole(i)
        /\ tbls["str"][i].sec = file.sections[tbls["sym"][at].sec].link
    BY <2>1, <2>2, WalkGood
  <2>4. Whole(i) = TRUE
    BY <2>3 DEF Whole
  <2>5. /\ walked' = walked \cup {Right(tbls["sym"][at].sec)} /\ pc' = "lookup"
        /\ at' = at
    BY <2>2, <2>3, <2>4 DEF Right
  <2> HIDE DEF Reading
  <2>6. UNCHANGED <<tbls, num>>
    BY <1>4 DEF WalkTable
  <2> QED
    BY <1>0, <2>1, <2>3, <2>5, <2>6 DEF WalkedInv, GoodInv, AtTable, Reading
<1>5. CASE SkipStatic \/ WalkNameless
  <2>1. /\ UNCHANGED <<walked, tbls, num, pc>> /\ at' = at + 1 /\ pc = "walk" /\ AtTable
    BY <1>5 DEF SkipStatic, WalkNameless, HasEntries, AtTable
  <2>2. ~IsDynamic(at)
    BY <1>5, WalkGood DEF SkipStatic, WalkNameless, HasEntries
  <2> QED
    BY <1>0, <2>1, <2>2 DEF WalkedInv, GoodInv
<1>6. CASE \/ LookUp \/ ScanByte \/ ScanEnd \/ ScanOutside \/ WalkCrashes
           \/ DropEntry \/ NextEntry
  <2>1. /\ UNCHANGED <<walked, tbls, num, at>>
        /\ (pc \in Reading /\ pc' \in Reading) \/ pc' = "crashed"
    BY <1>6 DEF LookUp, ScanByte, ScanEnd, ScanOutside, WalkCrashes, DropEntry, NextEntry
  <2> QED
    BY <1>0, <2>1 DEF WalkedInv, GoodInv
<1>7. CASE LastEntry
  <2>1. UNCHANGED <<walked, tbls, num>> /\ at' = at + 1 /\ pc \in Reading /\ pc' = "walk"
    BY <1>7 DEF LastEntry
  <2> QED
    BY <1>0, <2>1 DEF WalkedInv, GoodInv
<1>8. CASE Release
  BY <1>0, <1>8 DEF WalkedInv, GoodInv, Release
<1>9. CASE UNCHANGED vars
  BY <1>0, <1>9 DEF WalkedInv, GoodInv, vars
<1> QED
  BY <1>1, <1>2, <1>3, <1>4, <1>5, <1>6, <1>7, <1>8, <1>9 DEF Next, Step, Walk

LEMMA NameStep ==
  ASSUME LoadInv, GoodInv, Intact(file), Next
  PROVE  NameInv'
<1> USE DEF Fails, Stop, table, reading, GoodInv, NameInv, InTable, Byte
<1>0. file' = file /\ file \in Inputs /\ ix \in Nat /\ pos \in Nat
  BY FileKept DEF LoadInv, TypeOK
<1>1. pc \in Reading => Dynamic(file) # {}
  <2> SUFFICES ASSUME pc \in Reading  PROVE Dynamic(file) # {}
    OBVIOUS
  <2>1. at \in 1..num["sym"] /\ IsDynamic(at) /\ "sym" \in Kinds
    BY DEF WalkedInv, LoadInv, WalkInv, TypeOK, Walking, Reading, Kinds
  <2>2. tbls["sym"][at].sec \in 1..Len(file.sections) /\ RightTable("sym", at)
    BY <2>1 DEF LoadInv, LenInv, TablesInv
  <2> QED
    BY <1>0, <2>1, <2>2, SectionGood DEF RightTable, IsDynamic, Dynamic
<1>2. CASE LookUp
  <2>1. entry \in Nat \ {0}
    BY <1>2 DEF LookUp, LoadInv, TypeOK, WalkInv
  <2>2. /\ pc' = "scan" /\ ix' = StName(entry) /\ pos' = 0
        /\ StName(entry) \in Nat /\ StName(entry) < Len(file.bytes)
    BY <1>0, <1>1, <1>2, <2>1, BytesGood DEF LookUp, Reading
  <2> QED
    BY <1>0, <2>2
<1>3. CASE ScanByte
  <2>1. /\ pc = "scan" /\ pos' = pos + 1 /\ pc' = "scan" /\ ix' = ix
        /\ file.bytes[ix + pos + 1] # 0 /\ ix + pos < Len(file.bytes)
    BY <1>3 DEF ScanByte
  <2>2. Len(file.bytes) \in Nat /\ file.bytes[Len(file.bytes)] = 0
    BY <1>0, <1>1, <2>1, BytesGood DEF Reading
  <2>3. ix + pos + 1 # Len(file.bytes)
    BY <2>1, <2>2
  <2>4. \A i \in 1..pos + 1 : file.bytes[ix + i] # 0
    BY <1>0, <2>1
  <2> QED
    BY <1>0, <2>1, <2>2, <2>3, <2>4
<1>4. CASE ScanEnd
  BY <1>0, <1>4 DEF ScanEnd
<1>5. ~ScanOutside
  BY DEF ScanOutside
<1>6. CASE WalkTable
  <2>1. AtTable /\ IsDynamic(at)
    BY <1>6 DEF WalkTable, HasEntries
  <2>2. pc' = "lookup"
    BY <1>6, <2>1, WalkGood DEF WalkTable
  <2> QED
    BY <2>2
<1>7. CASE Load
  BY <1>7 DEF Load, OpenFile, OpenFails, AllocDescr, AllocDescrFails, ReadHeader,
      RefuseHeader, HeaderFails, ReadHeaders, HeadersFail, PickSection, SkipSection,
      LastSection, Refuse, Accept, AfterPrograms, AtSection
<1>8. CASE Programs
  BY <1>8 DEF Programs, ReadPrograms, ProgramsFail, ProgramsCrash, SkipSegment,
      LastSegment, ReadSegment, SegmentFails, GarbledNotes, ReadNote, NoteCrashes,
      NoteFails, LastNote, AfterPrograms, AtSegment, HasNotes, AtNote
<1>9. CASE Table
  BY <1>9 DEF Table, Grow, GrowFails, GrowCrashes, Fill, FillFails, ReadTable, ReadFails,
      NameTable, NameFails, NameCrashes, KeepTable
<1>10. CASE Walk /\ ~LookUp /\ ~ScanByte /\ ~ScanEnd /\ ~WalkTable
  BY <1>5, <1>10 DEF Walk, SkipStatic, WalkTable, WalkNameless, WalkCrashes, LookUp,
      LastEntry, ScanByte, ScanEnd, DropEntry, ScanOutside, NextEntry, Release, AtTable,
      HasEntries
<1>11. CASE UNCHANGED vars
  BY <1>0, <1>11 DEF vars
<1> QED
  BY <1>2, <1>3, <1>4, <1>6, <1>7, <1>8, <1>9, <1>10, <1>11 DEF Next, Step

LEMMA OffsetStep ==
  ASSUME LoadInv, GoodInv, Intact(file), Next
  PROVE  OffsetInv'
<1> USE DEF Fails, Stop, table, reading
<1>0. /\ file' = file /\ (UNCHANGED at => Segment(at)' = Segment(at))
  BY FileKept DEF Segment, ZeroSegment
<1>1. CASE ReadNote
  <2>1. AtNote /\ HeaderInside /\ NoteInside
    BY <1>1, NotesGood DEF ReadNote, GoodInv, NoteInside
  <2>2. noff' = NoteEnd(Note) /\ noff' <= Segment(at).size + 3 /\ UNCHANGED at
    BY <1>1, <2>1, NextNote DEF ReadNote
  <2> QED
    BY <1>0, <2>2 DEF OffsetInv
<1>2. CASE ReadSegment
  <2>1. at \in 1..Len(file.segments) /\ Segment(at) = file.segments[at]
    BY <1>2, FileFacts DEF ReadSegment, HasNotes, AtSegment, LoadInv, NoteInv, TypeOK,
       Segment, ZeroSegment
  <2>2. file.segments[at].size \in Nat
    BY <2>1, FileFacts DEF Segments, Positions, LoadInv, TypeOK
  <2>3. UNCHANGED at /\ noff' = 0
    BY <1>2 DEF ReadSegment
  <2> QED
    BY <1>0, <2>1, <2>2, <2>3 DEF OffsetInv
<1>3. CASE Programs /\ ~ReadNote /\ ~ReadSegment
  BY <1>3 DEF OffsetInv, Programs, ReadPrograms, ProgramsFail, ProgramsCrash, SkipSegment,
      LastSegment, SegmentFails, GarbledNotes, NoteCrashes, NoteFails, LastNote,
      AfterPrograms, AtSegment, HasNotes, AtNote
<1>4. CASE Load
  BY <1>4 DEF OffsetInv, Load, OpenFile, OpenFails, AllocDescr, AllocDescrFails, ReadHeader,
      RefuseHeader, HeaderFails, ReadHeaders, HeadersFail, PickSection, SkipSection,
      LastSection, Refuse, Accept, AfterPrograms, AtSection
<1>5. CASE Table
  BY <1>5 DEF OffsetInv, Table, Grow, GrowFails, GrowCrashes, Fill, FillFails, ReadTable,
      ReadFails, NameTable, NameFails, NameCrashes, KeepTable
<1>6. CASE Walk
  BY <1>6 DEF OffsetInv, Walk, SkipStatic, WalkTable, WalkNameless, WalkCrashes, LookUp,
      LastEntry, ScanByte, ScanEnd, DropEntry, ScanOutside, NextEntry, Release, AtTable,
      HasEntries
<1>7. CASE UNCHANGED vars
  BY <1>0, <1>7 DEF vars, OffsetInv, GoodInv
<1> QED
  BY <1>1, <1>2, <1>3, <1>4, <1>5, <1>6, <1>7 DEF Next, Step

-----------------------------------------------------------------------------
(* The theorems.                                                           *)

GoodAlways == Intact(file) => GoodInv

LEMMA GoodInit == Init => GoodAlways
<1> SUFFICES ASSUME Init, Intact(file)  PROVE GoodInv
  BY DEF GoodAlways
<1> USE DEF Init
<1>1. StopInv
  BY DEF StopInv
<1>2. TablesInv
  BY DEF TablesInv, Loading, Filling
<1>3. PassedInv
  BY DEF PassedInv, Passed, Loading, Filling, Walking
<1>4. WalkedInv /\ NameInv /\ OffsetInv
  BY DEF WalkedInv, NameInv, OffsetInv, Walking, Reading
<1> QED
  BY <1>1, <1>2, <1>3, <1>4 DEF GoodInv

LEMMA GoodStep == LoadInv /\ GoodAlways /\ [Next]_vars => GoodAlways'
<1> SUFFICES ASSUME LoadInv, GoodAlways, [Next]_vars  PROVE GoodAlways'
  OBVIOUS
<1>1. CASE Next
  <2>1. file' = file
    BY <1>1, FileKept
  <2>2. ASSUME Intact(file)  PROVE GoodInv'
    BY <1>1, <2>2, StopStep, TablesStep, PassedStep, WalkedStep, NameStep, OffsetStep
       DEF GoodAlways, GoodInv
  <2>3. Intact(file)' = Intact(file)
    BY <2>1 DEF Intact, NotesIntact, Within, TablesIntact, Dynamic
  <2> QED
    BY <2>2, <2>3 DEF GoodAlways
<1>2. CASE UNCHANGED vars
  <2> USE <1>2 DEF vars, table, reading
  <2>1. Intact(file)' = Intact(file)
    BY DEF Intact, NotesIntact, Within, TablesIntact, Dynamic
  <2>2. StopInv => StopInv'
    BY DEF StopInv
  <2>3. TablesInv => TablesInv'
    BY DEF TablesInv, RightTable, New
  <2>4. PassedInv => PassedInv'
    BY DEF PassedInv, Passed, HasTable
  <2>5. WalkedInv => WalkedInv'
    BY DEF WalkedInv, Right, Dynamic, IsDynamic
  <2>6. NameInv => NameInv'
    BY DEF NameInv, Byte
  <2>7. OffsetInv => OffsetInv'
    BY DEF OffsetInv, Segment, ZeroSegment
  <2> QED
    BY <2>1, <2>2, <2>3, <2>4, <2>5, <2>6, <2>7 DEF GoodAlways, GoodInv
<1> QED
  BY <1>1, <1>2

LEMMA GoodInvariant == Spec => [](LoadInv /\ GoodAlways)
BY LoadInit, LoadStep, GoodInit, GoodStep, PTL DEF Spec

(* A good file is refused only after a call has failed, and nothing but a  *)
(* failing malloc brings the program down while it reads one.              *)
THEOREM OnlyFailures == Spec => []OnlyFailuresStop
<1>1. LoadInv /\ GoodAlways => OnlyFailuresStop
  BY DEF GoodAlways, GoodInv, StopInv, OnlyFailuresStop
<1> QED
  BY <1>1, GoodInvariant, PTL

(* Names are enough to find every dynamic symbol table of a good file and  *)
(* the string table it is linked to, whatever failed on the way.           *)
THEOREM SymbolsComplete == Spec => []SymbolsRight
<1>1. ASSUME LoadInv, GoodInv, Intact(file), pc = "released", NEW d \in Dynamic(file)
      PROVE  Right(d) \in walked
  <2>1. /\ file \in Inputs /\ "sym" \in Kinds /\ num["sym"] \in Nat /\ at \in Nat
        /\ d \in 1..Len(file.sections) /\ file.sections[d].type = "DYNSYM"
    BY <1>1 DEF LoadInv, TypeOK, Kinds, Dynamic
  <2>2. PICK j \in 1..num["sym"] : tbls["sym"][j].sec = d
    BY <1>1, <2>1 DEF GoodInv, PassedInv, Passed, HasTable, Types
  <2>3. IsDynamic(j)
    BY <1>1, <2>1, <2>2, SectionGood DEF GoodInv, TablesInv, RightTable, IsDynamic
  <2>4. j < at
    BY <1>1, <2>1 DEF GoodInv, WalkedInv
  <2>5. Right(tbls["sym"][j].sec) \in walked
    BY <1>1, <2>3, <2>4 DEF GoodInv, WalkedInv
  <2> QED
    BY <2>2, <2>5
<1>2. ASSUME LoadInv, GoodAlways, Intact(file), pc = "released"
      PROVE  walked = {Right(d) : d \in Dynamic(file)}
  BY <1>1, <1>2 DEF GoodAlways, GoodInv, WalkedInv
<1>3. LoadInv /\ GoodAlways => SymbolsRight
  BY <1>2 DEF SymbolsRight, Right
<1> QED
  BY <1>3, GoodInvariant, PTL

(* The scan for the end of a name stays inside the string table of a good  *)
(* file and stops at the first NUL.                                        *)
THEOREM NamesRead == Spec => []NameRight
<1>1. LoadInv /\ GoodAlways => NameRight
  BY DEF GoodAlways, GoodInv, NameInv, NameRight, InTable
<1> QED
  BY <1>1, GoodInvariant, PTL
=============================================================================
