------------------------------- MODULE ElfLoad -------------------------------
(***************************************************************************)
(* process_elf_file, the walk its two callers (get_sym, get_undefined_sym) *)
(* make over the tables it returns, and free_elf_file_descr.               *)
(*                                                                         *)
(* One thread reads one file.  Positions and sizes in the file are         *)
(* unsigned and the getters return them as int: AsInt.  Section 0, the     *)
(* null section, is left out of a file's sections; a header is read whole  *)
(* or, past the end of the file, not at all, and a header that is not read *)
(* keeps the zeros of calloc.  The data of a table is known by how much of *)
(* it was read, the heap by the blocks that are allocated.  An entry of a  *)
(* symbol table counts as one byte.                                        *)
(***************************************************************************)
EXTENDS Integers, Sequences, FiniteSets

CONSTANTS
  Inputs,   \* the files that may be given
  IntMax,   \* INT_MAX; no file reaches Word == UINT_MAX + 1
  Names,    \* names of sections
  Faults    \* the calls that may fail: "open", "read" (or lseek), "malloc"

Word == 2 * IntMax + 2
Positions == 0..Word - 1
AsInt(n) == IF n <= IntMax THEN n ELSE n - Word

Sections == [type : {"NULL", "STRTAB", "SYMTAB", "DYNSYM", "OTHER"},
             name : Names, offset : Positions, size : Positions, link : Nat]

(* The header of a note: the sizes of its name and of its descriptor, and  *)
(* whether the loops over the fields of the descriptor, which its type may *)
(* ask for, stay inside of it.                                             *)
Notes == [at : Positions, name : Positions, desc : Positions,
          type : {"OTHER", "AUXV", "FILE"}, proper : BOOLEAN]
Segments == [note : BOOLEAN, offset : Positions, size : Positions, notes : SUBSET Notes]

(* bytes is the content of .dynstr, of which only the NULs matter, and     *)
(* stNames holds the st_name of each entry of .dynsym.                     *)
Files == [valid : BOOLEAN, length : Positions, phoff : Positions, shoff : Positions,
          segments : Seq(Segments), sections : Seq(Sections), shstrndx : Nat,
          bytes : Seq({0, 1}), stNames : Seq(Nat)]

ASSUME ElfAssumption ==
  /\ IntMax \in Nat /\ IntMax > 15
  /\ {"", ".dynsym", ".dynstr"} \subseteq Names /\ {"null", "unset"} \cap Names = {}
  /\ Inputs \subseteq Files
  /\ \A f \in Inputs : f.shstrndx <= Len(f.sections)

VARIABLES
  file,     \* the file
  pc, rc,   \* where the program is, and process_elf_file's rc
  failed,   \* the calls that have failed so far
  fd,       \* is the file open
  heap,     \* the blocks allocated
  at,       \* the segment, section or table a loop is at
  noff,     \* the offset in a note segment
  kind, sec,  \* what table is being filled, and from which section
  tbls,     \* elf_str_tbls and elf_sym_tbls
  num,      \* elf_str_tbl_num and elf_sym_tbl_num
  walked,   \* the symbol tables whose entries the caller has read
  entry,    \* the entry of a symbol table the caller is at
  ix, pos   \* indx and i of get_elf_str_from_table

table == <<kind, sec, tbls, num>>
reading == <<walked, entry, ix, pos>>
vars == <<file, pc, rc, failed, fd, heap, at, noff, table, reading>>

Kinds == {"str", "sym"}
Block(what, k, i) == <<what, k, i>>
One(what) == Block(what, "", 0)

Init ==
  /\ file \in Inputs
  /\ pc = "open" /\ rc = "OK" /\ failed = {} /\ fd = FALSE /\ heap = {}
  /\ at = 0 /\ noff = 0 /\ kind = "str" /\ sec = 0
  /\ tbls = [k \in Kinds |-> <<>>] /\ num = [k \in Kinds |-> 0]
  /\ walked = {} /\ entry = 0 /\ ix = 0 /\ pos = 0

Fails(what) == what \in Faults /\ failed' = failed \cup {what}
Stop(r) == rc' = r /\ pc' = "close"

-----------------------------------------------------------------------------
(* The file and its header.                                                *)

OpenFile ==
  /\ pc = "open"
  /\ fd' = TRUE /\ pc' = "alloc"
  /\ UNCHANGED <<file, rc, failed, heap, at, noff, table, reading>>

OpenFails ==
  /\ pc = "open" /\ Fails("open") /\ Stop("errno")
  /\ UNCHANGED <<file, fd, heap, at, noff, table, reading>>

AllocDescr ==
  /\ pc = "alloc"
  /\ heap' = heap \cup {One("descr"), One("hdr")} /\ pc' = "header"
  /\ UNCHANGED <<file, rc, failed, fd, at, noff, table, reading>>

AllocDescrFails ==
  /\ pc = "alloc" /\ Fails("malloc") /\ Stop("ENOMEM")
  /\ heap' \in {heap, heap \cup {One("descr")}}
  /\ UNCHANGED <<file, fd, at, noff, table, reading>>

(* Sections are read when both get_elf_hdr_shnum and get_elf_hdr_shoff are *)
(* positive, as int.                                                       *)
SectionsAlways == "headers"   \* mutant: the offset of the section headers is not tested
AfterPrograms == IF AsInt(file.shoff) > 0 THEN "headers" ELSE "close"

ReadHeader ==
  /\ pc = "header" /\ file.valid
  /\ pc' = IF AsInt(file.phoff) > 0 THEN "programs" ELSE AfterPrograms
  /\ UNCHANGED <<file, rc, failed, fd, heap, at, noff, table, reading>>

(* The magic number, the data encoding or the class is not one of ELF's.   *)
RefuseHeader ==
  /\ pc = "header" /\ ~file.valid /\ Stop("EINVAL")
  /\ UNCHANGED <<file, failed, fd, heap, at, noff, table, reading>>

HeaderFails ==
  /\ pc = "header" /\ Fails("read") /\ Stop("errno")
  /\ UNCHANGED <<file, fd, heap, at, noff, table, reading>>

-----------------------------------------------------------------------------
(* Program headers.  Of the segments only notes are looked into.           *)

ZeroSegment == [note |-> FALSE, offset |-> 0, size |-> 0, notes |-> {}]
Segment(i) ==
  IF file.phoff + i <= file.length THEN file.segments[i] ELSE ZeroSegment

ReadPrograms ==
  /\ pc = "programs" /\ file.segments # <<>>
  /\ heap' = heap \cup {One("pgs")} /\ at' = 1 /\ pc' = "segment"
  /\ UNCHANGED <<file, rc, failed, fd, noff, table, reading>>

(* calloc fails, or lseek or read after it.                                *)
ProgramsFail ==
  /\ pc = "programs"
  /\ \/ Fails("malloc") /\ Stop("ENOMEM") /\ UNCHANGED heap
     \/ Fails("read") /\ Stop("errno") /\ heap' = heap \cup {One("pgs")}
  /\ UNCHANGED <<file, fd, at, noff, table, reading>>

(* iterator_init returns NULL, for want of memory or for an offset without *)
(* headers, and iterator_next dereferences it.                             *)
ProgramsCrash ==
  /\ pc = "programs" /\ pc' = "crashed"
  /\ \/ file.segments = <<>> /\ UNCHANGED failed
     \/ Fails("malloc")
  /\ UNCHANGED <<file, rc, fd, heap, at, noff, table, reading>>

AtSegment == pc = "segment" /\ at <= Len(file.segments)
HasNotes == AtSegment /\ Segment(at).note /\ Segment(at).size # 0

SkipSegment ==
  /\ AtSegment /\ ~HasNotes
  /\ at' = at + 1
  /\ UNCHANGED <<file, pc, rc, failed, fd, heap, noff, table, reading>>

LastSegment ==
  /\ pc = "segment" /\ at > Len(file.segments)
  /\ pc' = AfterPrograms
  /\ UNCHANGED <<file, rc, failed, fd, heap, at, noff, table, reading>>

SegmentWhole == Segment(at).offset + Segment(at).size <= file.length
CanAlloc(size) == AsInt(size) >= 0
CanSeek(offset) == AsInt(offset) >= 0

ReadSegment ==
  /\ HasNotes /\ CanAlloc(Segment(at).size) /\ CanSeek(Segment(at).offset) /\ SegmentWhole
  /\ heap' = heap \cup {One("data")} /\ noff' = 0 /\ pc' = "note"
  /\ UNCHANGED <<file, rc, failed, fd, at, table, reading>>

(* The segment's data is released before the error is returned.            *)
SegmentFails ==
  /\ HasNotes
  /\ \/ ~CanAlloc(Segment(at).size) /\ Stop("ENOMEM") /\ UNCHANGED failed
     \/ ~CanSeek(Segment(at).offset) /\ Stop("errno") /\ UNCHANGED failed
     \/ Fails("malloc") /\ Stop("ENOMEM")
     \/ Fails("read") /\ Stop("errno")
  /\ UNCHANGED <<file, fd, heap, at, noff, table, reading>>

(* The read was short, and the rest of the data is what malloc left there: *)
(* sizes of notes may be anything.                                         *)
GarbledNotes ==
  /\ HasNotes /\ CanAlloc(Segment(at).size) /\ CanSeek(Segment(at).offset) /\ ~SegmentWhole
  /\ \/ at' = at + 1 /\ UNCHANGED <<pc, rc, heap>>
     \/ Stop("ENOMEM") /\ heap' \in {heap, heap \cup {One("note")}} /\ UNCHANGED at
     \/ pc' = "crashed" /\ UNCHANGED <<rc, heap, at>>
  /\ UNCHANGED <<file, failed, fd, noff, table, reading>>

(* process_elf_pg_hdr_pt_note steps from note to note, in a word of 32     *)
(* bits: name and descriptor are padded, and the sum may wrap around.  A   *)
(* header the file does not set is all zeros.                              *)
AtNote == pc = "note" /\ (noff + 12) % Word < Segment(at).size
Pad(n) == 4 * (((n + 3) % Word) \div 4)
NoteEnd(n) == (n.at + 12 + Pad(n.name) + Pad(n.desc)) % Word
ZeroNote(o) == [at |-> o, name |-> 0, desc |-> 0, type |-> "OTHER", proper |-> TRUE]
NoteAt(s, o) ==
  IF \E n \in s.notes : n.at = o THEN CHOOSE n \in s.notes : n.at = o ELSE ZeroNote(o)
Note == NoteAt(Segment(at), noff)

(* Nothing compares the sizes with what is left of the segment.            *)
HeaderInside == noff + 12 < Segment(at).size
Fits(n, size) ==
  /\ n.name > 0 => n.at + 12 + n.name <= size
  /\ n.desc > 0 => n.at + 12 + Pad(n.name) + n.desc <= size
NoteInside == HeaderInside /\ Fits(Note, Segment(at).size)

(* process_nt_auxv and process_nt_file trust the descriptor, and the       *)
(* latter reads from it even when there is none.                           *)
NoDescriptor(n) == n.type = "FILE" /\ n.desc = 0
Usable(n) == n.type = "OTHER" \/ (n.desc = 0 /\ n.type = "AUXV") \/ (n.desc > 0 /\ n.proper)

(* A copy from outside of the segment may succeed; a header from there may *)
(* be anything.                                                            *)
ReadNote ==
  /\ AtNote
  /\ IF HeaderInside THEN ~NoDescriptor(Note) /\ noff' = NoteEnd(Note) ELSE noff' \in Positions
  /\ UNCHANGED <<file, pc, rc, failed, fd, heap, at, table, reading>>

NoteCrashes ==
  /\ AtNote /\ (~NoteInside \/ ~Usable(Note))
  /\ pc' = "crashed"
  /\ UNCHANGED <<file, rc, failed, fd, heap, at, noff, table, reading>>

(* The copy of a note's name fails, or that of its descriptor: then the    *)
(* name is not released.                                                   *)
NoteFails ==
  /\ AtNote /\ Fails("malloc") /\ Stop("ENOMEM")
  /\ \/ (HeaderInside => Note.name > 0) /\ heap' = heap \ {One("data")}
     \/ /\ HeaderInside => Note.desc > 0
        /\ heap' = (heap \ {One("data")}) \cup
                     (IF HeaderInside /\ Note.name = 0 THEN {} ELSE {One("note")})
  /\ UNCHANGED <<file, fd, at, noff, table, reading>>

LastNote ==
  /\ pc = "note" /\ ~AtNote
  /\ heap' = heap \ {One("data")} /\ at' = at + 1 /\ pc' = "segment"
  /\ UNCHANGED <<file, rc, failed, fd, noff, table, reading>>

-----------------------------------------------------------------------------
(* Section headers, and which sections become tables.                      *)

ZeroSection == [type |-> "NULL", name |-> "", offset |-> 0, size |-> 0, link |-> 0]
Section(i) ==
  IF file.shoff + i < file.length THEN file.sections[i] ELSE ZeroSection

(* The section with the sections' names comes first.                       *)
ReadHeaders ==
  /\ pc = "headers"
  /\ heap' = heap \cup {One("secs")} /\ pc' = "grow"
  /\ kind' = "str" /\ sec' = file.shstrndx /\ at' = 0
  /\ UNCHANGED <<file, rc, failed, fd, noff, tbls, num, reading>>

HeadersFail ==
  /\ pc = "headers"
  /\ \/ Fails("malloc") /\ Stop("ENOMEM") /\ UNCHANGED heap
     \/ Fails("read") /\ Stop("errno") /\ heap' = heap \cup {One("secs")}
  /\ UNCHANGED <<file, fd, at, noff, table, reading>>

IsTable(i, k) ==
  \/ k = "sym" /\ Section(i).type \in {"SYMTAB", "DYNSYM"}
  \/ k = "str" /\ Section(i).type = "STRTAB" /\ i # file.shstrndx

AtSection == pc = "sections" /\ at <= Len(file.sections)

PickSection ==
  /\ AtSection /\ \E k \in Kinds : IsTable(at, k) /\ kind' = k
  /\ sec' = at /\ pc' = "grow"
  /\ UNCHANGED <<file, rc, failed, fd, heap, at, noff, tbls, num, reading>>

SkipForever ==   \* mutant: the loop goes on without its increment
  /\ AtSection /\ \A k \in Kinds : ~IsTable(at, k)
  /\ UNCHANGED vars
SkipSection ==
  /\ AtSection /\ \A k \in Kinds : ~IsTable(at, k)
  /\ at' = at + 1
  /\ UNCHANGED <<file, pc, rc, failed, fd, heap, noff, table, reading>>

LastSection ==
  /\ pc = "sections" /\ at > Len(file.sections)
  /\ pc' = "close"
  /\ UNCHANGED <<file, rc, failed, fd, heap, at, noff, table, reading>>

-----------------------------------------------------------------------------
(* Filling a table: room in its array, its data, its name.                 *)

NewOneLow == num[kind]   \* mutant: the place of the last table is used again
New == num[kind] + 1

Slot(data, name) == [sec |-> sec, data |-> data, name |-> name]

(* The first array comes from calloc, the others from malloc or realloc.   *)
CountAtOnce ==   \* mutant: the table is counted before it is filled
  /\ pc = "grow" /\ sec # 0
  /\ tbls' = [tbls EXCEPT ![kind] = Append(@, IF at = 0 THEN Slot("null", "null")
                                              ELSE Slot("unset", "unset"))]
  /\ num' = [num EXCEPT ![kind] = @ + 1]
  /\ heap' = heap \cup {One(kind)} /\ pc' = "fill"
  /\ UNCHANGED <<file, rc, failed, fd, at, noff, kind, sec, reading>>
Grow ==
  /\ pc = "grow" /\ sec # 0
  /\ tbls' = [tbls EXCEPT ![kind] = Append(@, IF at = 0 THEN Slot("null", "null")
                                              ELSE Slot("unset", "unset"))]
  /\ heap' = heap \cup {One(kind)} /\ pc' = "fill"
  /\ UNCHANGED <<file, rc, failed, fd, at, noff, kind, sec, num, reading>>

FirstSym == kind = "sym" /\ tbls["sym"] = <<>>

GrowFails ==
  /\ pc = "grow" /\ sec # 0 /\ ~FirstSym
  /\ Fails("malloc") /\ Stop("ENOMEM")
  /\ UNCHANGED <<file, fd, heap, at, noff, table, reading>>

(* A file without section names has no array to fill, and the array of     *)
(* symbol tables is used although malloc returned NULL: the test is of the *)
(* other array.                                                            *)
GrowCrashes ==
  /\ pc = "grow" /\ pc' = "crashed"
  /\ \/ sec = 0 /\ UNCHANGED failed
     \/ FirstSym /\ Fails("malloc")
  /\ UNCHANGED <<file, rc, fd, heap, at, noff, table, reading>>

Fill ==
  /\ pc = "fill" /\ CanAlloc(Section(sec).size)
  /\ tbls' = [tbls EXCEPT ![kind][New].data = "blank"]
  /\ heap' = heap \cup {Block("data", kind, New)} /\ pc' = "read"
  /\ UNCHANGED <<file, rc, failed, fd, at, noff, kind, sec, num, reading>>

FillFails ==
  /\ pc = "fill" /\ Stop("ENOMEM")
  /\ \/ ~CanAlloc(Section(sec).size) /\ UNCHANGED failed
     \/ Fails("malloc")
  /\ tbls' = [tbls EXCEPT ![kind][New].data = "null"]
  /\ UNCHANGED <<file, fd, heap, at, noff, kind, sec, num, reading>>

(* get_elf_sec_data reads nothing from an offset or of a size that is not  *)
(* positive, and takes a short read for a whole one.                       *)
Content(s) ==
  IF AsInt(s.offset) <= 0 \/ AsInt(s.size) <= 0 THEN "blank"
  ELSE IF s.offset + s.size <= file.length THEN "whole" ELSE "part"

ReadTable ==
  /\ pc = "read"
  /\ tbls' = [tbls EXCEPT ![kind][New].data = Content(Section(sec))]
  /\ pc' = "name"
  /\ UNCHANGED <<file, rc, failed, fd, heap, at, noff, kind, sec, num, reading>>

ReadFails ==
  /\ pc = "read" /\ Content(Section(sec)) # "blank"
  /\ Fails("read") /\ Stop("errno")
  /\ UNCHANGED <<file, fd, heap, at, noff, table, reading>>

(* get_elf_sec_name: out of a table that was not read whole comes anything *)
(* and out of an empty one nothing.  Its result is compared with -1, which *)
(* it never returns: a name that could not be had is NULL.                 *)
NamesOf(s) ==
  IF AsInt(Section(file.shstrndx).size) = 0 THEN {"null"}
  ELSE IF tbls["str"][1].data = "whole" THEN {s.name} ELSE Names \cup {"null"}

KeepTable(n) ==
  /\ tbls' = [tbls EXCEPT ![kind][New] = [@ EXCEPT !.sec = sec, !.name = n]]
  /\ num' = [num EXCEPT ![kind] = New]
  /\ heap' = heap \cup (IF n = "null" THEN {} ELSE {Block("name", kind, New)})
  /\ at' = at + 1 /\ pc' = "sections"
  /\ UNCHANGED <<file, rc, fd, noff, kind, sec, reading>>

NameTable ==
  /\ pc = "name"
  /\ \E n \in NamesOf(Section(sec)) : (kind = "sym" => n # "null") /\ KeepTable(n)
  /\ UNCHANGED failed

NameFails ==
  /\ pc = "name" /\ kind = "str" /\ Fails("malloc") /\ KeepTable("null")

(* The name of a symbol table is compared with ".dynsym", NULL or not, and *)
(* the end of a name may be looked for outside of a table not read whole.  *)
NameCrashes ==
  /\ pc = "name" /\ pc' = "crashed"
  /\ \/ Cardinality(NamesOf(Section(sec))) > 1 /\ UNCHANGED failed
     \/ kind = "sym" /\ "null" \in NamesOf(Section(sec)) /\ UNCHANGED failed
     \/ kind = "sym" /\ Fails("malloc")
  /\ UNCHANGED <<file, rc, fd, heap, at, noff, table, reading>>

-----------------------------------------------------------------------------
(* The end of process_elf_file, and free_elf_file_descr, which releases    *)
(* the arrays and the data and names of the tables that are counted.       *)

KeepNames ==   \* mutant: the names of the tables are forgotten
  {One(w) : w \in {"descr", "hdr", "pgs", "secs"} \cup Kinds}
    \cup UNION {{Block("data", k, i) : i \in 1..num[k]} : k \in Kinds}
Reached ==
  {One(w) : w \in {"descr", "hdr", "pgs", "secs"} \cup Kinds}
    \cup UNION {{Block(w, k, i) : w \in {"data", "name"}, i \in 1..num[k]} : k \in Kinds}

Refuse ==
  /\ pc = "close" /\ rc # "OK"
  /\ fd' = FALSE /\ heap' = heap \ Reached /\ pc' = "refused"
  /\ UNCHANGED <<file, rc, failed, at, noff, table, reading>>

Accept ==
  /\ pc = "close" /\ rc = "OK"
  /\ fd' = FALSE /\ at' = 1 /\ pc' = "walk"
  /\ UNCHANGED <<file, rc, failed, heap, noff, table, reading>>

-----------------------------------------------------------------------------
(* The caller walks the tables named ".dynsym" and asks elf_sym_get_string *)
(* for the names of their entries: it takes them from the first string     *)
(* table named ".dynstr".                                                  *)

AtTable == pc = "walk" /\ at <= num["sym"]
IsDynamic(i) == tbls["sym"][i].name = ".dynsym"

SkipStatic ==
  /\ AtTable /\ ~IsDynamic(at)
  /\ at' = at + 1
  /\ UNCHANGED <<file, pc, rc, failed, fd, heap, noff, table, reading>>

AnyStr(i) ==   \* mutant: the names come from ".strtab"
  /\ i \in 1..num["str"] /\ tbls["str"][i].name = ".strtab"
  /\ \A j \in 1..i - 1 : tbls["str"][j].name \notin {".strtab", "null"}
DynStr(i) ==
  /\ i \in 1..num["str"] /\ tbls["str"][i].name = ".dynstr"
  /\ \A j \in 1..i - 1 : tbls["str"][j].name \notin {".dynstr", "null"}

NumEntries == Section(tbls["sym"][at].sec).size
HasEntries == AtTable /\ IsDynamic(at) /\ NumEntries # 0
Whole(i) == tbls["str"][i].data = "whole" /\ tbls["sym"][at].data = "whole"

(* The names of a table that was not read whole are looked up in one step. *)
WalkTable ==
  /\ HasEntries
  /\ \E i \in 1..num["str"] :
       /\ DynStr(i)
       /\ walked' = walked \cup {[sym |-> tbls["sym"][at].sec, str |-> tbls["str"][i].sec,
                                  whole |-> Whole(i)]}
       /\ IF Whole(i) THEN pc' = "lookup" /\ entry' = 1 /\ UNCHANGED at
          ELSE at' = at + 1 /\ UNCHANGED <<pc, entry>>
  /\ UNCHANGED <<file, rc, failed, fd, heap, noff, table, ix, pos>>

(* No entry has a name when there is no ".dynstr".                         *)
WalkNameless ==
  /\ HasEntries /\ \A i \in 1..num["str"] : tbls["str"][i].name \notin {".dynstr", "null"}
  /\ at' = at + 1
  /\ UNCHANGED <<file, pc, rc, failed, fd, heap, noff, table, reading>>

(* A table without entries has no iterator; a string table without a name  *)
(* cannot be compared; what was not read may lead anywhere.                *)
WalkCrashes ==
  /\ AtTable /\ IsDynamic(at) /\ pc' = "crashed"
  /\ \/ ~HasEntries /\ UNCHANGED failed
     \/ Fails("malloc")
     \/ /\ \E i \in 1..num["str"] : /\ tbls["str"][i].name = "null"
                                    /\ \A j \in 1..i : ~DynStr(j)
        /\ UNCHANGED failed
     \/ \E i \in 1..num["str"] : DynStr(i) /\ ~Whole(i) /\ UNCHANGED failed
  /\ UNCHANGED <<file, rc, fd, heap, at, noff, table, reading>>

(* For each entry get_elf_str_from_table looks for the end of its name.    *)
(* It reads a byte before it compares i with the table's size.  Entries    *)
(* that the file does not set have the name 0.                             *)
StName(e) == IF e <= Len(file.stNames) THEN file.stNames[e] ELSE 0

LookUp ==
  /\ pc = "lookup" /\ entry <= NumEntries
  /\ ix' = StName(entry) /\ pos' = 0 /\ pc' = "scan"
  /\ UNCHANGED <<file, rc, failed, fd, heap, at, noff, table, walked, entry>>

LastEntry ==
  /\ pc = "lookup" /\ entry > NumEntries
  /\ at' = at + 1 /\ pc' = "walk"
  /\ UNCHANGED <<file, rc, failed, fd, heap, noff, table, reading>>

InTable == ix + pos < Len(file.bytes)
Byte == file.bytes[ix + pos + 1]

ScanOn ==   \* mutant: the scan stops one byte late
  /\ pc = "scan" /\ InTable
  /\ pos > 0 => file.bytes[ix + pos] # 0
  /\ pos' = pos + 1
  /\ UNCHANGED <<file, pc, rc, failed, fd, heap, at, noff, table, walked, entry, ix>>
ScanByte ==
  /\ pc = "scan" /\ InTable /\ Byte # 0
  /\ pos' = pos + 1
  /\ UNCHANGED <<file, pc, rc, failed, fd, heap, at, noff, table, walked, entry, ix>>

ScanEnd ==
  /\ pc = "scan" /\ InTable /\ Byte = 0
  /\ pc' = "named"
  /\ UNCHANGED <<file, rc, failed, fd, heap, at, noff, table, reading>>

(* The name cannot be copied: its entry is passed over without a word.     *)
DropEntry ==
  /\ pc = "scan" /\ InTable /\ Byte = 0 /\ Fails("malloc")
  /\ entry' = entry + 1 /\ pc' = "lookup"
  /\ UNCHANGED <<file, rc, fd, heap, at, noff, table, walked, ix, pos>>

(* What lies behind the table may end the name, or be out of reach.        *)
ScanOutside ==
  /\ pc = "scan" /\ ~InTable
  /\ pc' \in {"named", "crashed"}
  /\ UNCHANGED <<file, rc, failed, fd, heap, at, noff, table, reading>>

NextEntryStays ==   \* mutant: the loop goes on without its increment
  /\ pc = "named"
  /\ pc' = "lookup"
  /\ UNCHANGED <<file, rc, failed, fd, heap, at, noff, table, reading>>
NextEntry ==
  /\ pc = "named"
  /\ entry' = entry + 1 /\ pc' = "lookup"
  /\ UNCHANGED <<file, rc, failed, fd, heap, at, noff, table, walked, ix, pos>>

Release ==
  /\ pc = "walk" /\ at > num["sym"]
  /\ heap' = heap \ Reached /\ pc' = "released"
  /\ UNCHANGED <<file, rc, failed, fd, at, noff, table, reading>>

-----------------------------------------------------------------------------
Load ==
  \/ OpenFile \/ OpenFails \/ AllocDescr \/ AllocDescrFails
  \/ ReadHeader \/ RefuseHeader \/ HeaderFails
  \/ ReadHeaders \/ HeadersFail \/ PickSection \/ SkipSection \/ LastSection
  \/ Refuse \/ Accept

Programs ==
  \/ ReadPrograms \/ ProgramsFail \/ ProgramsCrash
  \/ SkipSegment \/ LastSegment \/ ReadSegment \/ SegmentFails \/ GarbledNotes
  \/ ReadNote \/ NoteCrashes \/ NoteFails \/ LastNote

Table ==
  \/ Grow \/ GrowFails \/ GrowCrashes \/ Fill \/ FillFails
  \/ ReadTable \/ ReadFails \/ NameTable \/ NameFails \/ NameCrashes

Walk ==
  \/ SkipStatic \/ WalkTable \/ WalkNameless \/ WalkCrashes
  \/ LookUp \/ LastEntry \/ ScanByte \/ ScanEnd \/ DropEntry \/ ScanOutside
  \/ NextEntry \/ Release

Step == Load \/ Programs \/ Table \/ Walk

Ended == pc \in {"refused", "released", "crashed"}

Next == Step \/ (Ended /\ UNCHANGED vars)

(* One thread runs, and nothing it does blocks.                            *)
Spec == Init /\ [][Next]_vars /\ WF_vars(Step)

-----------------------------------------------------------------------------
(* A file as a linker leaves it, nothing of it missing and no offset in it *)
(* beyond INT_MAX: what the code takes every file for.                     *)

Within(f, s) == s.offset <= IntMax /\ s.size <= IntMax /\ s.offset + s.size <= f.length

Dynamic(f) == {i \in 1..Len(f.sections) : f.sections[i].type = "DYNSYM"}

TablesIntact(f) ==
  /\ f.shoff + Len(f.sections) < f.length
  /\ f.shstrndx # 0 /\ f.sections[f.shstrndx].type = "STRTAB"
  /\ \A i \in 1..Len(f.sections) :
       LET s == f.sections[i] IN
       /\ s.type \in {"STRTAB", "SYMTAB", "DYNSYM"} =>
            Within(f, s) /\ s.offset > 0 /\ s.size > 0
       /\ s.type = "DYNSYM" <=> s.name = ".dynsym"
       /\ s.name = ".dynstr" => s.size = Len(f.bytes)
  /\ \A d \in Dynamic(f) :
       LET l == f.sections[d].link IN
       /\ l \in 1..Len(f.sections)
       /\ f.sections[l].type = "STRTAB" /\ f.sections[l].name = ".dynstr"
       /\ \A i \in 1..Len(f.sections) : f.sections[i].name = ".dynstr" => i = l
  /\ Dynamic(f) # {} =>
       /\ f.bytes # <<>> /\ f.bytes[Len(f.bytes)] = 0
       /\ \A i \in 1..Len(f.stNames) : f.stNames[i] < Len(f.bytes)

NotesIntact(f, s) == Within(f, s) /\ \A n \in s.notes : Fits(n, s.size) /\ Usable(n)

Intact(f) ==
  /\ f.valid /\ f.phoff <= IntMax /\ f.shoff <= IntMax
  /\ f.phoff > 0 => f.segments # <<>> /\ f.phoff + Len(f.segments) <= f.length
  /\ \A i \in 1..Len(f.segments) : f.segments[i].note => NotesIntact(f, f.segments[i])
  /\ IF f.shoff > 0 THEN TablesIntact(f) ELSE f.sections = <<>>

Where == {"open", "alloc", "header", "programs", "segment", "note", "headers", "sections",
          "grow", "fill", "read", "name", "close", "walk", "lookup", "scan", "named",
          "refused", "released", "crashed"}

Blocks ==
  {One(w) : w \in {"descr", "hdr", "pgs", "secs", "data", "note"} \cup Kinds}
    \cup {Block(w, k, i) : w \in {"data", "name"}, k \in Kinds, i \in 1..Len(file.sections)}
Slots == [sec : Nat, data : {"unset", "null", "blank", "part", "whole"},
            name : Names \cup {"unset", "null"}]

TypeOK ==
  /\ file \in Inputs /\ pc \in Where /\ rc \in {"OK", "errno", "EINVAL", "ENOMEM"}
  /\ failed \subseteq Faults /\ fd \in BOOLEAN /\ heap \subseteq Blocks
  /\ at \in Nat /\ noff \in Positions /\ kind \in Kinds /\ sec \in 0..Len(file.sections)
  /\ tbls \in [Kinds -> Seq(Slots)] /\ num \in [Kinds -> Nat]
  /\ walked \subseteq [sym : 1..Len(file.sections), str : 1..Len(file.sections), whole : BOOLEAN]
  /\ entry \in Nat /\ ix \in Nat /\ pos \in Nat

(* free_elf_file_descr follows the pointers of every counted table: each   *)
(* is one that was set, to a block that is allocated or to NULL, however   *)
(* far process_elf_file got before it failed.                              *)
CountedAreSet ==
  ~Ended => \A k \in Kinds : \A i \in 1..num[k] :
    /\ i <= Len(tbls[k])
    /\ tbls[k][i].data \in {"blank", "part", "whole"} /\ Block("data", k, i) \in heap
    /\ tbls[k][i].name # "unset"
    /\ tbls[k][i].name # "null" => Block("name", k, i) \in heap

(* The file is closed, and of the memory nothing is left once the caller   *)
(* has released the descriptor.  A file that is refused may cost one block *)
(* at most: the table whose data could not be read, or the name of a note  *)
(* whose descriptor could not be copied.                                   *)
NothingLeft ==
  /\ pc \in {"refused", "released"} => ~fd
  /\ pc = "released" => heap = {}
  /\ pc = "refused" =>
       \/ heap = {}
       \/ heap = {One("note")} /\ rc = "ENOMEM"
       \/ heap = {Block("data", kind, New)} /\ rc = "errno" /\ "read" \in failed

(* A good file is refused only because a call failed, and brings the       *)
(* program down only when memory is short.                                 *)
OnlyFailuresStop ==
  Intact(file) =>
    /\ pc = "refused" => failed # {}
    /\ pc = "crashed" => "malloc" \in failed

(* Of a good file that is accepted, whatever failed on the way, the caller *)
(* reads every dynamic symbol table, each with the string table it is      *)
(* linked to: the loader goes by the names of sections and never looks at  *)
(* sh_link.                                                                *)
SymbolsRight ==
  Intact(file) /\ pc = "released" =>
    walked = {[sym |-> d, str |-> file.sections[d].link, whole |-> TRUE] : d \in Dynamic(file)}

(* In a good file a name is read from inside the string table only, and it *)
(* ends at the first NUL.                                                  *)
NameRight ==
  Intact(file) =>
    /\ pc = "scan" => InTable
    /\ pc = "named" => Byte = 0
    /\ pc \in {"scan", "named"} => \A i \in 1..pos : file.bytes[ix + i] # 0

(* Where the program is: the stages follow each other, the loops over      *)
(* segments, sections and tables count at, inside of a table entry counts  *)
(* its entries, a round of a loop has phases, and inside of one the walk   *)
(* over notes counts noff, the scan pos.                                   *)
Stage ==
  CASE pc = "open" -> 0 [] pc = "alloc" -> 1 [] pc = "header" -> 2 [] pc = "programs" -> 3
    [] pc \in {"segment", "note"} -> 4 [] pc = "headers" -> 5
    [] pc \in {"sections", "grow", "fill", "read", "name"} -> 6 [] pc = "close" -> 7
    [] pc \in {"walk", "lookup", "scan", "named"} -> 8 [] OTHER -> 9
Round == IF pc \in {"lookup", "scan", "named"} THEN entry ELSE 0
Phase ==
  CASE pc \in {"note", "grow", "lookup"} -> 1 [] pc \in {"fill", "scan"} -> 2
    [] pc \in {"read", "named"} -> 3 [] pc = "name" -> 4 [] OTHER -> 0
Inner == CASE pc = "note" -> noff [] pc = "scan" -> pos [] OTHER -> 0

Onward ==
  \/ Stage' > Stage
  \/ Stage' = Stage /\ at' > at
  \/ Stage' = Stage /\ at' = at /\ Round' > Round
  \/ Stage' = Stage /\ at' = at /\ Round' = Round /\ Phase' > Phase
  \/ Stage' = Stage /\ at' = at /\ Round' = Round /\ Phase' = Phase /\ Inner' > Inner

InBounds ==
  /\ Stage = 4 => at <= Len(file.segments) + 1
  /\ Stage = 6 => at <= Len(file.sections) + 1
  /\ Stage = 8 => at <= num["sym"] + 1
  /\ pc \in {"lookup", "scan", "named"} => entry <= NumEntries + 1
  /\ pc = "note" => noff <= Segment(at).size + 3
  /\ pc = "scan" => pos <= Len(file.bytes)

(* A note whose size takes the loader out of the segment: the sizes are    *)
(* never compared with it, and the offset of the next note may wrap around *)
(* to one that was seen before.                                            *)
AtStrayNote == AtNote /\ ~NoteInside

(* No loop stands still, goes back or runs on, but the one over the notes  *)
(* of a segment when their sizes take it outside: every other step is a    *)
(* step onward and stays within what the file sets.                        *)
AlwaysOnward == [][(Onward /\ InBounds') \/ AtStrayNote]_vars

(* A file is read to its end, and whatever it is, nothing but stray notes  *)
(* can keep the loader at it.                                              *)
LoadEnds == <>Ended \/ []<>AtStrayNote
=============================================================================
