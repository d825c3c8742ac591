----------------------------- MODULE MCElfLoad -----------------------------
(***************************************************************************)
(* Files for ElfLoad, around one as a linker leaves it: a library with a   *)
(* note segment, dynamic and static symbols and their strings.  Positions  *)
(* and sizes are small numbers, and INT_MAX is the next one.               *)
(***************************************************************************)
EXTENDS ElfLoad

MCIntMax == 255
MCNames == {"", ".dynsym", ".dynstr", ".strtab"}
MCFaults == {"open", "read", "malloc"}

Sec(t, n, o, s, l) == [type |-> t, name |-> n, offset |-> o, size |-> s, link |-> l]
Seg(note, o, s, notes) == [note |-> note, offset |-> o, size |-> s, notes |-> notes]
ANote(a, n, d, t, p) == [at |-> a, name |-> n, desc |-> d, type |-> t, proper |-> p]

(* Three notes, two of them with sizes that are no multiples of four, one  *)
(* without a name.                                                         *)
GoodNotes ==
  {ANote(0, 4, 5, "AUXV", TRUE), ANote(24, 0, 0, "AUXV", FALSE), ANote(36, 3, 6, "FILE", TRUE)}

(* Notes without a descriptor or with a short one, notes that reach out of *)
(* the segment with their name or their descriptor, and notes whose size   *)
(* makes the offset wrap around: to a header outside, and to themselves.   *)
BadNotes ==
  {ANote(0, 4, 0, "FILE", TRUE), ANote(0, 4, 8, "FILE", FALSE), ANote(0, 4, 8, "AUXV", FALSE),
   ANote(0, 60, 0, "OTHER", TRUE), ANote(0, 4, 100, "OTHER", TRUE),
   ANote(0, 496, 0, "OTHER", TRUE), ANote(0, 500, 0, "OTHER", TRUE)}

Good ==
  [valid |-> TRUE, length |-> 200, phoff |-> 8, shoff |-> 180,
   segments |-> <<Seg(FALSE, 0, 100, {}), Seg(TRUE, 20, 60, GoodNotes), Seg(TRUE, 20, 0, {})>>,
   sections |-> <<Sec("OTHER", "", 20, 60, 0), Sec("DYNSYM", ".dynsym", 80, 4, 3),
                  Sec("STRTAB", ".dynstr", 90, 5, 0), Sec("SYMTAB", "", 100, 8, 5),
                  Sec("STRTAB", ".strtab", 110, 9, 0), Sec("STRTAB", "", 120, 30, 0)>>,
   shstrndx |-> 6, bytes |-> <<0, 1, 1, 1, 0>>, stNames |-> <<0, 1, 3>>]

(* Good files: without notes and with the tables in another order, and     *)
(* without section headers.                                                *)
Reordered ==
  [Good EXCEPT !.phoff = 0, !.segments = <<>>, !.shstrndx = 1,
     !.sections = <<Sec("STRTAB", "", 120, 30, 0), Sec("STRTAB", ".strtab", 110, 9, 0),
                    Sec("SYMTAB", "", 100, 8, 2), Sec("STRTAB", ".dynstr", 90, 5, 0),
                    Sec("DYNSYM", ".dynsym", 80, 4, 4)>>]
Stripped == [Good EXCEPT !.shoff = 0, !.sections = <<>>, !.shstrndx = 0]

(* Files that a linker does not leave, larger than INT_MAX, or with a      *)
(* table that reaches behind their end.                                    *)
Odd ==
  {[Good EXCEPT !.valid = FALSE],
   [Good EXCEPT !.segments = <<>>],
   [Good EXCEPT !.shstrndx = 0],
   [Good EXCEPT !.phoff = 300, !.length = 400],
   [Good EXCEPT !.shoff = 300, !.length = 400],
   [Good EXCEPT !.segments[2].offset = 300, !.length = 400],
   [Good EXCEPT !.segments[2].size = 300, !.segments[2].notes = {ANote(0, 4, 284, "OTHER", TRUE)}],
   [Good EXCEPT !.segments[2].offset = 190],
   [Good EXCEPT !.sections[2].offset = 300, !.length = 400],
   [Good EXCEPT !.sections[5].size = 300, !.length = 450],
   [Good EXCEPT !.sections[6].offset = 300, !.length = 400],
   [Good EXCEPT !.sections[6].offset = 190],
   [Good EXCEPT !.sections[3].offset = 197],
   [Good EXCEPT !.sections[2].size = 0],
   [Good EXCEPT !.sections[3].name = ".strtab"],
   [Good EXCEPT !.sections[6].size = 0],
   [Good EXCEPT !.stNames = <<0, 7>>]}
    \cup {[Good EXCEPT !.segments[2].notes = {n}] : n \in BadNotes}

(* Good, of which an end is missing: the last section headers, all of      *)
(* them, the notes too, the last program header too.                       *)
Truncated == {[Good EXCEPT !.length = n] : n \in {10, 60, 180, 183}}

MCInputs == {Good, Reordered, Stripped} \cup Odd \cup Truncated
=============================================================================
