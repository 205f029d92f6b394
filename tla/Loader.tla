------------------------------- MODULE Loader -------------------------------
(***************************************************************************)
(* crates/engine/src/loader.rs: PeLoader::map_into_memory copies the        *)
(* sections of a PE file into a zeroed buffer.                              *)
(*                                                                         *)
(* The unit is the file alignment of a PE file, 512 bytes, called a sector; *)
(* eight of them are a page.  A sector of the buffer holds 0 when it is     *)
(* zero, and otherwise the number of the file sector copied to it.          *)
(***************************************************************************)
EXTENDS Integers, Sequences

CONSTANT Binaries   \* the PE files `cli record` is given

PAGE == 8

Section == [virtual_address : Nat, virtual_size : Nat,
            pointer_to_raw_data : Nat, size_of_raw_data : Nat]

Pe == [size_of_image : Nat, sections : Seq(Section), len : Nat]

\* (n + 4095) & !4095
AlignUp(n) == ((n + PAGE - 1) \div PAGE) * PAGE

(* What a linker writes (external): sections lie one after another at page   *)
(* boundaries inside the image, and the raw data of each is inside the file, *)
(* behind the header, and no longer than the pages of its section.           *)
WellFormed(f) ==
  /\ f \in Pe
  /\ \A i \in DOMAIN f.sections :
       LET s == f.sections[i] IN
       /\ AlignUp(s.virtual_address) = s.virtual_address
       /\ s.virtual_address + s.virtual_size <= f.size_of_image
       /\ s.size_of_raw_data <= AlignUp(s.virtual_size)
       /\ s.pointer_to_raw_data + s.size_of_raw_data <= f.len
       /\ \A j \in DOMAIN f.sections : i < j =>
            s.virtual_address + AlignUp(s.virtual_size) <= f.sections[j].virtual_address

ASSUME BinariesAssumption == \A f \in Binaries : WellFormed(f)

VARIABLES
  pe,       \* the parsed file
  image,    \* the buffer: sector address -> file sector, or 0
  section   \* 0 before the allocation, then the index of the section to copy

loaderVars == <<pe, image, section>>

aligned_size == AlignUp(pe.size_of_image)

LoaderInit ==
  /\ pe \in Binaries
  /\ image = [a \in {} |-> 0]
  /\ section = 0

Allocate ==
  /\ section = 0
  /\ section' = 1
  /\ image' = [a \in 0..(aligned_size - 1) |-> 0]
  /\ UNCHANGED pe

\* The addresses that the copy of section s writes.
Destination(s) ==
  IF s.pointer_to_raw_data > 0 /\ s.size_of_raw_data > 0
  THEN s.virtual_address..(s.virtual_address + s.size_of_raw_data - 1)
  ELSE {}

\* Seeded fault: the address of the section is not added to the destination.
CopySectionAtStart ==
  LET s == pe.sections[section]
  IN /\ section \in DOMAIN pe.sections
     /\ image' = [a \in DOMAIN image |->
                    IF a < s.size_of_raw_data THEN s.pointer_to_raw_data + a ELSE image[a]]
     /\ section' = section + 1
     /\ UNCHANGED pe

CopySection ==
  LET s == pe.sections[section]
  IN /\ section \in DOMAIN pe.sections
     /\ image' = [a \in DOMAIN image |->
                    IF a \in Destination(s)
                    THEN s.pointer_to_raw_data + (a - s.virtual_address)
                    ELSE image[a]]
     /\ section' = section + 1
     /\ UNCHANGED pe

ImageMapped == section = Len(pe.sections) + 1

-----------------------------------------------------------------------------
\* The sections copied so far are at their addresses and the rest is zero.
PlacedUpTo(n) ==
  /\ \A i \in 1..n : \A a \in Destination(pe.sections[i]) :
       /\ a \in DOMAIN image
       /\ image[a] = pe.sections[i].pointer_to_raw_data
                       + (a - pe.sections[i].virtual_address)
  /\ \A a \in DOMAIN image :
       image[a] # 0 => \E i \in 1..n : a \in Destination(pe.sections[i])

(* After every round of the loop in map_into_memory each section copied so   *)
(* far is complete and at its address, no copy has left the buffer or        *)
(* touched an earlier section, and everything else is still zero, as bss     *)
(* and the gaps between sections must be.                                    *)
SectionsPlaced == section > 0 => PlacedUpTo(section - 1)
=============================================================================
