---------------------------- MODULE Setup_proofs ----------------------------
(***************************************************************************)
(* What `cli record` builds before the guest runs: the page tables, for     *)
(* every place they can be mapped at and every virtual address, and the     *)
(* image, for every file that keeps the linker's rules.                     *)
(***************************************************************************)
EXTENDS Loader, Paging, TLAPS

-----------------------------------------------------------------------------
(* create_identity_mapping, as the processor reads it. *)

\* The pages of a PageTable are at base in guest-physical memory.
TablesAt(tables, base) ==
  \A t \in 0..2 :
    base + t \in DOMAIN tables /\ tables[base + t] = create_identity_mapping(base)[t]

(* The entries of the three tables: one link, one link, 512 large pages.     *)
LEMMA TableEntries ==
  ASSUME NEW tables, NEW base \in Nat, TablesAt(tables, base),
         NEW i \in 0..511
  PROVE  /\ Entry(tables, base, i) = IF i = 0 THEN Link(base + 1) ELSE NoEntry
         /\ Entry(tables, base + 1, i) = IF i = 0 THEN Link(base + 2) ELSE NoEntry
         /\ Entry(tables, base + 2, i) = Large(i * 512)
<1> DEFINE maps == create_identity_mapping(base)
<1>1. /\ base \in DOMAIN tables /\ tables[base] = maps[0]
      /\ base + 1 \in DOMAIN tables /\ tables[base + 1] = maps[1]
      /\ base + 2 \in DOMAIN tables /\ tables[base + 2] = maps[2]
  <2>1. base + 0 = base
    OBVIOUS
  <2>2. 0 \in 0..2 /\ 1 \in 0..2 /\ 2 \in 0..2
    OBVIOUS
  <2> QED
    BY <2>1, <2>2 DEF TablesAt
<1>2. /\ maps[0] = Table([j \in {0} |-> Link(base + 1)])
      /\ maps[1] = Table([j \in {0} |-> Link(base + 2)])
      /\ maps[2] = Table([j \in 0..(ENTRIES - 1) |-> Large(j * ENTRIES)])
  BY DEF create_identity_mapping
<1>3. maps[0][i] = IF i = 0 THEN Link(base + 1) ELSE NoEntry
  BY <1>2 DEF Table, ENTRIES
<1>4. maps[1][i] = IF i = 0 THEN Link(base + 2) ELSE NoEntry
  BY <1>2 DEF Table, ENTRIES
<1>5. maps[2][i] = Large(i * 512)
  <2> DEFINE pd == [j \in 0..511 |-> Large(j * 512)]
  <2>1. pd[i] = Large(i * 512) /\ i \in DOMAIN pd
    OBVIOUS
  <2> HIDE DEF pd
  <2>2. Table(pd)[i] = pd[i]
    BY <2>1 DEF Table, ENTRIES
  <2> QED
    BY <1>2, <2>1, <2>2 DEF pd, ENTRIES
<1> QED
  BY <1>1, <1>3, <1>4, <1>5 DEF Entry

(* The nine-bit indices of a virtual page.                                   *)
LEMMA Indices ==
  ASSUME NEW gva \in Nat, gva < 512 * 512 * 512 * 512
  PROVE  /\ gva \div (ENTRIES * GIB) \in 0..511
         /\ (gva \div GIB) % ENTRIES \in 0..511
         /\ (gva \div ENTRIES) % ENTRIES \in 0..511
         /\ gva < GIB => /\ gva \div (ENTRIES * GIB) = 0
                         /\ (gva \div GIB) % ENTRIES = 0
                         /\ ((gva \div ENTRIES) % ENTRIES) * 512 + (gva % ENTRIES) = gva
         /\ gva >= GIB => \/ gva \div (ENTRIES * GIB) # 0
                          \/ (gva \div GIB) % ENTRIES # 0
  BY DEF ENTRIES, GIB

(* create_identity_mapping maps every virtual page of the first GiB to       *)
(* itself, and nothing else: every other virtual address of the processor    *)
(* faults, up to the last one.                                               *)
THEOREM WalkIsIdentity ==
  ASSUME NEW tables, NEW base \in Nat, TablesAt(tables, base),
         NEW gva \in Nat, gva < 512 * 512 * 512 * 512
  PROVE  Walk(tables, base, gva) = IF gva < GIB THEN gva ELSE Fault
<1> DEFINE i4 == gva \div (ENTRIES * GIB)
           i3 == (gva \div GIB) % ENTRIES
           i2 == (gva \div ENTRIES) % ENTRIES
           e4 == Entry(tables, base, i4)
           e3 == Entry(tables, e4.to, i3)
           e2 == Entry(tables, e3.to, i2)
<1> HIDE DEF i4, i3, i2, e4, e3, e2
<1>1. /\ i4 \in 0..511 /\ i3 \in 0..511 /\ i2 \in 0..511
      /\ gva < GIB => i4 = 0 /\ i3 = 0 /\ i2 * 512 + (gva % ENTRIES) = gva
      /\ gva >= GIB => i4 # 0 \/ i3 # 0
  BY Indices DEF i4, i3, i2
<1>2. /\ e4 = IF i4 = 0 THEN Link(base + 1) ELSE NoEntry
      /\ i4 = 0 => e3 = IF i3 = 0 THEN Link(base + 2) ELSE NoEntry
      /\ i4 = 0 /\ i3 = 0 => e2 = Large(i2 * 512)
  <2>1. e4 = IF i4 = 0 THEN Link(base + 1) ELSE NoEntry
    BY <1>1, TableEntries DEF e4
  <2>2. ASSUME i4 = 0 PROVE e4.to = base + 1
    BY <2>1, <2>2 DEF Link
  <2>3. ASSUME i4 = 0 PROVE e3 = IF i3 = 0 THEN Link(base + 2) ELSE NoEntry
    BY <2>2, <2>3, <1>1, TableEntries DEF e3
  <2>4. ASSUME i4 = 0, i3 = 0 PROVE e2 = Large(i2 * 512)
    <3>1. e3.to = base + 2
      BY <2>3, <2>4 DEF Link
    <3> QED
      BY <3>1, <1>1, TableEntries DEF e2
  <2> QED
    BY <2>1, <2>3, <2>4
<1>3. Walk(tables, base, gva) =
        IF "present" \in e4.flags /\ "present" \in e3.flags /\ {"present", "size"} \subseteq e2.flags
        THEN e2.to + (gva % ENTRIES) ELSE Fault
  BY DEF Walk, e4, e3, e2, i4, i3, i2
<1>4. CASE gva < GIB
  <2>1. /\ "present" \in e4.flags /\ "present" \in e3.flags
        /\ {"present", "size"} \subseteq e2.flags /\ e2.to = i2 * 512
    BY <1>1, <1>2, <1>4 DEF Link, Large
  <2> QED
    BY <1>1, <1>3, <1>4, <2>1
<1>5. CASE gva >= GIB
  <2>1. "present" \notin e4.flags \/ "present" \notin e3.flags
    BY <1>1, <1>2, <1>5 DEF NoEntry
  <2> QED
    BY <1>3, <1>5, <2>1 DEF GIB, ENTRIES
<1> QED
  BY <1>4, <1>5 DEF GIB, ENTRIES

-----------------------------------------------------------------------------
(* PeLoader::map_into_memory: the invariant of its loop. *)

(* The sections before `section` are in place, and the buffer has the size   *)
(* of the image rounded up to pages.                                         *)
LoaderInv ==
  /\ pe \in Binaries
  /\ section \in 0..(Len(pe.sections) + 1)
  /\ section > 0 => DOMAIN image = 0..(aligned_size - 1)
  /\ SectionsPlaced

(* Rounding up to pages is monotonic and leaves whole pages alone.           *)
LEMMA AlignUpFacts ==
  ASSUME NEW m \in Nat, NEW n \in Nat
  PROVE  /\ AlignUp(n) \in Nat /\ AlignUp(n) >= n
         /\ m <= n => AlignUp(m) <= AlignUp(n)
         /\ AlignUp(m) = m => AlignUp(m + n) = m + AlignUp(n)
         /\ AlignUp(n) = 8 * (AlignUp(n) \div 8)
  BY DEF AlignUp, PAGE

(* What the linker's rules say of one section: it lies inside the buffer.    *)
LEMMA SectionInside ==
  ASSUME NEW f, WellFormed(f), NEW i \in DOMAIN f.sections
  PROVE  /\ f.sections[i] \in Section
         /\ Destination(f.sections[i]) \subseteq 0..(AlignUp(f.size_of_image) - 1)
<1> DEFINE s == f.sections[i]
<1>1. s \in Section /\ f.size_of_image \in Nat
  BY DEF WellFormed, Pe
<1>2. /\ AlignUp(s.virtual_address) = s.virtual_address
      /\ s.virtual_address + s.virtual_size <= f.size_of_image
      /\ s.size_of_raw_data <= AlignUp(s.virtual_size)
  BY DEF WellFormed
<1>3. /\ s.virtual_address \in Nat /\ s.virtual_size \in Nat
      /\ s.size_of_raw_data \in Nat /\ s.pointer_to_raw_data \in Nat
  BY <1>1 DEF Section
<1> HIDE DEF s
<1>4. AlignUp(s.virtual_address + s.virtual_size) = s.virtual_address + AlignUp(s.virtual_size)
  BY <1>2, <1>3, AlignUpFacts
<1>5. AlignUp(s.virtual_address + s.virtual_size) <= AlignUp(f.size_of_image)
  <2> DEFINE end == s.virtual_address + s.virtual_size
  <2>1. end \in Nat /\ f.size_of_image \in Nat /\ end <= f.size_of_image
    BY <1>1, <1>2, <1>3
  <2> HIDE DEF end
  <2>2. AlignUp(end) <= AlignUp(f.size_of_image)
    BY <2>1, AlignUpFacts
  <2> QED
    BY <2>2 DEF end
<1>6. /\ AlignUp(s.virtual_size) \in Nat /\ AlignUp(f.size_of_image) \in Nat
  BY <1>1, <1>3, AlignUpFacts
<1>7. Destination(s) \subseteq 0..(AlignUp(f.size_of_image) - 1)
  BY <1>2, <1>3, <1>4, <1>5, <1>6 DEF Destination
<1> QED
  BY <1>1, <1>7 DEF s

(* The copies of two sections write different addresses.                     *)
LEMMA SectionsApart ==
  ASSUME NEW f, WellFormed(f), NEW i \in DOMAIN f.sections, NEW j \in DOMAIN f.sections, i < j
  PROVE  Destination(f.sections[i]) \cap Destination(f.sections[j]) = {}
<1> DEFINE s == f.sections[i]
           t == f.sections[j]
<1>1. s \in Section /\ t \in Section
  BY SectionInside
<1>2. /\ s.size_of_raw_data <= AlignUp(s.virtual_size)
      /\ s.virtual_address + AlignUp(s.virtual_size) <= t.virtual_address
  BY DEF WellFormed
<1>3. /\ s.virtual_address \in Nat /\ s.size_of_raw_data \in Nat
      /\ t.virtual_address \in Nat /\ t.size_of_raw_data \in Nat /\ s.virtual_size \in Nat
  BY <1>1 DEF Section
<1> HIDE DEF s, t
<1>4. AlignUp(s.virtual_size) \in Nat
  BY <1>3, AlignUpFacts
<1>5. Destination(s) \cap Destination(t) = {}
  BY <1>2, <1>3, <1>4 DEF Destination
<1> QED
  BY <1>5 DEF s, t

(* The shape of a file: its sections are a sequence.                         *)
LEMMA FileShape ==
  ASSUME NEW f \in Binaries
  PROVE  /\ WellFormed(f) /\ Len(f.sections) \in Nat
         /\ DOMAIN f.sections = 1..Len(f.sections)
         /\ f.size_of_image \in Nat
<1>1. WellFormed(f)
  BY BinariesAssumption
<1>2. f.sections \in Seq(Section) /\ f.size_of_image \in Nat
  BY <1>1 DEF WellFormed, Pe
<1> QED
  BY <1>1, <1>2

(* Before the allocation nothing is claimed.                                 *)
LEMMA LoaderInitInv ==
  ASSUME LoaderInit PROVE LoaderInv
  BY FileShape DEF LoaderInit, LoaderInv, SectionsPlaced

(* The zeroed buffer has nothing in it, as no section is copied yet.         *)
LEMMA AllocateInv ==
  ASSUME LoaderInv, Allocate PROVE LoaderInv'
<1>1. /\ pe' = pe /\ section' = 1 /\ image' = [a \in 0..(aligned_size - 1) |-> 0]
      /\ pe \in Binaries
  BY DEF LoaderInv, Allocate
<1>2. aligned_size' = aligned_size
  BY <1>1 DEF aligned_size
<1>3. PlacedUpTo(0)'
  BY <1>1 DEF PlacedUpTo
<1> QED
  BY <1>1, <1>2, <1>3, FileShape DEF LoaderInv, SectionsPlaced

(* One round of the loop adds its section and disturbs no earlier one.       *)
LEMMA CopySectionInv ==
  ASSUME LoaderInv, CopySection PROVE LoaderInv'
<1> DEFINE s == pe.sections[section]
<1>1. /\ section \in DOMAIN pe.sections /\ section' = section + 1 /\ pe' = pe
      /\ pe \in Binaries /\ WellFormed(pe) /\ Len(pe.sections) \in Nat
      /\ DOMAIN pe.sections = 1..Len(pe.sections) /\ section \in 1..Len(pe.sections)
  BY FileShape DEF LoaderInv, CopySection
<1>2. image' = [a \in DOMAIN image |->
                  IF a \in Destination(s)
                  THEN s.pointer_to_raw_data + (a - s.virtual_address)
                  ELSE image[a]]
  BY DEF CopySection
<1>3. DOMAIN image = 0..(aligned_size - 1) /\ PlacedUpTo(section - 1)
  BY <1>1 DEF LoaderInv, SectionsPlaced
<1>4. aligned_size' = aligned_size /\ DOMAIN image' = DOMAIN image
  BY <1>1, <1>2 DEF aligned_size
<1>5. Destination(s) \subseteq DOMAIN image
  BY <1>1, <1>3, SectionInside DEF aligned_size
<1>6. ASSUME NEW i \in 1..section, NEW a \in Destination(pe.sections[i])
      PROVE  /\ a \in DOMAIN image
             /\ image'[a] = pe.sections[i].pointer_to_raw_data
                              + (a - pe.sections[i].virtual_address)
  <2>1. CASE i = section
    BY <2>1, <1>2, <1>5, <1>6
  <2>2. CASE i < section
    <3>1. i \in 1..(section - 1) /\ i \in DOMAIN pe.sections
      BY <1>1, <2>2
    <3>2. a \notin Destination(s)
      BY <1>1, <1>6, <2>2, <3>1, SectionsApart
    <3> QED
      BY <1>2, <1>3, <1>6, <3>1, <3>2 DEF PlacedUpTo
  <2> QED
    BY <2>1, <2>2, <1>1
<1>7. ASSUME NEW a \in DOMAIN image, image'[a] # 0
      PROVE  \E i \in 1..section : a \in Destination(pe.sections[i])
  <2>1. CASE a \in Destination(s)
    BY <2>1, <1>1
  <2>2. CASE a \notin Destination(s)
    <3>1. image[a] # 0
      BY <1>2, <1>7, <2>2
    <3>2. \E i \in 1..(section - 1) : a \in Destination(pe.sections[i])
      BY <1>3, <3>1 DEF PlacedUpTo
    <3> QED
      BY <3>2, <1>1
  <2> QED
    BY <2>1, <2>2
<1>8. SectionsPlaced'
  BY <1>1, <1>4, <1>6, <1>7 DEF SectionsPlaced, PlacedUpTo
<1> QED
  BY <1>1, <1>3, <1>4, <1>8 DEF LoaderInv
=============================================================================
