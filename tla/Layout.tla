------------------------------- MODULE Layout -------------------------------
(***************************************************************************)
(* Guest-physical memory: what cli/main.rs maps where, what ept.rs does     *)
(* with it, and which regions a snapshot holds.  Addresses and sizes count  *)
(* pages of 4 KiB; n is the number of pages of the image.                   *)
(***************************************************************************)
EXTENDS Integers

Regions == {"null", "image", "stack", "page_table"}

base_gpa   == 256   \* 0x100000
pt_gpa     == 512   \* 0x200000
stack_size == 16    \* 0x10000

\* Seeded fault: the image size is rounded down, so the stack starts in its last page.
GpaRoundedDown(n) == [null |-> 0, image |-> base_gpa, stack |-> base_gpa + n - 1,
                      page_table |-> pt_gpa]

Gpa(n) == [null |-> 0, image |-> base_gpa, stack |-> base_gpa + n,
           page_table |-> pt_gpa]

Pages(n) == [null |-> 1, image |-> n, stack |-> stack_size, page_table |-> 3]

Span(gpa, size) == gpa..(gpa + size - 1)

\* The regions are apart: image and stack end below the page tables.
Fits(n) == base_gpa + n + stack_size <= pt_gpa

-----------------------------------------------------------------------------
\* The mapping: guest-physical page -> <<host buffer, page of it>>.
Unmapped == [p \in {} |-> <<"", 0>>]

\* WHvMapGpaRange replaces what the pages of the range were mapped to.
map_gpa_range(ept, gpa, buffer, size) ==
  [p \in DOMAIN ept \cup Span(gpa, size) |->
     IF p \in Span(gpa, size) THEN <<buffer, p - gpa>> ELSE ept[p]]

-----------------------------------------------------------------------------
\* Seeded fault: entry().or_insert() in place of insert() keeps the first region.
CaptureKeepsFirst(memory_regions, gpa, region) ==
  [g \in DOMAIN memory_regions \cup {gpa} |->
     IF g \in DOMAIN memory_regions THEN memory_regions[g] ELSE region]

\* Snapshot.memory_regions: gpa -> the region whose bytes were copied.
\* HashMap::insert replaces the buffer of a key that is there already.
capture_region(memory_regions, gpa, region) ==
  [g \in DOMAIN memory_regions \cup {gpa} |->
     IF g = gpa THEN region ELSE memory_regions[g]]

NoRegions == [g \in {} |-> ""]

\* Seeded fault: the stack is left out of the snapshot.
CaptureWithoutStack(n) ==
  LET one   == capture_region(NoRegions, 0, "null")
      two   == capture_region(one, base_gpa, "image")
  IN capture_region(two, pt_gpa, "page_table")

capture_memory_layout(n) ==
  LET one   == capture_region(NoRegions, 0, "null")
      two   == capture_region(one, base_gpa, "image")
      three == capture_region(two, Gpa(n)["stack"], "stack")
  IN capture_region(three, pt_gpa, "page_table")
=============================================================================
