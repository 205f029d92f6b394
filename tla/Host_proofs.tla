----------------------------- MODULE Host_proofs -----------------------------
(***************************************************************************)
(* The two arms of main, for every set of binaries: what is mapped where    *)
(* when the guest runs, and what the guest therefore sees.                  *)
(***************************************************************************)
EXTENDS Host, Setup_proofs, SequenceTheorems

-----------------------------------------------------------------------------
(* Mappings: which regions a guest-physical mapping consists of. *)

SpanOf(r, n) == Span(Gpa(n)[r], Pages(n)[r])

\* f maps exactly the regions of S, each to its own buffer.
Maps(f, S, n) ==
  /\ f = [p \in DOMAIN f |-> f[p]]
  /\ DOMAIN f = UNION {SpanOf(r, n) : r \in S}
  /\ \A r \in S : \A p \in SpanOf(r, n) : f[p] = <<r, p - Gpa(n)[r]>>

\* The three pages of the page tables are where CR3 points.
TablesMapped(f) ==
  \A t \in 0..2 : pt_gpa + t \in DOMAIN f /\ f[pt_gpa + t] = <<"page_table", t>>

(* When image and stack end below the page tables, no two regions share a    *)
(* page.                                                                     *)
LEMMA RegionsApart ==
  ASSUME NEW n \in Nat, Fits(n), NEW q \in Regions, NEW r \in Regions, q # r
  PROVE  SpanOf(q, n) \cap SpanOf(r, n) = {}
  BY DEF Fits, Regions, SpanOf, Span, Gpa, Pages, base_gpa, pt_gpa, stack_size

(* map_gpa_range adds a region to a mapping of others.                       *)
LEMMA MapsMore ==
  ASSUME NEW n \in Nat, Fits(n), NEW S \in SUBSET Regions, NEW r \in Regions,
         NEW f, Maps(f, S, n)
  PROVE  Maps(map_gpa_range(f, Gpa(n)[r], r, Pages(n)[r]), S \cup {r}, n)
<1> DEFINE g == map_gpa_range(f, Gpa(n)[r], r, Pages(n)[r])
<1>1. g = [p \in DOMAIN f \cup SpanOf(r, n) |->
             IF p \in SpanOf(r, n) THEN <<r, p - Gpa(n)[r]>> ELSE f[p]]
  BY DEF map_gpa_range, SpanOf
<1> HIDE DEF g
<1>2. g = [p \in DOMAIN g |-> g[p]]
  BY <1>1
<1>3. DOMAIN g = UNION {SpanOf(q, n) : q \in S \cup {r}}
  BY <1>1 DEF Maps
<1>4. ASSUME NEW q \in S \cup {r}, NEW p \in SpanOf(q, n)
      PROVE  g[p] = <<q, p - Gpa(n)[q]>>
  <2>1. CASE q = r
    BY <2>1, <1>1, <1>4
  <2>2. CASE q # r
    <3>1. p \notin SpanOf(r, n)
      BY <1>4, <2>2, RegionsApart
    <3>2. p \in DOMAIN f /\ f[p] = <<q, p - Gpa(n)[q]>>
      BY <1>4, <2>2 DEF Maps
    <3> QED
      BY <1>1, <3>1, <3>2
  <2> QED
    BY <2>1, <2>2
<1> QED
  BY <1>2, <1>3, <1>4 DEF Maps, g

(* The regions determine the mapping.                                        *)
LEMMA MapsUnique ==
  ASSUME NEW n \in Nat, NEW S, NEW f, NEW g, Maps(f, S, n), Maps(g, S, n)
  PROVE  f = g
<1>1. DOMAIN f = DOMAIN g
  BY DEF Maps
<1>2. \A p \in DOMAIN f : f[p] = g[p]
  BY DEF Maps
<1> QED
  BY <1>1, <1>2 DEF Maps

(* Nothing mapped, no regions.                                               *)
LEMMA MapsNothing ==
  ASSUME NEW n \in Nat PROVE Maps(Unmapped, {}, n)
  BY DEF Maps, Unmapped

(* With all regions mapped the page tables are where CR3 points, and the     *)
(* mapped pages are numbers.                                                 *)
LEMMA MapsAll ==
  ASSUME NEW n \in Nat, NEW f, Maps(f, Regions, n)
  PROVE  TablesMapped(f) /\ DOMAIN f \subseteq Nat
<1>1. ASSUME NEW r \in Regions PROVE SpanOf(r, n) \subseteq Nat
  BY <1>1 DEF Regions, SpanOf, Span, Gpa, Pages, base_gpa, pt_gpa, stack_size
<1>2. ASSUME NEW t \in 0..2
      PROVE  pt_gpa + t \in SpanOf("page_table", n) /\ (pt_gpa + t) - Gpa(n)["page_table"] = t
  BY <1>2 DEF SpanOf, Span, Gpa, Pages, pt_gpa
<1>3. "page_table" \in Regions
  BY DEF Regions
<1> QED
  BY <1>1, <1>2, <1>3 DEF Maps, TablesMapped

(* The snapshot of record: four regions under four addresses, each under its *)
(* own, when the regions are apart.                                          *)
LEMMA CapturedLayout ==
  ASSUME NEW n \in Nat, n > 0, Fits(n)
  PROVE  LET m == capture_memory_layout(n) IN
         /\ \A g \in DOMAIN m : m[g] \in Regions /\ Gpa(n)[m[g]] = g
         /\ {m[g] : g \in DOMAIN m} = Regions
<1> DEFINE m == capture_memory_layout(n)
<1>1. 0 # 256 /\ 0 # 256 + n /\ 256 # 256 + n /\ 256 + n # 512
  BY DEF Fits, base_gpa, pt_gpa, stack_size
<1>2. /\ DOMAIN m = {0, 256, 256 + n, 512}
      /\ m[0] = "null" /\ m[256] = "image" /\ m[256 + n] = "stack" /\ m[512] = "page_table"
  BY <1>1 DEF capture_memory_layout, capture_region, NoRegions, Gpa, base_gpa, pt_gpa
<1> HIDE DEF m
<1>3. \A g \in DOMAIN m : m[g] \in Regions /\ Gpa(n)[m[g]] = g
  BY <1>2 DEF Regions, Gpa, base_gpa, pt_gpa
<1>4. {m[g] : g \in DOMAIN m} = Regions
  BY <1>2, <1>3 DEF Regions
<1> QED
  BY <1>3, <1>4 DEF m

-----------------------------------------------------------------------------
(* The inductive invariant. *)

\* Where the two processes can be in their arms.
Phase ==
  /\ proc \in {"record", "replay"}
  /\ status \in {"executing", "running", "dropping", "ended", "aborted"}
  /\ step \in Nat
  /\ status = "executing" => step \in 1..(IF proc = "record" THEN 15 ELSE 8)
  /\ status = "running" => step = IF proc = "record" THEN 14 ELSE 7
  /\ status \in {"dropping", "ended"} => step = IF proc = "record" THEN 16 ELSE 9

InArm == status \in {"executing", "running"}

\* The regions that the record arm has mapped before statement k.
MappedBefore(k) ==
  {r \in Regions : \/ r = "image" /\ k > 4
                   \/ r = "stack" /\ k > 6
                   \/ r = "null" /\ k > 8
                   \/ r = "page_table" /\ k > 10}

\* The image is complete after the first statement, and not empty once mapped.
Loaded ==
  proc = "replay" \/ step > 1 => section = Len(pe.sections) + 1

NotEmpty ==
  proc = "replay" \/ step > 4 => image_pages > 0

\* The mapping that the record arm builds up.
Building ==
  proc = "record" /\ InArm =>
    /\ DOMAIN ept \subseteq Nat
    /\ step > 10 => TablesMapped(ept)
    /\ Fits(image_pages) => Maps(ept, MappedBefore(step), image_pages)

\* The snapshot, and the mapping under which the recorded guest ran.
Captured ==
  proc = "replay" \/ step > 11 => memory_regions = capture_memory_layout(image_pages)

Recorded ==
  proc = "replay" \/ step > 14 \/ status = "running" =>
    (Fits(image_pages) => Maps(recorded, Regions, image_pages))

\* The regions that restore_snapshot has mapped.
Restored == {memory_regions[g] : g \in DOMAIN memory_regions \ todo}

\* The mapping that the replay arm builds up.
Restoring ==
  proc = "replay" /\ InArm =>
    /\ step = 1 => ept = Unmapped
    /\ step > 1 => todo \subseteq DOMAIN memory_regions
    /\ step \in 2..6 /\ Fits(image_pages) => Maps(ept, Restored, image_pages)
    /\ step > 6 /\ Fits(image_pages) => Maps(ept, Regions, image_pages)

HostInv ==
  /\ LoaderInv /\ Phase /\ Loaded /\ NotEmpty
  /\ Building /\ Captured /\ Recorded /\ Restoring

(* The image is a number of pages.                                           *)
LEMMA ImagePages ==
  ASSUME LoaderInv
  PROVE  /\ image_pages \in Nat
         /\ aligned_size = 8 * image_pages
<1>1. pe.size_of_image \in Nat
  BY FileShape DEF LoaderInv
<1> DEFINE size == AlignUp(pe.size_of_image)
<1>2. size \in Nat /\ size = 8 * (size \div 8)
  BY <1>1, AlignUpFacts
<1> HIDE DEF size
<1>3. size \div 8 \in Nat
  BY <1>2
<1>4. aligned_size = size /\ image_pages = size \div 8
  BY DEF image_pages, aligned_size, PAGE, size
<1> QED
  BY <1>2, <1>3, <1>4

(* Which statement of which arm an action executes.                          *)
LEMMA Statements ==
  ASSUME Phase, NEW kind, NEW of, At(kind, of)
  PROVE  /\ <<kind, of>> = <<"load", "image">> => proc = "record" /\ step = 1
         /\ <<kind, of>> = <<"map", "image">> => proc = "record" /\ step = 4
         /\ <<kind, of>> = <<"map", "stack">> => proc = "record" /\ step = 6
         /\ <<kind, of>> = <<"map", "null">> => proc = "record" /\ step = 8
         /\ <<kind, of>> = <<"map", "page_table">> => proc = "record" /\ step = 10
         /\ <<kind, of>> = <<"capture", "snapshot">> => proc = "record" /\ step = 11
         /\ <<kind, of>> = <<"run", "guest">> => step = IF proc = "record" THEN 14 ELSE 7
         /\ <<kind, of>> = <<"new", "snapshot">> => proc = "replay" /\ step = 1
         /\ <<kind, of>> = <<"restore", "snapshot">> => proc = "replay" /\ step = 6
         /\ (kind = "new" /\ of # "snapshot") \/ kind = "call" =>
              IF proc = "record" THEN step \in {2, 3, 5, 7, 9, 12, 13, 15}
                                 ELSE step \in {2, 3, 4, 5, 8}
<1>1. CASE proc = "record"
  <2>1. step \in 1..15 /\ <<kind, of>> = RecordArm[step]
    BY <1>1 DEF Phase, At, Arm
  <2> QED
    BY <1>1, <2>1 DEF RecordArm
<1>2. CASE proc = "replay"
  <2>1. step \in 1..8 /\ <<kind, of>> = ReplayArm[step]
    BY <1>2 DEF Phase, At, Arm
  <2> QED
    BY <1>2, <2>1 DEF ReplayArm
<1> QED
  BY <1>1, <1>2 DEF Phase

(* Going on to the next statement keeps within the arm.                      *)
LEMMA ProceedPhase ==
  ASSUME Phase, InArm, Proceed, proc' = proc
  PROVE  /\ Phase' /\ step' = step + 1 /\ status' \in {"executing", "dropping"}
         /\ step \in 1..15 /\ (proc = "replay" => step \in 1..8)
         /\ status' = "dropping" <=> step = IF proc = "record" THEN 15 ELSE 8
<1>1. Len(Arm) = IF proc = "record" THEN 15 ELSE 8
  BY DEF Arm, RecordArm, ReplayArm
<1> QED
  BY <1>1 DEF Phase, InArm, Proceed

(* A step that leaves the loader alone leaves its invariant alone.           *)
LEMMA LoaderKept ==
  ASSUME LoaderInv, UNCHANGED loaderVars
  PROVE  /\ LoaderInv' /\ image_pages' = image_pages
         /\ pe' = pe /\ section' = section /\ image' = image
<1>1. pe' = pe /\ section' = section /\ image' = image
  BY DEF loaderVars
<1> QED
  BY <1>1 DEF LoaderInv, SectionsPlaced, PlacedUpTo, aligned_size, image_pages

-----------------------------------------------------------------------------
(* Steps. *)

(* A statement that maps nothing and captures nothing.                       *)
LEMMA PlainStatementInv ==
  ASSUME HostInv, InArm, Proceed,
         UNCHANGED <<loaderVars, proc, ept, memory_regions, todo, recorded>>,
         proc = "record" => step \in {1, 2, 3, 5, 7, 9, 12, 13, 14, 15},
         proc = "record" /\ step = 1 => ImageMapped,
         step = 14 => status = "running",
         proc = "replay" => step > 1,
         proc = "replay" /\ step = 6 => todo = {}
  PROVE  HostInv'
<1>1. /\ LoaderInv' /\ image_pages' = image_pages /\ image_pages \in Nat
      /\ pe' = pe /\ section' = section
  BY LoaderKept, ImagePages DEF HostInv
<1>2. /\ proc' = proc /\ ept' = ept /\ memory_regions' = memory_regions
      /\ todo' = todo /\ recorded' = recorded
  OBVIOUS
<1>3. /\ Phase' /\ step' = step + 1 /\ status' \in {"executing", "dropping"}
      /\ step \in 1..15 /\ (proc = "replay" => step \in 1..8)
      /\ proc \in {"record", "replay"}
  BY <1>2, ProceedPhase DEF HostInv, Phase
<1>4. Loaded' /\ NotEmpty'
  BY <1>1, <1>2, <1>3 DEF HostInv, Loaded, NotEmpty, ImageMapped
<1>5. Captured' /\ Recorded'
  BY <1>1, <1>2, <1>3 DEF HostInv, Captured, Recorded
<1>6. Building'
  <2> SUFFICES ASSUME proc = "record" PROVE Building'
    BY <1>2 DEF Building
  <2>1. MappedBefore(step') = MappedBefore(step)
    BY <1>3 DEF MappedBefore
  <2> QED
    BY <1>1, <1>2, <1>3, <2>1 DEF HostInv, Building, InArm
<1>7. Restoring'
  <2> SUFFICES ASSUME proc = "replay" PROVE Restoring'
    BY <1>2 DEF Restoring
  <2>1. step \in 2..8 /\ Restored' = Restored /\ Restoring /\ InArm
    BY <1>2, <1>3 DEF Restored, HostInv
  <2>2. CASE step # 6
    BY <1>1, <1>2, <1>3, <2>1, <2>2 DEF Restoring, InArm
  <2>3. CASE step = 6
    <3>1. ASSUME Fits(image_pages) PROVE Restored = Regions
      <4>1. Restored = {memory_regions[g] : g \in DOMAIN memory_regions}
        BY <2>3 DEF Restored
      <4>2. image_pages > 0 /\ memory_regions = capture_memory_layout(image_pages)
        BY DEF HostInv, NotEmpty, Captured
      <4> QED
        BY <1>1, <3>1, <4>1, <4>2, CapturedLayout
    <3> QED
      BY <1>1, <1>2, <1>3, <2>1, <2>3, <3>1 DEF Restoring, InArm
  <2> QED
    BY <2>2, <2>3
<1> QED
  BY <1>1, <1>3, <1>4, <1>5, <1>6, <1>7 DEF HostInv

(* The end of an arm, and the abort of either process.                       *)
LEMMA EndOfArmInv ==
  ASSUME HostInv, UNCHANGED <<loaderVars, proc, step, memory_regions, todo, recorded>>,
         \/ status' = "aborted"
         \/ status = "dropping" /\ status' \in {"dropping", "ended"}
  PROVE  HostInv'
<1>1. /\ LoaderInv' /\ image_pages' = image_pages /\ pe' = pe /\ section' = section
  BY LoaderKept DEF HostInv
<1>2. ~InArm'
  BY DEF InArm
<1> QED
  BY <1>1, <1>2 DEF HostInv, Phase, Loaded, NotEmpty, Building, Captured, Recorded, Restoring

(* Loading the image. *)
LEMMA LoadInv ==
  ASSUME HostInv, LoadAllocate \/ LoadSection
  PROVE  HostInv'
<1>1. /\ proc = "record" /\ step = 1 /\ LoaderInv /\ Phase
  BY Statements DEF HostInv, LoadAllocate, LoadSection
<1>2. /\ proc' = proc /\ status' = status /\ step' = step /\ ept' = ept
      /\ memory_regions' = memory_regions /\ todo' = todo /\ recorded' = recorded
      /\ status = "executing"
  BY DEF LoadAllocate, LoadSection, hostVars, processVars, At
<1>3. LoaderInv' /\ pe' = pe
  BY <1>1, AllocateInv, CopySectionInv DEF LoadAllocate, LoadSection, Allocate, CopySection
<1>4. image_pages' = image_pages
  BY <1>3 DEF image_pages, aligned_size
<1> QED
  BY <1>1, <1>2, <1>3, <1>4
     DEF HostInv, Phase, Loaded, NotEmpty, Building, Captured, Recorded, Restoring, InArm

(* Mapping a region of the record arm: a later mapping never covers the page *)
(* tables, as they come last, and adds a region when the regions are apart.  *)
LEMMA MapRegionInv ==
  ASSUME HostInv, NEW r \in Regions, MapRegion(r)
  PROVE  HostInv'
<1> DEFINE n == image_pages
           k == CASE r = "image" -> 4 [] r = "stack" -> 6 [] r = "null" -> 8 [] OTHER -> 10
<1>1. /\ At("map", r) /\ Pages(n)[r] > 0 /\ Proceed
      /\ ept' = map_gpa_range(ept, Gpa(n)[r], r, Pages(n)[r])
      /\ proc' = proc /\ memory_regions' = memory_regions
      /\ todo' = todo /\ recorded' = recorded /\ status = "executing"
  BY DEF MapRegion, At
<1>2. /\ LoaderInv' /\ image_pages' = n /\ n \in Nat /\ pe' = pe /\ section' = section
  BY LoaderKept, ImagePages DEF HostInv, MapRegion
<1>3. proc = "record" /\ step = k
  BY <1>1, Statements DEF HostInv, Regions
<1>4. Phase' /\ step' = k + 1
  BY <1>1, <1>3, ProceedPhase DEF HostInv, InArm
<1>5. k \in {4, 6, 8, 10}
  OBVIOUS
<1>6. Loaded' /\ Captured' /\ Recorded' /\ Restoring'
  <2>1. status' # "running"
    BY <1>1 DEF Proceed
  <2> QED
    BY <1>1, <1>2, <1>3, <1>4, <1>5, <2>1 DEF HostInv, Loaded, Captured, Recorded, Restoring
<1>7. NotEmpty'
  <2>1. r = "image" => n > 0
    BY <1>1, <1>2 DEF Pages
  <2>2. r # "image" => step > 4
    BY <1>3
  <2> QED
    BY <1>1, <1>2, <1>3, <1>4, <2>1, <2>2 DEF HostInv, NotEmpty
<1>8. Building'
  <2>1. Building /\ InArm
    BY <1>1 DEF HostInv, InArm
  <2>2. Gpa(n)[r] \in Nat /\ Pages(n)[r] \in Nat
    BY <1>2 DEF Gpa, Pages, Regions, base_gpa, pt_gpa, stack_size
  <2>3. DOMAIN ept' \subseteq Nat
    BY <1>1, <1>3, <2>1, <2>2 DEF Building, map_gpa_range, Span
  <2>4. step' > 10 => TablesMapped(ept')
    <3> SUFFICES ASSUME step' > 10 PROVE TablesMapped(ept')
      OBVIOUS
    <3>1. r = "page_table"
      BY <1>4 DEF Regions
    <3>2. Gpa(n)[r] = pt_gpa /\ Pages(n)[r] = 3
      BY <3>1 DEF Gpa, Pages
    <3> QED
      BY <1>1, <3>1, <3>2 DEF TablesMapped, map_gpa_range, Span, pt_gpa
  <2>5. MappedBefore(step') = MappedBefore(step) \cup {r}
    <3> HIDE DEF n
    <3> QED
      BY <1>3, <1>4 DEF MappedBefore, Regions
  <2>6. Fits(n) => Maps(ept', MappedBefore(step'), n)
    <3>1. MappedBefore(step) \in SUBSET Regions
      BY DEF MappedBefore
    <3> QED
      BY <1>1, <1>2, <1>3, <2>1, <2>5, <3>1, MapsMore DEF Building
  <2> QED
    BY <1>2, <2>3, <2>4, <2>6 DEF Building
<1> QED
  BY <1>2, <1>4, <1>6, <1>7, <1>8 DEF HostInv

(* Capturing the snapshot.                                                   *)
LEMMA CaptureInv ==
  ASSUME HostInv, Capture
  PROVE  HostInv'
<1>1. /\ At("capture", "snapshot") /\ Proceed /\ status = "executing"
      /\ memory_regions' = capture_memory_layout(image_pages)
      /\ proc' = proc /\ ept' = ept /\ todo' = todo /\ recorded' = recorded
  BY DEF Capture, At, processVars
<1>2. /\ LoaderInv' /\ image_pages' = image_pages /\ image_pages \in Nat
      /\ pe' = pe /\ section' = section
  BY LoaderKept, ImagePages DEF HostInv, Capture
<1>3. proc = "record" /\ step = 11
  BY <1>1, Statements DEF HostInv
<1>4. Phase' /\ step' = 12 /\ status' # "running"
  BY <1>1, <1>3, ProceedPhase DEF HostInv, InArm
<1>5. MappedBefore(step') = MappedBefore(step)
  BY <1>3, <1>4 DEF MappedBefore
<1> QED
  BY <1>1, <1>2, <1>3, <1>4, <1>5
     DEF HostInv, Loaded, NotEmpty, Captured, Recorded, Restoring, Building, InArm

(* The guest starts: in the record arm every region is mapped by now.        *)
LEMMA RunGuestInv ==
  ASSUME HostInv, RunGuest
  PROVE  HostInv'
<1>1. /\ At("run", "guest") /\ status = "executing" /\ status' = "running"
      /\ recorded' = IF proc = "record" THEN ept ELSE recorded
      /\ proc' = proc /\ step' = step /\ ept' = ept /\ todo' = todo
      /\ memory_regions' = memory_regions
  BY DEF RunGuest, At, processVars
<1>2. /\ LoaderInv' /\ image_pages' = image_pages /\ pe' = pe /\ section' = section
  BY LoaderKept DEF HostInv, RunGuest
<1>3. step = IF proc = "record" THEN 14 ELSE 7
  BY <1>1, Statements DEF HostInv
<1>4. Phase' /\ Loaded' /\ NotEmpty' /\ Captured'
  BY <1>1, <1>2, <1>3 DEF HostInv, Phase, Loaded, NotEmpty, Captured
<1>5. Building' /\ Restoring'
  <2>1. Restored' = Restored
    BY <1>1 DEF Restored
  <2> QED
    BY <1>1, <1>2, <2>1 DEF HostInv, Building, Restoring, InArm
<1>6. Recorded'
  <2>1. CASE proc = "record"
    <3>1. MappedBefore(14) = Regions
      BY DEF MappedBefore, Regions
    <3> QED
      BY <1>1, <1>2, <1>3, <2>1, <3>1 DEF HostInv, Building, InArm, Recorded
  <2>2. CASE proc # "record"
    BY <1>1, <1>2, <2>2 DEF HostInv, Recorded, Phase
  <2> QED
    BY <2>1, <2>2
<1> QED
  BY <1>2, <1>4, <1>5, <1>6 DEF HostInv

(* A replay starts with nothing mapped, and a recording behind it.           *)
LEMMA StartReplayInv ==
  ASSUME HostInv, StartReplay
  PROVE  HostInv'
<1>1. /\ proc = "record" /\ status = "ended" /\ proc' = "replay" /\ status' = "executing"
      /\ step' = 1 /\ ept' = Unmapped /\ memory_regions' = memory_regions
      /\ todo' = todo /\ recorded' = recorded
  BY DEF StartReplay
<1>2. /\ LoaderInv' /\ image_pages' = image_pages /\ pe' = pe /\ section' = section
  BY LoaderKept DEF HostInv, StartReplay
<1>3. step = 16
  BY <1>1 DEF HostInv, Phase
<1> QED
  BY <1>1, <1>2, <1>3
     DEF HostInv, Phase, Loaded, NotEmpty, Building, Captured, Recorded, Restoring

(* The archive is loaded: all regions are still to be mapped.                *)
LEMMA LoadArchiveInv ==
  ASSUME HostInv, LoadArchive
  PROVE  HostInv'
<1>1. /\ At("new", "snapshot") /\ Proceed /\ status = "executing"
      /\ todo' = DOMAIN memory_regions /\ proc' = proc /\ ept' = ept
      /\ memory_regions' = memory_regions /\ recorded' = recorded
  BY DEF LoadArchive, At
<1>2. /\ LoaderInv' /\ image_pages' = image_pages /\ image_pages \in Nat
      /\ pe' = pe /\ section' = section
  BY LoaderKept, ImagePages DEF HostInv, LoadArchive
<1>3. proc = "replay" /\ step = 1
  BY <1>1, Statements DEF HostInv
<1>4. Phase' /\ step' = 2
  BY <1>1, <1>3, ProceedPhase DEF HostInv, InArm
<1>5. Restored' = {}
  BY <1>1 DEF Restored
<1>6. ept' = Unmapped
  BY <1>1, <1>3 DEF HostInv, Restoring, InArm
<1>7. Restoring'
  BY <1>1, <1>2, <1>4, <1>5, <1>6, MapsNothing DEF Restoring
<1> QED
  BY <1>1, <1>2, <1>3, <1>4, <1>7
     DEF HostInv, Loaded, NotEmpty, Building, Captured, Recorded

(* restore_snapshot maps one more region, whichever the HashMap yields.      *)
LEMMA RestoreRegionInv ==
  ASSUME HostInv, RestoreRegion
  PROVE  HostInv'
<1> DEFINE n == image_pages
<1>1. /\ At("restore", "snapshot") /\ status = "executing" /\ status' = status
      /\ step' = step /\ proc' = proc /\ memory_regions' = memory_regions
      /\ recorded' = recorded
  BY DEF RestoreRegion, At
<1>2. /\ LoaderInv' /\ image_pages' = n /\ n \in Nat /\ pe' = pe /\ section' = section
  BY LoaderKept, ImagePages DEF HostInv, RestoreRegion
<1>3. proc = "replay" /\ step = 6
  BY <1>1, Statements DEF HostInv
<1>4. PICK g \in todo :
        /\ ept' = map_gpa_range(ept, g, memory_regions[g], Pages(n)[memory_regions[g]])
        /\ todo' = todo \ {g}
  BY DEF RestoreRegion
<1>5. todo \subseteq DOMAIN memory_regions
  BY <1>1, <1>3 DEF HostInv, Restoring, InArm
<1>6. ASSUME Fits(n) PROVE Maps(ept', Restored', n)
  <2>1. n > 0 /\ memory_regions = capture_memory_layout(n)
    BY <1>3 DEF HostInv, NotEmpty, Captured
  <2>2. /\ \A h \in DOMAIN memory_regions :
             memory_regions[h] \in Regions /\ Gpa(n)[memory_regions[h]] = h
    BY <1>2, <1>6, <2>1, CapturedLayout
  <2>3. Restored \in SUBSET Regions
    BY <2>2 DEF Restored
  <2>4. Maps(ept, Restored, n)
    BY <1>1, <1>3, <1>6 DEF HostInv, Restoring, InArm
  <2>5. Restored' = Restored \cup {memory_regions[g]}
    BY <1>1, <1>4, <1>5 DEF Restored
  <2>6. g \in DOMAIN memory_regions
    BY <1>5
  <2> HIDE DEF n
  <2> DEFINE r == memory_regions[g]
  <2>7. r \in Regions /\ Gpa(n)[r] = g
    BY <2>2, <2>6
  <2>8. ept' = map_gpa_range(ept, Gpa(n)[r], r, Pages(n)[r])
    BY <1>4, <2>7
  <2> HIDE DEF r
  <2>9. Maps(ept', Restored \cup {r}, n)
    BY <1>2, <1>6, <2>3, <2>4, <2>7, <2>8, MapsMore
  <2> QED
    BY <2>5, <2>9 DEF r
<1>7. Restoring'
  BY <1>1, <1>2, <1>3, <1>4, <1>5, <1>6 DEF Restoring
<1> QED
  BY <1>1, <1>2, <1>3, <1>7
     DEF HostInv, Phase, Loaded, NotEmpty, Building, Captured, Recorded

-----------------------------------------------------------------------------
(* The theorems. *)

(* The statements that map nothing, each as an instance of PlainStatementInv. *)
LEMMA PlainInv ==
  ASSUME HostInv,
         \/ LoadReturns \/ NewPartition \/ configure_interceptions \/ NewVcpu
         \/ \E r \in {"stack", "null", "page_table"} : NewMemory(r)
         \/ Call \/ GuestStops \/ RestoreReturns
  PROVE  HostInv'
<1>1. /\ Proceed
      /\ UNCHANGED <<loaderVars, proc, ept, memory_regions, todo, recorded>>
      /\ status \in {"executing", "running"}
  BY DEF LoadReturns, NewPartition, configure_interceptions, NewVcpu, NewMemory, Call,
         GuestStops, RestoreReturns, At, processVars
<1>2. Phase
  BY DEF HostInv
<1>3. CASE LoadReturns
  BY <1>1, <1>2, <1>3, Statements, PlainStatementInv DEF LoadReturns, InArm
<1>4. CASE RestoreReturns
  BY <1>1, <1>2, <1>4, Statements, PlainStatementInv DEF RestoreReturns, InArm
<1>5. CASE GuestStops
  BY <1>1, <1>2, <1>5, PlainStatementInv DEF GuestStops, Phase, InArm
<1>6. CASE \/ NewPartition \/ configure_interceptions \/ NewVcpu
           \/ \E r \in {"stack", "null", "page_table"} : NewMemory(r)
           \/ Call
  <2>1. PICK kind \in {"new", "call"}, of \in {"partition", "configure_interceptions", "vcpu",
                "stack", "null", "page_table", "registers", "save", "verify"} : At(kind, of)
    BY <1>6 DEF NewPartition, configure_interceptions, NewVcpu, NewMemory, Call
  <2>2. /\ proc = "record" => step \in {2, 3, 5, 7, 9, 12, 13, 15}
        /\ proc = "replay" => step \in {2, 3, 4, 5, 8}
    BY <1>2, <2>1, Statements DEF Phase
  <2>3. proc \in {"record", "replay"}
    BY <1>2 DEF Phase
  <2> QED
    BY <1>1, <2>2, <2>3, PlainStatementInv DEF InArm
<1> QED
  BY <1>3, <1>4, <1>5, <1>6

(* The inductive invariant holds in every reachable state.                   *)
LEMMA HostInvariance == Spec => []HostInv
<1>1. Init => HostInv
  <2> SUFFICES ASSUME Init PROVE HostInv
    OBVIOUS
  <2>1. LoaderInv /\ image_pages \in Nat
    BY LoaderInitInv, ImagePages DEF Init
  <2>2. MappedBefore(1) = {}
    BY DEF MappedBefore
  <2>3. Building
    BY <2>1, <2>2, MapsNothing DEF Init, Building, Unmapped
  <2> QED
    BY <2>1, <2>3 DEF Init, HostInv, Phase, Loaded, NotEmpty, Captured, Recorded, Restoring
<1>2. HostInv /\ [Next]_vars => HostInv'
  <2> SUFFICES ASSUME HostInv, [Next]_vars PROVE HostInv'
    OBVIOUS
  <2>1. CASE LoadAllocate \/ LoadSection
    BY <2>1, LoadInv
  <2>2. CASE \/ LoadReturns \/ NewPartition \/ configure_interceptions \/ NewVcpu
             \/ \E r \in {"stack", "null", "page_table"} : NewMemory(r)
             \/ Call \/ GuestStops \/ RestoreReturns
    BY <2>2, PlainInv
  <2>3. CASE \E r \in Regions : MapRegion(r)
    BY <2>3, MapRegionInv
  <2>4. CASE DropVcpu \/ DropPartition \/ DropMemory \/ End \/ Abort
    <3>1. /\ UNCHANGED <<loaderVars, proc, step, memory_regions, todo, recorded>>
          /\ \/ status' = "aborted"
             \/ status = "dropping" /\ status' \in {"dropping", "ended"}
      BY <2>4 DEF DropVcpu, DropPartition, DropMemory, Drop, End, Abort
    <3> QED
      BY <3>1, EndOfArmInv
  <2>5. CASE UNCHANGED vars
    <3>1. /\ UNCHANGED loaderVars /\ proc' = proc /\ status' = status /\ step' = step
          /\ ept' = ept /\ memory_regions' = memory_regions /\ todo' = todo
          /\ recorded' = recorded
      BY <2>5 DEF vars, hostVars, processVars
    <3>2. /\ LoaderInv' /\ image_pages' = image_pages /\ pe' = pe /\ section' = section
      BY <3>1, LoaderKept DEF HostInv
    <3> QED
      BY <3>1, <3>2 DEF HostInv, Phase, Loaded, NotEmpty, Building, Captured, Recorded,
                        Restoring, Restored, InArm
  <2> QED
    BY <2>1, <2>2, <2>3, <2>4, <2>5, CaptureInv, RunGuestInv, LoadArchiveInv,
       RestoreRegionInv, StartReplayInv DEF Next
<1> QED
  BY <1>1, <1>2, PTL DEF Spec

(* map_into_memory puts every section of every well-formed file at its       *)
(* address, and leaves the rest of the buffer zero.                          *)
THEOREM SectionsCorrect == Spec => []SectionsPlaced
<1>1. HostInv => SectionsPlaced
  BY DEF HostInv, LoaderInv
<1> QED
  BY <1>1, HostInvariance, PTL

(* restore_snapshot restores the memory of the recorded guest, for images of *)
(* every size up to 240 pages and in whatever order it maps the regions.     *)
THEOREM RestoreCorrect == Spec => []RestoresWhenApart
<1>1. HostInv => RestoresWhenApart
  <2> SUFFICES ASSUME HostInv, Fits(image_pages), proc = "replay", status = "running"
               PROVE  ept = recorded
    BY DEF RestoresWhenApart, RestoresGuestMemory
  <2>1. image_pages \in Nat /\ step = 7
    BY ImagePages DEF HostInv, Phase
  <2>2. Maps(ept, Regions, image_pages) /\ Maps(recorded, Regions, image_pages)
    BY <2>1 DEF HostInv, Restoring, Recorded, InArm
  <2> QED
    BY <2>1, <2>2, MapsUnique
<1> QED
  BY <1>1, HostInvariance, PTL

-----------------------------------------------------------------------------
(* Which pages are mapped, whether the regions are apart or not. *)

PagesOf(S, n) == UNION {SpanOf(r, n) : r \in S}

\* In the record arm: those of the regions mapped so far.
PagesBuilt ==
  proc = "record" /\ InArm => DOMAIN ept = PagesOf(MappedBefore(step), image_pages)

\* Under the recorded guest: those of all regions.
PagesRecorded ==
  proc = "replay" \/ step > 14 \/ status = "running" =>
    DOMAIN recorded = PagesOf(Regions, image_pages)

\* In the replay arm: those of the regions whose key has been taken.
PagesRestored ==
  proc = "replay" /\ InArm /\ step > 1 => DOMAIN ept = PagesOf(Restored, image_pages)

AllTaken == proc = "replay" /\ InArm /\ step > 6 => todo = {}

PagesInv == PagesBuilt /\ PagesRecorded /\ PagesRestored /\ AllTaken

(* map_gpa_range adds the pages of its region.                               *)
LEMMA MapPages ==
  ASSUME NEW n, NEW S, NEW r, NEW f, DOMAIN f = PagesOf(S, n)
  PROVE  DOMAIN map_gpa_range(f, Gpa(n)[r], r, Pages(n)[r]) = PagesOf(S \cup {r}, n)
<1>1. DOMAIN map_gpa_range(f, Gpa(n)[r], r, Pages(n)[r]) = DOMAIN f \cup SpanOf(r, n)
  BY DEF map_gpa_range, SpanOf
<1> QED
  BY <1>1 DEF PagesOf

(* Each region of the snapshot is under its own address, and none is missing *)
(* but the stack of an image of 256 pages.                                   *)
LEMMA CapturedRegions ==
  ASSUME NEW n \in Nat, n > 0
  PROVE  LET m == capture_memory_layout(n) IN
         /\ \A g \in DOMAIN m : m[g] \in Regions /\ Gpa(n)[m[g]] = g
         /\ {m[g] : g \in DOMAIN m} = IF n = 256 THEN Regions \ {"stack"} ELSE Regions
<1> DEFINE m == capture_memory_layout(n)
<1>1. DOMAIN m = {0, 256, 256 + n, 512}
  BY DEF capture_memory_layout, capture_region, NoRegions, Gpa, base_gpa, pt_gpa
<1>2. /\ m[0] = "null" /\ m[256] = "image" /\ m[512] = "page_table"
      /\ n # 256 => m[256 + n] = "stack"
  BY DEF capture_memory_layout, capture_region, NoRegions, Gpa, base_gpa, pt_gpa
<1> HIDE DEF m
<1>3. \A g \in DOMAIN m : m[g] \in Regions /\ Gpa(n)[m[g]] = g
  BY <1>1, <1>2 DEF Regions, Gpa, base_gpa, pt_gpa
<1>4. CASE n = 256
  <2>1. DOMAIN m = {0, 256, 512}
    BY <1>1, <1>4
  <2> QED
    BY <1>2, <1>3, <1>4, <2>1 DEF Regions, m
<1>5. CASE n # 256
  BY <1>1, <1>2, <1>3, <1>5 DEF Regions, m
<1> QED
  BY <1>4, <1>5

(* A statement that maps nothing.                                            *)
LEMMA PlainPages ==
  ASSUME HostInv, HostInv', PagesInv, image_pages' = image_pages,
         \/ LoadAllocate \/ LoadSection \/ Capture
         \/ LoadReturns \/ NewPartition \/ configure_interceptions \/ NewVcpu
         \/ \E r \in {"stack", "null", "page_table"} : NewMemory(r)
         \/ Call \/ GuestStops \/ RestoreReturns
  PROVE  PagesInv'
<1>1. /\ proc' = proc /\ ept' = ept /\ todo' = todo /\ recorded' = recorded
      /\ InArm /\ status' # "running" /\ status' \in {"executing", "dropping"}
      /\ proc = "replay" => memory_regions' = memory_regions
  <2>1. CASE Capture
    <3>1. proc = "record"
      BY <2>1, Statements DEF Capture, HostInv
    <3> QED
      BY <2>1, <3>1 DEF Capture, At, Proceed, processVars, InArm
  <2>2. CASE LoadAllocate \/ LoadSection
    BY <2>2 DEF LoadAllocate, LoadSection, At, hostVars, processVars, InArm
  <2>3. CASE \/ LoadReturns \/ NewPartition \/ configure_interceptions \/ NewVcpu
             \/ \E r \in {"stack", "null", "page_table"} : NewMemory(r)
             \/ Call \/ GuestStops \/ RestoreReturns
    BY <2>3 DEF LoadReturns, NewPartition, configure_interceptions, NewVcpu, NewMemory,
                Call, GuestStops, RestoreReturns, At, Proceed, processVars, InArm
  <2> QED
    BY <2>1, <2>2, <2>3
<1>2. /\ step \in Nat /\ proc \in {"record", "replay"}
      /\ proc = "record" => /\ step' = step \/ step' = step + 1
                            /\ step' # step => step \notin {4, 6, 8, 10}
                            /\ step = 14 => status = "running"
      /\ proc = "replay" => /\ step' = step + 1 /\ step > 1
                            /\ step = 6 => todo = {}
  <2>1. Phase
    BY DEF HostInv
  <2>2. CASE LoadAllocate \/ LoadSection
    BY <2>1, <2>2, Statements DEF LoadAllocate, LoadSection, At, hostVars, Phase
  <2>3. CASE LoadReturns
    BY <2>1, <2>3, Statements DEF LoadReturns, Proceed, Phase
  <2>4. CASE Capture
    BY <2>1, <2>4, Statements DEF Capture, Proceed, Phase
  <2>5. CASE RestoreReturns
    BY <2>1, <2>5, Statements DEF RestoreReturns, Proceed, Phase
  <2>6. CASE GuestStops
    BY <2>1, <2>6 DEF GuestStops, Proceed, Phase
  <2>7. CASE \/ NewPartition \/ configure_interceptions \/ NewVcpu
             \/ \E r \in {"stack", "null", "page_table"} : NewMemory(r)
             \/ Call
    <3>1. PICK kind \in {"new", "call"}, of \in {"partition", "configure_interceptions",
                "vcpu", "stack", "null", "page_table", "registers", "save", "verify"} :
                At(kind, of)
      BY <2>7 DEF NewPartition, configure_interceptions, NewVcpu, NewMemory, Call
    <3>2. /\ proc = "record" => step \in {2, 3, 5, 7, 9, 12, 13, 15}
          /\ proc = "replay" => step \in {2, 3, 4, 5, 8}
      BY <2>1, <3>1, Statements DEF Phase
    <3>3. Proceed
      BY <2>7 DEF NewPartition, configure_interceptions, NewVcpu, NewMemory, Call
    <3> QED
      BY <2>1, <3>2, <3>3 DEF Proceed, Phase
  <2> QED
    BY <2>2, <2>3, <2>4, <2>5, <2>6, <2>7
<1>3. PagesBuilt'
  <2> SUFFICES ASSUME proc = "record" PROVE PagesBuilt'
    BY <1>1 DEF PagesBuilt
  <2>1. MappedBefore(step') = MappedBefore(step)
    BY <1>2 DEF MappedBefore
  <2> QED
    BY <1>1, <2>1 DEF PagesInv, PagesBuilt
<1>4. PagesRecorded'
  BY <1>1, <1>2 DEF PagesInv, PagesRecorded
<1>5. PagesRestored' /\ AllTaken'
  <2> SUFFICES ASSUME proc = "replay" PROVE PagesRestored' /\ AllTaken'
    BY <1>1 DEF PagesRestored, AllTaken
  <2>1. Restored' = Restored
    BY <1>1 DEF Restored
  <2> QED
    BY <1>1, <1>2, <2>1 DEF PagesInv, PagesRestored, AllTaken
<1> QED
  BY <1>3, <1>4, <1>5 DEF PagesInv

(* Mapping a region of the record arm.                                       *)
LEMMA MapRegionPages ==
  ASSUME HostInv, HostInv', PagesInv, image_pages' = image_pages,
         NEW r \in Regions, MapRegion(r)
  PROVE  PagesInv'
<1> DEFINE n == image_pages
           k == CASE r = "image" -> 4 [] r = "stack" -> 6 [] r = "null" -> 8 [] OTHER -> 10
<1>1. /\ At("map", r) /\ Proceed /\ proc' = proc /\ recorded' = recorded
      /\ ept' = map_gpa_range(ept, Gpa(n)[r], r, Pages(n)[r]) /\ status = "executing"
  BY DEF MapRegion, At
<1>2. proc = "record" /\ step = k
  BY <1>1, Statements DEF HostInv, Regions
<1>3. k \in {4, 6, 8, 10} /\ step' = k + 1 /\ status' # "running"
  BY <1>1, <1>2 DEF Proceed
<1>4. MappedBefore(step') = MappedBefore(step) \cup {r}
  <2> HIDE DEF n
  <2> QED
    BY <1>2, <1>3 DEF MappedBefore, Regions
<1>5. DOMAIN ept = PagesOf(MappedBefore(step), n)
  BY <1>1, <1>2 DEF PagesInv, PagesBuilt, InArm
<1> HIDE DEF k
<1>6. PagesBuilt'
  <2> HIDE DEF n
  <2>1. DOMAIN ept' = PagesOf(MappedBefore(step) \cup {r}, n)
    BY <1>1, <1>5, MapPages
  <2> QED
    BY <1>4, <2>1 DEF PagesBuilt, n
<1>7. PagesRecorded' /\ PagesRestored' /\ AllTaken'
  BY <1>1, <1>2, <1>3 DEF PagesRecorded, PagesRestored, AllTaken
<1> QED
  BY <1>6, <1>7 DEF PagesInv

(* The start of a guest and of a replay, and the end of either process.      *)
LEMMA RunPages ==
  ASSUME HostInv, HostInv', PagesInv, image_pages' = image_pages,
         \/ RunGuest \/ StartReplay \/ Abort \/ End
         \/ DropVcpu \/ DropPartition \/ DropMemory
  PROVE  PagesInv'
<1>1. CASE RunGuest
  <2>1. /\ At("run", "guest") /\ status = "executing" /\ status' = "running"
        /\ recorded' = IF proc = "record" THEN ept ELSE recorded
        /\ proc' = proc /\ step' = step /\ ept' = ept /\ todo' = todo
        /\ memory_regions' = memory_regions /\ proc \in {"record", "replay"}
    BY <1>1 DEF RunGuest, At, processVars, HostInv, Phase
  <2>2. step = IF proc = "record" THEN 14 ELSE 7
    BY <2>1, Statements DEF HostInv
  <2>3. MappedBefore(14) = Regions
    BY DEF MappedBefore, Regions
  <2>4. Restored' = Restored /\ MappedBefore(step)' = MappedBefore(step)
    BY <2>1 DEF Restored, MappedBefore
  <2>5. PagesRecorded'
    BY <2>1, <2>2, <2>3 DEF PagesInv, PagesBuilt, PagesRecorded, InArm
  <2> QED
    BY <2>1, <2>4, <2>5 DEF PagesInv, PagesBuilt, PagesRestored, AllTaken, InArm
<1>2. CASE StartReplay
  <2>1. /\ proc = "record" /\ status = "ended" /\ proc' = "replay" /\ step' = 1
        /\ recorded' = recorded
    BY <1>2 DEF StartReplay
  <2>2. step = 16
    BY <2>1 DEF HostInv, Phase
  <2> QED
    BY <2>1, <2>2 DEF PagesInv, PagesBuilt, PagesRecorded, PagesRestored, AllTaken
<1>3. CASE Abort \/ End \/ DropVcpu \/ DropPartition \/ DropMemory
  <2>1. /\ ~InArm' /\ status' # "running" /\ proc' = proc /\ step' = step
        /\ recorded' = recorded
    BY <1>3 DEF Abort, End, DropVcpu, DropPartition, DropMemory, Drop, InArm
  <2> QED
    BY <2>1 DEF PagesInv, PagesBuilt, PagesRecorded, PagesRestored, AllTaken
<1> QED
  BY <1>1, <1>2, <1>3

(* The replay arm: loading the archive, and mapping the region of one key.   *)
LEMMA RestorePages ==
  ASSUME HostInv, HostInv', PagesInv, image_pages' = image_pages,
         LoadArchive \/ RestoreRegion
  PROVE  PagesInv'
<1> DEFINE n == image_pages
<1>1. CASE LoadArchive
  <2>1. /\ At("new", "snapshot") /\ Proceed /\ status = "executing" /\ proc' = proc
        /\ todo' = DOMAIN memory_regions /\ ept' = ept
        /\ memory_regions' = memory_regions /\ recorded' = recorded
    BY <1>1 DEF LoadArchive, At
  <2>2. proc = "replay" /\ step = 1 /\ step' = 2
    BY <2>1, Statements DEF HostInv, Proceed
  <2>3. ept = Unmapped
    BY <2>1, <2>2 DEF HostInv, Restoring, InArm
  <2>4. DOMAIN ept' = PagesOf(Restored', n)
    <3>1. Restored' = {}
      BY <2>1 DEF Restored
    <3> QED
      BY <2>1, <2>3, <3>1 DEF Unmapped, PagesOf
  <2> QED
    BY <2>1, <2>2, <2>4
       DEF PagesInv, PagesBuilt, PagesRecorded, PagesRestored, AllTaken
<1>2. CASE RestoreRegion
  <2>1. /\ At("restore", "snapshot") /\ status = "executing" /\ status' = status
        /\ step' = step /\ proc' = proc /\ memory_regions' = memory_regions
        /\ recorded' = recorded
    BY <1>2 DEF RestoreRegion, At
  <2>2. proc = "replay" /\ step = 6
    BY <2>1, Statements DEF HostInv
  <2>3. PICK g \in todo :
          /\ ept' = map_gpa_range(ept, g, memory_regions[g], Pages(n)[memory_regions[g]])
          /\ todo' = todo \ {g}
    BY <1>2 DEF RestoreRegion
  <2>4. todo \subseteq DOMAIN memory_regions
    BY <2>1, <2>2 DEF HostInv, Restoring, InArm
  <2>5. n \in Nat /\ n > 0 /\ memory_regions = capture_memory_layout(n)
    BY <2>2, ImagePages DEF HostInv, NotEmpty, Captured
  <2>6. DOMAIN ept = PagesOf(Restored, n)
    BY <2>1, <2>2 DEF PagesInv, PagesRestored, InArm
  <2>7. Restored' = Restored \cup {memory_regions[g]}
    BY <2>1, <2>3, <2>4 DEF Restored
  <2> HIDE DEF n
  <2> DEFINE r == memory_regions[g]
  <2>8. Gpa(n)[r] = g
    BY <2>3, <2>4, <2>5, CapturedRegions
  <2>9. ept' = map_gpa_range(ept, Gpa(n)[r], r, Pages(n)[r])
    BY <2>3, <2>8
  <2> HIDE DEF r
  <2>10. DOMAIN ept' = PagesOf(Restored \cup {r}, n)
    BY <2>6, <2>9, MapPages
  <2>11. PagesRestored'
    BY <2>7, <2>10 DEF PagesRestored, r, n
  <2> QED
    BY <2>1, <2>2, <2>11 DEF PagesInv, PagesBuilt, PagesRecorded, AllTaken
<1> QED
  BY <1>1, <1>2

(* Which pages are mapped, in every state.                                   *)
LEMMA PagesInvariance == Spec => []PagesInv
<1>1. Init => PagesInv
  <2> SUFFICES ASSUME Init PROVE PagesInv
    OBVIOUS
  <2>1. MappedBefore(1) = {}
    BY DEF MappedBefore
  <2>2. PagesBuilt
    BY <2>1 DEF Init, PagesBuilt, PagesOf, Unmapped
  <2> QED
    BY <2>2 DEF Init, PagesInv, PagesRecorded, PagesRestored, AllTaken
<1>2. HostInv /\ HostInv' /\ PagesInv /\ [Next]_vars => PagesInv'
  <2> SUFFICES ASSUME HostInv, HostInv', PagesInv, [Next]_vars PROVE PagesInv'
    OBVIOUS
  <2>1. image_pages' = image_pages
    <3>1. pe' = pe
      BY DEF Next, vars, loaderVars, hostVars, LoadAllocate, LoadSection, LoadReturns,
             Allocate, CopySection, NewPartition, configure_interceptions, NewVcpu,
             NewMemory, MapRegion, Capture, Call, RunGuest, GuestStops, LoadArchive,
             RestoreRegion, RestoreReturns, DropVcpu, DropPartition, DropMemory, Drop,
             End, StartReplay, Abort
    <3> QED
      BY <3>1 DEF image_pages, aligned_size
  <2>2. CASE \/ LoadAllocate \/ LoadSection \/ Capture
             \/ LoadReturns \/ NewPartition \/ configure_interceptions \/ NewVcpu
             \/ \E r \in {"stack", "null", "page_table"} : NewMemory(r)
             \/ Call \/ GuestStops \/ RestoreReturns
    BY <2>1, <2>2, PlainPages
  <2>3. CASE \E r \in Regions : MapRegion(r)
    BY <2>1, <2>3, MapRegionPages
  <2>4. CASE \/ RunGuest \/ StartReplay \/ Abort \/ End
             \/ DropVcpu \/ DropPartition \/ DropMemory
    BY <2>1, <2>4, RunPages
  <2>5. CASE LoadArchive \/ RestoreRegion
    BY <2>1, <2>5, RestorePages
  <2>6. CASE UNCHANGED vars
    <3>1. /\ proc' = proc /\ status' = status /\ step' = step /\ ept' = ept
          /\ memory_regions' = memory_regions /\ todo' = todo /\ recorded' = recorded
      BY <2>6 DEF vars, hostVars, processVars
    <3>2. Restored' = Restored /\ MappedBefore(step)' = MappedBefore(step)
      BY <3>1 DEF Restored, MappedBefore
    <3> QED
      BY <2>1, <3>1, <3>2
         DEF PagesInv, PagesBuilt, PagesRecorded, PagesRestored, AllTaken, InArm
  <2> QED
    BY <2>2, <2>3, <2>4, <2>5, <2>6 DEF Next
<1> QED
  BY <1>1, <1>2, HostInvariance, PTL DEF Spec

(* For images of every size, the replayed guest has memory at exactly the    *)
(* pages where the recorded one had, unless its image has the one size whose *)
(* stack HashMap::insert replaces by the page tables: then it lacks some.    *)
THEOREM SamePagesCorrect == Spec => []ReplayMapsSamePages
<1>1. HostInv /\ PagesInv => ReplayMapsSamePages
  <2> SUFFICES ASSUME HostInv, PagesInv, proc = "replay", status = "running"
               PROVE  DOMAIN ept = DOMAIN recorded <=> Gpa(image_pages)["stack"] # pt_gpa
    BY DEF ReplayMapsSamePages
  <2> DEFINE n == image_pages
  <2>1. n \in Nat /\ n > 0 /\ step = 7 /\ memory_regions = capture_memory_layout(n)
    BY ImagePages DEF HostInv, Phase, NotEmpty, Captured
  <2>2. Restored = {memory_regions[g] : g \in DOMAIN memory_regions}
    BY <2>1 DEF PagesInv, AllTaken, InArm, Restored
  <2>3. Restored = IF n = 256 THEN Regions \ {"stack"} ELSE Regions
    BY <2>1, <2>2, CapturedRegions
  <2>4. DOMAIN ept = PagesOf(Restored, n) /\ DOMAIN recorded = PagesOf(Regions, n)
    BY <2>1 DEF PagesInv, PagesRestored, PagesRecorded, InArm
  <2>5. Gpa(n)["stack"] # pt_gpa <=> n # 256
    BY <2>1 DEF Gpa, base_gpa, pt_gpa
  <2> HIDE DEF n
  <2>6. CASE n = 256
    <3>1. 515 \in SpanOf("stack", n) /\ "stack" \in Regions
      BY <2>6 DEF SpanOf, Span, Gpa, Pages, Regions, base_gpa, stack_size
    <3>2. ASSUME NEW r \in Regions \ {"stack"} PROVE 515 \notin SpanOf(r, n)
      BY <2>6, <3>2 DEF SpanOf, Span, Gpa, Pages, Regions, base_gpa, pt_gpa
    <3>3. 515 \in PagesOf(Regions, n) /\ 515 \notin PagesOf(Regions \ {"stack"}, n)
      BY <3>1, <3>2 DEF PagesOf
    <3> QED
      BY <2>3, <2>4, <2>5, <2>6, <3>3 DEF n
  <2>7. CASE n # 256
    BY <2>3, <2>4, <2>5, <2>7 DEF n
  <2> QED
    BY <2>6, <2>7
<1> QED
  BY <1>1, HostInvariance, PagesInvariance, PTL

-----------------------------------------------------------------------------
(* In which order regions may be mapped. *)

\* Region r mapped on top of a mapping f.
MapOn(f, r, n) == map_gpa_range(f, Gpa(n)[r], r, Pages(n)[r])

\* g is f with region r mapped on top.
IsMapOn(g, f, r, n) ==
  /\ g = [p \in DOMAIN g |-> g[p]]
  /\ DOMAIN g = DOMAIN f \cup SpanOf(r, n)
  /\ \A p \in SpanOf(r, n) : g[p] = <<r, p - Gpa(n)[r]>>
  /\ \A p \in DOMAIN f \ SpanOf(r, n) : g[p] = f[p]

(* What map_gpa_range leaves at each page. *)
LEMMA MapOnIs ==
  ASSUME NEW f, NEW r, NEW n
  PROVE  IsMapOn(MapOn(f, r, n), f, r, n)
<1> DEFINE g == MapOn(f, r, n)
<1>1. g = [p \in DOMAIN f \cup SpanOf(r, n) |->
             IF p \in SpanOf(r, n) THEN <<r, p - Gpa(n)[r]>> ELSE f[p]]
  BY DEF MapOn, map_gpa_range, SpanOf
<1> HIDE DEF g
<1>2. IsMapOn(g, f, r, n)
  BY <1>1 DEF IsMapOn
<1> QED
  BY <1>2 DEF g

(* Two regions that share no page can be mapped in either order. *)
LEMMA ApartCommute ==
  ASSUME NEW f, NEW q, NEW r, NEW n, SpanOf(q, n) \cap SpanOf(r, n) = {}
  PROVE  MapOn(MapOn(f, q, n), r, n) = MapOn(MapOn(f, r, n), q, n)
<1> DEFINE fq == MapOn(f, q, n)
           fr == MapOn(f, r, n)
           a == MapOn(fq, r, n)
           b == MapOn(fr, q, n)
<1>0. /\ IsMapOn(fq, f, q, n) /\ IsMapOn(fr, f, r, n)
      /\ IsMapOn(a, fq, r, n) /\ IsMapOn(b, fr, q, n)
  BY MapOnIs
<1> HIDE DEF fq, fr, a, b
<1>1. /\ DOMAIN fq = DOMAIN f \cup SpanOf(q, n)
      /\ \A p \in SpanOf(q, n) : fq[p] = <<q, p - Gpa(n)[q]>>
      /\ \A p \in DOMAIN f \ SpanOf(q, n) : fq[p] = f[p]
  BY <1>0 DEF IsMapOn
<1>2. /\ DOMAIN fr = DOMAIN f \cup SpanOf(r, n)
      /\ \A p \in SpanOf(r, n) : fr[p] = <<r, p - Gpa(n)[r]>>
      /\ \A p \in DOMAIN f \ SpanOf(r, n) : fr[p] = f[p]
  BY <1>0 DEF IsMapOn
<1>3. /\ a = [p \in DOMAIN a |-> a[p]] /\ DOMAIN a = DOMAIN fq \cup SpanOf(r, n)
      /\ \A p \in SpanOf(r, n) : a[p] = <<r, p - Gpa(n)[r]>>
      /\ \A p \in DOMAIN fq \ SpanOf(r, n) : a[p] = fq[p]
  BY <1>0 DEF IsMapOn
<1>4. /\ b = [p \in DOMAIN b |-> b[p]] /\ DOMAIN b = DOMAIN fr \cup SpanOf(q, n)
      /\ \A p \in SpanOf(q, n) : b[p] = <<q, p - Gpa(n)[q]>>
      /\ \A p \in DOMAIN fr \ SpanOf(q, n) : b[p] = fr[p]
  BY <1>0 DEF IsMapOn
<1>5. DOMAIN a = DOMAIN b
  BY <1>1, <1>2, <1>3, <1>4
<1>6. ASSUME NEW p \in DOMAIN a PROVE a[p] = b[p]
  <2>1. CASE p \in SpanOf(r, n)
    BY <1>2, <1>3, <1>4, <2>1
  <2>2. CASE p \in SpanOf(q, n)
    BY <1>1, <1>3, <1>4, <2>2
  <2>3. CASE p \notin SpanOf(r, n) /\ p \notin SpanOf(q, n)
    BY <1>1, <1>2, <1>3, <1>4, <1>6, <2>3
  <2> QED
    BY <2>1, <2>2, <2>3
<1>7. a = b
  BY <1>3, <1>4, <1>5, <1>6
<1> QED
  BY <1>7 DEF a, b, fq, fr

(* Two regions that share a page cannot: the one mapped last has it. *)
LEMMA SharedPageDiffers ==
  ASSUME NEW f, NEW q, NEW r, q # r, NEW n, NEW p, p \in SpanOf(q, n), p \in SpanOf(r, n)
  PROVE  MapOn(MapOn(f, q, n), r, n) # MapOn(MapOn(f, r, n), q, n)
<1> DEFINE fq == MapOn(f, q, n)
           fr == MapOn(f, r, n)
           a == MapOn(fq, r, n)
           b == MapOn(fr, q, n)
<1>1. IsMapOn(a, fq, r, n) /\ IsMapOn(b, fr, q, n)
  BY MapOnIs
<1> HIDE DEF fq, fr, a, b
<1>2. a[p] = <<r, p - Gpa(n)[r]>> /\ b[p] = <<q, p - Gpa(n)[q]>>
  BY <1>1 DEF IsMapOn
<1>3. a # b
  BY <1>2
<1> QED
  BY <1>3 DEF a, b, fq, fr

(* The bound of 240 pages is exact: the order in which the regions are mapped *)
(* is irrelevant just when the image ends with its stack below the page       *)
(* tables.  An image of one page more is restored or not as the HashMap of    *)
(* the replay happens to iterate.                                             *)
THEOREM OrderIrrelevantIffFits ==
  ASSUME NEW f, NEW n \in Nat \ {0}
  PROVE  Fits(n) <=> \A q, r \in Regions :
           q # r => MapOn(MapOn(f, q, n), r, n) = MapOn(MapOn(f, r, n), q, n)
<1>1. ASSUME Fits(n), NEW q \in Regions, NEW r \in Regions, q # r
      PROVE  MapOn(MapOn(f, q, n), r, n) = MapOn(MapOn(f, r, n), q, n)
  <2>1. n \in Nat
    OBVIOUS
  <2>2. SpanOf(q, n) \cap SpanOf(r, n) = {}
    BY <1>1, <2>1, RegionsApart
  <2> QED
    BY <2>2, ApartCommute
<1>2. ASSUME ~Fits(n)
      PROVE  \E q, r \in Regions :
               q # r /\ MapOn(MapOn(f, q, n), r, n) # MapOn(MapOn(f, r, n), q, n)
  <2>1. "page_table" \in Regions /\ "image" \in Regions /\ "stack" \in Regions
    BY DEF Regions
  <2>2. n > 240
    BY <1>2 DEF Fits, base_gpa, pt_gpa, stack_size
  <2>3. pt_gpa \in SpanOf("page_table", n)
    BY DEF SpanOf, Span, Gpa, Pages, pt_gpa
  <2>4. CASE n > 256
    <3>1. pt_gpa \in SpanOf("image", n)
      BY <2>4 DEF SpanOf, Span, Gpa, Pages, pt_gpa, base_gpa
    <3> QED
      BY <2>1, <2>3, <3>1, SharedPageDiffers
  <2>5. CASE n <= 256
    <3>1. pt_gpa \in SpanOf("stack", n)
      BY <2>2, <2>5 DEF SpanOf, Span, Gpa, Pages, pt_gpa, base_gpa, stack_size
    <3> QED
      BY <2>1, <2>3, <3>1, SharedPageDiffers
  <2> QED
    BY <2>4, <2>5
<1> QED
  BY <1>1, <1>2

(* While the guest runs, its page tables are where CR3 points.               *)
LEMMA TablesWhenRunning ==
  ASSUME HostInv, status = "running", proc = "record" \/ Fits(image_pages)
  PROVE  TablesMapped(ept) /\ DOMAIN ept \subseteq Nat
<1>1. CASE proc = "record"
  BY <1>1 DEF HostInv, Phase, Building, InArm
<1>2. CASE proc = "replay"
  <2>1. image_pages \in Nat /\ Maps(ept, Regions, image_pages)
    BY <1>2, ImagePages DEF HostInv, Phase, Restoring, InArm
  <2> QED
    BY <2>1, MapsAll
<1> QED
  BY <1>1, <1>2 DEF HostInv, Phase

(* What the processor makes of a virtual address then.                       *)
LEMMA TranslateIsIdentity ==
  ASSUME TablesMapped(ept), NEW p \in Nat, p < 512 * 512 * 512 * 512
  PROVE  Translate(p) = IF p < GIB THEN p ELSE Fault
<1> DEFINE T == Tables
<1>1. TablesAt(T, pt_gpa)
  <2> SUFFICES ASSUME NEW t \in 0..2
               PROVE  /\ pt_gpa + t \in DOMAIN T
                      /\ T[pt_gpa + t] = create_identity_mapping(pt_gpa)[t]
    BY DEF TablesAt
  <2>1. pt_gpa + t \in DOMAIN ept /\ ept[pt_gpa + t] = <<"page_table", t>>
    BY DEF TablesMapped
  <2> QED
    BY <2>1 DEF Tables
<1>2. pt_gpa \in Nat
  BY DEF pt_gpa
<1> HIDE DEF T
<1>3. Walk(T, pt_gpa, p) = IF p < GIB THEN p ELSE Fault
  BY <1>1, <1>2, WalkIsIdentity
<1> QED
  BY <1>3 DEF Translate, T

(* The running guest's virtual addresses are its physical ones below 1 GiB   *)
(* and fault above, whatever the size of the image of `cli record`.          *)
THEOREM TranslationCorrect == Spec => []VirtualIsPhysical
<1>1. HostInv => VirtualIsPhysical
  <2> SUFFICES ASSUME HostInv, status = "running", proc = "record" \/ Fits(image_pages)
               PROVE  /\ \A p \in DOMAIN ept \cup {GIB - 1} : p < GIB => Translate(p) = p
                      /\ \A p \in {GIB, ENTRIES * GIB} : Translate(p) = Fault
    BY DEF VirtualIsPhysical
  <2>1. TablesMapped(ept) /\ DOMAIN ept \subseteq Nat
    BY TablesWhenRunning
  <2>2. ASSUME NEW p \in DOMAIN ept \cup {GIB - 1}, p < GIB PROVE Translate(p) = p
    <3>1. p \in Nat /\ p < 512 * 512 * 512 * 512
      BY <2>1, <2>2 DEF GIB, ENTRIES
    <3> QED
      BY <2>1, <2>2, <3>1, TranslateIsIdentity
  <2>3. ASSUME NEW p \in {GIB, ENTRIES * GIB} PROVE Translate(p) = Fault
    <3>1. p \in Nat /\ p < 512 * 512 * 512 * 512 /\ ~(p < GIB)
      BY <2>3 DEF GIB, ENTRIES
    <3> QED
      BY <2>1, <3>1, TranslateIsIdentity
  <2> QED
    BY <2>2, <2>3
<1> QED
  BY <1>1, HostInvariance, PTL

(* Loader, snapshot, mapping and page tables together: the guest of either   *)
(* process reads its image as the linker laid it out.                        *)
THEOREM ImageReadCorrect == Spec => []GuestReadsItsImage
<1>1. HostInv => GuestReadsItsImage
  <2> SUFFICES ASSUME HostInv, status = "running", Fits(image_pages),
                      NEW i \in DOMAIN pe.sections, NEW a \in Destination(pe.sections[i])
               PROVE  Reads(base_gpa * PAGE + a) =
                        pe.sections[i].pointer_to_raw_data
                          + (a - pe.sections[i].virtual_address)
    BY DEF GuestReadsItsImage
  <2> DEFINE n == image_pages
             v == base_gpa * PAGE + a
             q == a \div 8
  <2>1. /\ n \in Nat /\ aligned_size = 8 * n /\ pe \in Binaries
        /\ Len(pe.sections) \in Nat /\ DOMAIN pe.sections = 1..Len(pe.sections)
    BY ImagePages, FileShape DEF HostInv, LoaderInv
  <2>2. section = Len(pe.sections) + 1
    BY DEF HostInv, Loaded, Phase
  <2>3. PlacedUpTo(Len(pe.sections)) /\ DOMAIN image = 0..(8 * n - 1)
    BY <2>1, <2>2 DEF HostInv, LoaderInv, SectionsPlaced
  <2>4. /\ a \in 0..(8 * n - 1)
        /\ image[a] = pe.sections[i].pointer_to_raw_data
                        + (a - pe.sections[i].virtual_address)
    BY <2>1, <2>3 DEF PlacedUpTo
  <2>5. Maps(ept, Regions, n)
    <3>1. CASE proc = "record"
      <4>1. MappedBefore(14) = Regions
        BY DEF MappedBefore, Regions
      <4> QED
        BY <3>1, <4>1 DEF HostInv, Phase, Building, InArm
    <3>2. CASE proc = "replay"
      BY <3>2 DEF HostInv, Phase, Restoring, InArm
    <3> QED
      BY <3>1, <3>2 DEF HostInv, Phase
  <2>6. TablesMapped(ept)
    BY <2>1, <2>5, MapsAll
  <2>7. /\ v \div 8 = 256 + q /\ v % 8 = a % 8 /\ q * 8 + (a % 8) = a
        /\ q \in 0..(n - 1)
    BY <2>1, <2>4 DEF base_gpa, PAGE
  <2>8. n + 256 <= 512
    BY <2>1 DEF Fits, base_gpa, pt_gpa, stack_size
  <2> HIDE DEF n, v, q
  <2>9. Translate(256 + q) = 256 + q
    <3>1. 256 + q \in Nat /\ 256 + q < 512 * 512 * 512 * 512 /\ 256 + q < GIB
      BY <2>1, <2>7, <2>8 DEF GIB, ENTRIES
    <3> QED
      BY <2>6, <3>1, TranslateIsIdentity
  <2>10. 256 + q \in DOMAIN ept /\ ept[256 + q] = <<"image", q>>
    <3>1. 256 + q \in SpanOf("image", n) /\ (256 + q) - Gpa(n)["image"] = q
      BY <2>1, <2>7 DEF SpanOf, Span, Gpa, Pages, base_gpa
    <3>2. "image" \in Regions
      BY DEF Regions
    <3> QED
      BY <2>5, <3>1, <3>2 DEF Maps
  <2>11. Reads(v) = image[q * 8 + (v % 8)]
    BY <2>7, <2>9, <2>10 DEF Reads, PAGE
  <2> QED
    BY <2>4, <2>7, <2>11 DEF v
<1> QED
  BY <1>1, HostInvariance, PTL

-----------------------------------------------------------------------------
(* Lifetimes: who exists while what is mapped. *)

\* The locals before statement k.
Opened(k) ==
  IF proc = "record"
  THEN IF k > 12 THEN <<"partition", "stack", "null", "vcpu">>
       ELSE IF k > 7 THEN <<"partition", "stack", "null">>
       ELSE IF k > 5 THEN <<"partition", "stack">>
       ELSE IF k > 2 THEN <<"partition">> ELSE <<>>
  ELSE IF k > 4 THEN <<"snapshot", "partition", "vcpu">>
       ELSE IF k > 2 THEN <<"snapshot", "partition">>
       ELSE IF k > 1 THEN <<"snapshot">> ELSE <<>>

\* What they become while they are dropped.
Closing ==
  IF proc = "record"
  THEN {<<"partition", "stack", "null", "vcpu">>, <<"partition", "stack", "null">>,
        <<"partition", "stack">>, <<"partition">>, <<>>}
  ELSE {<<"snapshot", "partition", "vcpu">>, <<"snapshot", "partition">>, <<"snapshot">>, <<>>}

InScope == {scope[i] : i \in DOMAIN scope}

Buffers == {memory_regions[g] : g \in DOMAIN memory_regions}

ScopeOK ==
  /\ status \notin {"dropping", "ended"} => scope = Opened(step)
  /\ status = "dropping" => scope \in Closing
  /\ status = "ended" => scope = <<>>

\* The handles exist exactly while their owners are in scope.
HandlesOK ==
  /\ vcpu => "vcpu" \in InScope
  /\ "partition" \in InScope => handle = "ready"
  /\ status \in {"dropping", "ended"} /\ "partition" \notin InScope => handle = "deleted"
  /\ status # "ended" /\ "vcpu" \in InScope => vcpu
  /\ step > 3 => exits = {"cpuid", "exception", "rdtsc"}

\* So do the buffers, except those that are never freed.
BuffersOK ==
  /\ proc = "record" =>
       /\ live \subseteq Regions
       /\ \A r \in {"stack", "null"} : r \in live <=> r \in InScope
       /\ section > 0 => "image" \in live
       /\ step > 9 => "page_table" \in live
  /\ proc = "replay" => live = IF "snapshot" \in InScope THEN Buffers ELSE {}

\* What is mapped.
OwnersOK ==
  \A p \in DOMAIN ept :
    /\ "partition" \in InScope
    /\ ept[p][1] \in IF proc = "record" THEN MappedBefore(step) ELSE Buffers

LifeInv == ScopeOK /\ HandlesOK /\ BuffersOK /\ OwnersOK

(* What Append yields, element by element.                                   *)
LEMMA AppendIs ==
  ASSUME NEW S, NEW s \in Seq(S), NEW e \in S, NEW t \in Seq(S), Len(t) = Len(s) + 1,
         \A i \in 1..Len(s) : t[i] = s[i], t[Len(s) + 1] = e
  PROVE  Append(s, e) = t
<1>1. /\ Append(s, e) \in Seq(S) /\ Len(Append(s, e)) = Len(s) + 1 /\ Len(s) \in Nat
      /\ \A i \in 1..Len(s) : Append(s, e)[i] = s[i]
      /\ Append(s, e)[Len(s) + 1] = e
  BY AppendProperties
<1>2. \A i \in 1..Len(t) : Append(s, e)[i] = t[i]
  BY <1>1
<1> QED
  BY <1>1, <1>2, SeqEqual

(* A local is added to the scopes that occur.                                *)
LEMMA AppendTuple ==
  ASSUME NEW a, NEW b, NEW c, NEW d
  PROVE  /\ Append(<<a>>, b) = <<a, b>>
         /\ Append(<<a, b>>, c) = <<a, b, c>>
         /\ Append(<<a, b, c>>, d) = <<a, b, c, d>>
<1> DEFINE S == {a, b, c, d}
           s1 == <<a>>
           s2 == <<a, b>>
           s3 == <<a, b, c>>
           s4 == <<a, b, c, d>>
<1>1. /\ s1 \in Seq(S) /\ s2 \in Seq(S) /\ s3 \in Seq(S) /\ s4 \in Seq(S)
      /\ b \in S /\ c \in S /\ d \in S
  OBVIOUS
<1>2. Len(s1) = 1 /\ Len(s2) = 2 /\ Len(s3) = 3 /\ Len(s4) = 4
  OBVIOUS
<1>3. s1[1] = a /\ s2[1] = a /\ s2[2] = b /\ s3[1] = a /\ s3[2] = b /\ s3[3] = c
      /\ s4[1] = a /\ s4[2] = b /\ s4[3] = c /\ s4[4] = d
  OBVIOUS
<1> HIDE DEF S, s1, s2, s3, s4
<1>4. Append(s1, b) = s2
  <2>1. /\ Len(s2) = Len(s1) + 1 /\ s2[Len(s1) + 1] = b
        /\ \A i \in 1..Len(s1) : s2[i] = s1[i]
    BY <1>2, <1>3
  <2> QED
    BY <1>1, <2>1, AppendIs
<1>5. Append(s2, c) = s3
  <2>1. /\ Len(s3) = Len(s2) + 1 /\ s3[Len(s2) + 1] = c
        /\ \A i \in 1..Len(s2) : s3[i] = s2[i]
    BY <1>2, <1>3
  <2> QED
    BY <1>1, <2>1, AppendIs
<1>6. Append(s3, d) = s4
  <2>1. /\ Len(s4) = Len(s3) + 1 /\ s4[Len(s3) + 1] = d
        /\ \A i \in 1..Len(s3) : s4[i] = s3[i]
    BY <1>2, <1>3
  <2> QED
    BY <1>1, <2>1, AppendIs
<1> QED
  BY <1>4, <1>5, <1>6 DEF s1, s2, s3, s4

(* The longest scope.                                                        *)
LEMMA FourLocals ==
  Append(<<"partition", "stack", "null">>, "vcpu") = <<"partition", "stack", "null", "vcpu">>
<1> DEFINE S == {"partition", "stack", "null", "vcpu"}
           s == <<"partition", "stack", "null">>
           t == <<"partition", "stack", "null", "vcpu">>
<1>1. s \in Seq(S) /\ t \in Seq(S) /\ "vcpu" \in S
  OBVIOUS
<1>2. /\ Len(t) = Len(s) + 1 /\ t[Len(s) + 1] = "vcpu"
      /\ \A i \in 1..Len(s) : t[i] = s[i]
  OBVIOUS
<1> HIDE DEF S, s, t
<1>3. Append(s, "vcpu") = t
  BY <1>1, <1>2, AppendIs
<1> QED
  BY <1>3 DEF s, t

(* Front undoes Append.                                                      *)
LEMMA FrontOfAppend ==
  ASSUME NEW S, NEW s \in Seq(S), NEW e \in S
  PROVE  Front(Append(s, e)) = s
<1>1. /\ Append(s, e) \in Seq(S) /\ Len(Append(s, e)) = Len(s) + 1 /\ Len(s) \in Nat
      /\ \A i \in 1..Len(s) : Append(s, e)[i] = s[i] /\ s[i] \in S
  BY AppendProperties
<1> DEFINE t == Append(s, e)
<1> HIDE DEF t
<1>2. Front(t) = SubSeq(t, 1, Len(s))
  BY <1>1 DEF Front, t
<1>3. \A i \in 1..Len(s) : t[i] \in S
  BY <1>1 DEF t
<1>4. /\ SubSeq(t, 1, Len(s)) \in Seq(S)
      /\ Len(SubSeq(t, 1, Len(s))) = IF 1 <= Len(s) THEN Len(s) - 1 + 1 ELSE 0
      /\ \A i \in 1..(Len(s) - 1 + 1) : SubSeq(t, 1, Len(s))[i] = t[1 + i - 1]
  BY <1>1, <1>3, SubSeqProperties
<1>5. Len(SubSeq(t, 1, Len(s))) = Len(s)
  BY <1>1, <1>4
<1>6. \A i \in 1..Len(s) : SubSeq(t, 1, Len(s))[i] = s[i]
  BY <1>1, <1>4 DEF t
<1> QED
  BY <1>2, <1>4, <1>5, <1>6, SeqEqual DEF t
  
(* The last local is dropped from the scopes that occur.                     *)
LEMMA FrontTuple ==
  ASSUME NEW a, NEW b, NEW c, NEW d
  PROVE  /\ Front(<<a>>) = <<>> /\ Front(<<a, b>>) = <<a>>
         /\ Front(<<a, b, c>>) = <<a, b>> /\ Front(<<a, b, c, d>>) = <<a, b, c>>
<1> DEFINE S == {a, b, c, d}
<1>1. <<a>> \in Seq(S) /\ <<a, b>> \in Seq(S) /\ <<a, b, c>> \in Seq(S) /\ b \in S /\ c \in S /\ d \in S
  OBVIOUS
<1> HIDE DEF S
<1>2. Front(<<a>>) = <<>>
  BY DEF Front
<1>4. Front(Append(<<a>>, b)) = <<a>> /\ Front(Append(<<a, b>>, c)) = <<a, b>>
      /\ Front(Append(<<a, b, c>>, d)) = <<a, b, c>>
  BY <1>1, FrontOfAppend
<1> QED
  BY <1>2, <1>4, AppendTuple

(* The elements of the scopes that occur.                                    *)
LEMMA ScopeElements ==
  ASSUME ScopeOK, Phase
  PROVE  InScope = IF scope = <<"partition", "stack", "null", "vcpu">>
                     THEN {"partition", "stack", "null", "vcpu"}
                   ELSE IF scope = <<"partition", "stack", "null">>
                     THEN {"partition", "stack", "null"}
                   ELSE IF scope = <<"partition", "stack">> THEN {"partition", "stack"}
                   ELSE IF scope = <<"partition">> THEN {"partition"}
                   ELSE IF scope = <<"snapshot", "partition", "vcpu">>
                     THEN {"snapshot", "partition", "vcpu"}
                   ELSE IF scope = <<"snapshot", "partition">> THEN {"snapshot", "partition"}
                   ELSE IF scope = <<"snapshot">> THEN {"snapshot"}
                   ELSE {}
<1>1. \/ scope = <<"partition", "stack", "null", "vcpu">>
      \/ scope = <<"partition", "stack", "null">>
      \/ scope = <<"partition", "stack">>
      \/ scope = <<"partition">>
      \/ scope = <<"snapshot", "partition", "vcpu">>
      \/ scope = <<"snapshot", "partition">>
      \/ scope = <<"snapshot">>
      \/ scope = <<>>
  BY DEF ScopeOK, Opened, Closing, Phase
<1> QED
  BY <1>1 DEF InScope

(* The order of the locals makes every drop safe.                            *)
LEMMA LifeImpliesOrder ==
  ASSUME LifeInv, HostInv
  PROVE  DroppedInOrder
<1> USE DEF HostInv
<1>1. vcpu => handle = "ready"
  BY ScopeElements DEF LifeInv, HandlesOK
<1>2. ASSUME vcpu PROVE MappedMemoryIsValid
  <2>1. CASE proc = "record"
    <3>1. "stack" \in InScope /\ "null" \in InScope
      BY <1>2, <2>1, ScopeElements DEF LifeInv, HandlesOK, ScopeOK, Opened, Closing
    <3>2. step > 9
      <4>1. CASE status \in {"dropping", "ended"}
        BY <2>1, <4>1 DEF Phase
      <4>2. CASE status \notin {"dropping", "ended"}
        <5>1. scope = Opened(step) /\ "vcpu" \in InScope /\ step \in Nat
          BY <1>2, <4>2 DEF LifeInv, ScopeOK, HandlesOK, Phase
        <5>2. ASSUME ~(step > 12) PROVE FALSE
          BY <2>1, <5>1, <5>2 DEF Opened, InScope
        <5> QED
          BY <5>1, <5>2
      <4> QED
        BY <4>1, <4>2
    <3>3. section > 0
      BY <3>2, FileShape DEF LoaderInv, Loaded, Phase
    <3>4. Regions \subseteq live
      BY <2>1, <3>1, <3>2, <3>3 DEF LifeInv, BuffersOK, Regions
    <3> QED
      BY <2>1, <3>4 DEF LifeInv, OwnersOK, MappedBefore, MappedMemoryIsValid
  <2>2. CASE proc = "replay"
    <3>1. "snapshot" \in InScope
      BY <1>2, <2>2, ScopeElements DEF LifeInv, HandlesOK, ScopeOK, Opened, Closing
    <3> QED
      BY <2>2, <3>1 DEF LifeInv, OwnersOK, BuffersOK, MappedMemoryIsValid
  <2> QED
    BY <2>1, <2>2 DEF Phase
<1>3. status = "running" => vcpu /\ exits = {"cpuid", "exception", "rdtsc"}
  <2> SUFFICES ASSUME status = "running" PROVE vcpu /\ exits = {"cpuid", "exception", "rdtsc"}
    OBVIOUS
  <2>1. step \in {7, 14} /\ "vcpu" \in InScope
    BY ScopeElements DEF LifeInv, ScopeOK, Opened, Phase
  <2> QED
    BY <2>1 DEF LifeInv, HandlesOK
<1>4. ASSUME proc = "replay" PROVE MappedMemoryIsValid
  <2>1. "partition" \in InScope => "snapshot" \in InScope
    BY <1>4, ScopeElements DEF LifeInv, ScopeOK, Opened, Closing, Phase
  <2> QED
    BY <1>4, <2>1 DEF LifeInv, OwnersOK, BuffersOK, MappedMemoryIsValid
<1>5. ASSUME status = "ended"
      PROVE  handle = "deleted" /\ live \subseteq {"image", "page_table"}
  <2>1. InScope = {}
    BY <1>5 DEF LifeInv, ScopeOK, InScope
  <2> QED
    BY <1>5, <2>1 DEF LifeInv, HandlesOK, BuffersOK, Regions, Phase
<1> QED
  BY <1>1, <1>2, <1>3, <1>4, <1>5 DEF DroppedInOrder

(* Which statement of which arm opens a local.                               *)
LEMMA Openings ==
  ASSUME Phase, NEW kind, NEW of, At(kind, of)
  PROVE  /\ <<kind, of>> = <<"new", "partition">> => step = 2
         /\ <<kind, of>> = <<"call", "configure_interceptions">> => step = 3
         /\ <<kind, of>> = <<"new", "vcpu">> => step = IF proc = "record" THEN 12 ELSE 4
         /\ <<kind, of>> = <<"new", "stack">> => proc = "record" /\ step = 5
         /\ <<kind, of>> = <<"new", "null">> => proc = "record" /\ step = 7
         /\ <<kind, of>> = <<"new", "page_table">> => proc = "record" /\ step = 9
         /\ kind = "call" /\ of # "configure_interceptions" =>
              IF proc = "record" THEN step \in {13, 15} ELSE step \in {5, 8}
<1>1. CASE proc = "record"
  <2>1. step \in 1..15 /\ <<kind, of>> = RecordArm[step]
    BY <1>1 DEF Phase, At, Arm
  <2> QED
    BY <1>1, <2>1 DEF RecordArm
<1>2. CASE proc = "replay"
  <2>1. step \in 1..8 /\ <<kind, of>> = ReplayArm[step]
    BY <1>2 DEF Phase, At, Arm
  <2> QED
    BY <1>2, <2>1 DEF ReplayArm
<1> QED
  BY <1>1, <1>2 DEF Phase

(* The regions mapped before a statement are mapped before the next.         *)
LEMMA MappedBeforeGrows ==
  ASSUME NEW k \in Nat PROVE MappedBefore(k) \subseteq MappedBefore(k + 1)
  BY DEF MappedBefore

(* A statement that opens no local.                                          *)
LEMMA NoLocalLife ==
  ASSUME HostInv, LifeInv, InArm, Proceed, proc' = proc, section' = section,
         scope' = scope, handle' = handle, vcpu' = vcpu,
         exits' = exits \/ exits' = {"cpuid", "exception", "rdtsc"},
         step = 3 => exits' = {"cpuid", "exception", "rdtsc"},
         live \subseteq live' /\ live' \subseteq live \cup {"page_table"},
         step = 9 => "page_table" \in live',
         proc = "replay" => live' = live,
         proc = "replay" => memory_regions' = memory_regions,
         IF proc = "record" THEN step \in {1, 3, 4, 6, 8, 9, 10, 11, 13, 14, 15}
                            ELSE step \in {3, 5, 6, 7, 8},
         OwnersOK'
  PROVE  LifeInv'
<1>1. /\ Phase' /\ step' = step + 1 /\ status' \in {"executing", "dropping"}
      /\ proc \in {"record", "replay"} /\ Phase /\ step \in Nat
      /\ status' = "dropping" <=> step = IF proc = "record" THEN 15 ELSE 8
  BY ProceedPhase DEF HostInv, Phase
<1>2. InScope' = InScope /\ (proc = "replay" => Buffers' = Buffers)
  BY DEF InScope, Buffers
<1>3. scope = Opened(step)
  BY DEF LifeInv, ScopeOK, InArm
<1>4. Opened(step)' = Opened(step)
  BY <1>1 DEF Opened
<1>5. ScopeOK'
  <2>1. status' = "dropping" => Opened(step) \in Closing'
    BY <1>1 DEF Opened, Closing
  <2> QED
    BY <1>1, <1>3, <1>4, <2>1 DEF ScopeOK
<1>6. HandlesOK'
  <2>1. "partition" \notin InScope => status' # "dropping"
    <3>1. status' = "dropping" => scope = <<"partition", "stack", "null", "vcpu">> \/ scope = <<"snapshot", "partition", "vcpu">>
      BY <1>1, <1>3 DEF Opened
    <3> QED
      BY <3>1, <1>1, ScopeElements DEF LifeInv
  <2> QED
    BY <1>1, <1>2, <2>1 DEF LifeInv, HandlesOK, InArm
<1>7. BuffersOK'
  BY <1>1, <1>2 DEF LifeInv, BuffersOK, Regions
<1> QED
  BY <1>5, <1>6, <1>7 DEF LifeInv

(* Loading the image.                                                        *)
LEMMA LoadLife ==
  ASSUME HostInv, LifeInv, LoadAllocate \/ LoadSection
  PROVE  LifeInv'
<1>1. /\ proc = "record" /\ step = 1 /\ Phase /\ status = "executing"
  BY Statements DEF HostInv, LoadAllocate, LoadSection, At
<1>2. /\ proc' = proc /\ status' = status /\ step' = step /\ ept' = ept /\ scope' = scope
      /\ handle' = handle /\ vcpu' = vcpu /\ exits' = exits
      /\ memory_regions' = memory_regions
  BY DEF LoadAllocate, LoadSection, hostVars, processVars
<1>3. InScope' = InScope /\ Opened(step)' = Opened(step)
  BY <1>2 DEF InScope, Opened
<1>4. ScopeOK' /\ HandlesOK' /\ OwnersOK'
  BY <1>1, <1>2, <1>3 DEF LifeInv, ScopeOK, HandlesOK, OwnersOK, Buffers
<1>5. BuffersOK'
  <2>1. CASE LoadAllocate
    BY <1>1, <1>2, <1>3, <2>1 DEF LifeInv, BuffersOK, LoadAllocate, Regions
  <2>2. CASE LoadSection
    <3>1. live' = live /\ section > 0
      BY <2>2, FileShape DEF LoadSection, hostVars, processVars, CopySection, HostInv, LoaderInv
    <3> QED
      BY <1>1, <1>2, <1>3, <3>1 DEF LifeInv, BuffersOK
  <2> QED
    BY <2>1, <2>2
<1> QED
  BY <1>4, <1>5 DEF LifeInv

(* What is mapped stays allowed when the mapping does not change.            *)
LEMMA OwnersKept ==
  ASSUME OwnersOK, ept' = ept, proc' = proc, "partition" \in InScope => "partition" \in InScope',
         step \in Nat, step' \in {step, step + 1},
         proc = "replay" => memory_regions' = memory_regions, proc \in {"record", "replay"}
  PROVE  OwnersOK'
<1>1. proc = "replay" => Buffers' = Buffers
  BY DEF Buffers
<1>2. MappedBefore(step) \subseteq MappedBefore(step')
  BY MappedBeforeGrows
<1> QED
  BY <1>1, <1>2 DEF OwnersOK

(* Statements that open no local and map nothing.                            *)
LEMMA QuietLife ==
  ASSUME HostInv, LifeInv,
         \/ LoadReturns \/ configure_interceptions \/ NewMemory("page_table")
         \/ Capture \/ Call \/ GuestStops \/ RestoreReturns
  PROVE  LifeInv'
<1>1. Phase /\ step \in Nat /\ proc \in {"record", "replay"}
  BY DEF HostInv, Phase
<1>2. /\ Proceed /\ InArm /\ proc' = proc /\ scope' = scope /\ handle' = handle
      /\ vcpu' = vcpu /\ ept' = ept /\ section' = section
  BY DEF LoadReturns, configure_interceptions, NewMemory, Capture, Call, GuestStops,
         RestoreReturns, At, InArm, processVars, loaderVars
<1>3. (proc = "replay" => memory_regions' = memory_regions) => OwnersOK'
  <2>1. InScope' = InScope /\ step' = step + 1
    BY <1>2 DEF InScope, Proceed
  <2> QED
    BY <1>1, <1>2, <2>1, OwnersKept DEF LifeInv
<1>4. CASE LoadReturns
  <2>1. /\ proc = "record" /\ step = 1 /\ exits' = exits /\ live' = live
    BY <1>1, <1>4, Statements DEF LoadReturns, processVars
  <2> QED
    BY <1>2, <1>3, <2>1, NoLocalLife
<1>5. CASE configure_interceptions
  <2>1. /\ step = 3 /\ exits' = {"cpuid", "exception", "rdtsc"} /\ live' = live
        /\ memory_regions' = memory_regions
    BY <1>1, <1>5, Openings DEF configure_interceptions
  <2> QED
    BY <1>1, <1>2, <1>3, <2>1, NoLocalLife
<1>6. CASE NewMemory("page_table")
  <2>1. /\ proc = "record" /\ step = 9 /\ exits' = exits /\ live' = live \cup {"page_table"}
    BY <1>1, <1>6, Openings DEF NewMemory
  <2> QED
    BY <1>2, <1>3, <2>1, NoLocalLife
<1>7. CASE Capture
  <2>1. /\ proc = "record" /\ step = 11 /\ exits' = exits /\ live' = live
    BY <1>1, <1>7, Statements DEF Capture, processVars
  <2> QED
    BY <1>2, <1>3, <2>1, NoLocalLife
<1>8. CASE Call
  <2>1. /\ IF proc = "record" THEN step \in {13, 15} ELSE step \in {5, 8}
        /\ exits' = exits /\ live' = live /\ memory_regions' = memory_regions
    BY <1>1, <1>8, Openings DEF Call, processVars
  <2> QED
    BY <1>1, <1>2, <1>3, <2>1, NoLocalLife
<1>9. CASE GuestStops
  <2>1. /\ step = IF proc = "record" THEN 14 ELSE 7
        /\ exits' = exits /\ live' = live /\ memory_regions' = memory_regions
    BY <1>1, <1>9 DEF GuestStops, processVars, Phase
  <2> QED
    BY <1>1, <1>2, <1>3, <2>1, NoLocalLife
<1>10. CASE RestoreReturns
  <2>1. /\ proc = "replay" /\ step = 6
        /\ exits' = exits /\ live' = live /\ memory_regions' = memory_regions
    BY <1>1, <1>10, Statements DEF RestoreReturns, processVars
  <2> QED
    BY <1>2, <1>3, <2>1, NoLocalLife
<1> QED
  BY <1>4, <1>5, <1>6, <1>7, <1>8, <1>9, <1>10

(* Mapping a region of the record arm: its buffer exists.                    *)
LEMMA MapRegionLife ==
  ASSUME HostInv, LifeInv, NEW r \in Regions, MapRegion(r)
  PROVE  LifeInv'
<1> DEFINE k == CASE r = "image" -> 4 [] r = "stack" -> 6 [] r = "null" -> 8 [] OTHER -> 10
           size == Pages(image_pages)[r]
           gpa == Gpa(image_pages)[r]
<1>1. /\ Proceed /\ InArm /\ proc' = proc /\ scope' = scope /\ handle' = handle
      /\ vcpu' = vcpu /\ section' = section /\ exits' = exits /\ live' = live
      /\ ept' = map_gpa_range(ept, gpa, r, size) /\ Phase
  BY DEF MapRegion, At, InArm, loaderVars, HostInv
<1>2. proc = "record" /\ step = k
  BY <1>1, Statements DEF MapRegion, Regions
<1>3. k \in {4, 6, 8, 10} /\ step' = k + 1
  BY <1>2, <1>1 DEF Proceed
<1>4. InScope' = InScope /\ "partition" \in InScope
  <2>1. scope \in {<<"partition">>, <<"partition", "stack">>, <<"partition", "stack", "null">>}
    BY <1>1, <1>2, <1>3 DEF LifeInv, ScopeOK, Opened, InArm
  <2> QED
    BY <1>1, <2>1 DEF InScope
<1>5. r \in MappedBefore(step') /\ MappedBefore(step) \subseteq MappedBefore(step')
  BY <1>2, <1>3 DEF MappedBefore, Regions
<1>6. OwnersOK'
  <2> SUFFICES ASSUME NEW p \in DOMAIN ept' PROVE ept'[p][1] \in MappedBefore(step')
    BY <1>1, <1>2, <1>4 DEF OwnersOK
  <2> HIDE DEF k, size, gpa
  <2>1. ept' = [q \in DOMAIN ept \cup Span(gpa, size) |->
                 IF q \in Span(gpa, size) THEN <<r, q - gpa>> ELSE ept[q]]
    BY <1>1 DEF map_gpa_range
  <2>2. CASE p \in Span(gpa, size)
    BY <1>5, <2>1, <2>2
  <2>3. CASE p \notin Span(gpa, size)
    BY <1>2, <1>5, <2>1, <2>3 DEF LifeInv, OwnersOK
  <2> QED
    BY <2>2, <2>3
<1> QED
  BY <1>1, <1>2, <1>3, <1>6, NoLocalLife

(* Statements that open a local.                                             *)
LEMMA OpenLife ==
  ASSUME HostInv, LifeInv,
         \/ NewPartition \/ NewVcpu \/ LoadArchive
         \/ \E r \in {"stack", "null"} : NewMemory(r)
  PROVE  LifeInv'
<1>1. Phase /\ step \in Nat /\ proc \in {"record", "replay"}
  BY DEF HostInv, Phase
<1>2. /\ Proceed /\ InArm /\ proc' = proc /\ exits' = exits /\ section' = section
      /\ ept' = ept /\ memory_regions' = memory_regions
  BY DEF NewPartition, NewVcpu, NewMemory, LoadArchive, At, InArm, loaderVars
<1>3. /\ Phase' /\ step' = step + 1 /\ scope = Opened(step)
      /\ status' \in {"executing", "dropping"}
      /\ status' = "dropping" <=> step = IF proc = "record" THEN 15 ELSE 8
  BY <1>1, <1>2, ProceedPhase DEF LifeInv, ScopeOK, InArm
<1>4. Buffers' = Buffers
  BY <1>2 DEF Buffers
<1>5. ASSUME InScope \subseteq InScope' PROVE OwnersOK'
  BY <1>1, <1>2, <1>3, <1>5, OwnersKept DEF LifeInv
<1>6. CASE NewPartition
  <2>1. /\ step = 2 /\ scope' = Append(scope, "partition") /\ handle' = "ready"
        /\ vcpu' = vcpu /\ live' = live
    BY <1>1, <1>6, Openings DEF NewPartition
  <2>2. scope = IF proc = "record" THEN <<>> ELSE <<"snapshot">>
    BY <1>1, <1>3, <2>1 DEF Opened
  <2>3. scope' = IF proc = "record" THEN <<"partition">> ELSE <<"snapshot", "partition">>
    BY <2>1, <2>2
  <2>4. /\ InScope = IF proc = "record" THEN {} ELSE {"snapshot"}
        /\ InScope' = IF proc = "record" THEN {"partition"} ELSE {"snapshot", "partition"}
    BY <2>2, <2>3 DEF InScope
  <2>5. ScopeOK'
    BY <1>1, <1>2, <1>3, <2>1, <2>3 DEF ScopeOK, Opened
  <2>6. HandlesOK' /\ BuffersOK'
    BY <1>1, <1>2, <1>3, <1>4, <2>1, <2>4 DEF LifeInv, HandlesOK, BuffersOK
  <2> QED
    BY <1>5, <2>4, <2>5, <2>6 DEF LifeInv
<1>7. CASE NewVcpu
  <2>1. /\ step = IF proc = "record" THEN 12 ELSE 4
        /\ scope' = Append(scope, "vcpu") /\ handle' = handle
        /\ vcpu' = TRUE /\ live' = live
    BY <1>1, <1>7, Openings DEF NewVcpu
  <2>2. scope = IF proc = "record" THEN <<"partition", "stack", "null">>
                                   ELSE <<"snapshot", "partition">>
    BY <1>1, <1>3, <2>1 DEF Opened
  <2>3. scope' = IF proc = "record" THEN <<"partition", "stack", "null", "vcpu">>
                                    ELSE <<"snapshot", "partition", "vcpu">>
    <3>1. Append(<<"partition", "stack", "null">>, "vcpu")
            = <<"partition", "stack", "null", "vcpu">>
      BY FourLocals
    <3>2. Append(<<"snapshot", "partition">>, "vcpu") = <<"snapshot", "partition", "vcpu">>
      BY AppendTuple
    <3>3. CASE proc = "record"
      BY <2>1, <2>2, <3>1, <3>3
    <3>4. CASE proc # "record"
      BY <2>1, <2>2, <3>2, <3>4
    <3> QED
      BY <3>3, <3>4
  <2>4. /\ InScope = IF proc = "record" THEN {"partition", "stack", "null"}
                                        ELSE {"snapshot", "partition"}
        /\ InScope' = IF proc = "record" THEN {"partition", "stack", "null", "vcpu"}
                                         ELSE {"snapshot", "partition", "vcpu"}
    BY <2>2, <2>3 DEF InScope
  <2>5. ScopeOK'
    <3>1. step' = (IF proc = "record" THEN 13 ELSE 5) /\ status' = "executing"
      BY <1>1, <1>3, <2>1
    <3>2. CASE proc = "record"
      <4>1. Opened(step)' = <<"partition", "stack", "null", "vcpu">>
        BY <1>2, <3>1, <3>2 DEF Opened
      <4> QED
        BY <2>3, <3>1, <3>2, <4>1 DEF ScopeOK
    <3>3. CASE proc = "replay"
      <4>1. Opened(step)' = <<"snapshot", "partition", "vcpu">>
        BY <1>2, <3>1, <3>3 DEF Opened
      <4> QED
        BY <2>3, <3>1, <3>3, <4>1 DEF ScopeOK
    <3> QED
      BY <1>1, <3>2, <3>3
  <2>6. HandlesOK' /\ BuffersOK'
    BY <1>1, <1>2, <1>3, <1>4, <2>1, <2>4 DEF LifeInv, HandlesOK, BuffersOK
  <2> QED
    BY <1>5, <2>4, <2>5, <2>6 DEF LifeInv
<1>8. ASSUME NEW r \in {"stack", "null"}, NewMemory(r) PROVE LifeInv'
  <2>1. /\ proc = "record" /\ step = IF r = "stack" THEN 5 ELSE 7
        /\ scope' = Append(scope, r) /\ handle' = handle
        /\ vcpu' = vcpu /\ live' = live \cup {r}
    BY <1>1, <1>8, Openings DEF NewMemory
  <2>2. scope = IF r = "stack" THEN <<"partition">> ELSE <<"partition", "stack">>
    BY <1>1, <1>3, <2>1 DEF Opened
  <2>3. scope' = IF r = "stack" THEN <<"partition", "stack">>
                                ELSE <<"partition", "stack", "null">>
    BY <1>8, <2>1, <2>2
  <2>4. /\ InScope = IF r = "stack" THEN {"partition"} ELSE {"partition", "stack"}
        /\ InScope' = IF r = "stack" THEN {"partition", "stack"}
                                     ELSE {"partition", "stack", "null"}
    BY <2>2, <2>3 DEF InScope
  <2>5. ScopeOK'
    BY <1>1, <1>2, <1>3, <1>8, <2>1, <2>3 DEF ScopeOK, Opened
  <2>6. HandlesOK'
    BY <1>1, <1>2, <1>3, <2>1, <2>4 DEF LifeInv, HandlesOK
  <2>7. BuffersOK'
    BY <1>1, <1>2, <1>3, <1>8, <2>1, <2>4 DEF LifeInv, BuffersOK, Regions
  <2> QED
    BY <1>5, <2>4, <2>5, <2>6, <2>7 DEF LifeInv
<1>9. CASE LoadArchive
  <2>1. /\ proc = "replay" /\ step = 1 /\ scope' = Append(scope, "snapshot")
        /\ handle' = handle /\ vcpu' = vcpu /\ live' = Buffers
    BY <1>1, <1>9, Statements DEF LoadArchive, Buffers
  <2>2. scope = <<>>
    BY <1>1, <1>3, <2>1 DEF Opened
  <2>3. scope' = <<"snapshot">>
    BY <2>1, <2>2
  <2>4. InScope = {} /\ InScope' = {"snapshot"}
    BY <2>2, <2>3 DEF InScope
  <2>5. ScopeOK'
    BY <1>1, <1>2, <1>3, <2>1, <2>3 DEF ScopeOK, Opened
  <2>6. HandlesOK' /\ BuffersOK'
    BY <1>1, <1>2, <1>3, <1>4, <2>1, <2>4 DEF LifeInv, HandlesOK, BuffersOK
  <2> QED
    BY <1>5, <2>4, <2>5, <2>6 DEF LifeInv
<1> QED
  BY <1>6, <1>7, <1>8, <1>9

(* The guest starts, and a region is restored.                               *)
LEMMA RunAndRestoreLife ==
  ASSUME HostInv, LifeInv, RunGuest \/ RestoreRegion
  PROVE  LifeInv'
<1>1. /\ Phase /\ step \in Nat /\ proc \in {"record", "replay"} /\ status = "executing"
      /\ scope = Opened(step)
  BY DEF HostInv, LifeInv, ScopeOK, Phase, RunGuest, RestoreRegion, At
<1>2. /\ status' \in {"executing", "running"} /\ step' = step /\ proc' = proc
      /\ scope' = scope /\ handle' = handle /\ vcpu' = vcpu /\ exits' = exits
      /\ live' = live /\ memory_regions' = memory_regions /\ section' = section
  BY <1>1 DEF RunGuest, RestoreRegion, processVars, loaderVars
<1>3. InScope' = InScope /\ Buffers' = Buffers /\ Opened(step)' = Opened(step)
  BY <1>2 DEF InScope, Buffers, Opened
<1>4. ScopeOK' /\ HandlesOK' /\ BuffersOK'
  BY <1>1, <1>2, <1>3 DEF LifeInv, ScopeOK, HandlesOK, BuffersOK
<1>5. OwnersOK'
  <2>1. CASE RunGuest
    <3>1. ept' = ept
      BY <2>1 DEF RunGuest, processVars
    <3> QED
      BY <1>1, <1>2, <1>3, <3>1, OwnersKept DEF LifeInv
  <2>2. CASE RestoreRegion
    <3>1. proc = "replay" /\ step = 6
      BY <1>1, <2>2, Statements DEF RestoreRegion
    <3>2. "partition" \in InScope
      <4>1. scope = <<"snapshot", "partition", "vcpu">>
        BY <1>1, <3>1 DEF Opened
      <4> QED
        BY <4>1 DEF InScope
    <3>3. PICK g \in todo :
            ept' = map_gpa_range(ept, g, memory_regions[g],
                                 Pages(image_pages)[memory_regions[g]])
      BY <2>2 DEF RestoreRegion
    <3>4. memory_regions[g] \in Buffers
      BY <1>1, <3>1 DEF HostInv, Restoring, InArm, Buffers
    <3> SUFFICES ASSUME NEW p \in DOMAIN ept' PROVE ept'[p][1] \in Buffers
      BY <1>2, <1>3, <3>1, <3>2 DEF OwnersOK
    <3> DEFINE S == Span(g, Pages(image_pages)[memory_regions[g]])
    <3>5. ept' = [q \in DOMAIN ept \cup S |->
                   IF q \in S THEN <<memory_regions[g], q - g>> ELSE ept[q]]
      BY <3>3 DEF map_gpa_range
    <3> HIDE DEF S
    <3>6. CASE p \in S
      BY <3>4, <3>5, <3>6
    <3>7. CASE p \notin S
      BY <3>1, <3>5, <3>7 DEF LifeInv, OwnersOK
    <3> QED
      BY <3>6, <3>7
  <2> QED
    BY <2>1, <2>2
<1> QED
  BY <1>4, <1>5 DEF LifeInv

(* Dropping a local.                                                         *)
LEMMA DropLife ==
  ASSUME HostInv, LifeInv, DropVcpu \/ DropPartition \/ DropMemory
  PROVE  LifeInv'
<1> DEFINE R4 == <<"partition", "stack", "null", "vcpu">>
           R3 == <<"partition", "stack", "null">>
           R2 == <<"partition", "stack">>
           R1 == <<"partition">>
           P3 == <<"snapshot", "partition", "vcpu">>
           P2 == <<"snapshot", "partition">>
           P1 == <<"snapshot">>
<1>1. Phase /\ step \in Nat /\ proc \in {"record", "replay"}
  BY DEF HostInv, Phase
<1>2. PICK l \in {"vcpu", "partition", "stack", "null", "snapshot"} : Drop(l)
  BY DEF DropVcpu, DropPartition, DropMemory
<1>3. /\ status = "dropping" /\ status' = "dropping" /\ scope # <<>> /\ Last(scope) = l
      /\ scope' = Front(scope) /\ proc' = proc /\ step' = step /\ exits' = exits
      /\ section' = section /\ memory_regions' = memory_regions
  BY <1>2 DEF Drop, loaderVars
<1>4. Buffers' = Buffers
  BY <1>3 DEF Buffers
<1>5. scope \in Closing
  BY <1>3 DEF LifeInv, ScopeOK
<1>6. \/ proc = "record" /\ scope = R4 /\ scope' = R3 /\ l = "vcpu"
      \/ proc = "record" /\ scope = R3 /\ scope' = R2 /\ l = "null"
      \/ proc = "record" /\ scope = R2 /\ scope' = R1 /\ l = "stack"
      \/ proc = "record" /\ scope = R1 /\ scope' = <<>> /\ l = "partition"
      \/ proc = "replay" /\ scope = P3 /\ scope' = P2 /\ l = "vcpu"
      \/ proc = "replay" /\ scope = P2 /\ scope' = P1 /\ l = "partition"
      \/ proc = "replay" /\ scope = P1 /\ scope' = <<>> /\ l = "snapshot"
  <2>1. /\ Last(R4) = "vcpu" /\ Last(R3) = "null" /\ Last(R2) = "stack" /\ Last(R1) = "partition"
        /\ Last(P3) = "vcpu" /\ Last(P2) = "partition" /\ Last(P1) = "snapshot"
    BY DEF Last
  <2>2. /\ Front(R4) = R3 /\ Front(R3) = R2 /\ Front(R2) = R1 /\ Front(R1) = <<>>
        /\ Front(P3) = P2 /\ Front(P2) = P1 /\ Front(P1) = <<>>
    BY FrontTuple
  <2>3. \/ proc = "record" /\ (scope = R4 \/ scope = R3 \/ scope = R2 \/ scope = R1)
        \/ proc = "replay" /\ (scope = P3 \/ scope = P2 \/ scope = P1)
    BY <1>1, <1>3, <1>5 DEF Closing
  <2> HIDE DEF R4, R3, R2, R1, P3, P2, P1
  <2> QED
    BY <1>3, <2>1, <2>2, <2>3
<1>7. ScopeOK'
  BY <1>3, <1>6 DEF ScopeOK, Closing
<1>8. /\ l = "vcpu" => vcpu' = FALSE /\ handle' = handle /\ live' = live /\ ept' = ept
      /\ l = "partition" =>
           handle' = "deleted" /\ ept' = Unmapped /\ vcpu' = vcpu /\ live' = live
      /\ l \in {"stack", "null", "snapshot"} =>
           /\ live' = IF l = "snapshot" THEN {} ELSE live \ {l}
           /\ handle' = handle /\ vcpu' = vcpu /\ ept' = ept
  BY <1>2 DEF DropVcpu, DropPartition, DropMemory, Drop
<1>9. /\ InScope' = InScope \ {l} /\ l \in InScope
      /\ "vcpu" \in InScope => l = "vcpu"
      /\ l \in {"stack", "null"} => proc = "record" /\ "partition" \in InScope'
      /\ l = "snapshot" => proc = "replay" /\ "partition" \notin InScope
      /\ l = "partition" /\ proc = "replay" => "snapshot" \in InScope'
  BY <1>6 DEF InScope
<1> HIDE DEF R4, R3, R2, R1, P3, P2, P1
<1>10. HandlesOK'
  BY <1>3, <1>8, <1>9 DEF LifeInv, HandlesOK
<1>11. BuffersOK'
  BY <1>1, <1>3, <1>4, <1>8, <1>9 DEF LifeInv, BuffersOK
<1>12. OwnersOK'
  <2>1. CASE l = "partition"
    BY <1>8, <2>1 DEF OwnersOK, Unmapped
  <2>2. CASE l # "partition"
    <3>1. ept' = ept /\ ("partition" \in InScope => "partition" \in InScope')
      BY <1>8, <1>9, <2>2
    <3> QED
      BY <1>1, <1>3, <3>1, OwnersKept DEF LifeInv
  <2> QED
    BY <2>1, <2>2
<1> QED
  BY <1>7, <1>10, <1>11, <1>12 DEF LifeInv

(* The end of the arm, and a failure at any statement.                       *)
LEMMA EndLife ==
  ASSUME HostInv, LifeInv, End \/ Abort
  PROVE  LifeInv'
<1>1. Phase /\ step \in Nat /\ proc \in {"record", "replay"}
  BY DEF HostInv, Phase
<1>2. /\ proc' = proc /\ step' = step /\ scope' = scope /\ handle' = handle /\ vcpu' = vcpu
      /\ exits' = exits /\ live' = live /\ ept' = ept /\ memory_regions' = memory_regions
      /\ section' = section
  BY DEF End, Abort, processVars, loaderVars
<1>3. InScope' = InScope /\ Buffers' = Buffers /\ Opened(step)' = Opened(step)
  BY <1>2 DEF InScope, Buffers, Opened
<1>4. BuffersOK'
  BY <1>2, <1>3 DEF LifeInv, BuffersOK
<1>5. OwnersOK'
  BY <1>1, <1>2, <1>3, OwnersKept DEF LifeInv
<1>6. CASE End
  BY <1>2, <1>3, <1>4, <1>5, <1>6 DEF End, LifeInv, ScopeOK, HandlesOK
<1>7. CASE Abort
  BY <1>2, <1>3, <1>4, <1>5, <1>7 DEF Abort, LifeInv, ScopeOK, HandlesOK
<1> QED
  BY <1>6, <1>7

(* The replay starts with nothing.                                           *)
LEMMA StartLife ==
  ASSUME HostInv, LifeInv, StartReplay
  PROVE  LifeInv'
<1>1. /\ proc' = "replay" /\ status' = "executing" /\ step' = 1
      /\ scope' = <<>> /\ handle' = "none" /\ vcpu' = FALSE /\ live' = {} /\ ept' = Unmapped
  BY DEF StartReplay
<1>2. InScope' = {}
  BY <1>1 DEF InScope
<1>3. ScopeOK' /\ HandlesOK' /\ BuffersOK'
  BY <1>1, <1>2 DEF ScopeOK, Opened, HandlesOK, BuffersOK
<1>4. OwnersOK'
  BY <1>1 DEF OwnersOK, Unmapped
<1> QED
  BY <1>3, <1>4 DEF LifeInv

(* The lifetimes hold in every state.                                        *)
LEMMA LifeInvariance == Spec => []LifeInv
<1>1. Init => LifeInv
  <2> SUFFICES ASSUME Init PROVE LifeInv
    OBVIOUS
  <2>1. InScope = {}
    BY DEF Init, InScope
  <2>2. ~(section > 0)
    BY DEF Init, LoaderInit
  <2>3. ScopeOK /\ HandlesOK /\ BuffersOK
    BY <2>1, <2>2 DEF Init, ScopeOK, Opened, HandlesOK, BuffersOK
  <2>4. OwnersOK
    BY DEF Init, OwnersOK, Unmapped
  <2> QED
    BY <2>3, <2>4 DEF LifeInv
<1>2. HostInv /\ LifeInv /\ [Next]_vars => LifeInv'
  <2> SUFFICES ASSUME HostInv, LifeInv, [Next]_vars PROVE LifeInv'
    OBVIOUS
  <2>1. CASE LoadAllocate \/ LoadSection
    BY <2>1, LoadLife
  <2>2. CASE \/ LoadReturns \/ configure_interceptions \/ NewMemory("page_table")
             \/ Capture \/ Call \/ GuestStops \/ RestoreReturns
    BY <2>2, QuietLife
  <2>3. CASE \/ NewPartition \/ NewVcpu \/ LoadArchive
             \/ \E r \in {"stack", "null"} : NewMemory(r)
    BY <2>3, OpenLife
  <2>4. CASE \E r \in Regions : MapRegion(r)
    BY <2>4, MapRegionLife
  <2>5. CASE RunGuest \/ RestoreRegion
    BY <2>5, RunAndRestoreLife
  <2>6. CASE DropVcpu \/ DropPartition \/ DropMemory
    BY <2>6, DropLife
  <2>7. CASE End \/ Abort
    BY <2>7, EndLife
  <2>8. CASE StartReplay
    BY <2>8, StartLife
  <2>9. CASE UNCHANGED vars
    <3>1. /\ proc' = proc /\ status' = status /\ step' = step /\ scope' = scope
          /\ handle' = handle /\ vcpu' = vcpu /\ exits' = exits /\ live' = live
          /\ ept' = ept /\ memory_regions' = memory_regions /\ section' = section
      BY <2>9 DEF vars, hostVars, processVars, loaderVars
    <3>2. InScope' = InScope /\ Buffers' = Buffers /\ Opened(step)' = Opened(step)
          /\ Closing' = Closing
      BY <3>1 DEF InScope, Buffers, Opened, Closing
    <3> QED
      BY <3>1, <3>2 DEF LifeInv, ScopeOK, HandlesOK, BuffersOK, OwnersOK
  <2> QED
    BY <2>1, <2>2, <2>3, <2>4, <2>5, <2>6, <2>7, <2>8, <2>9 DEF Next
<1> QED
  BY <1>1, <1>2, HostInvariance, PTL DEF Spec

(* In every run of both commands, whatever fails and whatever the image: a   *)
(* virtual processor never outlives its partition or the memory it reaches,  *)
(* the replay's memory outlives its mapping, and a command that ends gives   *)
(* back partition, stack, null page and snapshot.                            *)
THEOREM DropsCorrect == Spec => []DroppedInOrder
  BY HostInvariance, LifeInvariance, LifeImpliesOrder, PTL
=============================================================================
