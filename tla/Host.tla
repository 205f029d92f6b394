-------------------------------- MODULE Host --------------------------------
(***************************************************************************)
(* The host side of both commands of cli/main.rs, statement by statement:   *)
(* loading the binary, creating partition and virtual processor, mapping    *)
(* memory, running the guest, and dropping the locals at the end of the     *)
(* arm.  `cli record` runs first; `cli replay` is a process of its own that *)
(* gets nothing but the snapshot.                                           *)
(*                                                                         *)
(* The workspace is built with panic = "abort": a call that fails ends the  *)
(* process without drops, and the system takes back what it held.           *)
(***************************************************************************)
EXTENDS Loader, Paging, Layout, SequencesExt

VARIABLES
  proc,            \* "record", then "replay"
  status,          \* "executing", "running" (the guest), "dropping", "ended", "aborted"
  step,            \* the next statement of the arm
  scope,           \* locals that own a handle or mapped memory, in declaration order
  handle,          \* the partition: "none", "ready" or "deleted"
  exits,           \* ExtendedVmExits of the partition
  vcpu,            \* the virtual processor exists
  live,            \* host buffers allocated and not freed, of those that get mapped
  ept,             \* the guest-physical mapping of the partition
  memory_regions,  \* of the snapshot in the archive
  todo,            \* keys of the snapshot that restore_snapshot has yet to map
  recorded         \* history: ept while the recorded guest ran

processVars == <<scope, handle, exits, vcpu, live, ept>>
hostVars    == <<proc, status, step, processVars, memory_regions, todo, recorded>>
vars        == <<loaderVars, hostVars>>

image_pages == aligned_size \div PAGE

-----------------------------------------------------------------------------
(* The two arms.  "new" declares a local or allocates, "call" is a call that *)
(* only may fail.                                                            *)

\* Seeded fault: the virtual processor is declared before the memory it uses.
RecordArmVcpuFirst ==
  <<<<"load", "image">>, <<"new", "partition">>, <<"call", "configure_interceptions">>,
    <<"new", "vcpu">>,
    <<"map", "image">>, <<"new", "stack">>, <<"map", "stack">>,
    <<"new", "null">>, <<"map", "null">>, <<"new", "page_table">>, <<"map", "page_table">>,
    <<"capture", "snapshot">>, <<"call", "registers">>,
    <<"run", "guest">>, <<"call", "save">>>>

\* Seeded fault: the page tables are mapped before image and stack.
RecordArmTablesFirst ==
  <<<<"load", "image">>, <<"new", "partition">>, <<"call", "configure_interceptions">>,
    <<"new", "page_table">>, <<"map", "page_table">>,
    <<"map", "image">>, <<"new", "stack">>, <<"map", "stack">>,
    <<"new", "null">>, <<"map", "null">>,
    <<"capture", "snapshot">>, <<"new", "vcpu">>, <<"call", "registers">>,
    <<"run", "guest">>, <<"call", "save">>>>

RecordArm ==
  <<<<"load", "image">>, <<"new", "partition">>, <<"call", "configure_interceptions">>,
    <<"map", "image">>, <<"new", "stack">>, <<"map", "stack">>,
    <<"new", "null">>, <<"map", "null">>, <<"new", "page_table">>, <<"map", "page_table">>,
    <<"capture", "snapshot">>, <<"new", "vcpu">>, <<"call", "registers">>,
    <<"run", "guest">>, <<"call", "save">>>>

ReplayArm ==
  <<<<"new", "snapshot">>, <<"new", "partition">>, <<"call", "configure_interceptions">>,
    <<"new", "vcpu">>, <<"call", "registers">>, <<"restore", "snapshot">>,
    <<"run", "guest">>, <<"call", "verify">>>>

Arm == IF proc = "record" THEN RecordArm ELSE ReplayArm

At(kind, of) == status = "executing" /\ Arm[step] = <<kind, of>>

\* On to the next statement, or to the end of the scope.
Proceed ==
  /\ step' = step + 1
  /\ status' = IF step = Len(Arm) THEN "dropping" ELSE "executing"

-----------------------------------------------------------------------------
Init ==
  /\ LoaderInit
  /\ proc = "record" /\ status = "executing" /\ step = 1
  /\ scope = <<>> /\ handle = "none" /\ exits = {} /\ vcpu = FALSE
  /\ live = {} /\ ept = Unmapped
  /\ memory_regions = NoRegions /\ todo = {} /\ recorded = Unmapped

(* PeLoader::map_into_memory; its buffer is a raw pointer, never freed. *)
LoadAllocate ==
  /\ At("load", "image") /\ Allocate
  /\ live' = live \cup {"image"}
  /\ UNCHANGED <<proc, status, step, scope, handle, exits, vcpu, ept,
                 memory_regions, todo, recorded>>

LoadSection == At("load", "image") /\ CopySection /\ UNCHANGED hostVars

LoadReturns ==
  /\ At("load", "image") /\ ImageMapped
  /\ Proceed
  /\ UNCHANGED <<loaderVars, proc, processVars, memory_regions, todo, recorded>>

(* VmPartition::new: create, set the processor count, set up. *)
NewPartition ==
  /\ At("new", "partition")
  /\ Proceed
  /\ handle' = "ready" /\ scope' = Append(scope, "partition")
  /\ UNCHANGED <<loaderVars, proc, exits, vcpu, live, ept, memory_regions, todo, recorded>>

configure_interceptions ==
  /\ At("call", "configure_interceptions")
  /\ Proceed
  /\ exits' = {"cpuid", "exception", "rdtsc"}
  /\ UNCHANGED <<loaderVars, proc, scope, handle, vcpu, live, ept,
                 memory_regions, todo, recorded>>

NewVcpu ==
  /\ At("new", "vcpu")
  /\ Proceed
  /\ vcpu' = TRUE /\ scope' = Append(scope, "vcpu")
  /\ UNCHANGED <<loaderVars, proc, handle, exits, live, ept, memory_regions, todo, recorded>>

(* AlignedMemory::new for the stack and the null page, which are locals, and *)
(* the three pages of the PageTable, a raw pointer without destructor.       *)
NewMemory(r) ==
  /\ At("new", r)
  /\ Proceed
  /\ live' = live \cup {r}
  /\ scope' = IF r = "page_table" THEN scope ELSE Append(scope, r)
  /\ UNCHANGED <<loaderVars, proc, handle, exits, vcpu, ept, memory_regions, todo, recorded>>

\* A range without pages cannot be mapped (an image without optional header).
MapRegion(r) ==
  /\ At("map", r)
  /\ Pages(image_pages)[r] > 0
  /\ Proceed
  /\ ept' = map_gpa_range(ept, Gpa(image_pages)[r], r, Pages(image_pages)[r])
  /\ UNCHANGED <<loaderVars, proc, scope, handle, exits, vcpu, live,
                 memory_regions, todo, recorded>>

\* The record arm's snapshot; it is serialised later, by the statement "save".
Capture ==
  /\ At("capture", "snapshot")
  /\ Proceed
  /\ memory_regions' = capture_memory_layout(image_pages)
  /\ UNCHANGED <<loaderVars, proc, processVars, todo, recorded>>

\* Long mode and registers; saving the archive; the comparison of the hashes.
Call ==
  /\ \E c \in {"registers", "save", "verify"} : At("call", c)
  /\ Proceed
  /\ UNCHANGED <<loaderVars, proc, processVars, memory_regions, todo, recorded>>

RunGuest ==
  /\ At("run", "guest")
  /\ status' = "running"
  /\ recorded' = IF proc = "record" THEN ept ELSE recorded
  /\ UNCHANGED <<loaderVars, proc, step, processVars, memory_regions, todo>>

GuestStops ==
  /\ status = "running"
  /\ Proceed
  /\ UNCHANGED <<loaderVars, proc, processVars, memory_regions, todo, recorded>>

-----------------------------------------------------------------------------
(* The replay arm: the deserialised snapshot owns a buffer per region; the   *)
(* buffer is named like the region it is a copy of.                          *)
LoadArchive ==
  /\ At("new", "snapshot")
  /\ Proceed
  /\ scope' = Append(scope, "snapshot")
  /\ live' = {memory_regions[g] : g \in DOMAIN memory_regions}
  /\ todo' = DOMAIN memory_regions
  /\ UNCHANGED <<loaderVars, proc, handle, exits, vcpu, ept, memory_regions, recorded>>

\* restore_snapshot: HashMap yields the regions in any order.
RestoreRegion ==
  /\ At("restore", "snapshot")
  /\ \E g \in todo :
       /\ ept' = map_gpa_range(ept, g, memory_regions[g],
                               Pages(image_pages)[memory_regions[g]])
       /\ todo' = todo \ {g}
  /\ UNCHANGED <<loaderVars, proc, status, step, scope, handle, exits, vcpu, live,
                 memory_regions, recorded>>

RestoreReturns ==
  /\ At("restore", "snapshot") /\ todo = {}
  /\ Proceed
  /\ UNCHANGED <<loaderVars, proc, processVars, memory_regions, todo, recorded>>

-----------------------------------------------------------------------------
(* The end of the arm: locals are dropped in reverse order. *)
Drop(l) ==
  /\ status = "dropping" /\ scope # <<>> /\ Last(scope) = l
  /\ scope' = Front(scope)
  /\ UNCHANGED <<loaderVars, proc, status, step, exits, memory_regions, todo, recorded>>

DropVcpu ==
  /\ Drop("vcpu")
  /\ vcpu' = FALSE
  /\ UNCHANGED <<handle, live, ept>>

DropPartition ==
  /\ Drop("partition")
  /\ handle' = "deleted" /\ ept' = Unmapped
  /\ UNCHANGED <<vcpu, live>>

\* AlignedMemory; the snapshot of a replay drops one per region.
DropMemory ==
  /\ \E l \in {"stack", "null", "snapshot"} :
       /\ Drop(l)
       /\ live' = IF l = "snapshot" THEN {} ELSE live \ {l}
  /\ UNCHANGED <<handle, vcpu, ept>>

End ==
  /\ status = "dropping" /\ scope = <<>>
  /\ status' = "ended"
  /\ UNCHANGED <<loaderVars, proc, step, processVars, memory_regions, todo, recorded>>

StartReplay ==
  /\ proc = "record" /\ status = "ended"
  /\ proc' = "replay" /\ status' = "executing" /\ step' = 1
  /\ scope' = <<>> /\ handle' = "none" /\ exits' = {} /\ vcpu' = FALSE
  /\ live' = {} /\ ept' = Unmapped
  /\ UNCHANGED <<loaderVars, memory_regions, todo, recorded>>

\* Any statement may fail: its expect() aborts the process.
Abort ==
  /\ status \in {"executing", "running"}
  /\ status' = "aborted"
  /\ UNCHANGED <<loaderVars, proc, step, processVars, memory_regions, todo, recorded>>

Next ==
  \/ LoadAllocate \/ LoadSection \/ LoadReturns
  \/ NewPartition \/ configure_interceptions \/ NewVcpu
  \/ \E r \in {"stack", "null", "page_table"} : NewMemory(r)
  \/ \E r \in Regions : MapRegion(r)
  \/ Capture \/ Call \/ RunGuest \/ GuestStops
  \/ LoadArchive \/ RestoreRegion \/ RestoreReturns
  \/ DropVcpu \/ DropPartition \/ DropMemory \/ End \/ StartReplay \/ Abort

Spec == Init /\ [][Next]_vars

-----------------------------------------------------------------------------
(* The guest's view: virtual page -> page tables in guest memory -> mapping. *)

\* Guest-physical memory as the page walk reads it; only the pages of the
\* page-table buffer hold tables.
Tables ==
  [p \in DOMAIN ept |->
     IF ept[p][1] = "page_table" THEN create_identity_mapping(pt_gpa)[ept[p][2]]
     ELSE Table([i \in {} |-> NoEntry])]

Translate(gva) == Walk(Tables, pt_gpa, gva)

\* The image sector that the guest reads at virtual sector address a.
Reads(a) ==
  LET p == Translate(a \div PAGE)
  IN IF p \in DOMAIN ept /\ ept[p][1] = "image"
     THEN image[ept[p][2] * PAGE + (a % PAGE)]
     ELSE Fault

(* Whatever the size of the image, and in a replay if the regions are apart, *)
(* the running guest finds its page tables at CR3 and every mapped page      *)
(* below 1 GiB at its own address; above, nothing is present.  The record    *)
(* arm owes this to mapping the tables last.                                 *)
VirtualIsPhysical ==
  status = "running" /\ (proc = "record" \/ Fits(image_pages)) =>
    /\ \A p \in DOMAIN ept \cup {GIB - 1} : p < GIB => Translate(p) = p
    /\ \A p \in {GIB, ENTRIES * GIB} : Translate(p) = Fault

(* When the regions are apart, the guest reads at base_gpa plus its RVA each *)
(* sector of each section as the linker wrote it, in the recording and in    *)
(* the replay: loading, copying to the snapshot, mapping and page walk agree *)
(* on where the image is.                                                    *)
GuestReadsItsImage ==
  status = "running" /\ Fits(image_pages) =>
    \A i \in DOMAIN pe.sections :
      LET s == pe.sections[i] IN
      \A a \in Destination(s) :
        Reads(base_gpa * PAGE + a) = s.pointer_to_raw_data + (a - s.virtual_address)

(* "Restores the initial guest memory [...] from a snapshot" (replay.rs:48): *)
(* the replayed guest has at every guest-physical page the copy of exactly   *)
(* the memory that the recorded guest had there.                             *)
RestoresGuestMemory ==
  proc = "replay" /\ status = "running" => ept = recorded

(* When the regions are apart, restore_snapshot restores the guest's memory  *)
(* whatever the order in which the HashMap yields them.                      *)
RestoresWhenApart == Fits(image_pages) => RestoresGuestMemory

(* Whatever the size of the image, the replayed guest has memory at exactly  *)
(* the pages where the recorded one had some (regions that overlap change    *)
(* what is there, never whether something is), with one exception.  When the *)
(* stack has the very address of the page tables, HashMap::insert replaces   *)
(* its copy by theirs (record.rs:146), and the rest of it is not mapped.     *)
ReplayMapsSamePages ==
  proc = "replay" /\ status = "running" =>
    (DOMAIN ept = DOMAIN recorded <=> Gpa(image_pages)["stack"] # pt_gpa)

(* "remain valid while mapped" (ept.rs:22): no buffer is freed while the     *)
(* partition still maps it.                                                  *)
MappedMemoryIsValid == \A p \in DOMAIN ept : ept[p][1] \in live

(* The order of the locals makes every drop safe: while a virtual processor  *)
(* exists its partition does, with its interceptions configured before it    *)
(* runs, and the memory it can reach is allocated; in the replay arm the     *)
(* memory even outlives its mapping, and is all given back.                  *)
DroppedInOrder ==
  /\ vcpu => handle = "ready" /\ MappedMemoryIsValid
  /\ status = "running" => vcpu /\ exits = {"cpuid", "exception", "rdtsc"}
  /\ proc = "replay" => MappedMemoryIsValid
  /\ status = "ended" => handle = "deleted" /\ live \subseteq {"image", "page_table"}
=============================================================================
