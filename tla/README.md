# Vestigium: a TLA+ model of record and replay

Vestigium runs a bare-metal x86-64 program in a Windows Hypervisor Platform
(WHPX) partition. `cli record` logs the answers it gives to CPUID, RDTSC and
VMCALL; `cli replay` starts the program again from a snapshot, gives it the
logged answers and compares a hash of the final state. This directory models
that pipeline, checks it with TLC and proves its main properties with TLAPS.

The model has three parts that look at the same two commands from three sides:

- *execution* (`RecordReplay` and the modules below it): what the guest does, what
  is logged, what a replay makes of it;
- *host* (`Host`): which objects each command creates, what it maps where, what
  the guest therefore sees, and in which order everything is dropped;
- *file* (`TraceFile`): what is on disk, word by word, over several recordings.

## 1. Inventory

| Component (source) | State | Operations | What makes it correct |
|---|---|---|---|
| Record engine (`engine/record.rs`) | events, `instruction_count`, the vCPU | `run`: one arm per exit reason; `advance_rip`; `finalize` | the trace alone accounts for the run |
| Replay engine (`engine/replay.rs`) | active vCPU, guest | `restore_snapshot`, `replay_event`, `inject_event`, `advance_rip` | the guest goes through the recorded states; every call returns |
| Snapshot, hash (`engine/record.rs`) | regions, six registers | `capture_region`, `capture_registers`, `hash_state` | equal hashes mean equal states, in any order of a HashMap |
| `AlignedMemory` (`engine/record.rs`) | a buffer | `new`, serialize, deserialize, drop | freed once, not while mapped; written and read alike |
| Trace format, archive (`trace/format.rs`, `cli/main.rs`) | events, file | serialize, `fs::write`, deserialize | only a complete archive is replayed |
| CLI (`cli/main.rs`) | everything above | `record`, `replay`, `handle_vm_exit` | the printed verdict is right |
| vCPU (`vmm/vcpu.rs`) | registers | get, set, `setup_long_mode`, drop | a fresh vCPU plus a snapshot is the recorded one |
| Runner (`engine/runner.rs`) | none | `run` until the next exit | external behaviour |
| Partition (`vmm/partition.rs`) | handle, interceptions | `new`, `configure_interceptions`, drop | handle deleted exactly once |
| EPT manager (`vmm/ept.rs`) | mapped ranges | `map_gpa_range` | host memory outlives its mapping |
| Page tables (`vmm/paging.rs`) | three pages | `create_identity_mapping` | the walk is the identity below 1 GiB |
| PE loader (`engine/loader.rs`) | image buffer | `parse`, `map_into_memory` | each section at its address |
| Payloads (`test_target`, `target_app`) | `COUNTER` | the two programs | they halt with the expected result |

Interaction: the CLI owns all objects and calls the engines; engines call the
runner and the vCPU; `cli record` and `cli replay` are two processes that share
only the trace file. Within one process everything is sequential, so the hard
behaviour is elsewhere: the order of events is the only thing that ties them to
the guest; exits may meet an event that does not fit; six registers stand for
all; guest memory aliases the snapshot that is hashed at the end; the file is
written in place and can be read half-written, or after a longer one; error paths
of the last run are swallowed; the regions are placed at addresses that depend on
the size of the image and restored in the order of a HashMap; locals are dropped
in the reverse order of their declaration while raw pointers to them are mapped. `PROJECT.json` lists these as hazards, each at its line.

## 2. Modules

| Module | Models |
|---|---|
| `Guest` | the processor and WHPX (external): instructions, exits, exit context |
| `Vcpu` | `vcpu.rs` and `advance_rip` |
| `Archive` | `format.rs`, `Snapshot`, the archive file |
| `Recorder` | the process `cli record` with `RecordEngine` |
| `Replayer` | the process `cli replay` with `ReplayEngine` |
| `RecordReplay` | both processes around one trace file; the properties |
| `FaithfulReplay` | the abstract promise: record, seal, show the same states, confirm |
| `Payloads` | an assembler for guest programs, and the repository's two payloads as listings |
| `PayloadRuns` | recording and replaying those payloads, and what they must compute |
| `Loader` | `loader.rs`: `map_into_memory`, section by section |
| `Paging` | `paging.rs`: the three tables, and the processor's walk (external) |
| `Layout` | addresses and sizes of the four regions, `ept.rs`, `capture_region` |
| `Host` | both arms of `main`, statement by statement, composed of the three above |
| `StateHash` | `hash_state`: what is hashed, in which order |
| `Codec` | the serde code of `record.rs` and `format.rs`, bincode (external) |
| `TraceFile` | the trace file over several recordings that may be killed, for any codec |
| `MCRecordReplay`, `MCReplayer`, `MCHost`, `MCTraceFile` | instances for TLC |
| `Replayer_proofs`, `RecordReplay_proofs` | lemmas and theorems about execution |
| `Promise_proofs`, `Boundary_proofs` | the refinement of `FaithfulReplay`; RIP and instruction boundaries |
| `Payloads_proofs` | what the two payloads compute |
| `Setup_proofs`, `Host_proofs` | page tables and loader; lemmas and theorems about the host |
| `TraceFile_proofs` | the theorems about the file and the hash |

How state and actions of the execution modules correspond to the code:

- A machine is `[regs, mem]`. `regs` are the four general registers the engines
  touch, the six captured ones, EFER, the segments (one token) and CR8. `mem` is
  the code and one data cell for each of the four regions that the CLI maps.
  `code[k]` is what the processor decodes at byte `k`, and the bytes after the
  first one of an instruction are `"junk"`: RIP really counts bytes.
- `Execute` is one instruction without exit, `Reason`/`ExitContext` what WHPX
  reports. HLT completes before it is reported, every other exit leaves RIP at
  its instruction. `VpContext._bitfield` carries the length and CR8 in one byte.
- Exit reason 4, which the source calls Callout, is what WHPX reports for an
  exception nothing handles. The guest has no IDT and no exception bitmap is
  set, so VMCALL ends there and so does SYSCALL (EFER.SCE is clear).
- The recorder's program counter `recPc`: `idle`, `running` (inside
  `WHvRunVirtualProcessor`), `exit` (inside the `match`), `stopped` (after
  `run`), `saving` (inside `fs::write`), `saved`, `panicked`. Each arm of the
  `match` is one action: it sets registers, logs, counts and advances RIP. Those
  calls are one step because nothing can observe a state between them and a
  failure of any one ends the process (`RecordPanic`, possible everywhere).
- The replayer's `repPc` adds `verify`, `verified`, `failed`. `next` is the index
  of the event the `for` loop is at; beyond the last event the guest is in the
  final `runner.run()`. `FinalError` is the error `handle_vm_exit` swallows.
- `repSnapshot.memory_regions` *is* the guest's memory during a replay, as
  `restore_snapshot` maps the snapshot's own buffers.
- The file is `[written, archive]`; `written` counts complete fields. Only with
  all three does `bincode::deserialize` succeed.
- `TestTarget` and `TargetApp(n)` say what stands at each byte of a payload, as a
  disassembler would; `n` is the number of iterations, 100 in the source. The
  listing of `test_target` is written from its source and leaves out what no
  property depends on: `mov eax, 0` before CPUID, whose answer is the same for every
  leaf, and the two `xchg` that save RBX from it. Its result is where the source puts
  it, in the stack slot of `black_box(result)`. The comment at `record.rs:251`
  ("Expecting 0x42 to confirm deterministic execution") looks for it in RAX instead.
  Nothing in the source puts it there (in the listing RAX keeps CPUID's answer), and
  what a compiled `test_target` has in RAX at HLT is the compiler's choice. The two
  places disagree; since no code checks the printed value and the source leaves it
  open, there is no run about it.
- `path` and `repSteps` are history variables: the machine after every guest
  step with the number of events logged by then, and how many guest steps the
  replay has made. No guard reads them, except for the bound `MaxSteps`.

How those of the host modules do:

- Addresses in the PE file and the image count sectors of 512 bytes, the file
  alignment of a PE file; guest addresses count pages. A sector of the buffer
  holds 0 or the number of the file sector copied to it, so the property that
  every byte is where it belongs needs no bytes.
- `WellFormed` is what a linker guarantees of a section table (external). The
  code relies on it: its bounds checks are `unsafe` copies.
- `RecordArm` and `ReplayArm` are the statements of the two arms in source order,
  `step` is the next one, and each has an action. The guest's execution is the
  one state `status = "running"`, in which the properties look at what the guest
  would find.
- `scope` holds the locals whose destructors concern the partition or its memory,
  in the order of their declaration; at the end of the arm they are dropped from
  the last to the first. The image and the page tables are raw pointers without
  an owner and are never freed. The snapshots of `cli record` own copies that are
  never mapped and are left out; the one of `cli replay` owns the mapped buffers.
- The workspace sets `panic = "abort"` for both profiles, so a failure
  (`Abort`, possible at every statement) ends the process without any drop.
- `ept` maps a guest-physical page to a page of a host buffer. A later
  `WHvMapGpaRange` replaces what its range covered before (external).
- `memory_regions` is the HashMap of the snapshot: equal keys replace each other,
  and `RestoreRegion` takes any key that is left.
- `Translate` walks the page tables *where the guest finds them*, that is through
  `ept` at CR3; a page of another buffer there holds no entries.

And those of the file modules:

- A word is one u8, u32 or u64; a file is a sequence of words. `Encode` and
  `Decode` follow type descriptors that repeat the declarations of the source.
  `AlignedMemory` has two: it is written with `serialize_bytes` and read as a
  `Vec<u8>`, which bincode happens to encode alike. A `Vec` of pairs stands for
  the HashMap, in the order in which the map yields its keys.
- `Open` is `bincode::serialize` and the truncation of the file by `fs::write`,
  `Write` puts one more word into it, `Kill` may come between any two words. A
  replay may read in any state, which is why the properties are about all states.
- `hash_state` feeds the hasher the registers and then the regions in ascending
  order of their addresses; `sort_unstable` is a rearrangement that ascends, whichever it is.
- `TraceFile` takes the codec as the constants `Encodings` (all that serialising an
  archive may yield, one for each order of the HashMap) and `Load`. The run gives
  them the values `serializations` and `deserialize` of `Codec`, so it is the real
  format that TLC checks; the theorem holds for every codec that satisfies
  `CodecAssumption`.

Abstractions. The values of control registers are tokens (some exceed TLC's
integers), CPUID's answers 0xAAAA_AAAA... are their digits 10..13, 2^32 is `U32`
for the truncation of thread ids. The 64-bit hash is taken to be free of
collisions. Guests do not modify their code. Definitions marked `Seeded fault`
are used by no specification; each is a plausible bug that makes one property
fail, listed under `mutants` in `PROJECT.json`.

## 3. Runs

| Run | Result | Question |
|---|---|---|
| `pipeline` | pass | all programs of three instructions over a 15-instruction alphabet plus HLT, all crash points, replay started at any time: eight invariants and an action property |
| `faithful` | pass | payloads and all deterministic two-instruction programs: refinement of `FaithfulReplay`, termination of the replay, payload results |
| `foreign` | pass | `cli replay` with all traces of at most two events against all two-instruction programs |
| `host` | pass | both arms of `main` on twelve images, a failure at every statement, every order of restoring: six invariants |
| `trace_file` | pass | three recordings into one file in every order, each killed at any word: two invariants |
| `count` | violation | `instruction_count` is not the retired instruction count |
| `hash_gap` | violation | success does not imply equal registers (RDRAND guest) |
| `spin` | violation | `replay_event` does not always return |
| `syscall_log` | violation | a system call is logged as a context switch |
| `syscall_inject` | violation | a Syscall event that meets the guest's system call is spent without effect: load, exit with reason 4, mismatch |
| `overlap` | violation | an image of 241 pages is not restored: its stack meets the page tables |
| `drop_order` | violation | stack and null page are freed while the partition maps them |

Properties of the passing runs:

- `TraceDeterminesRun`: the trace starts at the snapshot, and every step of the
  run is a plain instruction, the final HLT, or the answer of exactly the next
  event, as `replay_event` would give it.
- `Lockstep`: at every moment the replayed machine equals the recorded machine
  of the same position, and the events consumed are those logged by then.
- `EventsAnswerExits`: `replay_event` never meets an event that does not fit.
- `VerdictIsRight`: unless the last run failed, the assertion on the hash never
  fires and success means that the *whole* machine is the recorded one.
- `SuccessIsEarned`: for every guest, and also when the last run failed and its error
  was only printed, success means that memory and the six captured registers are
  those with which the recording ended. The general registers may differ then:
  `hash_gap` shows it for RDRAND, and after an error a guest may stand in an earlier
  state of the run with the same memory and captured registers. The model has the
  error strike after any number of instructions of the last run.
- `OnlyCompleteArchives`: no guest runs from a half-written file.
- `OnInstructionBoundary`: RIP never lands inside an instruction.
- `ReplayRunsDown`: every step of a replay process, failures included, uses up some
  of what the recording left to replay (`Remaining`, three for each recorded guest
  step), so the loop of `replay_event` never runs the guest again for nothing.
- `KeepsPromise`, `ReplayEnds`: the refinement, and that a replay comes to its end.
- `PayloadsHaltAsExpected`: `test_target` finds both injected answers and leaves
  0x42; `target_app` leaves two increments per iteration in `COUNTER` and RAX.
- `EndsUnlessStuck`, `NoUnansweredExit`: what remains true when the events do not
  fit the guest.

- `SectionsPlaced`: after each round of the loop in `map_into_memory` every
  section copied so far is complete, at its address and inside the buffer, and
  everything else is zero.
- `VirtualIsPhysical`: the running guest finds its page tables at CR3, and each
  mapped page below 1 GiB at its own virtual address. A recording has this for
  every image, because the tables are mapped last.
- `GuestReadsItsImage`: read through page walk and mapping, each section is what
  the file says, in recording and replay.
- `RestoresWhenApart`: a replay gives the guest the memory layout of the
  recording, in every order of the HashMap, if the image leaves room for the
  stack below the page tables (at most 240 pages). `overlap` shows why the
  condition is there.
- `ReplayMapsSamePages`: beyond 240 pages a replay may find another region at a page,
  but always some region: the pages mapped are those of the recording. The one
  exception, in both directions, is an image of exactly 256 pages, where
  `HashMap::insert` replaces the copy of the stack by that of the page tables and
  thirteen pages of the stack are not mapped in the replay.
- `DroppedInOrder`: a virtual processor never outlives its partition or the
  memory it reaches; it runs only with all interceptions configured; the replay's
  buffers outlive their mapping; a command that ends has deleted the partition
  and freed all memory that has an owner. `drop_order` shows what the record arm
  does not guarantee: between the drop of `vcpu` and that of `partition`, freed
  memory is mapped.
- `LoadableIffSaved`: the file can be loaded exactly while the recording that
  opened it last has written all of it, and yields that recording's archive.
- `HashSurvivesTheFile`: the hash does not depend on the orders in which the
  HashMaps of two processes yield the regions.

`Lockstep`, `EventsAnswerExits`, `VerdictIsRight` and `ReplayRunsDown` are about
guests without RDRAND (`Det`); `hash_gap` and `spin` show what happens with it.
`OnInstructionBoundary` is about guests whose unhandled exceptions are VMCALLs
(`FaultFree`); `syscall_log` shows the other case.

Bounds. `MaxSteps` (40 or 60) exceeds the longest run of every program in the
passing runs (`TargetApp(3)` takes fewer than 60 steps, a three-instruction
program fewer than 10), so no run is cut off except a guest that loops, which
may go on for ever in the code too. Three instructions are enough for two exits
of different kinds after a change of the register that the second one reads, for
a jump over an exit, and for memory written before and read after an exit;
`Mov rcx, 17` exceeds `U32 = 16` and `mov cr8, 3` fills the upper half of the
length byte. `Random = {0, 1}` is the least that distinguishes two executions. `Iterations = {1, 3}`
makes `target_app` leave its loop at once and after repeating it; the proof is for
every number.
Deadlock is not checked since both processes end.

The images of `host` have one page, 6, 239, 240, 241, 255, 256, 257, 259 and 260,
and there is one without sections and one without optional header: 240 pages are
the most that fit, with 241 the stack reaches the page tables, with 256 it has
their address (and replaces them as a key of the snapshot), with 257 and 259 the
image covers one and all of them, and with 260 it goes past them. Each has a
section that is longer than a page, one with a zero tail, one without raw data
and one that ends in the last page. No other bound is needed: the arms are finite.
The archives of `trace_file` have different lengths in every order of two, events
of all four kinds, an empty region and one, two and three regions.

Fairness. `FairSpec` assumes weak fairness of `ReplayProgress`: the operating
system schedules the replay process and hypervisor calls return. Nothing is
assumed of the recording, of errors, or that a replay is ever started with a
complete file. TLC runs with fairness are `faithful`, `foreign`, `spin` and
`syscall_inject`.

## 4. Proofs

The theorems about execution hold for every set of images, every `U32 > 13`, every
nonempty set of random values and every bound:

| Theorem | Module | Statement |
|---|---|---|
| `TypeCorrect` | `RecordReplay_proofs` | `Spec => []TypeOK` |
| `TraceCorrect` | `RecordReplay_proofs` | `Spec => []TraceDeterminesRun` |
| `LockstepCorrect` | `RecordReplay_proofs` | `Spec => []Lockstep` |
| `EventsCorrect` | `RecordReplay_proofs` | `Spec => []EventsAnswerExits` |
| `VerdictCorrect` | `RecordReplay_proofs` | `Spec => []VerdictIsRight` |
| `SuccessCorrect` | `RecordReplay_proofs` | `Spec => []SuccessIsEarned`, guests with RDRAND and errored last runs included |
| `ArchivesComplete` | `RecordReplay_proofs` | `Spec => []OnlyCompleteArchives` |
| `RunsDown` | `RecordReplay_proofs` | `Spec => ReplayRunsDown` |
| `PromiseKept` | `Promise_proofs` | `Spec /\ Det => KeepsPromise`: the system implements `FaithfulReplay` |
| `BoundaryCorrect` | `Boundary_proofs` | `Spec /\ WellAssembled(image) => []OnInstructionBoundary` |
| `PayloadsCorrect` | `Payloads_proofs` | `Spec => []PayloadsHaltAsExpected`, for every set of iteration counts |
| `PayloadsOnBoundary` | `Payloads_proofs` | both engines resume the payloads at instructions only |
| `ExitsAnswered` | `Replayer_proofs` | a replay alone, with any well-typed archive in the file, satisfies `NoUnansweredExit` |
| `RecordedExitsAnswered` | `RecordReplay_proofs` | `Spec => NoUnansweredExit` |

Assumptions: `GuestAssumption` (`U32 > 13` so that the constant CPUID answers fit,
random values are numbers), `ImagesAssumption` (images are well-formed) and, for the
payloads, `IterationsAssumption` (`target_app` loops at least once); TLC evaluates
them on each run of `MCRecordReplay`. `PromiseKept` is about guests without
RDRAND, as `hash_gap` requires. `BoundaryCorrect` is about images that are machine
code (`WellAssembled`: instructions follow each other, jumps go to instructions,
VMCALL has three bytes). `PayloadsOnBoundary` proves that both payloads are; that the
assembler of `Payloads` produces such images for the other programs of the runs is the
assumption `ImagesAssembled` of `MCRecordReplay`, evaluated by TLC.
`ExitsAnswered` starts from `ReplayInit /\ [][ReplayNext]_replayVars` and leaves the
file to anybody, so it covers the archives of `foreign` as well as recorded ones.

`Host_proofs`, with `Setup_proofs` below it, proves for every
set of binaries, hence for images of every size and every section table:

| Theorem | Statement |
|---|---|
| `WalkIsIdentity` | the walk through `create_identity_mapping` at any base is the identity below 1 GiB and faults at every other 48-bit address |
| `SectionsCorrect` | `Spec => []SectionsPlaced` |
| `TranslationCorrect` | `Spec => []VirtualIsPhysical` |
| `ImageReadCorrect` | `Spec => []GuestReadsItsImage` |
| `RestoreCorrect` | `Spec => []RestoresWhenApart` |
| `SamePagesCorrect` | `Spec => []ReplayMapsSamePages`: 256 pages are the only exception among images of every size |
| `OrderIrrelevantIffFits` | any two regions can be mapped in either order, on top of anything, if and only if `Fits` |
| `DropsCorrect` | `Spec => []DroppedInOrder` |

Assumption: `BinariesAssumption` (each binary is `WellFormed`), which TLC evaluates
on the runs of `MCHost`. `WalkIsIdentity` assumes nothing but that the three pages
are where CR3 points. `OrderIrrelevantIffFits` is about every image of at least one
page; it makes the bound of `RestoreCorrect` exact. With 241 to 256 pages it is the
stack that meets the page tables, beyond that the image itself, and in both cases
what the guest finds there depends on the HashMap of the replaying process.

`TraceFile_proofs` proves two theorems, for any number of recordings and archives and
words of any length:

| Theorem | Statement |
|---|---|
| `FileLoadsIffSaved` | `Spec => []LoadableIffSaved` |
| `HashSurvives` | `Spec => []HashSurvivesTheFile`: for any number of regions at any addresses |

Assumptions: 0 is not a recording and the addresses of an archive's regions are a
finite set of numbers (`ArchivesAssumption`), and `CodecAssumption`: what an encoding loads as is
the archive, and neither the empty file nor a proper prefix of an encoding loads. TLC
evaluates it for `Codec` on the archives of the run, and `SmallArchivesRoundTrip` in
`MCTraceFile` states the same of every archive with up to two regions of up to two
bytes and up to two events of every kind.

Argument for execution. `Lockstep` is not inductive: to take one more step the replay must know
that the recorded run has one more state and that this state is reached the same
way. `IInv` adds the missing facts. For the recording: the code of the guest
never changes and no state is ahead of the trace (`PathOK`), HLT is the last
thing that happens (`HaltIsLast`, otherwise a replay would spend an event at a
HLT in the middle), `exit_ctx` belongs to the guest as it stands
(`RecordExitOK`), a finished recording was blocked or halted (`RecordEndOK`), and
the file holds this recording (`FileOK`). For the replay: once an archive is
loaded the recording is over (`LoadedOK`), a replay that is still running at the
last recorded state is blocked there, and a successful last run ended in that
state (`ReplayExitOK`). Each action has its lemma; the arms that log share
`LogAndResumeInv`, those that inject share `InjectInv`, and the arms that answer
nothing are shown unreachable for deterministic guests by `NextEventAnswers`.
`Replayer_proofs` holds the lemmas about registers and guest steps; among them
`RestoreRegisters` (six registers bring back all) and `ExecuteDeterministic`.
`IInv` was model-checked on the instance of `pipeline` before it was proved.

Argument for `SuccessCorrect`. `SuccessIsEarned` is inductive once `IInv` holds: only
`ReplayVerify` prints success, the hash it compares with is that of the recording's
final state (`LoadedOK`), the recording is over and cannot move on, and what is hashed
is the guest's own memory and its registers of that moment (`VerifyEarns`). It needs
neither `Lockstep` nor a last run without error.

Argument for `RunsDown`. `Remaining` counts three for each recorded guest step that
the replay has not made, and 3, 2 or 1 for where the process is. A step of the guest
takes three off and gives at most one back; any other step moves the process on,
and by `UnansweredIsRandom`, which rests on `EventsAnswerExits`, no arm returns to
`running` without moving the guest. `Lockstep` keeps the count from becoming
negative. This is the part of `ReplayEnds` that is about safety: what is left to TLC
is that fairness makes the process take a step while it can.

Argument for the payloads. `AppAt` and `TestAt` annotate the two listings with an
assertion at every instruction, in the manner of Floyd: inside a slice RDX holds the
value that was read and `COUNTER` still has it, and at the head of the loop
`COUNTER` is twice RBX. `AppExecutes` and `TestExecutes` lead from each assertion to
the next, `AppYields`, `TestTimes` and `TestIdentifies` do so across the answers of
the recorder, where the masked length puts RIP at the next assertion. `AppReason` and
`TestReason` show that HLT is the only way out of the recorder's loop, and at HLT the
assertion is the result. The replay inherits it through `VerdictIsRight`, as neither
payload draws a random number.

Argument for the promise. The refinement maps `path` to what was recorded, the
replay's position in it to what was shown, and the program counters to `sealed` and
`outcome` of `FaithfulReplay`. A guest step of the replay is a `Show` because
`Lockstep` holds before and after it. The verdict needs more: `Confirm` requires that
*all* of the recording was shown, which no property of the replay's own state says.
`ReplayExitOK` therefore ends with `repSteps + 1 = Len(path)` for a last run without
error: it ended in a HLT, which `HaltIsLast` allows only at the end, or in an exit
that no event answers, which the recorded run has only at its end, too.

Argument for boundaries. `BoundaryInv` asks two things of each machine of the run
and of the replayed one: RIP is on a boundary of the image's code, and that code is
still the image's. `advance_rip` is then right for one reason per exit: for CPUID and
RDTSC the length in the low half of `_bitfield`, whatever CR8 put into the upper
half; for VMCALL the constant 3. `AnsweredPlaced` says this once for both sides: the
recording reaches it through `TraceDeterminesRun`, the replay through the invariant
of unanswered exits below, so neither needs a deterministic guest.

Argument for unanswered exits. `ReplaySafe` relates the loop to the guest: while
an exit is pending, `exit_ctx` is that of the guest as it stands, so an arm that
matched on the reason and the event really is at such an instruction. For recorded
files `FileTyped` comes from `IInv`.

Argument for the host. What a mapping is after a number of `map_gpa_range` calls
depends on their order unless the ranges are apart. `Maps(f, S, n)` says that `f`
consists of exactly the regions of `S`; if the image fits, mapping one more region
extends `S` by it (`MapsMore`), and `S` determines `f` (`MapsUnique`). `HostInv`
carries this along: while a recording executes, `ept` is `Maps` of the regions whose
statement has passed (`Building`); while a replay restores, of those whose key is
no longer in `todo` (`Restoring`); both end with all four, so the mappings are
equal. Without `Fits` only `TablesMapped` survives, since the tables are mapped last
and nothing after them replaces them; with `WalkIsIdentity` that is
`VirtualIsPhysical`. Which pages are mapped, as opposed to what is there, does not
depend on `Fits`: `PagesInv` says that they are the pages of the regions mapped so far,
in the replay of the keys taken so far, and `CapturedRegions` that the keys of the
snapshot stand for all regions unless the stack's is the page tables'. For the sections, `LoaderInv` adds the domain of the buffer to
`SectionsPlaced`; `SectionInside` and `SectionsApart` show from `WellFormed` and the
arithmetic of `AlignUp` that a copy neither leaves the buffer nor meets another
section. `LifeInv` is for the drops: `scope` is the list of locals that `step`
determines, or one of its prefixes while dropping; handles and buffers exist exactly
while their owners are in `scope`; and only buffers of passed statements are mapped.
Both invariants were model-checked on the instance of `host` first.

Argument for the file. `LoadableIffSaved` is not inductive, as it says nothing of a
file that does not load. `TraceFileInv` adds that the file is exactly the first `pos`
words of the encoding of its owner, that the owner is the only one who may be
writing, and that it has saved when `pos` has reached the end. This is where the
truncation matters: without it the tail of a longer, earlier file stays.

Argument for the hash. Two processes hash the same archive, by the theorem above, each
in the order of its own HashMap. Both orders list the same addresses once, so it is
enough that `sort_unstable` of either is *the* ascending list of them: `ListExists`
gives one for every finite set of numbers and `ListUnique` only one. Both are
inductions. The library's induction theorems take an operator and cannot be used, but
a least counterexample exists because `<` is well-founded on the naturals (`LeastNat`):
a set of least size without a list has one again when its least address is removed,
and at the first position where two lists differ, one of them misses an address.

Only model-checked, and why:

- `ReplayEnds`, `EndsUnlessStuck` and the violation of `spin`: liveness under
  fairness is outside the prover's reach.
- `CodecAssumption` for the real `Codec`: `Encode` and `Decode` recurse over type
  descriptors of any depth and are RECURSIVE operators, which the prover does not take.
- `ImagesAssembled`: the assembler folds over a program of any length.

## 5. Not modelled, and the plan

- Two recordings that write to one file *at the same time*: the code makes no
  promise, and the result depends on how the operating system orders writes.
- Malformed PE files. The parser (goblin) and the linker are external, and the
  model takes section tables that satisfy `WellFormed`; for others the copies of
  `map_into_memory` are not memory-safe and no outcome is defined.
- An image without optional header asks for an allocation of size zero; in the
  model the mapping of no pages fails and the process aborts, the only outcome
  that is defined.
- Access rights. All mappings are readable, writable and executable, the null page
  included, and the guest runs in ring 0; comments and README describe this
  differently, but no property here depends on it.
- Collisions of the 64-bit hash, argument parsing, messages, the unit tests in
  `engine/lib.rs` and `vmm/lib.rs`, and the build and CI scripts.

What remains for the proofs is what the list at the end of section 4 names; every
safety property of the passing runs, invariant or action property, is stated by a
theorem.
