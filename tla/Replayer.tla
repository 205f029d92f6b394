------------------------------ MODULE Replayer ------------------------------
(***************************************************************************)
(* The process `cli replay`: cli/main.rs loads the archive, restores the    *)
(* snapshot, calls ReplayEngine::replay_event for every event, runs the     *)
(* guest once more and compares hashes.                                     *)
(*                                                                         *)
(* restore_snapshot maps the snapshot's own buffers into the guest, so the  *)
(* guest's memory is repSnapshot.memory_regions and the final hash_state of *)
(* the same snapshot sees what the guest wrote.                             *)
(***************************************************************************)
EXTENDS Archive

VARIABLES
  repPc,        \* where the process is
  repRegs,      \* registers of vCPU 0, the only one registered
  repSnapshot,  \* `snapshot` of the CLI, aliased by guest memory
  repEvents,    \* `events` of the CLI
  repHash,      \* expected_hash
  next,         \* index of the event replay_event works on; beyond the last: final run
  repExit,      \* exit_ctx of the last exit
  finalRun,     \* what handle_vm_exit reported: "none" yet, "ok" or "err"
  repSteps      \* history: how often the guest has moved on

replayVars ==
  <<repPc, repRegs, repSnapshot, repEvents, repHash, next, repExit, finalRun, repSteps>>

RepVm == [regs |-> repRegs, mem |-> repSnapshot.memory_regions]

ReplayPcs == {"idle", "running", "exit", "verify", "verified", "failed", "panicked"}

ReplayTypeOK ==
  /\ repPc \in ReplayPcs
  /\ repRegs \in [Registers -> Nat]
  /\ repSnapshot \in Snapshot
  /\ repEvents \in Seq(TraceEvent)
  /\ repHash \in Hash
  /\ next \in Nat \ {0}
  /\ repExit \in Context
  /\ finalRun \in {"none", "ok", "err"}
  /\ repSteps \in Nat

ReplayInit ==
  /\ repPc = "idle"
  /\ repRegs = ResetRegisters
  /\ repSnapshot = NoArchive.snapshot
  /\ repEvents = <<>>
  /\ repHash = NoArchive.hash
  /\ next = 1
  /\ repExit = NoContext
  /\ finalRun = "none"
  /\ repSteps = 0

\* The event replay_event was called with, and whether there is one.
InTrace == next <= Len(repEvents)
Event   == repEvents[next].event

-----------------------------------------------------------------------------
\* Seeded fault: only memory is restored.
RestoreMemoryOnly(regs, snapshot) == regs

restore_snapshot(regs, snapshot) ==
  IF snapshot.registers = NoRegisters THEN regs
  ELSE set_registers(regs, snapshot.registers)

ReplayLoad ==
  /\ repPc = "idle" /\ deserializable(file)
  /\ repPc' = "running"
  /\ repSnapshot' = file.archive.snapshot
  /\ repEvents' = file.archive.events
  /\ repHash' = file.archive.hash
  /\ repRegs' = restore_snapshot(setup_long_mode(ResetRegisters, PtGpa),
                                 file.archive.snapshot)
  /\ UNCHANGED <<next, repExit, finalRun, repSteps>>

ReplayLoadFails ==
  /\ repPc = "idle" /\ ~deserializable(file)
  /\ repPc' = "panicked"
  /\ UNCHANGED <<repRegs, repSnapshot, repEvents, repHash, next, repExit, finalRun, repSteps>>

(* VmRunner::run *)
MoveTo(vm) ==
  /\ repRegs' = vm.regs
  /\ repSnapshot' = [repSnapshot EXCEPT !.memory_regions = vm.mem]
  /\ repSteps' = repSteps + 1

ReplayStep ==
  /\ repPc = "running" /\ Reason(RepVm) = NoExit
  /\ repSteps < MaxSteps
  /\ \E r \in Random : MoveTo(Execute(RepVm, r))
  /\ UNCHANGED <<repPc, repEvents, repHash, next, repExit, finalRun>>

ReplayExit ==
  /\ repPc = "running" /\ Reason(RepVm) # NoExit
  /\ repPc' = "exit"
  /\ repExit' = ExitContext(RepVm)
  /\ IF Reason(RepVm) = Halt
     THEN MoveTo(AtExit(RepVm))
     ELSE UNCHANGED <<repRegs, repSnapshot, repSteps>>
  /\ UNCHANGED <<repEvents, repHash, next, finalRun>>

-----------------------------------------------------------------------------
(* replay_event: the arms of its match on the exit reason. *)

\* Seeded fault: the two halves of RDTSC are injected the other way round.
InjectSwapped(regs, event) ==
  IF event.kind = "Rdtsc" THEN set_registers(regs, [rax |-> event.rdx, rdx |-> event.rax])
  ELSE IF event.kind = "Cpuid"
       THEN set_registers(regs, [rax |-> event.eax, rbx |-> event.ebx,
                                 rcx |-> event.ecx, rdx |-> event.edx])
       ELSE regs

\* write_guest_memory is a stub, so a Syscall event only sets RAX.
inject_event(regs, event) ==
  CASE event.kind = "Syscall" ->
         set_registers(regs, [rax |-> event.rax])
    [] event.kind = "Rdtsc" ->
         set_registers(regs, [rax |-> event.rax, rdx |-> event.rdx])
    [] event.kind = "Cpuid" ->
         set_registers(regs, [rax |-> event.eax, rbx |-> event.ebx,
                              rcx |-> event.ecx, rdx |-> event.edx])
    [] event.kind = "ContextSwitch" -> regs

\* Seeded fault: no break, so the loop goes on with the event just used.
InjectWithoutBreak(instruction_length) ==
  /\ MoveTo([RepVm EXCEPT !.regs = advance_rip(inject_event(repRegs, Event),
                                               instruction_length)])
  /\ repPc' = "running"
  /\ UNCHANGED <<repEvents, repHash, next, repExit, finalRun>>

\* inject_event, advance_rip and the break that ends replay_event.
InjectAndResume(instruction_length) ==
  /\ MoveTo([RepVm EXCEPT !.regs = advance_rip(inject_event(repRegs, Event),
                                               instruction_length)])
  /\ next' = next + 1
  /\ repPc' = "running"
  /\ UNCHANGED <<repEvents, repHash, repExit, finalRun>>

\* Seeded fault: no break after a mismatch or a stop.
SkipWithoutBreak ==
  /\ repPc' = "running"
  /\ UNCHANGED <<repRegs, repSnapshot, repEvents, repHash, next, repExit, finalRun, repSteps>>

\* break without injecting: replay_event returns Ok and the event is spent.
SkipEvent ==
  /\ next' = next + 1
  /\ repPc' = "running"
  /\ UNCHANGED <<repRegs, repSnapshot, repEvents, repHash, repExit, finalRun, repSteps>>

ReplayCpuid ==
  /\ repPc = "exit" /\ InTrace /\ repExit.reason = Cpuid
  /\ Event.kind = "Cpuid"
  /\ InjectAndResume(InstructionLength(repExit))

ReplayRdtsc ==
  /\ repPc = "exit" /\ InTrace /\ repExit.reason = Rdtsc
  /\ Event.kind = "Rdtsc"
  /\ InjectAndResume(InstructionLength(repExit))

\* Seeded fault: any context switch matches.
AnyThreadMatches == Event.kind = "ContextSwitch"

\* The thread a VMCALL names must be the recorded one.
ThreadMatches ==
  /\ Event.kind = "ContextSwitch"
  /\ get_registers(repRegs, {"rcx"})["rcx"] % U32 = Event.next_thread_id

ReplayCallout ==
  /\ repPc = "exit" /\ InTrace /\ repExit.reason = Callout
  /\ ThreadMatches
  /\ InjectAndResume(VMCALL_LEN)

ReplayMismatch ==
  /\ repPc = "exit" /\ InTrace /\ repExit.reason = Callout
  /\ ~ThreadMatches
  /\ SkipEvent

\* CPUID or RDTSC against an event of another kind: no arm of the `if`, so the
\* loop runs the guest again, from the same instruction.
ReplayRetry ==
  /\ repPc = "exit" /\ InTrace
  /\ \/ repExit.reason = Cpuid /\ Event.kind # "Cpuid"
     \/ repExit.reason = Rdtsc /\ Event.kind # "Rdtsc"
  /\ repPc' = "running"
  /\ UNCHANGED <<repRegs, repSnapshot, repEvents, repHash, next, repExit, finalRun, repSteps>>

\* HLT, an EPT violation or an unhandled reason while events remain.
ReplayStop ==
  /\ repPc = "exit" /\ InTrace /\ repExit.reason \notin Intercepted
  /\ SkipEvent

-----------------------------------------------------------------------------
(* The run after the last event; handle_vm_exit accepts every outcome. *)
FinalExit ==
  /\ repPc = "exit" /\ ~InTrace
  /\ repPc' = "verify"
  /\ finalRun' = "ok"
  /\ UNCHANGED <<repRegs, repSnapshot, repEvents, repHash, next, repExit, repSteps>>

FinalError ==
  /\ repPc = "running" /\ ~InTrace
  /\ repPc' = "verify"
  /\ finalRun' = "err"
  /\ UNCHANGED <<repRegs, repSnapshot, repEvents, repHash, next, repExit, repSteps>>

\* Seeded fault: the registers of the initial snapshot are hashed.
VerifyInitialRegisters ==
  /\ repPc = "verify"
  /\ repPc' = IF hash_state(repSnapshot) = repHash THEN "verified" ELSE "failed"
  /\ UNCHANGED <<repRegs, repSnapshot, repEvents, repHash, next, repExit, finalRun, repSteps>>

ReplayVerify ==
  LET snapshot == capture_registers(repSnapshot, repRegs, Captured)
  IN /\ repPc = "verify"
     /\ repSnapshot' = snapshot
     /\ repPc' = IF hash_state(snapshot) = repHash THEN "verified" ELSE "failed"
     /\ UNCHANGED <<repRegs, repEvents, repHash, next, repExit, finalRun, repSteps>>

\* Any other call that fails makes expect() panic.
ReplayPanic ==
  /\ repPc \in {"idle", "running", "exit", "verify"}
  /\ repPc' = "panicked"
  /\ UNCHANGED <<repRegs, repSnapshot, repEvents, repHash, next, repExit, finalRun, repSteps>>

\* Steps of a replay whose hypervisor calls succeed.
ReplayProgress ==
  \/ ReplayLoad \/ ReplayLoadFails \/ ReplayStep \/ ReplayExit
  \/ ReplayCpuid \/ ReplayRdtsc \/ ReplayCallout
  \/ ReplayMismatch \/ ReplayRetry \/ ReplayStop
  \/ FinalExit \/ ReplayVerify

ReplayNext == ReplayProgress \/ FinalError \/ ReplayPanic

ReplayEnded == repPc \in {"verified", "failed", "panicked"}

\* The archive has been read (capture_registers always fills the registers).
Loaded == repSnapshot.registers # NoRegisters

-----------------------------------------------------------------------------
(* What the arms of replay_event amount to, as functions of the guest. *)

\* How replay_event resumes the guest after answering the exit of vm with e.
Answered(vm, e) ==
  [vm EXCEPT !.regs =
     advance_rip(inject_event(@, e),
                 IF Reason(vm) = Callout THEN VMCALL_LEN
                 ELSE InstructionLength(ExitContext(vm)))]

\* replay_event would answer the exit of vm with e rather than skip or retry.
Answers(e, vm) ==
  \/ Reason(vm) = Cpuid   /\ e.kind = "Cpuid"
  \/ Reason(vm) = Rdtsc   /\ e.kind = "Rdtsc"
  \/ Reason(vm) = Callout /\ e.kind = "ContextSwitch"
                          /\ e.next_thread_id = vm.regs["rcx"] % U32

-----------------------------------------------------------------------------
(* "Executes the VM until the next intercepted event" (replay.rs:71): every  *)
(* call of replay_event comes back, whatever exit the guest meets.           *)
ReplayEventReturns ==
  \A n \in 1..MaxSteps :
    (repPc = "running" /\ next = n /\ InTrace) ~> (next # n \/ ReplayEnded)

\* The guest is at a CPUID or RDTSC and the next event is of another kind.
Stuck ==
  /\ InTrace
  /\ \/ Reason(RepVm) = Cpuid /\ Event.kind # "Cpuid"
     \/ Reason(RepVm) = Rdtsc /\ Event.kind # "Rdtsc"

(* Whatever the events of the archive, a replay fails to end in one way      *)
(* only: replay_event spins for good on a CPUID or RDTSC whose event is of   *)
(* another kind.  In particular a VMCALL of the wrong thread, a HLT, an EPT  *)
(* violation or an unhandled exit never blocks the events that follow.       *)
EndsUnlessStuck == Loaded ~> [](ReplayEnded \/ Stuck)

(* Whatever the events of the archive, the guest gets past an intercepted    *)
(* instruction only with an event of its own kind (and, at a VMCALL, of its  *)
(* own thread), and then with that event's answer: a skipped, retried or     *)
(* missing event, or the last run, leaves it where it was.                   *)
NoUnansweredExit ==
  [][Reason(RepVm) \in Intercepted /\ Loaded /\ RepVm' # RepVm =>
       InTrace /\ Answers(Event, RepVm) /\ RepVm' = Answered(RepVm, Event)]_replayVars

-----------------------------------------------------------------------------
\* The next instruction of vm is a system call.
AtSyscall(vm) == vm.regs["rip"] \in DOMAIN vm.mem.code /\ Fetch(vm).op = "syscall"

(* "injecting recorded data [...] into registers and memory" (README.md:33): *)
(* when replay_event has spent a Syscall event at the guest's system call,   *)
(* RAX holds the recorded result and the recorded writes are in memory.      *)
SyscallInjected ==
  [][Loaded /\ AtSyscall(RepVm) /\ InTrace /\ Event.kind = "Syscall" /\ next' # next =>
       /\ repRegs'["rax"] = Event.rax
       /\ \A k \in DOMAIN Event.memory_writes :
            repSnapshot'.memory_regions.cells[Event.memory_writes[k].gpa]
              = Event.memory_writes[k].data]_replayVars
=============================================================================
