---------------------------- MODULE RecordReplay ----------------------------
(***************************************************************************)
(* The two processes `cli record` and `cli replay` around one trace file.   *)
(* They share nothing but the file: the replay may be started at any time,  *)
(* also while the recording is still being written or after it crashed.     *)
(***************************************************************************)
EXTENDS Recorder, Replayer

vars == <<recordVars, replayVars>>

Init == RecordInit /\ ReplayInit

Record == RecordNext /\ UNCHANGED replayVars
Replay == ReplayNext /\ UNCHANGED recordVars

Next == Record \/ Replay

Spec == Init /\ [][Next]_vars

\* A replay process is scheduled until it ends and its hypervisor calls do not
\* fail for ever; nothing is assumed of the recording.
FairSpec == Spec /\ WF_vars(ReplayProgress /\ UNCHANGED recordVars)

-----------------------------------------------------------------------------
RecordPcs == {"idle", "running", "exit", "stopped", "saving", "saved", "panicked"}

RecordTypeOK ==
  /\ image \in Image
  /\ recPc \in RecordPcs
  /\ recVm \in Vm
  /\ recExit \in Context
  /\ recSnapshot \in Snapshot
  /\ events \in Seq(TraceEvent)
  /\ instruction_count \in Nat
  /\ path \in Seq([vm : Vm, logged : Nat])
  /\ file \in [written : 0..Fields, archive : FileArchive]

(* Every variable has its type: in particular a logged thread id or CPUID    *)
(* value fits the u32 field of its trace event.                              *)
TypeOK == RecordTypeOK /\ ReplayTypeOK

-----------------------------------------------------------------------------
(* The recorded run, read off the history variable. *)

\* b follows a in a run of which the trace is a true account.
TraceStep(trace, a, b) ==
  \/ /\ Reason(a.vm) = NoExit
     /\ \E r \in Random : b.vm = Execute(a.vm, r)
     /\ b.logged = a.logged
  \/ /\ Reason(a.vm) = Halt
     /\ b.vm = AtExit(a.vm)
     /\ b.logged = a.logged
  \/ /\ b.logged = a.logged + 1 /\ b.logged <= Len(trace)
     /\ Answers(trace[b.logged].event, a.vm)
     /\ b.vm = Answered(a.vm, trace[b.logged].event)

RunStarts ==
  path # <<>> =>
    /\ path[1].vm.mem = recSnapshot.memory_regions
    /\ path[1].vm.regs = restore_snapshot(setup_long_mode(ResetRegisters, PtGpa),
                                          recSnapshot)
    /\ path[1].logged = 0
    /\ path[Len(path)] = [vm |-> recVm, logged |-> Len(events)]

RunSteps == \A k \in 1..(Len(path) - 1) : TraceStep(events, path[k], path[k + 1])

EventsNumbered == \A k \in 1..Len(events) : events[k].instruction_count = k - 1

(* The trace is a true account of the run: it starts at the snapshot, each   *)
(* interception of the guest left exactly one event, in order, numbered by   *)
(* instruction_count, and that event alone recreates the step that           *)
(* RecordEngine::run made.                                                   *)
TraceDeterminesRun == RunStarts /\ RunSteps /\ EventsNumbered

-----------------------------------------------------------------------------
Det == Deterministic(image.code)

(* Replay runs in lockstep with the recording: at every moment the replayed  *)
(* guest is in the recorded state of the same position, and has consumed     *)
(* exactly the events logged up to there.                                    *)
Lockstep ==
  Det /\ Loaded =>
    /\ repSteps + 1 \in DOMAIN path
    /\ path[repSteps + 1] = [vm |-> RepVm, logged |-> next - 1]

(* When the guest exits while events remain, the next event answers that     *)
(* exit: replay_event never takes its mismatch, retry or stop arms, so no    *)
(* event is lost and the loop does not spin.                                 *)
EventsAnswerExits ==
  Det /\ repPc = "exit" /\ InTrace => Answers(Event, RepVm)

(* The verdict of a replay whose last run did not fail is right both ways:   *)
(* the assertion on the hash never fires, and success means that the whole   *)
(* machine, general registers included, is in the recorded final state.      *)
VerdictIsRight ==
  Det /\ finalRun = "ok" =>
    /\ repPc # "failed"
    /\ repPc = "verified" => RepVm = recVm

(* Success is printed for no other final state, whatever the guest (RDRAND   *)
(* included) and however its last run ended: handle_vm_exit prints an error  *)
(* of that run and the state is hashed all the same (main.rs:301), with the  *)
(* guest wherever the error left it.  Memory and the six captured registers  *)
(* are then those with which the recording ended.                            *)
SuccessIsEarned ==
  repPc = "verified" =>
    /\ RepVm.mem = recVm.mem
    /\ \A r \in Captured : RepVm.regs[r] = recVm.regs[r]

(* Whatever the moment a replay is started, also in the middle of fs::write  *)
(* or after a crash, it only ever runs a guest from a completely written     *)
(* archive.                                                                  *)
OnlyCompleteArchives ==
  Loaded => recPc = "saved" /\ repEvents = events

\* k is the first byte of an instruction, or right after the last one.
Boundary(code, k) ==
  k \in 1..(Len(code) + 1) /\ (k \in DOMAIN code => code[k].op # "junk")

OnBoundary(vm) == Boundary(vm.mem.code, vm.regs["rip"])

\* The image is machine code: it starts with an instruction, an instruction is
\* followed by another or by the end, jumps go to instructions, and VMCALL is
\* encoded in three bytes.
WellAssembled(img) ==
  /\ Boundary(img.code, img.entry)
  /\ \A k \in DOMAIN img.code :
       img.code[k].op # "junk" =>
         /\ Boundary(img.code, k + img.code[k].len)
         /\ img.code[k].op = "jne" => Boundary(img.code, img.code[k].target)
         /\ img.code[k].op = "vmcall" => img.code[k].len = 3

(* Neither engine resumes a guest inside an instruction or beyond its code:  *)
(* the instruction length taken from the exit context (whose byte also       *)
(* carries CR8) and the hard-wired length of VMCALL are right, for a guest   *)
(* whose exits with reason 4 come from VMCALL.                               *)
OnInstructionBoundary ==
  FaultFree(image.code) =>
    /\ path # <<>> => OnBoundary(recVm)
    /\ Loaded => OnBoundary(RepVm)

-----------------------------------------------------------------------------
(* The promise of FaithfulReplay, for guests without unrecorded randomness.  *)
Outcome ==
  CASE repPc = "verified" /\ finalRun = "ok" -> "confirmed"
    [] repPc = "failed"   /\ finalRun = "ok" -> "refuted"
    [] repPc = "panicked" \/ finalRun = "err" -> "aborted"
    [] OTHER -> "none"

Promise == INSTANCE FaithfulReplay WITH
  run     <- [k \in DOMAIN path |-> path[k].vm],
  sealed  <- recPc = "saved",
  shown   <- IF Loaded THEN repSteps + 1 ELSE 0,
  current <- IF Loaded THEN <<RepVm>> ELSE <<>>,
  outcome <- Outcome

(* Recording and replaying a deterministic guest implements FaithfulReplay.  *)
KeepsPromise == Promise!Spec

(* A replay of a complete archive of a deterministic guest ends: no event    *)
(* makes replay_event loop for ever.                                         *)
ReplayEnds == Loaded ~> ReplayEnded

\* What is left of a replay: guest steps first, then the phases of the process.
Remaining ==
  3 * (Len(path) - 1 - repSteps)
  + (CASE repPc = "running" -> 3 [] repPc = "exit" -> 2 [] repPc = "verify" -> 1
       [] OTHER -> 0)

(* A replay of a deterministic guest runs down: every step of the process,   *)
(* failures included, uses up some of what the recording left to replay, and *)
(* nothing gives it back.  In particular replay_event's loop never runs the  *)
(* guest again without the guest having moved, and a replay takes no more    *)
(* than three steps per recorded guest step.                                 *)
ReplayRunsDown ==
  [][Det /\ Loaded => Remaining' < Remaining /\ Remaining' >= 0]_replayVars

-----------------------------------------------------------------------------
(* Statements of the repository that the code does not keep. *)

(* "The retired instruction count at the time of interception"               *)
(* (format.rs:27): the event logged when the run is at path position k       *)
(* carries the number of guest instructions completed before it.             *)
CountIsRetired ==
  \A k \in 1..(Len(path) - 1) :
    path[k + 1].logged = path[k].logged + 1 =>
      events[path[k + 1].logged].instruction_count = k - 1

(* "100% deterministic execution confirmed" (cli/main.rs:272), "a 100%       *)
(* memory and register state match" (README.md:136): success means that the  *)
(* replayed machine is in the recorded final state.                          *)
SuccessMeansSameState ==
  repPc = "verified" /\ finalRun = "ok" => RepVm = recVm

(* "Intercepts and logs syscall results" (README.md:24): where the recording *)
(* got past a system call of the guest, it logged a Syscall event for it.    *)
SyscallsAreLogged ==
  \A k \in 1..(Len(path) - 1) :
    AtSyscall(path[k].vm) =>
      /\ path[k + 1].logged = path[k].logged + 1
      /\ events[path[k + 1].logged].event.kind = "Syscall"
=============================================================================
