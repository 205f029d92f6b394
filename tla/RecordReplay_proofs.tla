------------------------ MODULE RecordReplay_proofs ------------------------
(***************************************************************************)
(* Proofs about RecordReplay, for every set of target binaries, every width *)
(* of a thread id and every source of unrecorded randomness.                *)
(***************************************************************************)
EXTENDS RecordReplay, Replayer_proofs, TLAPS

-----------------------------------------------------------------------------
(* The inductive invariant: what the recording guarantees ... *)

\* The guest is only ever resumed by a run that has started.
RecordPhase ==
  /\ recPc = "idle" => path = <<>> /\ events = <<>> /\ instruction_count = 0
  /\ recPc \in {"running", "exit", "stopped", "saving", "saved"} => path # <<>>
  /\ path # <<>> => recSnapshot.registers # NoRegisters
  /\ instruction_count = Len(events)

\* The guest's code is the image's, and no state is ahead of the trace.
PathOK ==
  \A k \in 1..Len(path) :
    path[k].vm.mem.code = image.code /\ path[k].logged <= Len(events)

\* A HLT is the last thing the recorded guest does.
HaltIsLast ==
  \A k \in 1..(Len(path) - 1) :
    Reason(path[k].vm) = Halt =>
      /\ k = Len(path) - 1
      /\ recPc \notin {"idle", "running"}
      /\ recPc = "exit" => recExit.reason = Halt

\* While an exit is handled, exit_ctx describes the guest that caused it.
RecordExitOK ==
  /\ recPc = "exit" /\ recExit.reason # Halt =>
       recExit = ExitContext(recVm) /\ recExit.reason # NoExit
  /\ recPc = "exit" /\ recExit.reason = Halt =>
       Len(path) > 1 /\ Reason(path[Len(path) - 1].vm) = Halt

\* Why the recording ended.
Blocked(vm) == Reason(vm) \in {MemoryAccess, Unhandled}

RecordEndOK ==
  recPc \in {"stopped", "saving", "saved"} =>
    \/ Blocked(recVm)
    \/ Len(path) > 1 /\ Reason(path[Len(path) - 1].vm) = Halt

FinalHash == hash_state(capture_registers(capture_memory_layout(recVm.mem),
                                          recVm.regs, Captured))

FileOK ==
  /\ file.written = Fields => recPc = "saved"
  /\ recPc \in {"saving", "saved"} =>
       file.archive = [snapshot |-> recSnapshot, events |-> events, hash |-> FinalHash]

(* ... and what the replay keeps to. *)

ReplayPhase ==
  /\ repPc = "idle" => ~Loaded /\ next = 1 /\ repSteps = 0
  /\ repPc \in {"running", "exit", "verify", "verified", "failed"} => Loaded
  /\ repPc \in {"idle", "running", "exit"} => finalRun = "none"
  /\ finalRun # "none" => Loaded

LoadedOK ==
  Loaded => recPc = "saved" /\ repEvents = events /\ repHash = FinalHash

\* Where a replay in lockstep can be.
ReplayExitOK ==
  /\ repPc = "exit" /\ repExit.reason # Halt =>
       repExit = ExitContext(RepVm) /\ repExit.reason # NoExit
  /\ Det /\ repPc = "exit" /\ repExit.reason = Halt => repSteps + 1 = Len(path)
  /\ Det /\ repPc = "running" /\ repSteps + 1 = Len(path) => Blocked(recVm)
  /\ Det /\ finalRun = "ok" =>
       RepVm = recVm /\ repPc # "failed" /\ repSteps + 1 = Len(path)

RecordInv == RecordTypeOK /\ RecordPhase /\ PathOK /\ HaltIsLast /\ RecordExitOK
             /\ RecordEndOK /\ FileOK /\ TraceDeterminesRun

ReplayInv == ReplayTypeOK /\ ReplayPhase /\ LoadedOK /\ Lockstep /\ ReplayExitOK

IInv == RecordInv /\ ReplayInv

-----------------------------------------------------------------------------
(* Facts about the recorded run. *)

PathState == [vm : Vm, logged : Nat]

(* Append adds one element at the end. *)
LEMMA AppendFacts ==
  ASSUME NEW S, NEW s \in Seq(S), NEW e \in S
  PROVE  /\ Append(s, e) \in Seq(S)
         /\ Len(Append(s, e)) = Len(s) + 1
         /\ Len(s) \in Nat
         /\ \A k \in 1..Len(s) : Append(s, e)[k] = s[k]
         /\ Append(s, e)[Len(s) + 1] = e
         /\ Append(s, e) # <<>>
  OBVIOUS

(* A step the trace accounts for stays accounted for when the trace grows. *)
LEMMA TraceStepMonotone ==
  ASSUME NEW a \in PathState, NEW b \in PathState, NEW s, NEW t,
         Len(s) \in Nat, Len(t) \in Nat, Len(s) <= Len(t),
         \A k \in 1..Len(s) : t[k] = s[k],
         TraceStep(s, a, b)
  PROVE  TraceStep(t, a, b)
<1>1. a.logged \in Nat /\ b.logged \in Nat
  BY DEF PathState
<1>2. CASE b.logged = a.logged + 1 /\ b.logged <= Len(s)
  <2>1. t[b.logged] = s[b.logged] /\ b.logged <= Len(t)
    BY <1>1, <1>2
  <2> QED
    BY <1>2, <2>1 DEF TraceStep
<1>3. CASE ~(b.logged = a.logged + 1 /\ b.logged <= Len(s))
  BY <1>3 DEF TraceStep
<1> QED
  BY <1>2, <1>3

(* The run grows by one state that the (possibly longer) trace accounts for. *)
LEMMA RunGrows ==
  ASSUME RecordInv, path # <<>>,
         NEW vm \in Vm, vm.mem.code = image.code,
         Resume(vm, Len(events')), UNCHANGED <<image, recSnapshot>>,
         events' \in Seq(TraceEvent), Len(events) <= Len(events'),
         \A k \in 1..Len(events) : events'[k] = events[k],
         EventsNumbered',
         TraceStep(events', [vm |-> recVm, logged |-> Len(events)],
                            [vm |-> vm, logged |-> Len(events')])
  PROVE  /\ path' \in Seq(PathState) /\ path' # <<>>
         /\ Len(path') = Len(path) + 1
         /\ \A k \in 1..Len(path) : path'[k] = path[k]
         /\ PathOK' /\ TraceDeterminesRun'
<1> DEFINE e == [vm |-> vm, logged |-> Len(events')]
<1>1. e \in PathState /\ path \in Seq(PathState) /\ Len(events) \in Nat
  BY DEF PathState, RecordInv, RecordTypeOK
<1>2. path' = Append(path, e) /\ recVm' = vm
  BY DEF Resume
<1> HIDE DEF e
<1>3. /\ path' \in Seq(PathState) /\ path' # <<>>
      /\ Len(path') = Len(path) + 1 /\ Len(path) \in Nat
      /\ \A k \in 1..Len(path) : path'[k] = path[k]
      /\ path'[Len(path) + 1] = e
  BY <1>1, <1>2, AppendFacts
<1>4. Len(path) > 0
  BY <1>1
<1>5. PathOK'
  <2> SUFFICES ASSUME NEW k \in 1..Len(path')
               PROVE  path'[k].vm.mem.code = image.code /\ path'[k].logged <= Len(events')
    BY DEF PathOK
  <2>1. CASE k = Len(path) + 1
    BY <1>1, <1>3, <2>1 DEF e
  <2>2. CASE k \in 1..Len(path)
    <3>1. path[k].vm.mem.code = image.code /\ path[k].logged <= Len(events)
      BY <2>2 DEF RecordInv, PathOK
    <3>2. path[k] \in PathState
      BY <1>1, <2>2
    <3>3. path[k].logged \in Nat
      BY <3>2 DEF PathState
    <3> QED
      BY <1>1, <1>3, <2>2, <3>1, <3>3
  <2> QED
    BY <1>3, <2>1, <2>2
<1>6. RunStarts'
  <2>1. path'[1] = path[1]
    BY <1>3, <1>4
  <2>2. path'[Len(path')] = [vm |-> recVm', logged |-> Len(events')]
    BY <1>2, <1>3 DEF e
  <2>3. RunStarts
    BY DEF RecordInv, TraceDeterminesRun
  <2> QED
    BY <2>1, <2>2, <2>3 DEF RunStarts
<1>7. RunSteps'
  <2> SUFFICES ASSUME NEW k \in 1..(Len(path') - 1)
               PROVE  TraceStep(events', path'[k], path'[k + 1])
    BY DEF RunSteps
  <2>1. CASE k = Len(path)
    <3>1. path'[k] = [vm |-> recVm, logged |-> Len(events)]
      BY <1>3, <1>4, <2>1 DEF RecordInv, TraceDeterminesRun, RunStarts
    <3> QED
      BY <1>3, <2>1, <3>1 DEF e
  <2>2. CASE k \in 1..(Len(path) - 1)
    <3>1. k \in 1..Len(path) /\ k + 1 \in 1..Len(path)
      BY <1>3, <2>2
    <3>2. path[k] \in PathState /\ path[k + 1] \in PathState
      BY <1>1, <3>1
    <3>3. TraceStep(events, path[k], path[k + 1])
      BY <2>2 DEF RecordInv, TraceDeterminesRun, RunSteps
    <3>4. TraceStep(events', path[k], path[k + 1])
      BY <1>1, <3>2, <3>3, TraceStepMonotone
    <3> QED
      BY <1>3, <3>1, <3>4
  <2> QED
    BY <1>3, <2>1, <2>2
<1> QED
  BY <1>3, <1>5, <1>6, <1>7 DEF TraceDeterminesRun

-----------------------------------------------------------------------------
(* The invariant of the recording. *)

(* The memory the CLI maps for an image is well-formed and holds its code. *)
LEMMA LoadedMemoryType ==
  ASSUME NEW img \in Image
  PROVE  LoadedMemory(img) \in Memory /\ LoadedMemory(img).code = img.code
<1> DEFINE c == [null |-> 0, image |-> img.data, stack |-> 0, page_table |-> 1]
<1>1. c \in [Regions -> Nat]
  BY DEF Image, Regions
<1> HIDE DEF c
<1>2. [code |-> img.code, cells |-> c] \in Memory
  BY <1>1 DEF Memory, Image
<1> QED
  BY <1>2 DEF LoadedMemory, c

(* Before `cli record` starts, the invariant holds. *)
LEMMA RecordInitInv == RecordInit => RecordInv
<1> SUFFICES ASSUME RecordInit PROVE RecordInv
  OBVIOUS
<1> USE DEF RecordInit
<1>1. image \in Image
  BY ImagesAssumption
<1>2. ResetRegisters \in [Registers -> Nat]
  BY DEF ResetRegisters
<1>3. recVm \in Vm
  BY <1>1, <1>2, LoadedMemoryType DEF Vm
<1>4. recExit \in Context
  BY DEF Context, NoContext
<1>5. file \in [written : 0..Fields, archive : FileArchive]
  BY NoArchiveType DEF AbsentFile, Fields
<1>6. RecordTypeOK
  BY <1>1, <1>3, <1>4, <1>5, NoArchiveType DEF RecordTypeOK, RecordPcs
<1>7. Len(path) = 0 /\ Len(events) = 0
  OBVIOUS
<1>8. RecordPhase /\ PathOK /\ HaltIsLast /\ RecordExitOK /\ RecordEndOK
  BY <1>7 DEF RecordPhase, PathOK, HaltIsLast, RecordExitOK, RecordEndOK
<1>9. FileOK
  BY DEF FileOK, AbsentFile, Fields
<1>10. TraceDeterminesRun
  BY <1>7 DEF TraceDeterminesRun, RunStarts, RunSteps, EventsNumbered
<1> QED
  BY <1>6, <1>8, <1>9, <1>10 DEF RecordInv

\* What the actions that leave the guest and the trace alone preserve.
RunUnchanged == UNCHANGED <<image, recVm, recSnapshot, events, instruction_count, path>>

(* An action that leaves the guest and the trace alone keeps the account of the run. *)
LEMMA RunUnchangedInv ==
  ASSUME RecordInv, RunUnchanged
  PROVE  PathOK' /\ TraceDeterminesRun'
  BY DEF RecordInv, RunUnchanged, PathOK, TraceDeterminesRun, RunStarts, RunSteps,
         EventsNumbered

(* Building the machine and taking the snapshot starts the run at the snapshot. *)
LEMMA RecordStartInv == RecordInv /\ RecordStart => RecordInv'
<1> SUFFICES ASSUME RecordInv, RecordStart PROVE RecordInv'
  OBVIOUS
<1> DEFINE base == setup_long_mode(ResetRegisters, PtGpa)
           mem  == LoadedMemory(image)
           regs == set_registers(base, [rip |-> image.entry, rsp |-> StackTop])
           vm   == [regs |-> regs, mem |-> mem]
<1>1. image \in Image /\ image.entry \in Nat /\ StackTop \in Nat
  BY DEF RecordInv, RecordTypeOK, Image, StackTop
<1>2. /\ recSnapshot' = capture_registers(capture_memory_layout(mem), regs, Captured)
      /\ recPc' = "running" /\ recVm' = vm
      /\ path' = Append(path, [vm |-> vm, logged |-> 0])
      /\ UNCHANGED <<image, recExit, events, instruction_count, file>>
      /\ recPc = "idle"
  BY DEF RecordStart, Resume
<1>3. base \in Regs /\ mem \in Memory /\ mem.code = image.code
  BY <1>1, LongModeType, LoadedMemoryType
<1> HIDE DEF base, mem
<1>4. /\ regs \in Regs
      /\ recSnapshot'.registers \in [Captured -> Nat]
      /\ recSnapshot'.registers # NoRegisters
      /\ recSnapshot'.memory_regions = mem
      /\ restore_snapshot(base, recSnapshot') = regs
  BY <1>1, <1>2, <1>3, RestoreRegisters
<1> HIDE DEF regs
<1>5. vm \in Vm
  BY <1>3, <1>4 DEF Vm, Regs
<1>6. path = <<>> /\ events = <<>> /\ instruction_count = 0 /\ file.written # Fields
  BY <1>2 DEF RecordInv, RecordPhase, FileOK
<1>7. /\ path' \in Seq(PathState) /\ Len(path') = 1 /\ path' # <<>>
      /\ path'[1] = [vm |-> vm, logged |-> 0] /\ Len(events') = 0
  BY <1>2, <1>5, <1>6 DEF PathState
<1>8. recSnapshot' \in Snapshot
  <2>1. recSnapshot' = [memory_regions |-> mem, registers |-> recSnapshot'.registers]
    BY <1>2 DEF capture_registers, capture_memory_layout
  <2> QED
    BY <1>3, <1>4, <2>1 DEF Snapshot
<1>9. RecordTypeOK'
  BY <1>2, <1>5, <1>7, <1>8 DEF RecordInv, RecordTypeOK, RecordPcs, PathState
<1>10. RecordPhase' /\ HaltIsLast' /\ RecordExitOK' /\ RecordEndOK' /\ FileOK'
  BY <1>2, <1>4, <1>6, <1>7
     DEF RecordPhase, HaltIsLast, RecordExitOK, RecordEndOK, FileOK
<1>11. PathOK'
  BY <1>2, <1>3, <1>7 DEF PathOK
<1>12. TraceDeterminesRun'
  BY <1>2, <1>4, <1>7 DEF TraceDeterminesRun, RunStarts, RunSteps, EventsNumbered, base
<1> QED
  BY <1>9, <1>10, <1>11, <1>12 DEF RecordInv

\* What the actions need to know of a machine that the recording drives.
LEMMA RecVmFacts ==
  ASSUME RecordInv, path # <<>>
  PROVE  /\ recVm \in Vm /\ recVm.regs \in Regs /\ recVm.mem.code = image.code
         /\ events \in Seq(TraceEvent) /\ Len(events) \in Nat
         /\ path \in Seq(PathState) /\ Len(path) \in Nat /\ Len(path) > 0
         /\ path[Len(path)] = [vm |-> recVm, logged |-> Len(events)]
<1>1. recVm \in Vm /\ events \in Seq(TraceEvent) /\ path \in Seq(PathState)
  BY DEF RecordInv, RecordTypeOK, PathState
<1>2. Len(path) \in Nat /\ Len(path) > 0 /\ Len(events) \in Nat
  BY <1>1
<1>3. path[Len(path)] = [vm |-> recVm, logged |-> Len(events)]
  BY DEF RecordInv, TraceDeterminesRun, RunStarts
<1>4. recVm.mem.code = image.code
  BY <1>2, <1>3 DEF RecordInv, PathOK
<1> QED
  BY <1>1, <1>2, <1>3, <1>4 DEF Vm, Regs

(* An instruction of the guest extends the run without touching the trace. *)
LEMMA RecordStepInv == RecordInv /\ RecordStep => RecordInv'
<1> SUFFICES ASSUME RecordInv, RecordStep PROVE RecordInv'
  OBVIOUS
<1>1. PICK r \in Random : Resume(Execute(recVm, r), Len(events))
  BY DEF RecordStep
<1> DEFINE vm == Execute(recVm, r)
<1>2. /\ recPc = "running" /\ Reason(recVm) = NoExit
      /\ UNCHANGED <<image, recPc, recExit, recSnapshot, events, instruction_count, file>>
  BY DEF RecordStep
<1>3. path # <<>> /\ r \in Nat
  BY <1>2, GuestAssumption DEF RecordInv, RecordPhase
<1>4. vm \in Vm /\ vm.mem.code = image.code
  BY <1>2, <1>3, ExecuteType, RecVmFacts
<1>5. TraceStep(events', [vm |-> recVm, logged |-> Len(events)],
                        [vm |-> vm, logged |-> Len(events')])
  BY <1>2 DEF TraceStep
<1> HIDE DEF vm
<1>6. EventsNumbered'
  BY <1>2 DEF RecordInv, TraceDeterminesRun, EventsNumbered
<1>7. Resume(vm, Len(events')) /\ recVm' = vm
  BY <1>1, <1>2 DEF vm, Resume
<1>8. /\ path' \in Seq(PathState) /\ path' # <<>> /\ Len(path') = Len(path) + 1
      /\ \A k \in 1..Len(path) : path'[k] = path[k]
      /\ PathOK' /\ TraceDeterminesRun'
  BY <1>2, <1>3, <1>4, <1>5, <1>6, <1>7, RunGrows, RecVmFacts
<1>9. RecordTypeOK'
  BY <1>2, <1>4, <1>7, <1>8 DEF RecordInv, RecordTypeOK, PathState
<1>10. HaltIsLast'
  <2> SUFFICES ASSUME NEW k \in 1..(Len(path') - 1) PROVE Reason(path'[k].vm) # Halt
    BY DEF HaltIsLast
  <2>1. CASE k = Len(path)
    BY <1>2, <1>3, <1>8, <2>1, RecVmFacts DEF NoExit, Halt
  <2>2. CASE k \in 1..(Len(path) - 1)
    BY <1>2, <1>3, <1>8, <2>2, RecVmFacts DEF RecordInv, HaltIsLast
  <2> QED
    BY <1>3, <1>8, <2>1, <2>2, RecVmFacts
<1>11. RecordPhase' /\ RecordExitOK' /\ RecordEndOK' /\ FileOK'
  BY <1>2, <1>8 DEF RecordInv, RecordPhase, RecordExitOK, RecordEndOK, FileOK
<1> QED
  BY <1>8, <1>9, <1>10, <1>11 DEF RecordInv

(* An exit leaves the context of the guest that caused it; HLT is the last step. *)
LEMMA RecordExitInv == RecordInv /\ RecordExit => RecordInv'
<1> SUFFICES ASSUME RecordInv, RecordExit PROVE RecordInv'
  OBVIOUS
<1>1. /\ recPc = "running" /\ Reason(recVm) # NoExit
      /\ recPc' = "exit" /\ recExit' = ExitContext(recVm)
      /\ UNCHANGED <<image, recSnapshot, events, instruction_count, file>>
  BY DEF RecordExit
<1>2. path # <<>>
  BY <1>1 DEF RecordInv, RecordPhase
<1>3. recExit' \in Context /\ recExit'.reason = Reason(recVm)
  BY <1>1, <1>2, RecVmFacts, ExitContextType, ReasonType DEF Context
<1>4. \A k \in 1..(Len(path) - 1) : Reason(path[k].vm) # Halt
  BY <1>1 DEF RecordInv, HaltIsLast
<1>5. CASE Reason(recVm) = Halt
  <2> DEFINE vm == AtExit(recVm)
  <2>1. Resume(vm, Len(events')) /\ recVm' = vm
    BY <1>1, <1>5 DEF RecordExit, Resume
  <2>2. vm \in Vm /\ vm.mem.code = image.code
    BY <1>1, <1>2, RecVmFacts, AtExitType
  <2>3. TraceStep(events', [vm |-> recVm, logged |-> Len(events)],
                          [vm |-> vm, logged |-> Len(events')])
    BY <1>1, <1>5 DEF TraceStep
  <2> HIDE DEF vm
  <2>4. EventsNumbered'
    BY <1>1 DEF RecordInv, TraceDeterminesRun, EventsNumbered
  <2>5. /\ path' \in Seq(PathState) /\ path' # <<>> /\ Len(path') = Len(path) + 1
        /\ \A k \in 1..Len(path) : path'[k] = path[k]
        /\ PathOK' /\ TraceDeterminesRun'
    BY <1>1, <1>2, <2>1, <2>2, <2>3, <2>4, RunGrows, RecVmFacts
  <2>6. RecordTypeOK'
    BY <1>1, <1>3, <2>1, <2>2, <2>5 DEF RecordInv, RecordTypeOK, PathState, RecordPcs
  <2>7. HaltIsLast'
    <3> SUFFICES ASSUME NEW k \in 1..(Len(path') - 1), Reason(path'[k].vm) = Halt
                 PROVE  k = Len(path') - 1
      BY <1>1, <1>3, <1>5 DEF HaltIsLast
    <3>1. k \in 1..(Len(path) - 1) => path'[k] = path[k]
      BY <1>2, <2>5, RecVmFacts
    <3>2. k \notin 1..(Len(path) - 1)
      BY <1>4, <3>1
    <3>3. Len(path) \in Nat
      BY <1>2, RecVmFacts
    <3> QED
      BY <2>5, <3>2, <3>3
  <2>8. Len(path') > 1 /\ Reason(path'[Len(path') - 1].vm) = Halt
    BY <1>2, <1>5, <2>5, RecVmFacts
  <2>9. RecordPhase' /\ RecordExitOK' /\ RecordEndOK' /\ FileOK'
    BY <1>1, <1>3, <1>5, <2>5, <2>8
       DEF RecordInv, RecordPhase, RecordExitOK, RecordEndOK, FileOK
  <2> QED
    BY <2>5, <2>6, <2>7, <2>9 DEF RecordInv
<1>6. CASE Reason(recVm) # Halt
  <2>1. UNCHANGED <<recVm, path>>
    BY <1>6 DEF RecordExit
  <2>2. PathOK' /\ TraceDeterminesRun'
    BY <1>1, <2>1, RunUnchangedInv DEF RunUnchanged
  <2>3. RecordTypeOK'
    BY <1>1, <1>3, <2>1 DEF RecordInv, RecordTypeOK, RecordPcs
  <2>4. HaltIsLast'
    BY <1>4, <2>1 DEF HaltIsLast
  <2>5. RecordPhase' /\ RecordExitOK' /\ RecordEndOK' /\ FileOK'
    BY <1>1, <1>2, <1>3, <1>6, <2>1
       DEF RecordInv, RecordPhase, RecordExitOK, RecordEndOK, FileOK
  <2> QED
    BY <2>2, <2>3, <2>4, <2>5 DEF RecordInv
<1> QED
  BY <1>5, <1>6

(* Logging an event and resuming the guest the way that event says. *)
LEMMA LogAndResumeInv ==
  ASSUME RecordInv, recPc = "exit", recExit.reason \in Intercepted,
         NEW e \in EventType, NEW regs, LogAndResume(e, regs),
         Answers(e, recVm),
         [recVm EXCEPT !.regs = regs] = Answered(recVm, e)
  PROVE  RecordInv'
<1> DEFINE vm == Answered(recVm, e)
           te == [instruction_count |-> instruction_count, event |-> e]
<1>1. /\ events' = Append(events, te)
      /\ instruction_count' = instruction_count + 1
      /\ Resume(vm, Len(events) + 1) /\ recVm' = vm
      /\ recPc' = "running"
      /\ UNCHANGED <<image, recExit, recSnapshot, file>>
  BY DEF LogAndResume, Resume
<1>2. path # <<>> /\ instruction_count = Len(events)
  BY DEF RecordInv, RecordPhase
<1>3. te \in TraceEvent /\ te.event = e /\ te.instruction_count = Len(events)
  BY <1>2, RecVmFacts DEF TraceEvent
<1> HIDE DEF te
<1>4. /\ events' \in Seq(TraceEvent) /\ Len(events') = Len(events) + 1
      /\ \A k \in 1..Len(events) : events'[k] = events[k]
      /\ events'[Len(events) + 1] = te
  BY <1>1, <1>2, <1>3, RecVmFacts, AppendFacts
<1>5. vm \in Vm /\ vm.mem.code = image.code
  BY <1>2, RecVmFacts, AnsweredType
<1> HIDE DEF vm
<1>6. TraceStep(events', [vm |-> recVm, logged |-> Len(events)],
                        [vm |-> vm, logged |-> Len(events')])
  BY <1>3, <1>4 DEF TraceStep, vm
<1>7. EventsNumbered'
  <2> SUFFICES ASSUME NEW k \in 1..Len(events')
               PROVE  events'[k].instruction_count = k - 1
    BY DEF EventsNumbered
  <2>1. CASE k \in 1..Len(events)
    BY <1>4, <2>1 DEF RecordInv, TraceDeterminesRun, EventsNumbered
  <2>2. CASE k = Len(events) + 1
    BY <1>2, <1>3, <1>4, <2>2, RecVmFacts
  <2> QED
    BY <1>2, <1>4, <2>1, <2>2, RecVmFacts
<1>8. Resume(vm, Len(events'))
  BY <1>1, <1>4
<1>9. /\ path' \in Seq(PathState) /\ path' # <<>> /\ Len(path') = Len(path) + 1
      /\ \A k \in 1..Len(path) : path'[k] = path[k]
      /\ PathOK' /\ TraceDeterminesRun'
  <2>1. Len(events) <= Len(events')
    BY <1>2, <1>4, RecVmFacts
  <2> QED
    BY <1>1, <1>2, <1>4, <1>5, <1>6, <1>7, <1>8, <2>1, RunGrows
<1>10. RecordTypeOK'
  BY <1>1, <1>4, <1>5, <1>9 DEF RecordInv, RecordTypeOK, PathState, RecordPcs
<1>11. HaltIsLast'
  <2> SUFFICES ASSUME NEW k \in 1..(Len(path') - 1) PROVE Reason(path'[k].vm) # Halt
    BY DEF HaltIsLast
  <2>1. CASE k = Len(path)
    <3>1. Reason(recVm) # Halt
      BY DEF Answers, Halt, Cpuid, Rdtsc, Callout
    <3> QED
      BY <1>2, <1>9, <2>1, <3>1, RecVmFacts
  <2>2. CASE k \in 1..(Len(path) - 1)
    <3>1. Reason(path[k].vm) # Halt
      BY <2>2 DEF RecordInv, HaltIsLast, Intercepted, Halt, Cpuid, Rdtsc, Callout
    <3> QED
      BY <1>2, <1>9, <2>2, <3>1, RecVmFacts
  <2> QED
    BY <1>2, <1>9, <2>1, <2>2, RecVmFacts
<1>12. RecordPhase' /\ RecordExitOK' /\ RecordEndOK' /\ FileOK'
  BY <1>1, <1>2, <1>4, <1>9
     DEF RecordInv, RecordPhase, RecordExitOK, RecordEndOK, FileOK
<1> QED
  BY <1>9, <1>10, <1>11, <1>12 DEF RecordInv

\* At an intercepted exit, the context is that of the guest as it stands.
LEMMA InterceptedContext ==
  ASSUME RecordInv, recPc = "exit", recExit.reason \in Intercepted
  PROVE  /\ recExit = ExitContext(recVm) /\ recExit.reason = Reason(recVm)
         /\ recVm \in Vm /\ recVm.regs \in Regs
<1>1. path # <<>>
  BY DEF RecordInv, RecordPhase
<1>2. recExit = ExitContext(recVm)
  BY DEF RecordInv, RecordExitOK, Intercepted, Halt, Cpuid, Rdtsc, Callout
<1> QED
  BY <1>1, <1>2, RecVmFacts, ExitContextType

(* The CPUID arm of RecordEngine::run. *)
LEMMA RecordCpuidInv == RecordInv /\ RecordCpuid => RecordInv'
<1> SUFFICES ASSUME RecordInv, RecordCpuid PROVE RecordInv'
  OBVIOUS
<1> DEFINE e == [kind |-> "Cpuid", eax |-> 10, ebx |-> 11, ecx |-> 12, edx |-> 13]
           regs == set_registers(recVm.regs, [rax |-> 10, rbx |-> 11, rcx |-> 12, rdx |-> 13])
           new == advance_rip(regs, InstructionLength(recExit))
<1>1. recPc = "exit" /\ recExit.reason = Cpuid /\ LogAndResume(e, new)
  BY DEF RecordCpuid
<1>2. /\ recExit = ExitContext(recVm) /\ Reason(recVm) = Cpuid
      /\ recExit.reason \in Intercepted /\ recVm \in Vm
  BY <1>1, InterceptedContext DEF Intercepted
<1>3. e \in EventType
  BY GuestAssumption DEF EventType
<1>4. Answers(e, recVm)
  BY <1>2 DEF Answers
<1>5. inject_event(recVm.regs, e) = regs
  BY DEF inject_event
<1>6. [recVm EXCEPT !.regs = new] = Answered(recVm, e)
  BY <1>2, <1>5 DEF Answered, Vm, Cpuid, Callout
<1> QED
  BY <1>1, <1>2, <1>3, <1>4, <1>6, LogAndResumeInv

(* The RDTSC arm of RecordEngine::run. *)
LEMMA RecordRdtscInv == RecordInv /\ RecordRdtsc => RecordInv'
<1> SUFFICES ASSUME RecordInv, RecordRdtsc PROVE RecordInv'
  OBVIOUS
<1> DEFINE e == [kind |-> "Rdtsc", rax |-> 4096, rdx |-> 0]
           regs == set_registers(recVm.regs, [rax |-> 4096, rdx |-> 0])
           new == advance_rip(regs, InstructionLength(recExit))
<1>1. recPc = "exit" /\ recExit.reason = Rdtsc /\ LogAndResume(e, new)
  BY DEF RecordRdtsc
<1>2. /\ recExit = ExitContext(recVm) /\ Reason(recVm) = Rdtsc
      /\ recExit.reason \in Intercepted /\ recVm \in Vm
  BY <1>1, InterceptedContext DEF Intercepted
<1>3. e \in EventType
  BY DEF EventType
<1>4. Answers(e, recVm)
  BY <1>2 DEF Answers, Cpuid, Rdtsc
<1>5. inject_event(recVm.regs, e) = regs
  BY DEF inject_event
<1>6. [recVm EXCEPT !.regs = new] = Answered(recVm, e)
  BY <1>2, <1>5 DEF Answered, Vm, Rdtsc, Callout
<1> QED
  BY <1>1, <1>2, <1>3, <1>4, <1>6, LogAndResumeInv

(* The VMCALL arm of RecordEngine::run. *)
LEMMA RecordCalloutInv == RecordInv /\ RecordCallout => RecordInv'
<1> SUFFICES ASSUME RecordInv, RecordCallout PROVE RecordInv'
  OBVIOUS
<1> DEFINE id == recVm.regs["rcx"] % U32
           e == [kind |-> "ContextSwitch", next_thread_id |-> id]
           new == advance_rip(recVm.regs, VMCALL_LEN)
<1>1. recPc = "exit" /\ recExit.reason = Callout /\ LogAndResume(e, new)
  BY DEF RecordCallout, get_registers
<1>2. /\ Reason(recVm) = Callout
      /\ recExit.reason \in Intercepted /\ recVm \in Vm /\ recVm.regs \in Regs
  BY <1>1, InterceptedContext DEF Intercepted
<1>3. id \in 0..(U32 - 1)
  <2>1. recVm.regs["rcx"] \in Nat
    BY <1>2 DEF Regs, Registers, Gpr
  <2> QED
    BY <2>1, GuestAssumption
<1> HIDE DEF id
<1>4. e \in EventType
  BY <1>3 DEF EventType
<1>5. Answers(e, recVm)
  BY <1>2 DEF Answers, Cpuid, Rdtsc, Callout, id
<1>6. inject_event(recVm.regs, e) = recVm.regs
  BY DEF inject_event
<1>7. [recVm EXCEPT !.regs = new] = Answered(recVm, e)
  BY <1>2, <1>6 DEF Answered, Vm
<1> QED
  BY <1>1, <1>2, <1>4, <1>5, <1>7, LogAndResumeInv

(* The arms that leave the loop: the guest is blocked or has halted. *)
LEMMA RecordStopInv == RecordInv /\ RecordStop => RecordInv'
<1> SUFFICES ASSUME RecordInv, RecordStop PROVE RecordInv'
  OBVIOUS
<1>1. /\ recPc = "exit" /\ recExit.reason \notin Intercepted /\ recPc' = "stopped"
      /\ UNCHANGED <<image, recVm, recExit, recSnapshot, events, instruction_count, path, file>>
  BY DEF RecordStop
<1>2. PathOK' /\ TraceDeterminesRun'
  BY <1>1, RunUnchangedInv DEF RunUnchanged
<1>3. RecordTypeOK'
  BY <1>1 DEF RecordInv, RecordTypeOK, RecordPcs
<1>4. path # <<>> /\ RecordPhase'
  BY <1>1 DEF RecordInv, RecordPhase
<1>5. HaltIsLast' /\ RecordExitOK' /\ FileOK'
  BY <1>1 DEF RecordInv, HaltIsLast, RecordExitOK, FileOK
<1>6. RecordEndOK'
  <2>1. CASE recExit.reason = Halt
    BY <1>1, <2>1 DEF RecordInv, RecordExitOK, RecordEndOK
  <2>2. CASE recExit.reason # Halt
    <3>1. recExit = ExitContext(recVm)
      BY <1>1, <2>2 DEF RecordInv, RecordExitOK
    <3>2. recExit.reason = Reason(recVm)
      BY <1>4, <3>1, RecVmFacts, ExitContextType
    <3>3. recExit.reason # NoExit
      BY <1>1, <2>2, <3>2 DEF RecordInv, RecordExitOK
    <3>4. Blocked(recVm)
      BY <1>1, <1>4, <2>2, <3>2, <3>3, RecVmFacts, ReasonType DEF Blocked
    <3> QED
      BY <1>1, <3>4 DEF RecordEndOK, Blocked
  <2> QED
    BY <2>1, <2>2
<1> QED
  BY <1>2, <1>3, <1>4, <1>5, <1>6 DEF RecordInv

(* The hash of a machine is of its type. *)
LEMMA FinalHashType ==
  ASSUME RecordInv PROVE FinalHash \in Hash
<1> DEFINE r == get_registers(recVm.regs, Captured)
<1>1. recVm.regs \in [Registers -> Nat] /\ recVm.mem \in Memory
  BY DEF RecordInv, RecordTypeOK, Vm
<1>2. r \in [Captured -> Nat]
  BY <1>1 DEF get_registers, Registers
<1>3. FinalHash = <<r, recVm.mem>>
  BY DEF FinalHash, hash_state, capture_registers, capture_memory_layout
<1> HIDE DEF r
<1> QED
  BY <1>1, <1>2, <1>3 DEF Hash

(* Hashing the final state and truncating the trace file. *)
LEMMA RecordFinishInv == RecordInv /\ RecordFinish => RecordInv'
<1> SUFFICES ASSUME RecordInv, RecordFinish PROVE RecordInv'
  OBVIOUS
<1> DEFINE a == [snapshot |-> recSnapshot, events |-> events, hash |-> FinalHash]
<1>1. /\ recPc = "stopped" /\ recPc' = "saving"
      /\ file' = [written |-> 0, archive |-> a]
      /\ UNCHANGED <<image, recVm, recExit, recSnapshot, events, instruction_count, path>>
  BY DEF RecordFinish, truncate, FinalHash
<1>2. PathOK' /\ TraceDeterminesRun'
  BY <1>1, RunUnchangedInv DEF RunUnchanged
<1>3. a \in FileArchive
  BY FinalHashType DEF RecordInv, RecordTypeOK, FileArchive
<1>4. FinalHash' = FinalHash
  BY <1>1 DEF FinalHash
<1>5. FileOK'
  BY <1>1, <1>4 DEF FileOK, Fields
<1> HIDE DEF a
<1>6. RecordTypeOK'
  BY <1>1, <1>3 DEF RecordInv, RecordTypeOK, RecordPcs, Fields
<1>7. RecordPhase' /\ HaltIsLast' /\ RecordExitOK' /\ RecordEndOK'
  BY <1>1 DEF RecordInv, RecordPhase, HaltIsLast, RecordExitOK, RecordEndOK, Blocked
<1> QED
  BY <1>2, <1>5, <1>6, <1>7 DEF RecordInv

(* Writing one more field of the archive. *)
LEMMA RecordWriteInv == RecordInv /\ RecordWrite => RecordInv'
<1> SUFFICES ASSUME RecordInv, RecordWrite PROVE RecordInv'
  OBVIOUS
<1>1. /\ recPc = "saving" /\ file' = [file EXCEPT !.written = @ + 1]
      /\ recPc' = IF file'.written = Fields THEN "saved" ELSE "saving"
      /\ UNCHANGED <<image, recVm, recExit, recSnapshot, events, instruction_count, path>>
  BY DEF RecordWrite, write_field
<1>2. PathOK' /\ TraceDeterminesRun'
  BY <1>1, RunUnchangedInv DEF RunUnchanged
<1>3. /\ file \in [written : 0..Fields, archive : FileArchive]
      /\ file.written # Fields
  BY <1>1 DEF RecordInv, RecordTypeOK, FileOK
<1>4. /\ file' \in [written : 0..Fields, archive : FileArchive]
      /\ file'.archive = file.archive
  BY <1>1, <1>3 DEF Fields
<1>5. FinalHash' = FinalHash
  BY <1>1 DEF FinalHash
<1>6. FileOK'
  BY <1>1, <1>4, <1>5 DEF RecordInv, FileOK
<1>7. RecordTypeOK'
  BY <1>1, <1>4 DEF RecordInv, RecordTypeOK, RecordPcs
<1>8. RecordPhase' /\ HaltIsLast' /\ RecordExitOK' /\ RecordEndOK'
  BY <1>1 DEF RecordInv, RecordPhase, HaltIsLast, RecordExitOK, RecordEndOK, Blocked
<1> QED
  BY <1>2, <1>6, <1>7, <1>8 DEF RecordInv

(* A recording that dies leaves a file no replay accepts. *)
LEMMA RecordPanicInv == RecordInv /\ RecordPanic => RecordInv'
<1> SUFFICES ASSUME RecordInv, RecordPanic PROVE RecordInv'
  OBVIOUS
<1>1. /\ recPc # "saved" /\ recPc' = "panicked"
      /\ UNCHANGED <<image, recVm, recExit, recSnapshot, events, instruction_count, path, file>>
  BY DEF RecordPanic
<1>2. PathOK' /\ TraceDeterminesRun'
  BY <1>1, RunUnchangedInv DEF RunUnchanged
<1>3. RecordTypeOK'
  BY <1>1 DEF RecordInv, RecordTypeOK, RecordPcs
<1>4. RecordPhase' /\ RecordExitOK' /\ RecordEndOK' /\ FileOK' /\ HaltIsLast'
  BY <1>1 DEF RecordInv, RecordPhase, RecordExitOK, RecordEndOK, FileOK, HaltIsLast
<1> QED
  BY <1>2, <1>3, <1>4 DEF RecordInv

(* Every step of `cli record` keeps its invariant. *)
LEMMA RecordNextInv == RecordInv /\ RecordNext => RecordInv'
  BY RecordStartInv, RecordStepInv, RecordExitInv, RecordCpuidInv, RecordRdtscInv,
     RecordCalloutInv, RecordStopInv, RecordFinishInv, RecordWriteInv, RecordPanicInv
     DEF RecordNext

(* The recording is not sealed while it moves, and its guest only gains states. *)
LEMMA RecordNextPath ==
  ASSUME RecordInv, RecordNext
  PROVE  /\ recPc # "saved" /\ path \in Seq(PathState)
         /\ \/ UNCHANGED path /\ (recPc' = "saved" => path # <<>>)
            \/ /\ recPc' # "saved" /\ Len(path') = Len(path) + 1
               /\ \A k \in 1..Len(path) : path'[k] = path[k]
<1>1. path \in Seq(PathState)
  BY DEF RecordInv, RecordTypeOK, PathState
<1>2. ASSUME NEW vm, NEW n, Resume(vm, n)
      PROVE  Len(path') = Len(path) + 1 /\ \A k \in 1..Len(path) : path'[k] = path[k]
  <2> DEFINE e == [vm |-> vm, logged |-> n]
  <2>1. path' = Append(path, e)
    BY <1>2 DEF Resume
  <2> HIDE DEF e
  <2> QED
    BY <1>1, <2>1
<1>3. CASE RecordStart
  BY <1>1, <1>2, <1>3 DEF RecordStart
<1>4. CASE RecordStep
  BY <1>1, <1>2, <1>4 DEF RecordStep
<1>5. CASE RecordExit
  BY <1>1, <1>2, <1>5 DEF RecordExit
<1>6. CASE RecordCpuid \/ RecordRdtsc \/ RecordCallout
  <2>1. recPc = "exit" /\ \E e, regs : LogAndResume(e, regs)
    BY <1>6 DEF RecordCpuid, RecordRdtsc, RecordCallout
  <2> QED
    BY <1>1, <1>2, <2>1 DEF LogAndResume
<1>7. CASE RecordStop \/ RecordFinish \/ RecordPanic
  BY <1>1, <1>7 DEF RecordStop, RecordFinish, RecordPanic
<1>8. CASE RecordWrite
  BY <1>1, <1>8 DEF RecordWrite, RecordInv, RecordPhase
<1> QED
  BY <1>3, <1>4, <1>5, <1>6, <1>7, <1>8 DEF RecordNext

(* A step of `cli replay` does not touch the recording. *)
LEMMA RecordUnchangedInv == RecordInv /\ UNCHANGED recordVars => RecordInv'
  BY DEF recordVars, RecordInv, RecordTypeOK, RecordPhase, PathOK, HaltIsLast, RecordExitOK,
         RecordEndOK, Blocked, FileOK, FinalHash, TraceDeterminesRun, RunStarts, RunSteps,
         EventsNumbered

-----------------------------------------------------------------------------
(* The invariant of the replay. *)

(* Before `cli replay` starts, the invariant holds. *)
LEMMA ReplayInitInv == ReplayInit => ReplayInv
<1> SUFFICES ASSUME ReplayInit PROVE ReplayInv
  OBVIOUS
<1>1. ReplayTypeOK /\ ~Loaded
  BY ReplayInitType
<1>2. repPc = "idle" /\ next = 1 /\ repSteps = 0 /\ finalRun = "none"
  BY DEF ReplayInit
<1> QED
  BY <1>1, <1>2 DEF ReplayInv, ReplayPhase, LoadedOK, Lockstep, ReplayExitOK

(* While the recording moves, no archive has been read. *)
LEMMA RecordKeepsReplay ==
  ASSUME IInv, RecordNext, UNCHANGED replayVars
  PROVE  ReplayInv'
<1>1. recPc # "saved"
  BY DEF RecordNext, RecordStart, RecordStep, RecordExit, RecordCpuid, RecordRdtsc,
         RecordCallout, RecordStop, RecordFinish, RecordWrite, RecordPanic
<1>2. ~Loaded
  BY <1>1 DEF IInv, ReplayInv, LoadedOK
<1>3. repPc \notin {"running", "exit"} /\ finalRun = "none"
  BY <1>2 DEF IInv, ReplayInv, ReplayPhase
<1>4. UNCHANGED <<repPc, repRegs, repSnapshot, repEvents, repHash, next, repExit, finalRun,
                  repSteps>>
  BY DEF replayVars
<1>5. ~Loaded'
  BY <1>2, <1>4 DEF Loaded
<1>6. ReplayTypeOK'
  BY <1>4 DEF IInv, ReplayInv, ReplayTypeOK
<1>7. ReplayPhase'
  BY <1>2, <1>4, <1>5 DEF IInv, ReplayInv, ReplayPhase
<1>8. LoadedOK' /\ Lockstep'
  BY <1>5 DEF LoadedOK, Lockstep
<1>9. ReplayExitOK'
  BY <1>3, <1>4 DEF ReplayExitOK
<1> QED
  BY <1>6, <1>7, <1>8, <1>9 DEF ReplayInv

(* What is known once the archive has been read. *)
LEMMA LoadedFacts ==
  ASSUME IInv, Loaded
  PROVE  /\ RecordInv /\ path # <<>> /\ Len(path) \in Nat /\ Len(path) > 0
         /\ path \in Seq(PathState)
         /\ recPc = "saved" /\ repEvents = events /\ repHash = FinalHash
         /\ RepVm \in Vm /\ repRegs \in Regs /\ RepVm.regs = repRegs
         /\ RepVm.mem = repSnapshot.memory_regions
         /\ next \in Nat /\ next > 0 /\ repSteps \in Nat /\ Len(events) \in Nat
<1>1. recPc = "saved" /\ repEvents = events /\ repHash = FinalHash /\ RecordInv
  BY DEF IInv, ReplayInv, LoadedOK
<1>2. path # <<>>
  BY <1>1 DEF RecordInv, RecordPhase
<1>3. /\ repRegs \in [Registers -> Nat] /\ repSnapshot \in Snapshot
      /\ next \in Nat \ {0} /\ repSteps \in Nat
  BY DEF IInv, ReplayInv, ReplayTypeOK
<1>4. repSnapshot.memory_regions \in Memory
  BY <1>3 DEF Snapshot
<1>5. RepVm \in Vm
  BY <1>3, <1>4 DEF RepVm, Vm
<1> QED
  BY <1>1, <1>2, <1>3, <1>5, RecVmFacts DEF RepVm, Regs

(* Where a replay in lockstep stands in the recorded run. *)
LEMMA Position ==
  ASSUME IInv, Loaded, Det, NEW k, k = repSteps + 1
  PROVE  /\ k \in 1..Len(path) /\ path[k].vm = RepVm /\ path[k].logged = next - 1
         /\ Deterministic(RepVm.mem.code)
         /\ next - 1 <= Len(events)
         /\ k = Len(path) => RepVm = recVm /\ next - 1 = Len(events)
         /\ k # Len(path) =>
              k + 1 \in 1..Len(path) /\ TraceStep(events, path[k], path[k + 1])
<1>1. k \in DOMAIN path /\ path[k] = [vm |-> RepVm, logged |-> next - 1]
  BY DEF IInv, ReplayInv, Lockstep
<1>2. k \in 1..Len(path)
  BY <1>1, LoadedFacts
<1>3. path[k].vm.mem.code = image.code /\ path[k].logged <= Len(events)
  BY <1>2, LoadedFacts DEF RecordInv, PathOK
<1>4. path[Len(path)] = [vm |-> recVm, logged |-> Len(events)]
  BY LoadedFacts, RecVmFacts
<1>5. k # Len(path) => k \in 1..(Len(path) - 1) /\ k + 1 \in 1..Len(path)
  BY <1>2, LoadedFacts
<1>6. k # Len(path) => TraceStep(events, path[k], path[k + 1])
  BY <1>5, LoadedFacts DEF RecordInv, TraceDeterminesRun, RunSteps
<1>7. k = Len(path) => RepVm = recVm /\ next - 1 = Len(events)
  BY <1>1, <1>4
<1> QED
  BY <1>1, <1>2, <1>3, <1>5, <1>6, <1>7 DEF Det

(* When the guest exits while events remain, the next event answers it. *)
LEMMA NextEventAnswers == IInv => EventsAnswerExits
<1> SUFFICES ASSUME IInv, Det, repPc = "exit", InTrace PROVE Answers(Event, RepVm)
  BY DEF EventsAnswerExits
<1> DEFINE k == repSteps + 1
<1>1. Loaded
  BY DEF IInv, ReplayInv, ReplayPhase
<1>2. next <= Len(events) /\ Event = events[next].event
  BY <1>1, LoadedFacts DEF InTrace, Event
<1>3. k # Len(path)
  BY <1>1, <1>2, Position, LoadedFacts
<1>4. repExit.reason # Halt
  BY <1>3 DEF IInv, ReplayInv, ReplayExitOK
<1>5. Reason(RepVm) = repExit.reason /\ repExit.reason # NoExit
  BY <1>1, <1>4, LoadedFacts, ExitContextType DEF IInv, ReplayInv, ReplayExitOK
<1>6. /\ TraceStep(events, path[k], path[k + 1]) /\ path[k].vm = RepVm
      /\ path[k].logged = next - 1
  BY <1>1, <1>3, Position
<1>7. /\ path[k + 1].logged = path[k].logged + 1
      /\ Answers(events[path[k + 1].logged].event, RepVm)
  BY <1>4, <1>5, <1>6 DEF TraceStep
<1>8. path[k + 1].logged = next
  BY <1>1, <1>6, <1>7, LoadedFacts
<1> QED
  BY <1>2, <1>7, <1>8

\* FinalHash, Det and Blocked(recVm) read variables of the recording only.
LEMMA RecordVarsUnchanged ==
  ASSUME UNCHANGED recordVars
  PROVE  /\ UNCHANGED <<image, recPc, recVm, recExit, recSnapshot, events, instruction_count,
                        path, file>>
         /\ FinalHash' = FinalHash /\ Det' = Det /\ Blocked(recVm)' = Blocked(recVm)
  BY DEF recordVars, FinalHash, Det, Blocked

(* Reading the archive puts the guest into the first recorded state. *)
LEMMA ReplayLoadInv ==
  ASSUME IInv, ReplayLoad, UNCHANGED recordVars
  PROVE  ReplayInv'
<1> DEFINE base == setup_long_mode(ResetRegisters, PtGpa)
<1>1. /\ repPc = "idle" /\ file.written = Fields /\ repPc' = "running"
      /\ repSnapshot' = file.archive.snapshot /\ repEvents' = file.archive.events
      /\ repHash' = file.archive.hash
      /\ repRegs' = restore_snapshot(base, file.archive.snapshot)
      /\ UNCHANGED <<next, repExit, finalRun, repSteps>>
  BY DEF ReplayLoad, deserializable
<1>2. recPc = "saved" /\ RecordInv
  BY <1>1 DEF IInv, RecordInv, FileOK
<1>3. file.archive = [snapshot |-> recSnapshot, events |-> events, hash |-> FinalHash]
  BY <1>2 DEF RecordInv, FileOK
<1>4. /\ repSnapshot' = recSnapshot /\ repEvents' = events /\ repHash' = FinalHash
      /\ repRegs' = restore_snapshot(base, recSnapshot)
  BY <1>1, <1>3
<1>5. path # <<>>
  BY <1>2 DEF RecordInv, RecordPhase
<1>6. /\ path[1].vm.mem = recSnapshot.memory_regions
      /\ path[1].vm.regs = restore_snapshot(base, recSnapshot)
      /\ path[1].logged = 0
  BY <1>2, <1>5 DEF RecordInv, TraceDeterminesRun, RunStarts
<1>7. path \in Seq(PathState) /\ Len(path) \in Nat /\ Len(path) > 0
  BY <1>2, <1>5, RecVmFacts
<1>8. path[1] \in PathState
  BY <1>7
<1>9. /\ path[1].vm \in Vm
      /\ path[1] = [vm |-> path[1].vm, logged |-> path[1].logged]
      /\ path[1].vm = [regs |-> path[1].vm.regs, mem |-> path[1].vm.mem]
      /\ path[1].vm.regs \in [Registers -> Nat]
  BY <1>8 DEF PathState, Vm
<1>10. RepVm' = path[1].vm /\ repRegs' \in [Registers -> Nat]
  BY <1>4, <1>6, <1>9 DEF RepVm
<1>11. next = 1 /\ repSteps = 0 /\ finalRun = "none"
  BY <1>1 DEF IInv, ReplayInv, ReplayPhase
<1>12. Loaded'
  BY <1>2, <1>4, <1>5 DEF RecordInv, RecordPhase, Loaded
<1>13. ReplayTypeOK'
  <2>1. recSnapshot \in Snapshot /\ events \in Seq(TraceEvent) /\ FinalHash \in Hash
    BY <1>2, FinalHashType DEF RecordInv, RecordTypeOK
  <2> QED
    BY <1>1, <1>4, <1>10, <2>1 DEF IInv, ReplayInv, ReplayTypeOK, ReplayPcs
<1>14. ReplayPhase'
  BY <1>1, <1>11, <1>12 DEF ReplayPhase
<1>15. LoadedOK'
  BY <1>2, <1>4, RecordVarsUnchanged DEF LoadedOK
<1>16. Lockstep'
  <2>1. 1 \in DOMAIN path
    BY <1>7
  <2>2. path' = path /\ repSteps' + 1 = 1 /\ next' - 1 = 0
    BY <1>1, <1>11, RecordVarsUnchanged
  <2> QED
    BY <1>6, <1>9, <1>10, <2>1, <2>2 DEF Lockstep
<1>17. ReplayExitOK'
  <2>1. Len(path) = 1 => Blocked(recVm)
    BY <1>2 DEF RecordInv, RecordEndOK
  <2> QED
    BY <1>1, <1>11, <2>1, RecordVarsUnchanged DEF ReplayExitOK
<1> QED
  BY <1>13, <1>14, <1>15, <1>16, <1>17 DEF ReplayInv

(* A step by which the replay moves its guest as the recorded run goes on. *)
LEMMA ReplayMoves ==
  ASSUME IInv, Loaded, UNCHANGED recordVars, UNCHANGED <<repEvents, repHash, finalRun>>,
         repPc \in {"running", "exit"},
         NEW vm \in Vm, MoveTo(vm),
         repPc' \in {"running", "exit"}, repExit' \in Context, next' \in Nat \ {0},
         Det => /\ repSteps + 2 \in 1..Len(path)
                /\ path[repSteps + 2].vm = vm
                /\ path[repSteps + 2].logged = next' - 1,
         repPc' = "exit" => repExit'.reason = Halt /\ (Det => repSteps + 2 = Len(path)),
         repPc' = "running" => Reason(RepVm) # Halt
  PROVE  ReplayInv'
<1>1. ReplayTypeOK /\ finalRun = "none" /\ repSteps \in Nat
  BY DEF IInv, ReplayInv, ReplayPhase, ReplayTypeOK
<1>2. /\ repRegs' \in [Registers -> Nat] /\ repSnapshot' \in Snapshot
      /\ repSteps' = repSteps + 1 /\ repSteps' \in Nat
      /\ RepVm' = vm /\ Loaded'
  BY <1>1, MoveToFacts
<1>3. ReplayTypeOK'
  BY <1>1, <1>2 DEF ReplayTypeOK, ReplayPcs
<1>4. ReplayPhase'
  BY <1>1, <1>2 DEF ReplayPhase
<1>5. LoadedOK'
  BY RecordVarsUnchanged DEF IInv, ReplayInv, LoadedOK
<1>6. Lockstep'
  <2> SUFFICES ASSUME Det
               PROVE  /\ repSteps' + 1 \in DOMAIN path
                      /\ path[repSteps' + 1] = [vm |-> RepVm', logged |-> next' - 1]
    BY RecordVarsUnchanged DEF Lockstep
  <2>1. repSteps' + 1 = repSteps + 2
    BY <1>1, <1>2
  <2>2. repSteps + 2 \in 1..Len(path)
    OBVIOUS
  <2>3. path[repSteps + 2] \in PathState
    BY <2>2, LoadedFacts
  <2>4. path[repSteps + 2]
          = [vm |-> path[repSteps + 2].vm, logged |-> path[repSteps + 2].logged]
    BY <2>3 DEF PathState
  <2> QED
    BY <1>2, <2>1, <2>2, <2>4, LoadedFacts
<1>7. ReplayExitOK'
  <2>1. Det /\ repPc' = "running" /\ repSteps' + 1 = Len(path) => Blocked(recVm)
    <3> SUFFICES ASSUME Det, repPc' = "running", repSteps' + 1 = Len(path)
                 PROVE  Blocked(recVm)
      OBVIOUS
    <3>1. Len(path) - 1 = repSteps + 1
      BY <1>1, <1>2
    <3>2. Reason(path[Len(path) - 1].vm) # Halt
      BY <3>1, Position
    <3> QED
      BY <3>2, LoadedFacts DEF RecordInv, RecordEndOK
  <2>2. Det /\ repPc' = "exit" /\ repExit'.reason = Halt => repSteps' + 1 = Len(path)
    BY <1>1, <1>2
  <2> QED
    BY <1>1, <2>1, <2>2, RecordVarsUnchanged DEF ReplayExitOK
<1> QED
  BY <1>3, <1>4, <1>5, <1>6, <1>7 DEF ReplayInv

(* An instruction of the replayed guest is the one that was recorded. *)
LEMMA ReplayStepInv ==
  ASSUME IInv, ReplayStep, UNCHANGED recordVars
  PROVE  ReplayInv'
<1> DEFINE k == repSteps + 1
<1>1. PICK r \in Random : MoveTo(Execute(RepVm, r))
  BY DEF ReplayStep
<1>2. /\ repPc = "running" /\ Reason(RepVm) = NoExit
      /\ UNCHANGED <<repPc, repEvents, repHash, next, repExit, finalRun>>
  BY DEF ReplayStep
<1>3. Loaded
  BY <1>2 DEF IInv, ReplayInv, ReplayPhase
<1> DEFINE vm == Execute(RepVm, r)
<1>4. vm \in Vm
  BY <1>2, <1>3, GuestAssumption, LoadedFacts, ExecuteType
<1>5. ASSUME Det
      PROVE  /\ repSteps + 2 \in 1..Len(path)
             /\ path[repSteps + 2].vm = vm /\ path[repSteps + 2].logged = next - 1
  <2>1. k # Len(path)
    <3> SUFFICES ASSUME k = Len(path) PROVE FALSE
      OBVIOUS
    <3>1. Blocked(recVm) /\ RepVm = recVm
      BY <1>2, <1>3, <1>5, Position DEF IInv, ReplayInv, ReplayExitOK
    <3> QED
      BY <1>2, <3>1 DEF Blocked, NoExit, MemoryAccess, Unhandled
  <2>2. /\ k + 1 \in 1..Len(path) /\ TraceStep(events, path[k], path[k + 1])
        /\ path[k].vm = RepVm /\ path[k].logged = next - 1
        /\ Deterministic(RepVm.mem.code)
    BY <1>3, <1>5, <2>1, Position
  <2>3. ~Answers(events[path[k + 1].logged].event, RepVm) /\ Reason(RepVm) # Halt
    BY <1>2 DEF Answers, NoExit, Halt, Cpuid, Rdtsc, Callout
  <2>4. /\ \E q \in Random : path[k + 1].vm = Execute(RepVm, q)
        /\ path[k + 1].logged = next - 1
    BY <2>2, <2>3 DEF TraceStep
  <2>5. path[k + 1].vm = vm
    BY <1>2, <1>3, <2>2, <2>4, LoadedFacts, ExecuteDeterministic
  <2>6. k + 1 = repSteps + 2
    BY <1>3, LoadedFacts
  <2> HIDE DEF vm, k
  <2> QED
    BY <2>2, <2>4, <2>5, <2>6
<1> HIDE DEF vm
<1>6. MoveTo(vm)
  BY <1>1 DEF vm
<1>7. /\ repExit' \in Context /\ next' \in Nat \ {0} /\ repPc' = "running"
      /\ Reason(RepVm) # Halt
  BY <1>2 DEF IInv, ReplayInv, ReplayTypeOK, NoExit, Halt
<1> QED
  BY <1>2, <1>3, <1>4, <1>5, <1>6, <1>7, ReplayMoves

(* The replayed guest exits where the recorded one did. *)
LEMMA ReplayExitInv ==
  ASSUME IInv, ReplayExit, UNCHANGED recordVars
  PROVE  ReplayInv'
<1> DEFINE k == repSteps + 1
<1>1. /\ repPc = "running" /\ Reason(RepVm) # NoExit
      /\ repPc' = "exit" /\ repExit' = ExitContext(RepVm)
      /\ UNCHANGED <<repEvents, repHash, next, finalRun>>
  BY DEF ReplayExit
<1>2. Loaded /\ finalRun = "none" /\ next \in Nat \ {0}
  BY <1>1 DEF IInv, ReplayInv, ReplayPhase, ReplayTypeOK
<1>3. repExit' \in Context /\ repExit'.reason = Reason(RepVm)
  BY <1>1, <1>2, LoadedFacts, ExitContextType, ReasonType DEF Context
<1>4. CASE Reason(RepVm) = Halt
  <2> DEFINE vm == AtExit(RepVm)
  <2>1. MoveTo(vm) /\ vm \in Vm
    BY <1>1, <1>2, <1>4, LoadedFacts, AtExitType DEF ReplayExit
  <2>2. ASSUME Det
        PROVE  /\ repSteps + 2 \in 1..Len(path) /\ repSteps + 2 = Len(path)
               /\ path[repSteps + 2].vm = vm /\ path[repSteps + 2].logged = next - 1
    <3>1. k # Len(path)
      <4> SUFFICES ASSUME k = Len(path) PROVE FALSE
        OBVIOUS
      <4>1. Blocked(recVm) /\ RepVm = recVm
        BY <1>1, <1>2, <2>2, Position DEF IInv, ReplayInv, ReplayExitOK
      <4> QED
        BY <1>4, <4>1 DEF Blocked, Halt, MemoryAccess, Unhandled
    <3>2. /\ k \in 1..Len(path) /\ k + 1 \in 1..Len(path)
          /\ TraceStep(events, path[k], path[k + 1])
          /\ path[k].vm = RepVm /\ path[k].logged = next - 1
      BY <1>2, <2>2, <3>1, Position
    <3>3. ~Answers(events[path[k + 1].logged].event, RepVm)
      BY <1>4 DEF Answers, Halt, Cpuid, Rdtsc, Callout
    <3>4. path[k + 1].vm = vm /\ path[k + 1].logged = next - 1
      BY <1>1, <1>4, <3>2, <3>3 DEF TraceStep
    <3>5. k \in 1..(Len(path) - 1)
      BY <1>2, <3>2, LoadedFacts
    <3>6. k = Len(path) - 1
      BY <1>2, <1>4, <3>2, <3>5, LoadedFacts DEF RecordInv, HaltIsLast
    <3>7. k + 1 = repSteps + 2 /\ repSteps + 2 = Len(path)
      BY <1>2, <3>6, LoadedFacts
    <3> HIDE DEF vm, k
    <3> QED
      BY <3>2, <3>4, <3>7
  <2> HIDE DEF vm
  <2>3. repPc' # "running" /\ repExit'.reason = Halt
    BY <1>1, <1>3, <1>4
  <2> QED
    BY <1>1, <1>2, <1>3, <2>1, <2>2, <2>3, ReplayMoves
<1>5. CASE Reason(RepVm) # Halt
  <2>1. UNCHANGED <<repRegs, repSnapshot, repSteps>>
    BY <1>5 DEF ReplayExit
  <2>2. RepVm' = RepVm /\ Loaded' = Loaded
    BY <2>1 DEF RepVm, Loaded
  <2>3. ReplayTypeOK' /\ ReplayPhase'
    BY <1>1, <1>2, <1>3, <2>1, <2>2
       DEF IInv, ReplayInv, ReplayTypeOK, ReplayPcs, ReplayPhase
  <2>4. LoadedOK' /\ Lockstep'
    BY <1>1, <2>1, <2>2, RecordVarsUnchanged DEF IInv, ReplayInv, LoadedOK, Lockstep
  <2>5. repExit' = ExitContext(RepVm') /\ repExit'.reason # NoExit /\ repExit'.reason # Halt
    BY <1>1, <1>3, <1>5, <2>2
  <2>6. ReplayExitOK'
    BY <1>1, <1>2, <2>5 DEF ReplayExitOK
  <2> QED
    BY <2>3, <2>4, <2>6 DEF ReplayInv
<1> QED
  BY <1>4, <1>5

(* Injecting the next event moves the guest as the recording did. *)
LEMMA InjectInv ==
  ASSUME IInv, UNCHANGED recordVars, repPc = "exit", InTrace,
         repExit.reason \in Intercepted, Answers(Event, RepVm),
         NEW n, n = IF Reason(RepVm) = Callout THEN VMCALL_LEN ELSE InstructionLength(repExit),
         InjectAndResume(n)
  PROVE  ReplayInv'
<1> DEFINE k == repSteps + 1
           vm == Answered(RepVm, Event)
<1>1. Loaded
  BY DEF IInv, ReplayInv, ReplayPhase
<1>2. next <= Len(events) /\ Event = events[next].event /\ next \in 1..Len(events)
  BY <1>1, LoadedFacts DEF InTrace, Event
<1>3. Event \in EventType
  <2>1. events[next] \in TraceEvent
    BY <1>1, <1>2, LoadedFacts DEF RecordInv, RecordTypeOK
  <2> QED
    BY <1>2, <2>1 DEF TraceEvent
<1>4. /\ repExit = ExitContext(RepVm) /\ repExit.reason = Reason(RepVm)
      /\ Reason(RepVm) \notin {NoExit, Halt}
  <2>1. repExit.reason # Halt
    BY DEF Intercepted, Halt, Cpuid, Rdtsc, Callout
  <2> QED
    BY <1>1, <2>1, LoadedFacts, ExitContextType DEF IInv, ReplayInv, ReplayExitOK
<1>5. vm \in Vm
  BY <1>1, <1>3, LoadedFacts, AnsweredType
<1>6. MoveTo(vm)
  <2>1. [RepVm EXCEPT !.regs = advance_rip(inject_event(repRegs, Event), n)] = vm
    BY <1>1, <1>4, LoadedFacts DEF Answered, Vm
  <2> QED
    BY <2>1 DEF InjectAndResume
<1>7. /\ next' = next + 1 /\ repPc' = "running"
      /\ UNCHANGED <<repEvents, repHash, repExit, finalRun>>
  BY DEF InjectAndResume
<1>8. ASSUME Det
      PROVE  /\ repSteps + 2 \in 1..Len(path)
             /\ path[repSteps + 2].vm = vm /\ path[repSteps + 2].logged = next' - 1
  <2>1. k # Len(path)
    BY <1>1, <1>2, <1>8, Position, LoadedFacts
  <2>2. /\ k + 1 \in 1..Len(path) /\ TraceStep(events, path[k], path[k + 1])
        /\ path[k].vm = RepVm /\ path[k].logged = next - 1
    BY <1>1, <1>8, <2>1, Position
  <2>3. /\ path[k + 1].logged = path[k].logged + 1
        /\ path[k + 1].vm = Answered(RepVm, events[path[k + 1].logged].event)
    BY <1>4, <2>2 DEF TraceStep
  <2>4. path[k + 1].logged = next /\ next' - 1 = next /\ k + 1 = repSteps + 2
    <3>1. next \in Nat /\ repSteps \in Nat
      BY <1>1, LoadedFacts
    <3>2. path[k + 1].logged = (next - 1) + 1
      BY <2>2, <2>3
    <3> QED
      BY <1>7, <3>1, <3>2
  <2>5. path[k + 1].vm = vm
    BY <1>2, <2>3, <2>4
  <2> HIDE DEF k, vm
  <2> QED
    BY <2>2, <2>4, <2>5
<1> HIDE DEF vm
<1>9. repExit' \in Context /\ next' \in Nat \ {0}
  BY <1>7 DEF IInv, ReplayInv, ReplayTypeOK
<1> QED
  BY <1>1, <1>4, <1>5, <1>6, <1>7, <1>8, <1>9, ReplayMoves

\* At an intercepted exit, the context is that of the guest as it stands.
LEMMA ReplayContext ==
  ASSUME IInv, repPc = "exit", repExit.reason # Halt
  PROVE  Loaded /\ RepVm.regs = repRegs /\ Reason(RepVm) = repExit.reason
<1>1. Loaded
  BY DEF IInv, ReplayInv, ReplayPhase
<1> QED
  BY <1>1, LoadedFacts, ExitContextType DEF IInv, ReplayInv, ReplayExitOK

(* The arms of replay_event that inject an event. *)
LEMMA ReplayInjectsInv ==
  ASSUME IInv, UNCHANGED recordVars, ReplayCpuid \/ ReplayRdtsc \/ ReplayCallout
  PROVE  ReplayInv'
<1>1. CASE ReplayCpuid
  <2>1. /\ repPc = "exit" /\ InTrace /\ repExit.reason = Cpuid /\ Event.kind = "Cpuid"
        /\ InjectAndResume(InstructionLength(repExit))
    BY <1>1 DEF ReplayCpuid
  <2>2. repExit.reason # Halt /\ repExit.reason # Callout /\ repExit.reason \in Intercepted
    BY <2>1 DEF Cpuid, Halt, Callout, Intercepted
  <2>3. Answers(Event, RepVm)
    BY <2>1, <2>2, ReplayContext DEF Answers
  <2> QED
    BY <2>1, <2>2, <2>3, ReplayContext, InjectInv
<1>2. CASE ReplayRdtsc
  <2>1. /\ repPc = "exit" /\ InTrace /\ repExit.reason = Rdtsc /\ Event.kind = "Rdtsc"
        /\ InjectAndResume(InstructionLength(repExit))
    BY <1>2 DEF ReplayRdtsc
  <2>2. repExit.reason # Halt /\ repExit.reason # Callout /\ repExit.reason \in Intercepted
    BY <2>1 DEF Rdtsc, Halt, Callout, Intercepted
  <2>3. Answers(Event, RepVm)
    BY <2>1, <2>2, ReplayContext DEF Answers
  <2> QED
    BY <2>1, <2>2, <2>3, ReplayContext, InjectInv
<1>3. CASE ReplayCallout
  <2>1. /\ repPc = "exit" /\ InTrace /\ repExit.reason = Callout /\ ThreadMatches
        /\ InjectAndResume(VMCALL_LEN)
    BY <1>3 DEF ReplayCallout
  <2>2. repExit.reason # Halt /\ repExit.reason \in Intercepted
    BY <2>1 DEF Halt, Callout, Intercepted
  <2>3. Answers(Event, RepVm)
    BY <2>1, <2>2, ReplayContext DEF Answers, ThreadMatches, get_registers
  <2> QED
    BY <2>1, <2>2, <2>3, ReplayContext, InjectInv
<1> QED
  BY <1>1, <1>2, <1>3

(* replay_event only skips, retries or stops at an event when the guest drew *)
(* a random number.                                                          *)
LEMMA UnansweredIsRandom ==
  ASSUME IInv, ReplayMismatch \/ ReplayRetry \/ ReplayStop
  PROVE  ~Det
<1>1. repPc = "exit" /\ InTrace
  BY DEF ReplayMismatch, ReplayRetry, ReplayStop
<1>2. Loaded
  BY <1>1 DEF IInv, ReplayInv, ReplayPhase
<1> SUFFICES ASSUME Det PROVE FALSE
  OBVIOUS
<1>3. Answers(Event, RepVm)
  BY <1>1, NextEventAnswers DEF EventsAnswerExits
<1>4. repExit.reason # Halt
  <2> SUFFICES ASSUME repExit.reason = Halt PROVE FALSE
    OBVIOUS
  <2>1. repSteps + 1 = Len(path)
    BY <1>1 DEF IInv, ReplayInv, ReplayExitOK
  <2>2. next - 1 = Len(events)
    BY <1>2, <2>1, Position
  <2> QED
    BY <1>1, <1>2, <2>2, LoadedFacts DEF InTrace
<1>5. Reason(RepVm) = repExit.reason /\ RepVm.regs = repRegs
  BY <1>1, <1>4, ReplayContext
<1>6. CASE ReplayMismatch
  BY <1>3, <1>5, <1>6
     DEF ReplayMismatch, Answers, ThreadMatches, get_registers, Callout, Cpuid, Rdtsc
<1>7. CASE ReplayRetry
  BY <1>3, <1>5, <1>7 DEF ReplayRetry, Answers, Callout, Cpuid, Rdtsc
<1>8. CASE ReplayStop
  BY <1>3, <1>5, <1>8 DEF ReplayStop, Answers, Intercepted
<1> QED
  BY <1>6, <1>7, <1>8

(* The arms that answer nothing are only reached by guests that draw numbers *)
(* the trace does not hold.                                                  *)
LEMMA ReplayUnansweredInv ==
  ASSUME IInv, UNCHANGED recordVars, ReplayMismatch \/ ReplayRetry \/ ReplayStop
  PROVE  ReplayInv'
<1>1. repPc = "exit" /\ InTrace
  BY DEF ReplayMismatch, ReplayRetry, ReplayStop
<1>2. Loaded /\ finalRun = "none"
  BY <1>1 DEF IInv, ReplayInv, ReplayPhase
<1>3. ~Det
  BY UnansweredIsRandom
<1>4. /\ repPc' = "running" /\ next' \in {next, next + 1}
      /\ UNCHANGED <<repRegs, repSnapshot, repEvents, repHash, repExit, finalRun, repSteps>>
  BY DEF ReplayMismatch, ReplayRetry, ReplayStop, SkipEvent
<1>5. Loaded'
  BY <1>2, <1>4 DEF Loaded
<1>6. ReplayTypeOK'
  BY <1>4 DEF IInv, ReplayInv, ReplayTypeOK, ReplayPcs
<1>7. ReplayPhase'
  BY <1>2, <1>4, <1>5 DEF ReplayPhase
<1>8. LoadedOK'
  BY <1>2, <1>4, RecordVarsUnchanged DEF IInv, ReplayInv, LoadedOK
<1>9. Lockstep' /\ ReplayExitOK'
  BY <1>3, <1>4, RecordVarsUnchanged DEF Lockstep, ReplayExitOK
<1> QED
  BY <1>6, <1>7, <1>8, <1>9 DEF ReplayInv

(* Steps that only move the process, not the guest. *)
LEMMA ReplayIdlesInv ==
  ASSUME IInv, UNCHANGED recordVars,
         UNCHANGED <<repRegs, repSnapshot, repEvents, repHash, next, repExit, repSteps>>,
         repPc' \in {"verify", "panicked"},
         repPc' = "verify" => Loaded,
         finalRun' \in {"none", "ok", "err"}, finalRun' # "none" => Loaded,
         finalRun' = "ok" /\ Det => RepVm = recVm /\ repSteps + 1 = Len(path)
  PROVE  ReplayInv'
<1>1. RepVm' = RepVm /\ Loaded' = Loaded
  BY DEF RepVm, Loaded
<1>2. ReplayTypeOK' /\ ReplayPhase'
  BY <1>1 DEF IInv, ReplayInv, ReplayTypeOK, ReplayPcs, ReplayPhase
<1>3. LoadedOK' /\ Lockstep'
  BY <1>1, RecordVarsUnchanged DEF IInv, ReplayInv, LoadedOK, Lockstep
<1>4. ReplayExitOK'
  BY <1>1, RecordVarsUnchanged DEF ReplayExitOK
<1> QED
  BY <1>2, <1>3, <1>4 DEF ReplayInv

(* The last run ends where the recording ended. *)
LEMMA FinalExitState ==
  ASSUME IInv, repPc = "exit", ~InTrace, Det
  PROVE  RepVm = recVm /\ repSteps + 1 = Len(path)
<1> DEFINE k == repSteps + 1
<1>1. Loaded
  BY DEF IInv, ReplayInv, ReplayPhase
<1>2. ~(next <= Len(events))
  BY <1>1, LoadedFacts DEF InTrace
<1>3. CASE repExit.reason = Halt
  BY <1>1, <1>3, Position DEF IInv, ReplayInv, ReplayExitOK
<1>4. CASE repExit.reason # Halt
  <2>1. Reason(RepVm) \notin {Halt, NoExit}
    BY <1>4, ReplayContext DEF IInv, ReplayInv, ReplayExitOK
  <2>2. k = Len(path)
    <3> SUFFICES ASSUME k # Len(path) PROVE FALSE
      OBVIOUS
    <3>1. /\ TraceStep(events, path[k], path[k + 1]) /\ path[k].vm = RepVm
          /\ path[k].logged = next - 1
      BY <1>1, Position
    <3>2. path[k + 1].logged = path[k].logged + 1 /\ path[k + 1].logged <= Len(events)
      BY <2>1, <3>1 DEF TraceStep
    <3> QED
      BY <1>1, <1>2, <3>1, <3>2, LoadedFacts
  <2> QED
    BY <1>1, <2>2, Position
<1> QED
  BY <1>3, <1>4

(* The final hash comparison. *)
LEMMA ReplayVerifyInv ==
  ASSUME IInv, ReplayVerify, UNCHANGED recordVars
  PROVE  ReplayInv'
<1> DEFINE r == get_registers(repRegs, Captured)
           snap == capture_registers(repSnapshot, repRegs, Captured)
<1>1. /\ repPc = "verify" /\ repSnapshot' = snap
      /\ repPc' = IF hash_state(snap) = repHash THEN "verified" ELSE "failed"
      /\ UNCHANGED <<repRegs, repEvents, repHash, next, repExit, finalRun, repSteps>>
  BY DEF ReplayVerify
<1>2. Loaded
  BY <1>1 DEF IInv, ReplayInv, ReplayPhase
<1>3. repSnapshot \in Snapshot /\ repRegs \in [Registers -> Nat]
  BY DEF IInv, ReplayInv, ReplayTypeOK
<1>4. r \in [Captured -> Nat]
  BY <1>3 DEF get_registers, Registers
<1>5. snap = [repSnapshot EXCEPT !.registers = r]
  BY DEF capture_registers
<1> HIDE DEF r, snap
<1>6. /\ snap \in Snapshot /\ snap.registers = r
      /\ snap.memory_regions = repSnapshot.memory_regions
  BY <1>3, <1>4, <1>5 DEF Snapshot
<1>7. Loaded'
  <2>1. DOMAIN r = Captured /\ DOMAIN NoRegisters = {} /\ "rip" \in Captured
    BY <1>4 DEF NoRegisters, Captured
  <2>2. r # NoRegisters
    BY <2>1
  <2> QED
    BY <1>1, <1>6, <2>2 DEF Loaded
<1>8. RepVm' = RepVm
  BY <1>1, <1>6 DEF RepVm
<1>9. Det /\ finalRun = "ok" =>
        repPc' # "failed" /\ RepVm = recVm /\ repSteps + 1 = Len(path)
  <2> SUFFICES ASSUME Det, finalRun = "ok"
               PROVE  repPc' # "failed" /\ RepVm = recVm /\ repSteps + 1 = Len(path)
    OBVIOUS
  <2>1. RepVm = recVm /\ repSteps + 1 = Len(path)
    BY DEF IInv, ReplayInv, ReplayExitOK
  <2>2. repRegs = recVm.regs /\ repSnapshot.memory_regions = recVm.mem
    BY <2>1 DEF RepVm
  <2>3. FinalHash = <<r, recVm.mem>>
    BY <2>2 DEF FinalHash, hash_state, capture_registers, capture_memory_layout, r
  <2>4. hash_state(snap) = FinalHash
    BY <1>6, <2>2, <2>3 DEF hash_state
  <2> QED
    BY <1>1, <1>2, <2>1, <2>4, LoadedFacts
<1>10. ReplayTypeOK' /\ ReplayPhase'
  BY <1>1, <1>6, <1>7 DEF IInv, ReplayInv, ReplayTypeOK, ReplayPcs, ReplayPhase
<1>11. LoadedOK' /\ Lockstep'
  BY <1>1, <1>2, <1>7, <1>8, RecordVarsUnchanged DEF IInv, ReplayInv, LoadedOK, Lockstep
<1>12. ReplayExitOK'
  BY <1>1, <1>8, <1>9, RecordVarsUnchanged DEF ReplayExitOK
<1> QED
  BY <1>10, <1>11, <1>12 DEF ReplayInv

(* Every step of `cli replay` keeps its invariant. *)
LEMMA ReplayNextInv ==
  ASSUME IInv, ReplayNext, UNCHANGED recordVars
  PROVE  ReplayInv'
<1> USE DEF IInv, ReplayInv
<1>1. CASE ReplayLoadFails \/ ReplayPanic
  BY <1>1, ReplayIdlesInv DEF ReplayLoadFails, ReplayPanic, ReplayPhase, ReplayTypeOK, ReplayExitOK
<1>2. CASE FinalExit
  <2>1. /\ repPc = "exit" /\ ~InTrace /\ repPc' = "verify" /\ finalRun' = "ok"
        /\ UNCHANGED <<repRegs, repSnapshot, repEvents, repHash, next, repExit, repSteps>>
    BY <1>2 DEF FinalExit
  <2>2. Loaded
    BY <2>1 DEF ReplayPhase
  <2> QED
    BY <2>1, <2>2, FinalExitState, ReplayIdlesInv
<1>3. CASE FinalError
  BY <1>3, ReplayIdlesInv DEF FinalError, ReplayPhase
<1> QED
  BY <1>1, <1>2, <1>3, ReplayLoadInv, ReplayStepInv, ReplayExitInv, ReplayInjectsInv,
     ReplayUnansweredInv, ReplayVerifyInv DEF ReplayNext, ReplayProgress

-----------------------------------------------------------------------------
(* The theorems. *)

(* The inductive invariant holds in every reachable state. *)
LEMMA Invariance == Spec => []IInv
<1>1. Init => IInv
  BY RecordInitInv, ReplayInitInv DEF Init, IInv
<1>2. IInv /\ [Next]_vars => IInv'
  <2> SUFFICES ASSUME IInv, [Next]_vars PROVE IInv'
    OBVIOUS
  <2>1. CASE Record
    BY <2>1, RecordNextInv, RecordKeepsReplay DEF Record, IInv
  <2>2. CASE Replay
    BY <2>2, RecordUnchangedInv, ReplayNextInv DEF Replay, IInv
  <2>3. CASE UNCHANGED vars
    <3>1. UNCHANGED recordVars /\ UNCHANGED replayVars
      BY <2>3 DEF vars
    <3>2. RecordInv'
      BY <3>1, RecordUnchangedInv DEF IInv
    <3>3. ReplayInv'
      BY <3>1, RecordVarsUnchanged
         DEF replayVars, IInv, ReplayInv, ReplayTypeOK, ReplayPhase, LoadedOK, Lockstep,
             ReplayExitOK, RepVm, Loaded
    <3> QED
      BY <3>2, <3>3 DEF IInv
  <2> QED
    BY <2>1, <2>2, <2>3 DEF Next
<1> QED
  BY <1>1, <1>2, PTL DEF Spec

(* Type correctness: registers, events and the archive keep their types, so  *)
(* a thread id or CPUID answer that RecordEngine::run logs fits its u32.     *)
THEOREM TypeCorrect == Spec => []TypeOK
<1>1. IInv => TypeOK
  BY DEF IInv, RecordInv, ReplayInv, TypeOK
<1> QED
  BY <1>1, Invariance, PTL

(* The trace RecordEngine::run leaves is a true account of the run, at every *)
(* moment and for every guest, random ones included.                         *)
THEOREM TraceCorrect == Spec => []TraceDeterminesRun
<1>1. IInv => TraceDeterminesRun
  BY DEF IInv, RecordInv
<1> QED
  BY <1>1, Invariance, PTL

(* A replay of a deterministic guest goes through the recorded states.       *)
THEOREM LockstepCorrect == Spec => []Lockstep
<1>1. IInv => Lockstep
  BY DEF IInv, ReplayInv
<1> QED
  BY <1>1, Invariance, PTL

(* replay_event never meets an exit that its event does not answer, when the *)
(* guest is deterministic.                                                   *)
THEOREM EventsCorrect == Spec => []EventsAnswerExits
  BY NextEventAnswers, Invariance, PTL

(* The hash comparison of `cli replay` accepts every deterministic guest     *)
(* whose last run did not fail, and its success means equal final machines.  *)
THEOREM VerdictCorrect == Spec => []VerdictIsRight
<1>1. IInv => VerdictIsRight
  BY DEF IInv, ReplayInv, ReplayExitOK, VerdictIsRight
<1> QED
  BY <1>1, Invariance, PTL

(* The comparison of the hashes accepts only the memory and the captured     *)
(* registers with which the recording ended, an errored last run included.   *)
LEMMA VerifyEarns ==
  ASSUME IInv, ReplayVerify, UNCHANGED recordVars
  PROVE  SuccessIsEarned'
<1> DEFINE r == get_registers(repRegs, Captured)
           q == get_registers(recVm.regs, Captured)
           snap == capture_registers(repSnapshot, repRegs, Captured)
<1>1. /\ repPc = "verify" /\ repSnapshot' = snap /\ repRegs' = repRegs
      /\ repPc' = IF hash_state(snap) = repHash THEN "verified" ELSE "failed"
  BY DEF ReplayVerify
<1>2. recVm' = recVm
  BY RecordVarsUnchanged
<1>3. Loaded /\ repSnapshot \in Snapshot
  BY <1>1 DEF IInv, ReplayInv, ReplayPhase, ReplayTypeOK
<1>4. snap = [repSnapshot EXCEPT !.registers = r]
  BY DEF capture_registers
<1>5. FinalHash = <<q, recVm.mem>>
  BY DEF FinalHash, hash_state, capture_registers, capture_memory_layout
<1>6. /\ \A x \in Captured : r[x] = repRegs[x]
      /\ \A x \in Captured : q[x] = recVm.regs[x]
  BY DEF get_registers
<1> HIDE DEF r, q, snap
<1>7. snap.registers = r /\ snap.memory_regions = repSnapshot.memory_regions
  BY <1>3, <1>4 DEF Snapshot
<1>8. hash_state(snap) = <<r, repSnapshot.memory_regions>>
  BY <1>7 DEF hash_state
<1>9. repHash = FinalHash
  BY <1>3, LoadedFacts
<1>10. ASSUME repPc' = "verified" PROVE r = q /\ repSnapshot.memory_regions = recVm.mem
  <2>1. hash_state(snap) = repHash
    BY <1>1, <1>10
  <2> QED
    BY <1>5, <1>8, <1>9, <2>1
<1>11. RepVm.regs' = repRegs /\ RepVm.mem' = repSnapshot.memory_regions
  BY <1>1, <1>7 DEF RepVm
<1> QED
  BY <1>2, <1>6, <1>10, <1>11 DEF SuccessIsEarned

(* `cli replay` prints success only when memory and captured registers are   *)
(* those with which the recording ended: for every guest, and also when the  *)
(* last run of the guest failed.                                             *)
THEOREM SuccessCorrect == Spec => []SuccessIsEarned
<1>1. Init => SuccessIsEarned
  BY DEF Init, ReplayInit, SuccessIsEarned
<1>2. IInv /\ SuccessIsEarned /\ [Next]_vars => SuccessIsEarned'
  <2> SUFFICES ASSUME IInv, SuccessIsEarned, [Next]_vars PROVE SuccessIsEarned'
    OBVIOUS
  <2>1. CASE repPc # "verified" /\ repPc' # "verified"
    BY <2>1 DEF SuccessIsEarned
  <2>2. CASE repPc # "verified" /\ repPc' = "verified"
    <3>1. ReplayNext /\ UNCHANGED recordVars
      BY <2>2 DEF Next, Record, Replay, vars, replayVars
    <3>2. ReplayVerify
      BY <2>2, <3>1 DEF ReplayNext, ReplayProgress, ReplayLoad, ReplayLoadFails, ReplayStep,
         ReplayExit, ReplayCpuid, ReplayRdtsc, ReplayCallout, ReplayMismatch, ReplayRetry,
         ReplayStop, InjectAndResume, SkipEvent, FinalExit, FinalError, ReplayPanic
    <3> QED
      BY <3>1, <3>2, VerifyEarns
  <2>3. CASE repPc = "verified"
    <3>1. ~ReplayNext
      BY <2>3 DEF ReplayNext, ReplayProgress, ReplayLoad, ReplayLoadFails, ReplayStep,
         ReplayExit, ReplayCpuid, ReplayRdtsc, ReplayCallout, ReplayMismatch, ReplayRetry,
         ReplayStop, FinalExit, FinalError, ReplayVerify, ReplayPanic
    <3>2. recPc = "saved"
      BY <2>3, LoadedFacts DEF IInv, ReplayInv, ReplayPhase
    <3>3. ~RecordNext
      BY <3>2 DEF RecordNext, RecordStart, RecordStep, RecordExit, RecordCpuid, RecordRdtsc,
         RecordCallout, RecordStop, RecordFinish, RecordWrite, RecordPanic
    <3>4. UNCHANGED vars
      BY <3>1, <3>3 DEF Next, Record, Replay
    <3>5. recVm' = recVm /\ RepVm' = RepVm /\ repPc' = repPc
      BY <3>4 DEF vars, recordVars, replayVars, RepVm
    <3> QED
      BY <3>5 DEF SuccessIsEarned
  <2> QED
    BY <2>1, <2>2, <2>3
<1> QED
  BY <1>1, <1>2, Invariance, PTL DEF Spec

(* No guest is replayed from a trace file that is still being written or was *)
(* cut off.                                                                  *)
THEOREM ArchivesComplete == Spec => []OnlyCompleteArchives
<1>1. IInv => OnlyCompleteArchives
  BY DEF IInv, ReplayInv, LoadedOK, OnlyCompleteArchives
<1> QED
  BY <1>1, Invariance, PTL

(* In a recording and its replay, the guest gets past an intercepted         *)
(* instruction only with the answer of an event of its own.                  *)
THEOREM RecordedExitsAnswered == Spec => NoUnansweredExit
<1>1. Init => ReplayInit
  BY DEF Init
<1>2. [Next]_vars => [ReplayNext]_replayVars
  BY DEF Next, Record, Replay, vars
<1>3. IInv => FileTyped
  BY DEF IInv, RecordInv, RecordTypeOK, FileTyped
<1> QED
  BY <1>1, <1>2, <1>3, Invariance, ExitsAnswered, PTL DEF Spec

-----------------------------------------------------------------------------
(* The measure of a replay. *)

(* What is left, by phase. *)
LEMMA RemainingIs ==
  ASSUME NEW left, left = Len(path) - 1 - repSteps
  PROVE  /\ repPc = "running" => Remaining = 3 * left + 3
         /\ repPc = "exit" => Remaining = 3 * left + 2
         /\ repPc = "verify" => Remaining = 3 * left + 1
         /\ repPc \in {"verified", "failed", "panicked"} => Remaining = 3 * left + 0
  BY DEF Remaining

(* Every step of a replay that has loaded its archive makes it less. *)
LEMMA ReplayLessRemains ==
  ASSUME IInv, IInv', Det, Loaded, ReplayNext, UNCHANGED recordVars
  PROVE  Remaining' < Remaining /\ Remaining' >= 0
<1> DEFINE left == Len(path) - 1 - repSteps
           after == Len(path) - 1 - repSteps'
<1>1. /\ Len(path) \in Nat /\ repSteps \in Nat /\ repSteps' \in Nat
      /\ UNCHANGED path /\ Det'
  BY RecordVarsUnchanged, LoadedFacts DEF IInv, ReplayInv, ReplayTypeOK
<1>2. ASSUME Loaded' PROVE after \in Nat
  <2>1. repSteps' + 1 \in DOMAIN path /\ DOMAIN path = 1..Len(path)
    BY <1>1, <1>2, LoadedFacts DEF IInv, ReplayInv, Lockstep
  <2> QED
    BY <1>1, <2>1
<1>3. left \in Int
  BY <1>1
<1>4. /\ repPc = "running" => Remaining = 3 * left + 3
      /\ repPc = "exit" => Remaining = 3 * left + 2
      /\ repPc = "verify" => Remaining = 3 * left + 1
  BY RemainingIs
<1>5. /\ repPc' = "running" => Remaining' = 3 * after + 3
      /\ repPc' = "exit" => Remaining' = 3 * after + 2
      /\ repPc' = "verify" => Remaining' = 3 * after + 1
      /\ repPc' \in {"verified", "failed", "panicked"} => Remaining' = 3 * after + 0
  BY <1>1 DEF Remaining
<1>6. CASE /\ repPc \in {"running", "exit"} /\ repPc' \in {"running", "exit"}
           /\ \E vm : MoveTo(vm)
  <2>1. Loaded' /\ after = left - 1
    BY <1>1, <1>6 DEF IInv, ReplayInv, ReplayPhase, MoveTo
  <2>2. after \in Nat
    BY <1>2, <2>1
  <2> HIDE DEF left, after
  <2> QED
    BY <1>3, <1>4, <1>5, <1>6, <2>1, <2>2
<1>7. CASE /\ UNCHANGED repSteps /\ Loaded'
           /\ \/ repPc = "running" /\ repPc' \in {"exit", "verify", "panicked"}
              \/ repPc = "exit" /\ repPc' \in {"verify", "panicked"}
              \/ repPc = "verify" /\ repPc' \in {"verified", "failed", "panicked"}
  <2>1. after = left
    BY <1>7
  <2>2. after \in Nat
    BY <1>2, <1>7
  <2> HIDE DEF left, after
  <2> QED
    BY <1>4, <1>5, <1>7, <2>1, <2>2
<1>8. CASE \/ ReplayStep
           \/ ReplayExit /\ Reason(RepVm) = Halt
           \/ ReplayCpuid \/ ReplayRdtsc \/ ReplayCallout
  <2>1. CASE ReplayStep
    BY <1>6, <2>1 DEF ReplayStep
  <2>2. CASE ReplayExit /\ Reason(RepVm) = Halt
    BY <1>6, <2>2 DEF ReplayExit
  <2>3. CASE ReplayCpuid \/ ReplayRdtsc \/ ReplayCallout
    <3>1. repPc = "exit" /\ \E n : InjectAndResume(n)
      BY <2>3 DEF ReplayCpuid, ReplayRdtsc, ReplayCallout
    <3> QED
      BY <1>6, <3>1 DEF InjectAndResume
  <2> QED
    BY <1>8, <2>1, <2>2, <2>3
<1>9. CASE \/ ReplayExit /\ Reason(RepVm) # Halt
           \/ FinalExit \/ FinalError
  BY <1>7, <1>9 DEF ReplayExit, FinalExit, FinalError, Loaded
<1>10. CASE ReplayVerify
  <2>1. repPc = "verify" /\ repPc' \in {"verified", "failed"} /\ UNCHANGED repSteps
    BY <1>10 DEF ReplayVerify
  <2>2. Loaded'
    BY <2>1 DEF IInv, ReplayInv, ReplayPhase
  <2> QED
    BY <1>7, <2>1, <2>2
<1>11. CASE ReplayPanic
  <2>1. repPc # "idle"
    BY DEF IInv, ReplayInv, ReplayPhase
  <2> QED
    BY <1>7, <1>11, <2>1 DEF ReplayPanic, Loaded
<1>12. CASE ReplayLoad \/ ReplayLoadFails
  BY <1>12 DEF ReplayLoad, ReplayLoadFails, IInv, ReplayInv, ReplayPhase
<1>13. CASE ReplayMismatch \/ ReplayRetry \/ ReplayStop
  BY <1>13, UnansweredIsRandom
<1> QED
  BY <1>8, <1>9, <1>10, <1>11, <1>12, <1>13 DEF ReplayNext, ReplayProgress

(* A replay of a guest that draws no unrecorded random number runs down to   *)
(* its verdict: no loop of `cli replay` can go on for ever.                  *)
THEOREM RunsDown == Spec => ReplayRunsDown
<1>1. IInv /\ IInv' /\ [Next]_vars =>
        [Det /\ Loaded => Remaining' < Remaining /\ Remaining' >= 0]_replayVars
  <2> SUFFICES ASSUME IInv, IInv', [Next]_vars, replayVars' # replayVars, Det, Loaded
               PROVE  Remaining' < Remaining /\ Remaining' >= 0
    OBVIOUS
  <2>1. ReplayNext /\ UNCHANGED recordVars
    BY DEF Next, Record, Replay, vars
  <2> QED
    BY <2>1, ReplayLessRemains
<1> QED
  BY <1>1, Invariance, PTL DEF Spec, ReplayRunsDown
=============================================================================
