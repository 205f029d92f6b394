-------------------------- MODULE Boundary_proofs --------------------------
(***************************************************************************)
(* Neither engine leaves the instruction boundaries of a well-assembled     *)
(* guest, random ones included.                                             *)
(***************************************************************************)
EXTENDS RecordReplay_proofs

\* A guest whose code is that of the image stands at an instruction.
Placed(vm) == vm.mem.code = image.code /\ OnBoundary(vm)

\* What is known of the image: it is machine code without SYSCALL.
GoodImage == WellAssembled(image) /\ FaultFree(image.code)

-----------------------------------------------------------------------------
(* Where one step of the guest leaves RIP. *)

(* Inside the code, a guest on a boundary stands at a whole instruction. *)
LEMMA PlacedFetch ==
  ASSUME GoodImage, NEW vm \in Vm, Placed(vm), vm.regs["rip"] \in DOMAIN vm.mem.code
  PROVE  /\ Fetch(vm) \in Instr /\ vm.regs["rip"] \in Nat
         /\ Boundary(image.code, vm.regs["rip"] + Fetch(vm).len)
         /\ Fetch(vm).op = "jne" => Boundary(image.code, Fetch(vm).target)
         /\ Fetch(vm).op = "vmcall" => Fetch(vm).len = 3
         /\ Fetch(vm).op # "syscall" /\ Fetch(vm).len \in 1..15
<1>1. Fetch(vm) \in Instr
  BY FetchType
<1>2. Fetch(vm).len \in 1..15
  BY <1>1 DEF Instr
<1>3. vm.regs["rip"] \in Nat
  BY DEF Vm, Registers, Captured
<1>4. Fetch(vm) = image.code[vm.regs["rip"]] /\ vm.regs["rip"] \in DOMAIN image.code
  BY DEF Fetch, Placed
<1>5. Fetch(vm).op # "junk"
  BY <1>4 DEF Placed, OnBoundary, Boundary
<1>6. Fetch(vm).op # "syscall"
  BY <1>4 DEF GoodImage, FaultFree
<1> QED
  BY <1>1, <1>2, <1>3, <1>4, <1>5, <1>6 DEF GoodImage, WellAssembled

(* Whether a machine is placed depends on its code and its RIP. *)
LEMMA PlacedByRip ==
  ASSUME NEW vm, vm.mem.code = image.code, Boundary(image.code, vm.regs["rip"])
  PROVE  Placed(vm)
  BY DEF Placed, OnBoundary

\* The guest with RIP at `ip` and a general register or CR8 set.
LEMMA PutRip ==
  ASSUME NEW vm \in Vm, NEW ip \in Nat, NEW name \in Registers, NEW v \in Nat
  PROVE  [vm EXCEPT !.regs = [@ EXCEPT !["rip"] = ip, ![name] = v]].regs["rip"]
           = IF name = "rip" THEN v ELSE ip
<1>1. vm.regs \in [Registers -> Nat] /\ "rip" \in Registers
  BY DEF Vm, Registers, Captured
<1> DEFINE regs == [vm.regs EXCEPT !["rip"] = ip, ![name] = v]
<1>2. regs["rip"] = IF name = "rip" THEN v ELSE ip
  BY <1>1
<1>3. [vm EXCEPT !.regs = regs].regs = regs
  BY DEF Vm
<1> QED
  BY <1>2, <1>3

(* An instruction without exit moves RIP to the next one, or to its target. *)
LEMMA ExecuteRip ==
  ASSUME NEW vm \in Vm, Reason(vm) = NoExit, NEW r \in Nat
  PROVE  \/ Execute(vm, r).regs["rip"] = vm.regs["rip"] + Fetch(vm).len
         \/ Fetch(vm).op = "jne" /\ Execute(vm, r).regs["rip"] = Fetch(vm).target
<1> DEFINE i == Fetch(vm)
           n == vm.regs["rip"] + i.len
           Put(name, v) == [vm EXCEPT !.regs = [@ EXCEPT !["rip"] = n, ![name] = v]]
<1>1. i \in Instr
  BY NoExitOps, FetchType
<1>2. vm.regs \in [Registers -> Nat] /\ vm.mem \in Memory /\ n \in Nat
  BY <1>1, InstrFields DEF Vm, Registers, Captured
<1>3. /\ Gpr \subseteq Registers /\ "rip" \in Registers /\ "cr8" \in Registers
      /\ "rip" \notin Gpr
  BY DEF Registers, Captured, Gpr
<1>4. \A name \in Registers, v \in Nat :
        Put(name, v).regs["rip"] = IF name = "rip" THEN v ELSE n
  BY <1>2, PutRip
<1> HIDE DEF Put, i
<1>5. CASE i.op = "mov"
  <2>1. Execute(vm, r) = Put(i.reg, i.val)
    BY <1>5 DEF Execute, Put, i
  <2> QED
    BY <1>1, <1>3, <1>4, <1>5, <2>1, InstrFields DEF i
<1>6. CASE i.op = "inc"
  <2>1. Execute(vm, r) = Put(i.reg, vm.regs[i.reg] + 1)
    BY <1>6 DEF Execute, Put, i
  <2>2. i.reg \in Gpr /\ i.reg \in Registers /\ i.reg # "rip" /\ vm.regs[i.reg] + 1 \in Nat
    BY <1>1, <1>2, <1>3, <1>6, InstrFields
  <2> QED
    BY <1>4, <2>1, <2>2 DEF i
<1>7. CASE i.op = "rdrand"
  <2>1. Execute(vm, r) = Put(i.reg, r)
    BY <1>7 DEF Execute, Put, i
  <2> QED
    BY <1>1, <1>3, <1>4, <1>7, <2>1, InstrFields DEF i
<1>8. CASE i.op = "mov_cr8"
  <2>1. Execute(vm, r) = Put("cr8", i.val)
    BY <1>8 DEF Execute, Put, i
  <2> QED
    BY <1>1, <1>3, <1>4, <1>8, <2>1, InstrFields DEF i
<1>9. CASE i.op = "jne"
  <2> DEFINE t == IF vm.regs[i.reg] # i.val THEN i.target ELSE n
  <2>1. Execute(vm, r) = Put("rip", t)
    BY <1>9 DEF Execute, Put, i
  <2>2. t \in Nat
    BY <1>1, <1>2, <1>9, InstrFields
  <2>3. Execute(vm, r).regs["rip"] = t
    BY <1>3, <1>4, <2>1, <2>2
  <2> QED
    BY <1>9, <2>3 DEF i
<1>10. CASE i.op = "load"
  <2>1. Execute(vm, r) = Put(i.reg, vm.mem.cells[i.at])
    BY <1>10 DEF Execute, Put, i
  <2>2. i.at \in Regions
    BY <1>1, <1>10, InstrFields, NoExitOps DEF i
  <2>3. vm.mem.cells[i.at] \in Nat
    BY <1>2, <2>2 DEF Memory
  <2> QED
    BY <1>1, <1>3, <1>4, <1>10, <2>1, <2>3, InstrFields DEF i
<1>11. CASE i.op = "store"
  <2> DEFINE vm2 == Put("rip", n)
  <2>1. Execute(vm, r) = [vm2 EXCEPT !.mem.cells[i.at] = vm.regs[i.reg]]
    BY <1>11 DEF Execute, Put, i
  <2>2. vm2 \in Vm /\ vm2.regs["rip"] = n
    BY <1>2, <1>3, <1>4, PutType DEF Put
  <2> HIDE DEF vm2
  <2>3. Execute(vm, r).regs = vm2.regs
    BY <2>1, <2>2 DEF Vm
  <2> QED
    BY <2>2, <2>3 DEF i
<1> QED
  BY <1>5, <1>6, <1>7, <1>8, <1>9, <1>10, <1>11, NoExitOps DEF i

(* An instruction of the guest leaves it at an instruction. *)
LEMMA ExecutePlaced ==
  ASSUME GoodImage, NEW vm \in Vm, Placed(vm), Reason(vm) = NoExit, NEW r \in Nat
  PROVE  Placed(Execute(vm, r))
<1>1. vm.regs["rip"] \in DOMAIN vm.mem.code
  BY NoExitOps
<1>2. Execute(vm, r).mem.code = image.code
  BY ExecuteType DEF Placed
<1>3. Boundary(image.code, Execute(vm, r).regs["rip"])
  BY <1>1, ExecuteRip, PlacedFetch
<1> QED
  BY <1>2, <1>3, PlacedByRip

(* A guest that has halted stands after its HLT. *)
LEMMA HaltPlaced ==
  ASSUME GoodImage, NEW vm \in Vm, Placed(vm), Reason(vm) = Halt
  PROVE  Placed(AtExit(vm))
<1>1. vm.regs["rip"] \in DOMAIN vm.mem.code
  BY DEF Reason, Halt, MemoryAccess
<1>2. AtExit(vm).mem.code = image.code
  BY AtExitType DEF Placed, Halt, NoExit
<1> DEFINE n == vm.regs["rip"] + Fetch(vm).len
           regs == [vm.regs EXCEPT !["rip"] = @ + Fetch(vm).len]
<1>3. regs["rip"] = n
  BY DEF Vm, Registers, Captured
<1>4. AtExit(vm).regs = regs
  BY DEF AtExit, Vm
<1> QED
  BY <1>1, <1>2, <1>3, <1>4, PlacedFetch, PlacedByRip

(* inject_event sets general registers only. *)
LEMMA InjectKeepsRip ==
  ASSUME NEW regs \in Regs, NEW e \in EventType
  PROVE  inject_event(regs, e)["rip"] = regs["rip"]
<1>1. "rip" \in DOMAIN regs
  BY DEF Regs, Registers, Captured
<1>2. CASE e.kind = "Syscall"
  BY <1>1, <1>2 DEF inject_event, set_registers
<1>3. CASE e.kind = "Rdtsc"
  BY <1>1, <1>3 DEF inject_event, set_registers
<1>4. CASE e.kind = "Cpuid"
  BY <1>1, <1>4 DEF inject_event, set_registers
<1>5. CASE e.kind = "ContextSwitch"
  BY <1>5 DEF inject_event
<1> QED
  BY <1>2, <1>3, <1>4, <1>5 DEF EventType

(* The mask takes CR8 off the byte of the exit context: what is left is the  *)
(* length of the instruction at RIP.                                         *)
LEMMA MaskedLength ==
  ASSUME NEW vm \in Vm, vm.regs["rip"] \in DOMAIN vm.mem.code
  PROVE  InstructionLength(ExitContext(vm)) = Fetch(vm).len
<1> DEFINE c == vm.regs["cr8"]
           n == Fetch(vm).len
<1>1. c \in Nat
  BY DEF Vm, Registers
<1>2. n \in 1..15
  BY FetchType DEF Instr
<1>3. ExitContext(vm).bitfield = n + 16 * c
  BY DEF ExitContext
<1> HIDE DEF c, n
<1>4. (n + 16 * c) % 16 = n
  BY <1>1, <1>2
<1> QED
  BY <1>3, <1>4 DEF InstructionLength, n

(* An answered exit resumes the guest right after the instruction.           *)
LEMMA AnsweredPlaced ==
  ASSUME GoodImage, NEW vm \in Vm, Placed(vm), Reason(vm) \in Intercepted,
         NEW e \in EventType
  PROVE  Placed(Answered(vm, e))
<1> DEFINE n == IF Reason(vm) = Callout THEN VMCALL_LEN ELSE InstructionLength(ExitContext(vm))
           inj == inject_event(vm.regs, e)
<1>1. vm.regs["rip"] \in DOMAIN vm.mem.code
  BY DEF Reason, Intercepted, MemoryAccess, Cpuid, Rdtsc, Callout
<1>2. Answered(vm, e).mem.code = image.code
  BY AnsweredType DEF Placed
<1>3. n = Fetch(vm).len
  <2>1. CASE Reason(vm) = Callout
    <3>1. Fetch(vm).op \in {"vmcall", "syscall"}
      BY <1>1, <2>1 DEF Reason, Callout, Cpuid, Rdtsc, Halt, Unhandled, MemoryAccess, NoExit
    <3> QED
      BY <1>1, <2>1, <3>1, PlacedFetch DEF VMCALL_LEN
  <2>2. CASE Reason(vm) # Callout
    BY <1>1, <2>2, MaskedLength
  <2> QED
    BY <2>1, <2>2
<1>4. vm.regs \in Regs /\ inj \in Regs /\ inj["rip"] = vm.regs["rip"]
  BY InjectEventType, InjectKeepsRip DEF Vm, Regs
<1>5. Answered(vm, e).regs = advance_rip(inj, n)
  BY DEF Answered, Vm
<1> HIDE DEF n, inj
<1>6. advance_rip(inj, n)["rip"] = inj["rip"] + n
  BY <1>4 DEF advance_rip, set_registers, get_registers, Regs, Registers, Captured
<1>7. Boundary(image.code, Answered(vm, e).regs["rip"])
  BY <1>1, <1>3, <1>4, <1>5, <1>6, PlacedFetch
<1> QED
  BY <1>2, <1>7, PlacedByRip

-----------------------------------------------------------------------------
(* The invariant. *)

\* Every recorded guest state, and the replayed guest, stand at an instruction.
PathPlaced == \A k \in 1..Len(path) : Placed(path[k].vm)

ReplayPlaced == Loaded => Placed(RepVm)

BoundaryInv == GoodImage => PathPlaced /\ ReplayPlaced

(* A step the trace accounts for leads from an instruction to an instruction. *)
LEMMA TraceStepPlaced ==
  ASSUME GoodImage, NEW trace \in Seq(TraceEvent), NEW a \in PathState, NEW b \in PathState,
         TraceStep(trace, a, b), Placed(a.vm)
  PROVE  Placed(b.vm)
<1>1. a.vm \in Vm /\ a.logged \in Nat /\ b.logged \in Nat
  BY DEF PathState
<1>2. CASE Reason(a.vm) = NoExit /\ \E r \in Random : b.vm = Execute(a.vm, r)
  BY <1>1, <1>2, ExecutePlaced, GuestAssumption
<1>3. CASE Reason(a.vm) = Halt /\ b.vm = AtExit(a.vm)
  BY <1>1, <1>3, HaltPlaced
<1>4. CASE /\ b.logged = a.logged + 1 /\ b.logged <= Len(trace)
           /\ Answers(trace[b.logged].event, a.vm)
           /\ b.vm = Answered(a.vm, trace[b.logged].event)
  <2>1. b.logged \in 1..Len(trace)
    BY <1>1, <1>4
  <2>2. trace[b.logged] \in TraceEvent
    BY <2>1
  <2>3. trace[b.logged].event \in EventType
    BY <2>2 DEF TraceEvent
  <2>4. Reason(a.vm) \in Intercepted
    BY <1>4 DEF Answers, Intercepted
  <2> QED
    BY <1>1, <1>4, <2>3, <2>4, AnsweredPlaced
<1> QED
  BY <1>2, <1>3, <1>4 DEF TraceStep

(* The run starts at the entry point and every step of it is accounted for.  *)
LEMMA RecordPlaced ==
  ASSUME IInv, IInv', RecordNext, UNCHANGED image, GoodImage, PathPlaced
  PROVE  PathPlaced'
<1>1. RecordInv /\ RecordInv'
  BY DEF IInv
<1>2. /\ path' \in Seq(PathState) /\ Len(path') \in Nat /\ events' \in Seq(TraceEvent)
      /\ path \in Seq(PathState) /\ Len(path) \in Nat
  BY <1>1 DEF RecordInv, RecordTypeOK, PathState
<1> SUFFICES ASSUME NEW k \in 1..Len(path') PROVE Placed(path'[k].vm)
  BY DEF PathPlaced, Placed
<1>3. CASE RecordStart
  <2> DEFINE regs == set_registers(setup_long_mode(ResetRegisters, PtGpa),
                                   [rip |-> image.entry, rsp |-> StackTop])
             vm == [regs |-> regs, mem |-> LoadedMemory(image)]
             e == [vm |-> vm, logged |-> 0]
  <2>1. path = <<>> /\ path' = Append(path, e)
    BY <1>1, <1>3 DEF RecordStart, Resume, RecordInv, RecordPhase
  <2>2. regs["rip"] = image.entry
    BY LongModeType DEF set_registers, Regs, Registers, Captured
  <2>3. vm.mem.code = image.code
    BY DEF LoadedMemory
  <2>4. Placed(vm)
    BY <2>2, <2>3, PlacedByRip DEF GoodImage, WellAssembled
  <2> HIDE DEF vm
  <2>5. e.vm = vm
    OBVIOUS
  <2> HIDE DEF e
  <2>6. k = 1 /\ path'[1] = e
    BY <2>1
  <2> QED
    BY <2>4, <2>5, <2>6
<1>4. CASE ~RecordStart
  <2>1. path # <<>> \/ UNCHANGED path
    BY <1>1, <1>4
       DEF RecordNext, RecordStep, RecordExit, RecordCpuid, RecordRdtsc, RecordCallout,
           RecordStop, RecordFinish, RecordWrite, RecordPanic, RecordInv, RecordPhase
  <2>2. CASE k \in 1..Len(path)
    BY <1>1, <2>2, RecordNextPath DEF PathPlaced
  <2>3. CASE k \notin 1..Len(path)
    <3>1. /\ Len(path') = Len(path) + 1 /\ \A j \in 1..Len(path) : path'[j] = path[j]
          /\ path # <<>>
      BY <1>1, <2>1, <2>3, RecordNextPath
    <3>2. k = Len(path) + 1 /\ Len(path) \in 1..(Len(path') - 1) /\ Len(path) \in 1..Len(path)
      BY <1>2, <2>3, <3>1
    <3>3. TraceStep(events', path'[Len(path)], path'[Len(path) + 1])
      BY <1>1, <3>2 DEF RecordInv, TraceDeterminesRun, RunSteps
    <3>4. path'[Len(path)] \in PathState /\ path'[Len(path) + 1] \in PathState
      BY <1>2, <3>1, <3>2
    <3>5. Placed(path'[Len(path)].vm)
      BY <3>1, <3>2 DEF PathPlaced
    <3> QED
      BY <1>2, <3>2, <3>3, <3>4, <3>5, TraceStepPlaced
  <2> QED
    BY <2>2, <2>3
<1> QED
  BY <1>3, <1>4

(* Reading the archive puts the guest into the first recorded state. *)
LEMMA LoadedFirst ==
  ASSUME IInv, ReplayLoad
  PROVE  path # <<>> /\ path \in Seq(PathState) /\ RepVm' = path[1].vm
<1> DEFINE base == setup_long_mode(ResetRegisters, PtGpa)
<1>1. /\ file.written = Fields /\ repSnapshot' = file.archive.snapshot
      /\ repRegs' = restore_snapshot(base, file.archive.snapshot)
  BY DEF ReplayLoad, deserializable
<1>2. recPc = "saved" /\ RecordInv
  BY <1>1 DEF IInv, RecordInv, FileOK
<1>3. file.archive.snapshot = recSnapshot
  BY <1>2 DEF RecordInv, FileOK
<1>4. path # <<>> /\ path \in Seq(PathState)
  BY <1>2 DEF RecordInv, RecordPhase, RecordTypeOK, PathState
<1>5. /\ path[1].vm.mem = recSnapshot.memory_regions
      /\ path[1].vm.regs = restore_snapshot(base, recSnapshot)
  BY <1>2, <1>4 DEF RecordInv, TraceDeterminesRun, RunStarts
<1>6. path[1] \in PathState
  BY <1>4
<1>7. path[1].vm = [regs |-> path[1].vm.regs, mem |-> path[1].vm.mem]
  BY <1>6 DEF PathState, Vm
<1> QED
  BY <1>1, <1>3, <1>4, <1>5, <1>7 DEF RepVm

(* Every step of `cli replay` leaves its guest at an instruction. *)
LEMMA ReplayStepPlaced ==
  ASSUME IInv, IInv', ReplayNext, UNCHANGED recordVars, GoodImage, PathPlaced, ReplayPlaced
  PROVE  ReplayPlaced'
<1>1. UNCHANGED <<image, path>>
  BY RecordVarsUnchanged
<1> SUFFICES ASSUME Loaded' PROVE Placed(RepVm')
  BY <1>1 DEF ReplayPlaced, Placed
<1>2. ReplayTypeOK /\ ReplaySafe
  BY DEF IInv, ReplayInv, ReplayPhase, ReplayExitOK, ReplaySafe
<1>3. RepVm \in Vm /\ (InTrace => Event \in EventType)
  BY <1>2, ReplayTypes
<1>4. repPc \in {"running", "exit", "verify"} => Placed(RepVm)
  BY DEF IInv, ReplayInv, ReplayPhase, ReplayPlaced
<1>5. CASE ReplayLoad
  <2>1. 1 \in 1..Len(path)
    BY <1>5, LoadedFirst
  <2> QED
    BY <1>5, <2>1, LoadedFirst DEF PathPlaced
<1>6. CASE ReplayStep
  <2>1. PICK r \in Random : MoveTo(Execute(RepVm, r))
    BY <1>6 DEF ReplayStep
  <2>2. Execute(RepVm, r) \in Vm /\ Placed(Execute(RepVm, r))
    BY <1>3, <1>4, <1>6, <2>1, GuestAssumption, ExecuteType, ExecutePlaced DEF ReplayStep
  <2> QED
    BY <1>2, <2>1, <2>2, MoveToFacts
<1>7. CASE ReplayExit /\ Reason(RepVm) = Halt
  <2>1. MoveTo(AtExit(RepVm)) /\ AtExit(RepVm) \in Vm
    BY <1>3, <1>7, AtExitType DEF ReplayExit
  <2>2. Placed(AtExit(RepVm))
    BY <1>3, <1>4, <1>7, HaltPlaced DEF ReplayExit
  <2> QED
    BY <1>2, <2>1, <2>2, MoveToFacts
<1>8. CASE ReplayCpuid \/ ReplayRdtsc \/ ReplayCallout
  <2>1. repPc = "exit" /\ InTrace
    BY <1>8 DEF ReplayCpuid, ReplayRdtsc, ReplayCallout
  <2>2. Answers(Event, RepVm) /\ MoveTo(Answered(RepVm, Event))
    BY <1>2, <1>8, <2>1, InjectAnswers
  <2>3. Reason(RepVm) \in Intercepted
    BY <2>2 DEF Answers, Intercepted
  <2>4. Answered(RepVm, Event) \in Vm /\ Placed(Answered(RepVm, Event))
    BY <1>3, <1>4, <2>1, <2>3, AnsweredType, AnsweredPlaced
  <2> QED
    BY <1>2, <2>2, <2>4, MoveToFacts
<1>9. CASE \/ ReplayExit /\ Reason(RepVm) # Halt
           \/ ReplayMismatch \/ ReplayRetry \/ ReplayStop \/ FinalExit \/ FinalError
           \/ ReplayLoadFails \/ ReplayPanic
  <2>1. UNCHANGED <<repRegs, repSnapshot>>
    BY <1>9 DEF ReplayExit, ReplayMismatch, ReplayRetry, ReplayStop, SkipEvent, FinalExit,
                FinalError, ReplayLoadFails, ReplayPanic
  <2> QED
    BY <2>1 DEF RepVm, Loaded, ReplayPlaced
<1>10. CASE ReplayVerify
  <2>1. /\ repPc = "verify" /\ UNCHANGED repRegs
        /\ repSnapshot' = capture_registers(repSnapshot, repRegs, Captured)
    BY <1>10 DEF ReplayVerify
  <2>2. repSnapshot'.memory_regions = repSnapshot.memory_regions
    BY <1>2, <2>1 DEF capture_registers, ReplayTypeOK, Snapshot
  <2> QED
    BY <1>4, <2>1, <2>2 DEF RepVm
<1> QED
  BY <1>5, <1>6, <1>7, <1>8, <1>9, <1>10 DEF ReplayNext, ReplayProgress

(* Neither engine resumes a guest inside an instruction or beyond its code,  *)
(* whatever the guest does, draws at random or leaves in CR8, provided its   *)
(* image is machine code; OnInstructionBoundary itself excludes SYSCALL,     *)
(* which both engines take for a VMCALL.                                     *)
THEOREM BoundaryCorrect == Spec /\ WellAssembled(image) => []OnInstructionBoundary
<1>1. Init => BoundaryInv
  <2> SUFFICES ASSUME Init PROVE PathPlaced /\ ReplayPlaced
    BY DEF BoundaryInv
  <2>1. Len(path) = 0
    BY DEF Init, RecordInit
  <2>2. ~Loaded
    BY ReplayInitType DEF Init
  <2> QED
    BY <2>1, <2>2 DEF PathPlaced, ReplayPlaced
<1>2. [Next]_vars => UNCHANGED image
  <2>1. RecordNext => UNCHANGED image
    BY DEF RecordNext, RecordStart, RecordStep, RecordExit, RecordCpuid, RecordRdtsc,
           RecordCallout, LogAndResume, RecordStop, RecordFinish, RecordWrite, RecordPanic
  <2> QED
    BY <2>1 DEF Next, Record, Replay, vars, recordVars
<1>3. IInv /\ IInv' /\ BoundaryInv /\ [Next]_vars => BoundaryInv'
  <2> SUFFICES ASSUME IInv, IInv', BoundaryInv, [Next]_vars, GoodImage
               PROVE  PathPlaced' /\ ReplayPlaced'
    BY <1>2 DEF BoundaryInv, GoodImage
  <2>1. PathPlaced /\ ReplayPlaced /\ UNCHANGED image
    BY <1>2 DEF BoundaryInv
  <2>2. CASE Record
    <3>1. PathPlaced'
      BY <2>1, <2>2, RecordPlaced DEF Record
    <3>2. UNCHANGED replayVars
      BY <2>2 DEF Record
    <3>3. ReplayPlaced'
      BY <2>1, <3>2 DEF replayVars, ReplayPlaced, Placed, RepVm, Loaded
    <3> QED
      BY <3>1, <3>3
  <2>3. CASE Replay
    <3>1. ReplayPlaced'
      BY <2>1, <2>3, ReplayStepPlaced DEF Replay
    <3>2. PathPlaced'
      BY <2>1, <2>3 DEF Replay, recordVars, PathPlaced, Placed
    <3> QED
      BY <3>1, <3>2
  <2>4. CASE UNCHANGED vars
    BY <2>1, <2>4 DEF vars, recordVars, replayVars, PathPlaced, ReplayPlaced, Placed, RepVm, Loaded
  <2> QED
    BY <2>2, <2>3, <2>4 DEF Next
<1>4. WellAssembled(image) /\ [Next]_vars => WellAssembled(image)'
  BY <1>2
<1>5. IInv /\ BoundaryInv /\ WellAssembled(image) => OnInstructionBoundary
  <2> SUFFICES ASSUME IInv, BoundaryInv, WellAssembled(image), FaultFree(image.code)
               PROVE  (path # <<>> => OnBoundary(recVm)) /\ (Loaded => OnBoundary(RepVm))
    BY DEF OnInstructionBoundary
  <2>1. PathPlaced /\ ReplayPlaced
    BY DEF BoundaryInv, GoodImage
  <2>2. ASSUME path # <<>> PROVE OnBoundary(recVm)
    <3>1. Len(path) \in 1..Len(path) /\ path[Len(path)].vm = recVm
      BY <2>2, RecVmFacts DEF IInv
    <3> QED
      BY <2>1, <3>1 DEF PathPlaced, Placed
  <2> QED
    BY <2>1, <2>2 DEF ReplayPlaced, Placed
<1> QED
  BY <1>1, <1>3, <1>4, <1>5, Invariance, PTL DEF Spec
=============================================================================
