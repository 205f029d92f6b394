-------------------------- MODULE Replayer_proofs --------------------------
(***************************************************************************)
(* Lemmas about the operators both engines are built from: registers, the   *)
(* guest's steps, and the injection of events.                              *)
(***************************************************************************)
EXTENDS Replayer, TLAPS

Regs == [Registers -> Nat]

(* set_registers leaves a full register file behind. *)
LEMMA SetRegistersType ==
  ASSUME NEW regs \in Regs, NEW values,
         \A r \in DOMAIN values : values[r] \in Nat
  PROVE  set_registers(regs, values) \in Regs
  BY DEF set_registers, Regs

(* advance_rip leaves a full register file behind. *)
LEMMA AdvanceRipType ==
  ASSUME NEW regs \in Regs, NEW n \in Nat
  PROVE  advance_rip(regs, n) \in Regs
<1>1. regs["rip"] + n \in Nat
  BY DEF Regs, Registers, Captured
<1>2. get_registers(regs, {"rip"})["rip"] = regs["rip"]
  BY DEF get_registers
<1>3. \A r \in DOMAIN [rip |-> regs["rip"] + n] : [rip |-> regs["rip"] + n][r] \in Nat
  BY <1>1
<1> QED
  BY <1>2, <1>3, SetRegistersType DEF advance_rip

(* inject_event leaves a full register file behind. *)
LEMMA InjectEventType ==
  ASSUME NEW regs \in Regs, NEW e \in EventType
  PROVE  inject_event(regs, e) \in Regs
<1>1. CASE e.kind = "Syscall"
  <2>1. e.rax \in Nat
    BY <1>1 DEF EventType
  <2>2. \A r \in DOMAIN [rax |-> e.rax] : [rax |-> e.rax][r] \in Nat
    BY <2>1
  <2> QED
    BY <1>1, <2>2, SetRegistersType DEF inject_event
<1>2. CASE e.kind = "Rdtsc"
  <2>1. e.rax \in Nat /\ e.rdx \in Nat
    BY <1>2 DEF EventType
  <2> DEFINE v == [rax |-> e.rax, rdx |-> e.rdx]
  <2>2. \A r \in DOMAIN v : v[r] \in Nat
    BY <2>1
  <2> QED
    BY <1>2, <2>2, SetRegistersType DEF inject_event
<1>3. CASE e.kind = "Cpuid"
  <2>1. e.eax \in Nat /\ e.ebx \in Nat /\ e.ecx \in Nat /\ e.edx \in Nat
    BY <1>3, GuestAssumption DEF EventType
  <2> DEFINE v == [rax |-> e.eax, rbx |-> e.ebx, rcx |-> e.ecx, rdx |-> e.edx]
  <2>2. \A r \in DOMAIN v : v[r] \in Nat
    BY <2>1
  <2> QED
    BY <1>3, <2>2, SetRegistersType DEF inject_event
<1>4. CASE e.kind = "ContextSwitch"
  BY <1>4 DEF inject_event
<1> QED
  BY <1>1, <1>2, <1>3, <1>4 DEF EventType

-----------------------------------------------------------------------------
(* One step of the guest. *)

\* The guest with RIP at `ip` and one register set, as Execute leaves it.
LEMMA PutType ==
  ASSUME NEW vm \in Vm, NEW ip \in Nat, NEW name \in Registers, NEW v \in Nat
  PROVE  /\ [vm EXCEPT !.regs = [@ EXCEPT !["rip"] = ip, ![name] = v]] \in Vm
         /\ [vm EXCEPT !.regs = [@ EXCEPT !["rip"] = ip, ![name] = v]].mem = vm.mem
<1> DEFINE regs == [vm.regs EXCEPT !["rip"] = ip, ![name] = v]
<1>1. vm.regs \in [Registers -> Nat] /\ vm.mem \in Memory
  BY DEF Vm
<1>2. regs \in [Registers -> Nat]
  BY <1>1
<1>3. [vm EXCEPT !.regs = regs] \in Vm /\ [vm EXCEPT !.regs = regs].mem = vm.mem
  BY <1>1, <1>2 DEF Vm
<1> QED
  BY <1>3

(* Inside the code, the processor decodes an instruction. *)
LEMMA FetchType ==
  ASSUME NEW vm \in Vm, vm.regs["rip"] \in DOMAIN vm.mem.code
  PROVE  Fetch(vm) \in Instr
  BY DEF Vm, Memory, Fetch

\* Without an exit, the instruction at RIP is one that Execute defines.
LEMMA NoExitOps ==
  ASSUME NEW vm \in Vm, Reason(vm) = NoExit
  PROVE  /\ vm.regs["rip"] \in DOMAIN vm.mem.code
         /\ \/ Fetch(vm).op \in {"mov", "inc", "rdrand", "mov_cr8", "jne"}
            \/ Fetch(vm).op \in {"load", "store"} /\ Fetch(vm).at # "hole"
<1>1. vm.regs["rip"] \in DOMAIN vm.mem.code
  BY DEF Reason, NoExit, MemoryAccess
<1>2. Fetch(vm) \in Instr
  BY <1>1, FetchType
<1>3. Fetch(vm).op \in {"cpuid", "rdtsc", "vmcall", "syscall", "hlt", "io", "junk", "mov",
                       "inc", "rdrand", "mov_cr8", "jne", "load", "store"}
  BY <1>2 DEF Instr
<1>4. Fetch(vm).op \notin {"cpuid", "rdtsc", "vmcall", "syscall", "hlt", "io", "junk"}
  BY <1>1 DEF Reason, NoExit, Cpuid, Rdtsc, Callout, Halt, Unhandled
<1>5. Fetch(vm).op \in {"load", "store"} => Fetch(vm).at # "hole"
  BY <1>1 DEF Reason, NoExit, MemoryAccess
<1> QED
  BY <1>1, <1>3, <1>4, <1>5

(* The operands of an instruction. *)
LEMMA InstrFields ==
  ASSUME NEW i \in Instr
  PROVE  /\ i.len \in Nat
         /\ i.op \in {"mov", "inc", "rdrand", "jne", "load", "store"} => i.reg \in Gpr
         /\ i.op \in {"mov", "mov_cr8"} => i.val \in Nat
         /\ i.op = "jne" => i.target \in Nat
         /\ i.op \in {"load", "store"} => i.at \in Regions \cup {"hole"}
  BY DEF Instr

(* An instruction keeps the machine well-formed and its code unchanged. *)
LEMMA ExecuteType ==
  ASSUME NEW vm \in Vm, Reason(vm) = NoExit, NEW r \in Nat
  PROVE  Execute(vm, r) \in Vm /\ Execute(vm, r).mem.code = vm.mem.code
<1> DEFINE i == Fetch(vm)
           n == vm.regs["rip"] + i.len
           Put(name, v) == [vm EXCEPT !.regs = [@ EXCEPT !["rip"] = n, ![name] = v]]
<1>1. i \in Instr
  BY NoExitOps, FetchType
<1>2. vm.regs \in [Registers -> Nat] /\ vm.mem \in Memory /\ n \in Nat
  BY <1>1, InstrFields DEF Vm, Registers, Captured
<1>3. Gpr \subseteq Registers /\ "rip" \in Registers /\ "cr8" \in Registers
  BY DEF Registers, Captured
<1>4. \A name \in Registers, v \in Nat :
        Put(name, v) \in Vm /\ Put(name, v).mem = vm.mem
  BY <1>2, PutType
<1> HIDE DEF Put, i
<1>5. CASE i.op = "mov"
  <2>1. Execute(vm, r) = Put(i.reg, i.val)
    BY <1>5 DEF Execute, Put, i
  <2> QED
    BY <1>1, <1>3, <1>4, <1>5, <2>1, InstrFields
<1>6. CASE i.op = "inc"
  <2>1. Execute(vm, r) = Put(i.reg, vm.regs[i.reg] + 1)
    BY <1>6 DEF Execute, Put, i
  <2> QED
    BY <1>1, <1>2, <1>3, <1>4, <1>6, <2>1, InstrFields
<1>7. CASE i.op = "rdrand"
  <2>1. Execute(vm, r) = Put(i.reg, r)
    BY <1>7 DEF Execute, Put, i
  <2> QED
    BY <1>1, <1>3, <1>4, <1>7, <2>1, InstrFields
<1>8. CASE i.op = "mov_cr8"
  <2>1. Execute(vm, r) = Put("cr8", i.val)
    BY <1>8 DEF Execute, Put, i
  <2> QED
    BY <1>1, <1>3, <1>4, <1>8, <2>1, InstrFields
<1>9. CASE i.op = "jne"
  <2>1. Execute(vm, r) = Put("rip", IF vm.regs[i.reg] # i.val THEN i.target ELSE n)
    BY <1>9 DEF Execute, Put, i
  <2>2. (IF vm.regs[i.reg] # i.val THEN i.target ELSE n) \in Nat
    BY <1>1, <1>2, <1>9, InstrFields
  <2> QED
    BY <1>3, <1>4, <2>1, <2>2
<1>10. CASE i.op = "load"
  <2>1. Execute(vm, r) = Put(i.reg, vm.mem.cells[i.at])
    BY <1>10 DEF Execute, Put, i
  <2>2. i.at \in Regions
    BY <1>1, <1>10, InstrFields, NoExitOps DEF i
  <2>3. vm.mem.cells[i.at] \in Nat
    BY <1>2, <2>2 DEF Memory
  <2> QED
    BY <1>1, <1>3, <1>4, <1>10, <2>1, <2>3, InstrFields
<1>11. CASE i.op = "store"
  <2>1. Execute(vm, r) = [Put("rip", n) EXCEPT !.mem.cells[i.at] = vm.regs[i.reg]]
    BY <1>11 DEF Execute, Put, i
  <2>2. vm.regs[i.reg] \in Nat /\ i.at \in Regions
    BY <1>1, <1>2, <1>3, <1>11, InstrFields, NoExitOps DEF i
  <2>3. Put("rip", n) \in Vm /\ Put("rip", n).mem = vm.mem
    BY <1>2, <1>3, <1>4
  <2> DEFINE vm2 == Put("rip", n)
             cells == [vm2.mem.cells EXCEPT ![i.at] = vm.regs[i.reg]]
             mem == [vm2.mem EXCEPT !.cells = cells]
  <2>4. cells \in [Regions -> Nat] /\ vm2.mem.code \in Seq(Instr)
    BY <2>2, <2>3 DEF Vm, Memory
  <2>5. mem \in Memory /\ mem.code = vm2.mem.code
    BY <2>3, <2>4 DEF Memory, Vm
  <2>6. [vm2 EXCEPT !.mem = mem] \in Vm /\ [vm2 EXCEPT !.mem = mem].mem = mem
    BY <2>3, <2>5 DEF Vm
  <2> QED
    BY <2>1, <2>3, <2>5, <2>6
<1> QED
  BY <1>5, <1>6, <1>7, <1>8, <1>9, <1>10, <1>11, NoExitOps DEF i

(* Without RDRAND, the outcome of an instruction depends on the machine only. *)
LEMMA ExecuteDeterministic ==
  ASSUME NEW vm \in Vm, Reason(vm) = NoExit, Deterministic(vm.mem.code),
         NEW r, NEW s
  PROVE  Execute(vm, r) = Execute(vm, s)
<1>1. Fetch(vm).op # "rdrand"
  BY NoExitOps DEF Deterministic, Fetch
<1> QED
  BY <1>1, NoExitOps DEF Execute

-----------------------------------------------------------------------------
(* Exits and their answers. *)

(* Every exit reason is one the engines match on, the `_` arm included. *)
LEMMA ReasonType ==
  ASSUME NEW vm \in Vm
  PROVE  Reason(vm) \in {NoExit, Unhandled, MemoryAccess, Halt} \cup Intercepted
  BY DEF Reason, Intercepted

(* The exit context, and the instruction length the engines take from it. *)
LEMMA ExitContextType ==
  ASSUME NEW vm \in Vm
  PROVE  /\ ExitContext(vm).bitfield \in Nat
         /\ InstructionLength(ExitContext(vm)) \in Nat
         /\ ExitContext(vm).reason = Reason(vm)
         /\ ExitContext(vm) = [reason   |-> ExitContext(vm).reason,
                               bitfield |-> ExitContext(vm).bitfield]
<1>1. vm.regs["cr8"] \in Nat
  BY DEF Vm, Registers
<1>2. vm.regs["rip"] \in DOMAIN vm.mem.code => Fetch(vm).len \in Nat
  BY FetchType, InstrFields
<1>3. ExitContext(vm).bitfield \in Nat
  BY <1>1, <1>2 DEF ExitContext
<1>4. ExitContext(vm).bitfield % 16 \in Nat
  BY <1>3
<1> QED
  BY <1>3, <1>4 DEF ExitContext, InstructionLength

(* Reporting an exit leaves memory alone. *)
LEMMA AtExitType ==
  ASSUME NEW vm \in Vm, Reason(vm) # NoExit
  PROVE  AtExit(vm) \in Vm /\ AtExit(vm).mem = vm.mem
<1>1. CASE Reason(vm) = Halt
  <2>1. vm.regs["rip"] \in DOMAIN vm.mem.code
    BY <1>1 DEF Reason, Halt, MemoryAccess
  <2>2. Fetch(vm).len \in Nat
    BY <2>1, FetchType, InstrFields
  <2> DEFINE regs == [vm.regs EXCEPT !["rip"] = @ + Fetch(vm).len]
  <2>3. regs \in [Registers -> Nat] /\ vm.mem \in Memory
    BY <2>2 DEF Vm, Registers, Captured
  <2>4. AtExit(vm) = [vm EXCEPT !.regs = regs]
    BY <1>1 DEF AtExit, Vm
  <2> HIDE DEF regs
  <2> QED
    BY <2>3, <2>4 DEF Vm
<1>2. CASE Reason(vm) # Halt
  BY <1>2 DEF AtExit
<1> QED
  BY <1>1, <1>2

(* A machine whose registers are replaced. *)
LEMMA WithRegsType ==
  ASSUME NEW vm \in Vm, NEW regs \in Regs
  PROVE  /\ [vm EXCEPT !.regs = regs] \in Vm
         /\ [vm EXCEPT !.regs = regs].mem = vm.mem
         /\ [vm EXCEPT !.regs = regs].regs = regs
  BY DEF Vm, Regs

(* Answering an exit leaves memory alone. *)
LEMMA AnsweredType ==
  ASSUME NEW vm \in Vm, NEW e \in EventType
  PROVE  Answered(vm, e) \in Vm /\ Answered(vm, e).mem = vm.mem
<1>1. vm.regs \in Regs
  BY DEF Vm, Regs
<1>2. inject_event(vm.regs, e) \in Regs
  BY <1>1, InjectEventType
<1> DEFINE n == IF Reason(vm) = Callout THEN VMCALL_LEN ELSE InstructionLength(ExitContext(vm))
<1>3. n \in Nat
  BY ExitContextType DEF VMCALL_LEN
<1>4. advance_rip(inject_event(vm.regs, e), n) \in Regs
  BY <1>2, <1>3, AdvanceRipType
<1>5. Answered(vm, e) = [vm EXCEPT !.regs = advance_rip(inject_event(vm.regs, e), n)]
  BY DEF Answered, Vm
<1> QED
  BY <1>4, <1>5, WithRegsType

-----------------------------------------------------------------------------
(* The initial snapshot. *)

(* setup_long_mode leaves a full register file behind. *)
LEMMA LongModeType ==
  setup_long_mode(ResetRegisters, PtGpa) \in Regs
<1> DEFINE v == [cr3 |-> PtGpa, cr4 |-> 1568, efer |-> 1280, cr0 |-> 49,
                 segments |-> 1, rflags |-> 2]
<1>1. ResetRegisters \in Regs
  BY DEF ResetRegisters, Regs
<1>2. \A r \in DOMAIN v : v[r] \in Nat
  BY DEF PtGpa
<1> QED
  BY <1>1, <1>2, SetRegistersType DEF setup_long_mode

(* restore_snapshot brings every register back, although a snapshot holds    *)
(* only six of them: the others are those setup_long_mode sets and those the *)
(* CLI has not touched before the snapshot.                                  *)
LEMMA RestoreRegisters ==
  ASSUME NEW base \in Regs, NEW ip \in Nat, NEW sp \in Nat, NEW mem
  PROVE  LET regs == set_registers(base, [rip |-> ip, rsp |-> sp])
             snapshot == capture_registers(capture_memory_layout(mem), regs, Captured)
         IN /\ regs \in Regs
            /\ snapshot.registers \in [Captured -> Nat]
            /\ snapshot.registers # NoRegisters
            /\ snapshot.memory_regions = mem
            /\ restore_snapshot(base, snapshot) = regs
<1> DEFINE v == [rip |-> ip, rsp |-> sp]
           regs == set_registers(base, v)
           snapshot == capture_registers(capture_memory_layout(mem), regs, Captured)
<1>1. regs \in Regs
  <2>1. \A r \in DOMAIN v : v[r] \in Nat
    OBVIOUS
  <2> QED
    BY <2>1, SetRegistersType
<1>2. snapshot.registers = [r \in Captured |-> regs[r]] /\ snapshot.memory_regions = mem
  BY DEF capture_registers, capture_memory_layout, get_registers
<1>3. snapshot.registers \in [Captured -> Nat]
  BY <1>1, <1>2 DEF Regs, Registers
<1>4. snapshot.registers # NoRegisters
  <2>1. "rip" \in DOMAIN snapshot.registers /\ DOMAIN NoRegisters = {}
    BY <1>2 DEF NoRegisters, Captured
  <2> QED
    BY <2>1
<1>5. \A r \in Registers \ Captured : regs[r] = base[r]
  BY DEF set_registers, Captured, Regs
<1>6. \A r \in Registers : (IF r \in Captured THEN snapshot.registers[r] ELSE base[r]) = regs[r]
  BY <1>2, <1>5
<1>7. set_registers(base, snapshot.registers) = regs
  <2>1. set_registers(base, snapshot.registers)
          = [r \in Registers |-> IF r \in Captured THEN snapshot.registers[r] ELSE base[r]]
    BY <1>3 DEF set_registers, Regs
  <2> HIDE DEF regs, snapshot
  <2> QED
    BY <1>1, <1>6, <2>1 DEF Regs
<1> QED
  BY <1>1, <1>2, <1>3, <1>4, <1>7 DEF restore_snapshot

-----------------------------------------------------------------------------
(* `cli replay` on any archive at all. *)

(* The archive of an absent file is well-formed and holds no registers. *)
LEMMA NoArchiveType ==
  /\ NoArchive \in FileArchive
  /\ NoArchive.snapshot \in Snapshot
  /\ NoArchive.hash \in Hash
  /\ NoArchive.snapshot.registers = NoRegisters
<1>1. NoArchive.snapshot.memory_regions \in Memory
  <2> DEFINE code == <<>>
             cells == [r \in Regions |-> 0]
  <2>1. code \in Seq(Instr) /\ cells \in [Regions -> Nat]
    OBVIOUS
  <2>2. NoArchive.snapshot.memory_regions = [code |-> code, cells |-> cells]
    BY DEF NoArchive
  <2> HIDE DEF code, cells
  <2> QED
    BY <2>1, <2>2 DEF Memory
<1>2. NoArchive.snapshot \in Snapshot /\ NoArchive.snapshot.registers = NoRegisters
  BY <1>1 DEF Snapshot, NoArchive
<1>3. NoArchive.hash \in Hash
  BY DEF Hash
<1>4. NoArchive.events \in Seq(TraceEvent)
  BY DEF NoArchive
<1> QED
  BY <1>2, <1>3, <1>4 DEF NoArchive, FileArchive

(* Before `cli replay` starts, its variables have their types and no archive *)
(* has been read.                                                            *)
LEMMA ReplayInitType == ReplayInit => ReplayTypeOK /\ ~Loaded
<1> SUFFICES ASSUME ReplayInit PROVE ReplayTypeOK /\ ~Loaded
  OBVIOUS
<1>1. repRegs \in [Registers -> Nat]
  BY DEF ReplayInit, ResetRegisters
<1>2. repExit \in Context
  BY DEF ReplayInit, Context, NoContext
<1>3. ReplayTypeOK
  BY <1>1, <1>2, NoArchiveType DEF ReplayInit, ReplayTypeOK, ReplayPcs
<1> QED
  BY <1>3, NoArchiveType DEF ReplayInit, Loaded

(* The guest of the replay moves to vm. *)
LEMMA MoveToFacts ==
  ASSUME ReplayTypeOK, NEW vm \in Vm, MoveTo(vm)
  PROVE  /\ repRegs' \in [Registers -> Nat] /\ repSnapshot' \in Snapshot
         /\ repSteps' = repSteps + 1 /\ repSteps' \in Nat
         /\ RepVm' = vm /\ Loaded' = Loaded
<1>1. /\ repSnapshot \in Snapshot /\ repSteps \in Nat
      /\ repRegs' = vm.regs /\ repSteps' = repSteps + 1
      /\ repSnapshot' = [repSnapshot EXCEPT !.memory_regions = vm.mem]
  BY DEF ReplayTypeOK, MoveTo
<1>2. vm.regs \in [Registers -> Nat] /\ vm.mem \in Memory
      /\ vm = [regs |-> vm.regs, mem |-> vm.mem]
  BY DEF Vm
<1>3. /\ repSnapshot' \in Snapshot /\ repSnapshot'.memory_regions = vm.mem
      /\ repSnapshot'.registers = repSnapshot.registers
  BY <1>1, <1>2 DEF Snapshot
<1> QED
  BY <1>1, <1>2, <1>3 DEF RepVm, Loaded


\* bincode::deserialize yields well-typed archives only; nothing else is
\* assumed of the file, which may change at any moment.
FileTyped == file.archive \in FileArchive

\* While an exit is handled, exit_ctx describes the guest as it stands.
ReplaySafe ==
  /\ ReplayTypeOK
  /\ repPc = "idle" => ~Loaded
  /\ repPc = "exit" /\ repExit.reason # Halt => repExit = ExitContext(RepVm)

(* The machine of the replay, and the event replay_event works on. *)
LEMMA ReplayTypes ==
  ASSUME ReplayTypeOK
  PROVE  /\ RepVm \in Vm /\ repRegs \in Regs /\ RepVm.regs = repRegs
         /\ InTrace => Event \in EventType
<1>1. /\ repRegs \in [Registers -> Nat] /\ repSnapshot \in Snapshot
      /\ repEvents \in Seq(TraceEvent) /\ next \in Nat \ {0}
  BY DEF ReplayTypeOK
<1>2. repSnapshot.memory_regions \in Memory
  BY <1>1 DEF Snapshot
<1>3. ASSUME InTrace PROVE Event \in EventType
  <2>1. next \in 1..Len(repEvents)
    BY <1>1, <1>3 DEF InTrace
  <2>2. repEvents[next] \in TraceEvent
    BY <1>1, <2>1
  <2> QED
    BY <2>2 DEF Event, TraceEvent
<1> QED
  BY <1>1, <1>2, <1>3 DEF RepVm, Vm, Regs

(* restore_snapshot leaves a full register file behind, also when the        *)
(* archive holds no registers.                                               *)
LEMMA RestoreType ==
  ASSUME NEW regs \in Regs, NEW s \in Snapshot
  PROVE  restore_snapshot(regs, s) \in Regs
<1>1. CASE s.registers = NoRegisters
  BY <1>1 DEF restore_snapshot
<1>2. CASE s.registers # NoRegisters
  <2>1. s.registers \in [Captured -> Nat]
    BY <1>2 DEF Snapshot
  <2>2. \A r \in DOMAIN s.registers : s.registers[r] \in Nat
    BY <2>1
  <2> QED
    BY <1>2, <2>2, SetRegistersType DEF restore_snapshot
<1> QED
  BY <1>1, <1>2

(* Injecting an event at an intercepted exit answers it: the arm's length is *)
(* that of the instruction the guest stands at.                              *)
LEMMA InjectAnswers ==
  ASSUME ReplaySafe, repPc = "exit", InTrace,
         ReplayCpuid \/ ReplayRdtsc \/ ReplayCallout
  PROVE  /\ Answers(Event, RepVm)
         /\ MoveTo(Answered(RepVm, Event)) /\ next' = next + 1 /\ repPc' = "running"
         /\ UNCHANGED <<repEvents, repHash, repExit, finalRun>>
<1>1. RepVm \in Vm /\ RepVm.regs = repRegs
  BY ReplayTypes DEF ReplaySafe
<1>2. repExit.reason \in Intercepted
  BY DEF ReplayCpuid, ReplayRdtsc, ReplayCallout, Intercepted
<1>3. repExit = ExitContext(RepVm) /\ repExit.reason = Reason(RepVm)
  BY <1>1, <1>2, ExitContextType
     DEF ReplaySafe, Intercepted, Halt, Cpuid, Rdtsc, Callout
<1>4. Answers(Event, RepVm)
  BY <1>1, <1>3
     DEF ReplayCpuid, ReplayRdtsc, ReplayCallout, ThreadMatches, get_registers, Answers
<1> DEFINE n == IF Reason(RepVm) = Callout THEN VMCALL_LEN
                ELSE InstructionLength(ExitContext(RepVm))
<1>5. InjectAndResume(n)
  BY <1>3 DEF ReplayCpuid, ReplayRdtsc, ReplayCallout, Cpuid, Rdtsc, Callout
<1>6. [RepVm EXCEPT !.regs = advance_rip(inject_event(repRegs, Event), n)]
        = Answered(RepVm, Event)
  BY <1>1 DEF Answered, Vm
<1> HIDE DEF n
<1> QED
  BY <1>4, <1>5, <1>6 DEF InjectAndResume

(* Every step of `cli replay` keeps its types and its exit context. *)
LEMMA ReplaySafeStep ==
  ASSUME ReplaySafe, FileTyped, ReplayNext
  PROVE  ReplaySafe'
<1>1. RepVm \in Vm /\ (InTrace => Event \in EventType) /\ ReplayTypeOK
  BY ReplayTypes DEF ReplaySafe
<1>2. ASSUME NEW vm \in Vm, MoveTo(vm), UNCHANGED <<repEvents, repHash, finalRun>>,
             repPc' \in {"running", "exit"}, next' \in Nat \ {0}, repExit' \in Context,
             repPc' = "exit" => repExit'.reason = Halt
      PROVE  ReplaySafe'
  BY <1>1, <1>2, MoveToFacts DEF ReplaySafe, ReplayTypeOK, ReplayPcs
<1>3. ASSUME UNCHANGED <<repRegs, repSnapshot, repEvents, repHash, repExit, repSteps>>,
             next' \in {next, next + 1}, finalRun' \in {"none", "ok", "err"},
             repPc' \in {"running", "verify", "panicked"}
      PROVE  ReplaySafe'
  BY <1>1, <1>3 DEF ReplaySafe, ReplayTypeOK, ReplayPcs
<1>4. CASE ReplayLoad
  <2>1. /\ file.archive.snapshot \in Snapshot /\ file.archive.events \in Seq(TraceEvent)
        /\ file.archive.hash \in Hash
    BY DEF FileTyped, FileArchive
  <2>2. repRegs' \in Regs
    BY <1>4, <2>1, LongModeType, RestoreType DEF ReplayLoad
  <2> QED
    BY <1>1, <1>4, <2>1, <2>2 DEF ReplayLoad, ReplaySafe, ReplayTypeOK, ReplayPcs, Regs
<1>5. CASE ReplayStep
  <2>1. PICK r \in Random : MoveTo(Execute(RepVm, r))
    BY <1>5 DEF ReplayStep
  <2>2. Execute(RepVm, r) \in Vm
    BY <1>1, <1>5, <2>1, GuestAssumption, ExecuteType DEF ReplayStep
  <2>3. /\ UNCHANGED <<repEvents, repHash, finalRun>> /\ repPc' = "running"
        /\ next' \in Nat \ {0} /\ repExit' \in Context
    BY <1>1, <1>5 DEF ReplayStep, ReplayTypeOK
  <2> QED
    BY <1>2, <2>1, <2>2, <2>3
<1>6. CASE ReplayExit
  <2>1. /\ repPc' = "exit" /\ repExit' = ExitContext(RepVm) /\ Reason(RepVm) # NoExit
        /\ UNCHANGED <<repEvents, repHash, next, finalRun>>
    BY <1>6 DEF ReplayExit
  <2>2. repExit' \in Context /\ repExit'.reason = Reason(RepVm) /\ next' \in Nat \ {0}
    BY <1>1, <2>1, ExitContextType, ReasonType DEF Context, ReplayTypeOK
  <2>3. CASE Reason(RepVm) = Halt
    <3>1. MoveTo(AtExit(RepVm)) /\ AtExit(RepVm) \in Vm
      BY <1>1, <1>6, <2>1, <2>3, AtExitType DEF ReplayExit
    <3> QED
      BY <1>2, <2>1, <2>2, <2>3, <3>1
  <2>4. CASE Reason(RepVm) # Halt
    <3>1. UNCHANGED <<repRegs, repSnapshot, repSteps>>
      BY <1>6, <2>4 DEF ReplayExit
    <3>2. RepVm' = RepVm
      BY <3>1 DEF RepVm
    <3>3. ReplayTypeOK'
      BY <1>1, <2>1, <2>2, <3>1 DEF ReplayTypeOK, ReplayPcs
    <3> QED
      BY <2>1, <3>2, <3>3 DEF ReplaySafe
  <2> QED
    BY <2>3, <2>4
<1>7. CASE ReplayCpuid \/ ReplayRdtsc \/ ReplayCallout
  <2>1. repPc = "exit" /\ InTrace
    BY <1>7 DEF ReplayCpuid, ReplayRdtsc, ReplayCallout
  <2>2. /\ MoveTo(Answered(RepVm, Event)) /\ next' = next + 1 /\ repPc' = "running"
        /\ UNCHANGED <<repEvents, repHash, repExit, finalRun>>
    BY <1>7, <2>1, InjectAnswers
  <2>3. Answered(RepVm, Event) \in Vm
    BY <1>1, <2>1, AnsweredType
  <2>4. next' \in Nat \ {0} /\ repExit' \in Context
    BY <1>1, <2>2 DEF ReplayTypeOK
  <2> QED
    BY <1>2, <2>2, <2>3, <2>4
<1>8. CASE ReplayMismatch \/ ReplayRetry \/ ReplayStop \/ FinalExit \/ FinalError
           \/ ReplayLoadFails \/ ReplayPanic
  BY <1>1, <1>3, <1>8
     DEF ReplayMismatch, ReplayRetry, ReplayStop, SkipEvent, FinalExit, FinalError,
         ReplayLoadFails, ReplayPanic, ReplayTypeOK
<1>9. CASE ReplayVerify
  <2> DEFINE r == get_registers(repRegs, Captured)
  <2>1. repSnapshot \in Snapshot /\ repRegs \in [Registers -> Nat]
    BY <1>1 DEF ReplayTypeOK
  <2>2. r \in [Captured -> Nat]
    BY <2>1 DEF get_registers, Registers
  <2>3. repSnapshot' = [repSnapshot EXCEPT !.registers = r]
    BY <1>9 DEF ReplayVerify, capture_registers
  <2> HIDE DEF r
  <2>4. repSnapshot' \in Snapshot
    BY <2>1, <2>2, <2>3 DEF Snapshot
  <2>5. /\ repPc' \in {"verified", "failed"}
        /\ UNCHANGED <<repRegs, repEvents, repHash, next, repExit, finalRun, repSteps>>
    BY <1>9 DEF ReplayVerify
  <2> QED
    BY <1>1, <2>4, <2>5 DEF ReplaySafe, ReplayTypeOK, ReplayPcs
<1> QED
  BY <1>4, <1>5, <1>6, <1>7, <1>8, <1>9 DEF ReplayNext, ReplayProgress

(* A step of `cli replay` that moves its guest away from an intercepted      *)
(* instruction does so with the answer of the event at hand.                 *)
LEMMA MovesAreAnswers ==
  ASSUME ReplaySafe, ReplayNext, Reason(RepVm) \in Intercepted, Loaded, RepVm' # RepVm
  PROVE  InTrace /\ Answers(Event, RepVm) /\ RepVm' = Answered(RepVm, Event)
<1>1. RepVm \in Vm /\ (InTrace => Event \in EventType) /\ ReplayTypeOK
  BY ReplayTypes DEF ReplaySafe
<1>2. Reason(RepVm) \notin {NoExit, Halt}
  BY DEF Intercepted, NoExit, Halt, Cpuid, Rdtsc, Callout
<1>3. ~ReplayLoad /\ ~ReplayStep
  BY <1>2 DEF ReplayLoad, ReplayStep, ReplaySafe
<1>4. ~ReplayExit
  BY <1>2 DEF ReplayExit, RepVm
<1>5. ~(ReplayMismatch \/ ReplayRetry \/ ReplayStop \/ FinalExit \/ FinalError
        \/ ReplayLoadFails \/ ReplayPanic)
  BY DEF ReplayMismatch, ReplayRetry, ReplayStop, SkipEvent, FinalExit, FinalError,
         ReplayLoadFails, ReplayPanic, RepVm
<1>6. ~ReplayVerify
  BY <1>1 DEF ReplayVerify, capture_registers, RepVm, ReplayTypeOK, Snapshot
<1>7. ReplayCpuid \/ ReplayRdtsc \/ ReplayCallout
  BY <1>3, <1>4, <1>5, <1>6 DEF ReplayNext, ReplayProgress
<1>8. repPc = "exit" /\ InTrace
  BY <1>7 DEF ReplayCpuid, ReplayRdtsc, ReplayCallout
<1>9. Answers(Event, RepVm) /\ MoveTo(Answered(RepVm, Event))
  BY <1>7, <1>8, InjectAnswers
<1>10. Answered(RepVm, Event) \in Vm
  BY <1>1, <1>8, AnsweredType
<1>11. RepVm' = Answered(RepVm, Event)
  BY <1>1, <1>9, <1>10, MoveToFacts
<1> QED
  BY <1>8, <1>9, <1>11

(* Whatever archive `cli replay` is given, and whatever happens to the file  *)
(* meanwhile, its guest gets past an intercepted instruction only with the   *)
(* answer of an event of its own kind (and, at a VMCALL, of its own thread). *)
THEOREM ExitsAnswered ==
  ReplayInit /\ [][ReplayNext]_replayVars /\ []FileTyped => NoUnansweredExit
<1>1. ReplayInit => ReplaySafe
  BY ReplayInitType DEF ReplayInit, ReplaySafe
<1>2. ReplaySafe /\ FileTyped /\ [ReplayNext]_replayVars => ReplaySafe'
  <2>1. CASE UNCHANGED replayVars
    BY <2>1 DEF replayVars, ReplaySafe, ReplayTypeOK, Loaded, RepVm
  <2> QED
    BY <2>1, ReplaySafeStep
<1>3. ReplaySafe /\ [ReplayNext]_replayVars =>
        [Reason(RepVm) \in Intercepted /\ Loaded /\ RepVm' # RepVm =>
           InTrace /\ Answers(Event, RepVm) /\ RepVm' = Answered(RepVm, Event)]_replayVars
  BY MovesAreAnswers
<1> QED
  BY <1>1, <1>2, <1>3, PTL DEF NoUnansweredExit
=============================================================================
