------------------------------ MODULE Recorder ------------------------------
(***************************************************************************)
(* The process `cli record`: cli/main.rs builds the virtual machine, takes  *)
(* the initial snapshot, lets RecordEngine::run drive the guest from exit   *)
(* to exit, and writes the archive.                                         *)
(***************************************************************************)
EXTENDS Archive

CONSTANT Images   \* the target binaries as PeLoader maps them

Image == [code : Seq(Instr), entry : Nat, data : Nat]

ASSUME ImagesAssumption == Images \subseteq Image

VARIABLES
  image,              \* the target binary, chosen once
  recPc,              \* where the process is
  recVm,              \* its virtual machine
  recExit,            \* exit_ctx of the last exit
  recSnapshot,        \* the initial snapshot
  events,             \* TraceLogger.events
  instruction_count,
  path                \* history: every guest state so far, and the events logged by then

recordVars ==
  <<image, recPc, recVm, recExit, recSnapshot, events, instruction_count, path, file>>

LoadedMemory(img) ==
  [code  |-> img.code,
   cells |-> [null |-> 0, image |-> img.data, stack |-> 0, page_table |-> 1]]

StackTop == 65536   \* stack_size: RSP starts at the end of the stack region

RecordInit ==
  /\ image \in Images
  /\ recPc = "idle"
  /\ recVm = [regs |-> ResetRegisters, mem |-> LoadedMemory(image)]
  /\ recExit = NoContext
  /\ recSnapshot = NoArchive.snapshot
  /\ events = <<>>
  /\ instruction_count = 0
  /\ path = <<>>
  /\ file = AbsentFile

\* The next guest state, appended to the history.
Resume(vm, logged) ==
  /\ recVm' = vm
  /\ path' = Append(path, [vm |-> vm, logged |-> logged])

-----------------------------------------------------------------------------
(* cli/main.rs up to record_engine.run(). *)
RecordStart ==
  LET regs == set_registers(setup_long_mode(ResetRegisters, PtGpa),
                            [rip |-> image.entry, rsp |-> StackTop])
  IN /\ recPc = "idle"
     /\ recPc' = "running"
     /\ Resume([regs |-> regs, mem |-> LoadedMemory(image)], 0)
     /\ recSnapshot' = capture_registers(capture_memory_layout(LoadedMemory(image)),
                                         regs, Captured)
     /\ UNCHANGED <<image, recExit, events, instruction_count, file>>

(* VmRunner::run: the guest executes until an instruction causes an exit. *)
RecordStep ==
  /\ recPc = "running" /\ Reason(recVm) = NoExit
  /\ Len(path) < MaxSteps
  /\ \E r \in Random : Resume(Execute(recVm, r), Len(events))
  /\ UNCHANGED <<image, recPc, recExit, recSnapshot, events, instruction_count, file>>

RecordExit ==
  /\ recPc = "running" /\ Reason(recVm) # NoExit
  /\ recPc' = "exit"
  /\ recExit' = ExitContext(recVm)
  /\ IF Reason(recVm) = Halt
     THEN Resume(AtExit(recVm), Len(events))
     ELSE UNCHANGED <<recVm, path>>
  /\ UNCHANGED <<image, recSnapshot, events, instruction_count, file>>

(* log_event, then resume the guest with the registers the arm left. *)
LogAndResume(event, regs) ==
  /\ events' = Append(events, [instruction_count |-> instruction_count, event |-> event])
  /\ instruction_count' = instruction_count + 1
  /\ Resume([recVm EXCEPT !.regs = regs], Len(events) + 1)
  /\ recPc' = "running"
  /\ UNCHANGED <<image, recExit, recSnapshot, file>>

\* Seeded fault: CPUID is answered but not logged.
RecordCpuidUnlogged ==
  /\ recPc = "exit" /\ recExit.reason = Cpuid
  /\ recPc' = "running"
  /\ Resume([recVm EXCEPT !.regs = advance_rip(@, InstructionLength(recExit))], Len(events))
  /\ UNCHANGED <<image, recExit, recSnapshot, events, instruction_count, file>>

\* The injected constants 0xAAAA_AAAA, 0xBBBB_BBBB, ... stand as their digit.
RecordCpuid ==
  LET sim_eax == 10
      sim_ebx == 11
      sim_ecx == 12
      sim_edx == 13
      regs == set_registers(recVm.regs, [rax |-> sim_eax, rbx |-> sim_ebx,
                                         rcx |-> sim_ecx, rdx |-> sim_edx])
  IN /\ recPc = "exit" /\ recExit.reason = Cpuid
     /\ LogAndResume([kind |-> "Cpuid", eax |-> sim_eax, ebx |-> sim_ebx,
                      ecx |-> sim_ecx, edx |-> sim_edx],
                     advance_rip(regs, InstructionLength(recExit)))

\* Seeded fault: the two halves are logged the other way round.
RecordRdtscSwapped ==
  /\ recPc = "exit" /\ recExit.reason = Rdtsc
  /\ LogAndResume([kind |-> "Rdtsc", rax |-> 0, rdx |-> 4096],
                  advance_rip(set_registers(recVm.regs, [rax |-> 4096, rdx |-> 0]),
                              InstructionLength(recExit)))

RecordRdtsc ==
  LET sim_rax == 4096
      sim_rdx == 0
      regs == set_registers(recVm.regs, [rax |-> sim_rax, rdx |-> sim_rdx])
  IN /\ recPc = "exit" /\ recExit.reason = Rdtsc
     /\ LogAndResume([kind |-> "Rdtsc", rax |-> sim_rax, rdx |-> sim_rdx],
                     advance_rip(regs, InstructionLength(recExit)))

\* Seeded fault: the thread id is logged without `as u32`.
RecordCalloutWide ==
  /\ recPc = "exit" /\ recExit.reason = Callout
  /\ LogAndResume([kind |-> "ContextSwitch", next_thread_id |-> recVm.regs["rcx"]],
                  advance_rip(recVm.regs, VMCALL_LEN))

RecordCallout ==
  LET thread_id == get_registers(recVm.regs, {"rcx"})["rcx"] % U32
  IN /\ recPc = "exit" /\ recExit.reason = Callout
     /\ LogAndResume([kind |-> "ContextSwitch", next_thread_id |-> thread_id],
                     advance_rip(recVm.regs, VMCALL_LEN))

\* The arms that break: EPT violation, HLT and every unhandled reason.
RecordStop ==
  /\ recPc = "exit" /\ recExit.reason \notin Intercepted
  /\ recPc' = "stopped"
  /\ UNCHANGED <<image, recVm, recExit, recSnapshot, events, instruction_count, path, file>>

-----------------------------------------------------------------------------
(* Final snapshot and hash, serialisation, and the open of fs::write. *)
RecordFinish ==
  LET final == capture_registers(capture_memory_layout(recVm.mem), recVm.regs, Captured)
  IN /\ recPc = "stopped"
     /\ recPc' = "saving"
     /\ file' = truncate([snapshot |-> recSnapshot, events |-> events,
                          hash |-> hash_state(final)])
     /\ UNCHANGED <<image, recVm, recExit, recSnapshot, events, instruction_count, path>>

RecordWrite ==
  /\ recPc = "saving"
  /\ file' = write_field(file)
  /\ recPc' = IF file'.written = Fields THEN "saved" ELSE "saving"
  /\ UNCHANGED <<image, recVm, recExit, recSnapshot, events, instruction_count, path>>

\* Any call may fail: `?` returns the error and expect() panics.  The process
\* may also be killed.  The file stays as it is.
RecordPanic ==
  /\ recPc \notin {"saved", "panicked"}
  /\ recPc' = "panicked"
  /\ UNCHANGED <<image, recVm, recExit, recSnapshot, events, instruction_count, path, file>>

RecordNext ==
  \/ RecordStart \/ RecordStep \/ RecordExit
  \/ RecordCpuid \/ RecordRdtsc \/ RecordCallout \/ RecordStop
  \/ RecordFinish \/ RecordWrite \/ RecordPanic
=============================================================================
