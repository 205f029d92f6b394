----------------------------- MODULE MCReplayer -----------------------------
(***************************************************************************)
(* `cli replay` alone, given archives that do not come from a recording of  *)
(* the guest on this machine: every program of two instructions with every  *)
(* trace of up to two events, Syscall events (which format.rs defines and   *)
(* RecordEngine never logs) included.                                       *)
(***************************************************************************)
EXTENDS Replayer, Payloads

CONSTANT Programs

\* The program of the system-call run: one system call, then HLT.
SyscallProgram == {<<SYSCALL, HLT>>}

ForeignPrograms ==
  LET A == {CPUID, RDTSC, VMCALL, SYSCALL, HLT, OUT, Inc("rax"), Store("rax", "image"),
            Load("rax", "hole"), Mov("rcx", 17), MovCr8(3)}
  IN {<<a, b, HLT>> : a, b \in A}

\* Thread 1 is the one Mov("rcx", 17) names modulo U32.
ForeignEvents ==
  {[kind |-> "Cpuid", eax |-> 1, ebx |-> 2, ecx |-> 1, edx |-> 4],
   [kind |-> "Rdtsc", rax |-> 5, rdx |-> 6],
   [kind |-> "Syscall", rax |-> 7, memory_writes |-> <<[gpa |-> "image", data |-> 8]>>],
   [kind |-> "ContextSwitch", next_thread_id |-> 0],
   [kind |-> "ContextSwitch", next_thread_id |-> 1]}

\* The snapshot a recording takes at the entry point of the program.
EntrySnapshot(prog) ==
  capture_registers(
    capture_memory_layout([code |-> Assemble(prog), cells |-> [r \in Regions |-> 0]]),
    [setup_long_mode(ResetRegisters, PtGpa) EXCEPT !["rip"] = 1], Captured)

Numbered(trace) ==
  [k \in DOMAIN trace |-> [instruction_count |-> k - 1, event |-> trace[k]]]

\* The hash is the one of the unexecuted snapshot: a final state of a guest
\* that stops at its first instruction, and of no other.
ForeignArchive(prog, trace) ==
  [snapshot |-> EntrySnapshot(prog), events |-> Numbered(trace),
   hash |-> hash_state(EntrySnapshot(prog))]

Init ==
  /\ ReplayInit
  /\ \E prog \in Programs, n \in 0..2 : \E trace \in [1..n -> ForeignEvents] :
       file = [written |-> Fields, archive |-> ForeignArchive(prog, trace)]

Next == ReplayNext /\ UNCHANGED file

vars == <<replayVars, file>>

Spec == Init /\ [][Next]_vars /\ WF_vars(ReplayProgress /\ UNCHANGED file)
=============================================================================
