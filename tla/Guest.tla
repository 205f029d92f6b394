------------------------------- MODULE Guest -------------------------------
(***************************************************************************)
(* The guest as the engines of Vestigium see it: a virtual processor that   *)
(* WHvRunVirtualProcessor (runner.rs) runs until an instruction causes a VM *)
(* exit.  The processor and the hypervisor are not part of the repository;  *)
(* this module models them from how crates/engine uses them.                *)
(*                                                                         *)
(* A virtual machine is [regs, mem].  mem holds the four regions the CLI    *)
(* maps: the code (part of the image, not modified by the guest) and one    *)
(* data cell per region.  code[k] is what the processor decodes at byte k,  *)
(* so RIP counts bytes and a wrong RIP lands inside an instruction.         *)
(***************************************************************************)
EXTENDS Integers, Sequences

CONSTANTS
  U32,       \* 2^32 scaled down: `as u32` keeps a register modulo U32
  Random,    \* values a source the engines do not intercept (RDRAND) may yield
  MaxSteps   \* bound: guest instructions per execution (a guest may loop forever)

ASSUME GuestAssumption ==
  /\ U32 \in Nat /\ U32 > 13   \* the CPUID answers of the recorder fit
  /\ Random \subseteq Nat /\ Random # {}
  /\ MaxSteps \in Nat

Gpr       == {"rax", "rbx", "rcx", "rdx"}
Captured  == {"rip", "rsp", "rflags", "cr0", "cr3", "cr4"}
Registers == Gpr \cup Captured \cup {"efer", "segments", "cr8"}
Regions   == {"null", "image", "stack", "page_table"}

\* "io" stands for whatever exits with a reason the engines do not handle,
\* "junk" for the bytes of an instruction after its first one.
Instr ==
       [op : {"cpuid", "rdtsc", "vmcall", "syscall", "hlt", "io", "junk"}, len : 1..15]
  \cup [op : {"inc", "rdrand"}, len : 1..15, reg : Gpr]
  \cup [op : {"mov"}, len : 1..15, reg : Gpr, val : Nat]
  \cup [op : {"mov_cr8"}, len : 1..15, val : 0..15]
  \cup [op : {"jne"}, len : 1..15, reg : Gpr, val : Nat, target : Nat]
  \cup [op : {"load", "store"}, len : 1..15, reg : Gpr, at : Regions \cup {"hole"}]

Memory == [code : Seq(Instr), cells : [Regions -> Nat]]
Vm     == [regs : [Registers -> Nat], mem : Memory]

\* The numeric exit reasons matched in record.rs and replay.rs; 4098 stands
\* for every reason that falls into the `_` arm, 0 for "no exit".  Reason 4 is
\* reported for an exception that nothing handles: the guest has no IDT, no
\* exception is intercepted, and both VMCALL and SYSCALL (EFER.SCE is clear)
\* raise an invalid-opcode exception.
NoExit       == 0
MemoryAccess == 1
Callout      == 4
Halt         == 8
Cpuid        == 4097
Unhandled    == 4098
Rdtsc        == 4099

Intercepted == {Cpuid, Rdtsc, Callout}

Fetch(vm) == vm.mem.code[vm.regs["rip"]]

\* The exit the instruction at RIP causes.
Reason(vm) ==
  IF vm.regs["rip"] \notin DOMAIN vm.mem.code THEN MemoryAccess
  ELSE LET i == Fetch(vm) IN
       CASE i.op = "cpuid"               -> Cpuid
         [] i.op = "rdtsc"               -> Rdtsc
         [] i.op \in {"vmcall", "syscall"} -> Callout
         [] i.op = "hlt"                 -> Halt
         [] i.op \in {"io", "junk"}      -> Unhandled
         [] i.op \in {"load", "store"}   -> IF i.at = "hole" THEN MemoryAccess ELSE NoExit
         [] OTHER                        -> NoExit

\* One instruction that causes no exit; r is what RDRAND would yield.
Execute(vm, r) ==
  LET i      == Fetch(vm)
      next   == vm.regs["rip"] + i.len
      Put(name, v) == [vm EXCEPT !.regs = [@ EXCEPT !["rip"] = next, ![name] = v]]
  IN CASE i.op = "mov"     -> Put(i.reg, i.val)
       [] i.op = "inc"     -> Put(i.reg, vm.regs[i.reg] + 1)
       [] i.op = "rdrand"  -> Put(i.reg, r)
       [] i.op = "mov_cr8" -> Put("cr8", i.val)
       [] i.op = "load"    -> Put(i.reg, vm.mem.cells[i.at])
       [] i.op = "jne"     -> Put("rip", IF vm.regs[i.reg] # i.val THEN i.target ELSE next)
       [] i.op = "store"   -> [Put("rip", next) EXCEPT !.mem.cells[i.at] = vm.regs[i.reg]]

\* What the guest looks like once the exit is reported: HLT has completed,
\* every other exit leaves RIP at the instruction that caused it.
AtExit(vm) ==
  IF Reason(vm) = Halt
  THEN [vm EXCEPT !.regs["rip"] = @ + Fetch(vm).len]
  ELSE vm

\* WHV_RUN_VP_EXIT_CONTEXT: the reason and the byte VpContext._bitfield, whose
\* low half is the instruction length and whose high half is CR8.
ExitContext(vm) ==
  [reason   |-> Reason(vm),
   bitfield |-> (IF vm.regs["rip"] \in DOMAIN vm.mem.code THEN Fetch(vm).len ELSE 0)
                + 16 * vm.regs["cr8"]]

Context == [reason : {NoExit, Unhandled, MemoryAccess, Halt} \cup Intercepted,
            bitfield : Nat]

NoContext == [reason |-> NoExit, bitfield |-> 0]

\* Nothing this code does depends on a source outside the engines' control.
Deterministic(code) == \A k \in DOMAIN code : code[k].op # "rdrand"

\* The one instruction of this code that raises an unhandled exception is VMCALL.
FaultFree(code) == \A k \in DOMAIN code : code[k].op # "syscall"
=============================================================================
