-------------------------------- MODULE Vcpu --------------------------------
(***************************************************************************)
(* crates/vmm/src/vcpu.rs: register access and the switch to long mode,     *)
(* and advance_rip, which both engines build on it.  The parallel slices    *)
(* `names` and `values` are one function from register names to values.     *)
(***************************************************************************)
EXTENDS Guest

get_registers(regs, names) == [r \in names |-> regs[r]]

set_registers(regs, values) ==
  [r \in DOMAIN regs |-> IF r \in DOMAIN values THEN values[r] ELSE regs[r]]

\* A fresh virtual processor (external) and the long-mode constants.  A control
\* register is 0 after reset; the number stands for the value of the source.
ResetRegisters == [r \in Registers |-> 0]

PtGpa == 2   \* pt_gpa = 0x200000, in MiB

setup_long_mode(regs, pml4_gpa) ==
  set_registers(regs, [cr3 |-> pml4_gpa, cr4 |-> 1568, efer |-> 1280, cr0 |-> 49,
                       segments |-> 1, rflags |-> 2])

advance_rip(regs, instruction_length) ==
  set_registers(regs, [rip |-> get_registers(regs, {"rip"})["rip"] + instruction_length])

\* Seeded fault: the byte taken without its mask.
InstructionLengthUnmasked(exit) == exit.bitfield

\* exit_ctx.VpContext._bitfield & 0x0F
InstructionLength(exit) == exit.bitfield % 16

\* Seeded fault: the length of CPUID and RDTSC used for VMCALL.
VmcallLenTwo == 2

\* VMCALL is three bytes long.
VMCALL_LEN == 3
=============================================================================
