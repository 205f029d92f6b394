------------------------------- MODULE Archive -------------------------------
(***************************************************************************)
(* What the record process leaves for the replay process: trace events      *)
(* (crates/trace/src/format.rs), the snapshot (record.rs) and the archive   *)
(* (snapshot, events, final hash) that cli/main.rs writes to disk.          *)
(***************************************************************************)
EXTENDS Vcpu

EventType ==
       [kind : {"Syscall"}, rax : Nat,
        memory_writes : Seq([gpa : Regions, data : Nat])]
  \cup [kind : {"Rdtsc"}, rax : Nat, rdx : Nat]
  \cup [kind : {"Cpuid"}, eax : 0..(U32 - 1), ebx : 0..(U32 - 1),
                          ecx : 0..(U32 - 1), edx : 0..(U32 - 1)]
  \cup [kind : {"ContextSwitch"}, next_thread_id : 0..(U32 - 1)]

TraceEvent == [instruction_count : Nat, event : EventType]

-----------------------------------------------------------------------------
(* Snapshot: memory_regions and registers; `registers` is the function with  *)
(* empty domain until capture_registers fills it.                            *)

NoRegisters == [r \in {} |-> 0]

Snapshot == [memory_regions : Memory,
             registers : [Captured -> Nat] \cup {NoRegisters}]

\* Snapshot::new followed by capture_region for each of the four regions.
capture_memory_layout(mem) == [memory_regions |-> mem, registers |-> NoRegisters]

capture_registers(snapshot, regs, names) ==
  [snapshot EXCEPT !.registers = get_registers(regs, names)]

\* Seeded fault: the hash leaves RIP out.
HashWithoutRip(snapshot) ==
  <<[snapshot.registers EXCEPT !["rip"] = 0], snapshot.memory_regions>>

\* What is fed to the hasher: the captured registers, then every region.
\* DefaultHasher::new has fixed keys, so two processes agree on it; collisions
\* of the 64-bit result are left out.
hash_state(snapshot) == <<snapshot.registers, snapshot.memory_regions>>

-----------------------------------------------------------------------------
(* The trace file.  bincode writes the three fields of the archive one after *)
(* another; fs::write truncates the file and then writes, so a reader or a   *)
(* crash can see any number of complete fields.  A missing file and an empty *)
(* one fail alike.  bincode::deserialize needs every field.                  *)

Fields == 3

NoArchive ==
  [snapshot |-> [memory_regions |-> [code |-> <<>>, cells |-> [r \in Regions |-> 0]],
                 registers |-> NoRegisters],
   events |-> <<>>, hash |-> <<>>]

\* The empty hash is that of no machine.
Hash        == ([Captured -> Nat] \X Memory) \cup {NoArchive.hash}
FileArchive == [snapshot : Snapshot, events : Seq(TraceEvent), hash : Hash]

AbsentFile      == [written |-> 0, archive |-> NoArchive]
truncate(archive) == [written |-> 0, archive |-> archive]
write_field(f)  == [f EXCEPT !.written = @ + 1]

\* Seeded fault: an archive without its hash is accepted.
DeserializableWithoutHash(f) == f.written >= Fields - 1

deserializable(f) == f.written = Fields

VARIABLE file   \* the trace file on disk
=============================================================================
