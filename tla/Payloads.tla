------------------------------ MODULE Payloads ------------------------------
(***************************************************************************)
(* Guest programs: an assembler that lays instructions out byte by byte,    *)
(* and the two payloads of the repository.                                  *)
(***************************************************************************)
EXTENDS Guest, SequencesExt

Plain(op, len)      == [op |-> op, len |-> len]
CPUID   == Plain("cpuid", 2)
RDTSC   == Plain("rdtsc", 2)
VMCALL  == Plain("vmcall", 3)
HLT     == Plain("hlt", 1)
SYSCALL == Plain("syscall", 2)
OUT     == Plain("io", 2)
Mov(r, v)    == [op |-> "mov", len |-> 2, reg |-> r, val |-> v]
Inc(r)       == [op |-> "inc", len |-> 1, reg |-> r]
Rdrand(r)    == [op |-> "rdrand", len |-> 2, reg |-> r]
MovCr8(v)    == [op |-> "mov_cr8", len |-> 2, val |-> v]
Load(r, at)  == [op |-> "load", len |-> 2, reg |-> r, at |-> at]
Store(r, at) == [op |-> "store", len |-> 2, reg |-> r, at |-> at]
\* target: a byte of the code (in the argument of Assemble, the number of an
\* instruction)
Jne(r, v, t) == [op |-> "jne", len |-> 2, reg |-> r, val |-> v, target |-> t]

JUNK == Plain("junk", 1)

\* Byte at which instruction t of prog starts.
Offset(prog, t) == 1 + FoldLeft(LAMBDA n, i : n + i.len, 0, SubSeq(prog, 1, t - 1))

Assemble(prog) ==
  LET Resolve(i) == IF i.op = "jne" THEN [i EXCEPT !.target = Offset(prog, @)] ELSE i
      Bytes(i)   == <<Resolve(i)>> \o [k \in 1..(i.len - 1) |-> JUNK]
  IN FlattenSeq([k \in DOMAIN prog |-> Bytes(prog[k])])

MappedImage(prog, data) == [code |-> Assemble(prog), entry |-> 1, data |-> data]

-----------------------------------------------------------------------------
\* The payloads are listings: what stands at which byte.  PayloadImage is such a
\* listing as PeLoader maps it, with COUNTER = 0.
PayloadImage(code) == [code |-> code, entry |-> 1, data |-> 0]

\* crates/test_target: RDTSC, whose answer is spilled to the stack, CPUID, then
\* 0x42 when both answers are the injected constants and 0xDEAD otherwise.
\* Around CPUID the listing leaves out `mov eax, 0` (the recorder answers every
\* leaf alike) and the pair of `xchg rbx, tmp` that gives RBX back (it is not read
\* again).  black_box(result) leaves the result in a stack slot.  Nothing in the
\* source puts it in RAX, which record.rs:252 prints at HLT, "Expecting 0x42".
TestTarget ==
  [k \in 1..22 |->
     CASE k = 1  -> RDTSC
       [] k = 3  -> Store("rax", "stack")
       [] k = 5  -> CPUID
       [] k = 7  -> Jne("rax", 10, 18)
       [] k = 9  -> Load("rcx", "stack")
       [] k = 11 -> Jne("rcx", 4096, 18)
       [] k = 13 -> Mov("rdx", 66)
       [] k = 15 -> Store("rdx", "stack")
       [] k = 17 -> HLT
       [] k = 18 -> Mov("rdx", 57005)
       [] k = 20 -> Store("rdx", "stack")
       [] k = 22 -> HLT
       [] OTHER  -> JUNK]

\* Byte k of the 12 bytes of execute_slice: read COUNTER, yield with the thread
\* id in RCX, write back COUNTER + 1.
execute_slice(thread_id, k) ==
  CASE k = 1  -> Load("rdx", "image")
    [] k = 3  -> Mov("rax", 1)
    [] k = 5  -> Mov("rcx", thread_id)
    [] k = 7  -> VMCALL
    [] k = 10 -> Inc("rdx")
    [] k = 11 -> Store("rdx", "image")
    [] OTHER  -> JUNK

\* target_app: `iterations` times execute_slice(0); execute_slice(1).  RBX counts
\* the iterations (100 in the source), RAX returns the final COUNTER.
TargetApp(iterations) ==
  [k \in 1..32 |->
     CASE k = 1       -> Mov("rbx", 0)
       [] k \in 3..14  -> execute_slice(0, k - 2)
       [] k \in 15..26 -> execute_slice(1, k - 14)
       [] k = 27      -> Inc("rbx")
       [] k = 28      -> Jne("rbx", iterations, 3)
       [] k = 30      -> Load("rax", "image")
       [] k = 32      -> HLT
       [] OTHER       -> JUNK]
=============================================================================
