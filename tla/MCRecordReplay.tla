--------------------------- MODULE MCRecordReplay ---------------------------
(***************************************************************************)
(* Instances of RecordReplay: every guest program of three instructions     *)
(* over a small instruction set, and the payloads of the repository.        *)
(***************************************************************************)
EXTENDS PayloadRuns

\* Mov to 17 exceeds U32 = 16; MovCr8 fills the high half of the exit
\* context's byte; the jump skips to the final HLT.
DeterministicAlphabet ==
  {CPUID, RDTSC, VMCALL, SYSCALL, HLT, OUT, Inc("rax"), Mov("rcx", 17), MovCr8(3),
   Load("rcx", "image"), Store("rax", "image"), Store("rax", "hole"), Jne("rax", 0, 3)}

AllPrograms ==
  LET A == DeterministicAlphabet \cup {Rdrand("rax")}
  IN {MappedImage(<<a, b, c, HLT>>, 1) : a \in A, b \in A, c \in A}

PayloadImages ==
  {TestTargetImage} \cup {TargetAppImage(n) : n \in Iterations}

DeterministicImages ==
  PayloadImages \cup
  {MappedImage(<<a, b, HLT>>, 1) : a, b \in DeterministicAlphabet}

\* Two guests that draw a random number: one keeps it in a register, one
\* branches on it between CPUID and RDTSC.
RandomResult == {MappedImage(<<Rdrand("rax"), HLT>>, 0)}
RandomBranch == {MappedImage(<<Rdrand("rax"), Jne("rax", 0, 4), CPUID, RDTSC, HLT>>, 0)}

\* A guest that makes a system call.
SystemCall == {MappedImage(<<Mov("rcx", 5), SYSCALL, Inc("rax"), HLT>>, 0)}

\* What the proof that no engine leaves the instruction boundaries relies on.
ASSUME ImagesAssembled == \A img \in Images : WellAssembled(img)

=============================================================================
