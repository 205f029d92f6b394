-------------------------- MODULE Payloads_proofs --------------------------
(***************************************************************************)
(* What the two payloads compute, for every number of iterations.           *)
(***************************************************************************)
EXTENDS Boundary_proofs, PayloadRuns

-----------------------------------------------------------------------------
(* Assertions that hold at each instruction, as one would annotate a listing. *)

\* target_app at `ip`, with COUNTER = counter: each iteration adds two, and
\* between its read and its write a slice holds the value that it has read.
InSlice(start, ip, rdx, counter, value) ==
  /\ counter = value
  /\ \/ ip = start
     \/ ip \in {start + 2, start + 4, start + 6, start + 9} /\ rdx = value
     \/ ip = start + 10 /\ rdx = value + 1

AppAt(n, ip, rax, rbx, rdx, counter) ==
  \/ ip = 1 /\ counter = 0
  \/ rbx \in 0..(n - 1) /\ InSlice(3, ip, rdx, counter, 2 * rbx)
  \/ rbx \in 0..(n - 1) /\ InSlice(15, ip, rdx, counter, 2 * rbx + 1)
  \/ ip = 27 /\ rbx \in 0..(n - 1) /\ counter = 2 * rbx + 2
  \/ ip = 28 /\ rbx \in 1..n /\ counter = 2 * rbx
  \/ ip = 30 /\ counter = 2 * n
  \/ ip = 32 /\ counter = 2 * n /\ rax = 2 * n

AppState(n, vm) ==
  /\ vm.mem.code = TargetApp(n)
  /\ AppAt(n, vm.regs["rip"], vm.regs["rax"], vm.regs["rbx"], vm.regs["rdx"],
           vm.mem.cells["image"])

\* test_target at `ip`, with `slot` in its stack slot.
TestAt(ip, rax, rcx, rdx, slot) ==
  \/ ip \in {1, 13}
  \/ ip = 3 /\ rax = 4096
  \/ ip \in {5, 9} /\ slot = 4096
  \/ ip = 7 /\ slot = 4096 /\ rax = 10
  \/ ip = 11 /\ rcx = 4096
  \/ ip = 15 /\ rdx = 66
  \/ ip = 17 /\ slot = 66

TestState(vm) ==
  /\ vm.mem.code = TestTarget
  /\ TestAt(vm.regs["rip"], vm.regs["rax"], vm.regs["rcx"], vm.regs["rdx"],
            vm.mem.cells["stack"])

-----------------------------------------------------------------------------
(* The effect of the instructions that the payloads use. *)

\* The machine after an instruction that sets one register, or RIP alone.
Put(vm, ip, name, v) == [vm EXCEPT !.regs = [@ EXCEPT !["rip"] = ip, ![name] = v]]

(* Setting RIP and one register leaves the rest of the machine alone. *)
LEMMA PutEffect ==
  ASSUME NEW vm \in Vm, NEW ip, NEW name \in Registers, NEW v
  PROVE  /\ Put(vm, ip, name, v).mem = vm.mem
         /\ Put(vm, ip, name, v).regs[name] = v
         /\ name # "rip" => Put(vm, ip, name, v).regs["rip"] = ip
         /\ \A g \in Registers \ {"rip", name} :
              Put(vm, ip, name, v).regs[g] = vm.regs[g]
<1>1. vm.regs \in [Registers -> Nat] /\ "rip" \in Registers
  BY DEF Vm, Registers, Captured
<1> DEFINE regs == [vm.regs EXCEPT !["rip"] = ip, ![name] = v]
<1>2. /\ regs[name] = v
      /\ name # "rip" => regs["rip"] = ip
      /\ \A g \in Registers \ {"rip", name} : regs[g] = vm.regs[g]
  BY <1>1
<1>3. [vm EXCEPT !.regs = regs].regs = regs /\ [vm EXCEPT !.regs = regs].mem = vm.mem
  BY DEF Vm
<1>4. Put(vm, ip, name, v) = [vm EXCEPT !.regs = regs]
  BY DEF Put
<1> HIDE DEF regs
<1> QED
  BY <1>2, <1>3, <1>4

\* The machine moves from vm to new over `len` bytes, and general register g to v.
Sets(vm, new, len, g, v) ==
  /\ new.regs["rip"] = vm.regs["rip"] + len
  /\ new.regs[g] = v
  /\ \A h \in Gpr \ {g} : new.regs[h] = vm.regs[h]
  /\ new.mem = vm.mem

(* Setting a general register. *)
LEMMA PutSets ==
  ASSUME NEW vm \in Vm, NEW len, NEW g \in Gpr, NEW v
  PROVE  Sets(vm, Put(vm, vm.regs["rip"] + len, g, v), len, g, v)
<1> DEFINE n == vm.regs["rip"] + len
           new == Put(vm, n, g, v)
<1>1. g \in Registers /\ g # "rip" /\ \A h \in Gpr : h \in Registers /\ h # "rip"
  BY DEF Registers, Captured, Gpr
<1>2. /\ new.mem = vm.mem /\ new.regs[g] = v /\ new.regs["rip"] = n
      /\ \A h \in Registers \ {"rip", g} : new.regs[h] = vm.regs[h]
  BY <1>1, PutEffect
<1> HIDE DEF new
<1> QED
  BY <1>1, <1>2 DEF Sets, new

(* Moving a constant into a register. *)
LEMMA MovEffect ==
  ASSUME NEW vm \in Vm, NEW r, NEW g \in Gpr, NEW v, Fetch(vm) = Mov(g, v)
  PROVE  Sets(vm, Execute(vm, r), 2, g, v)
<1>1. Execute(vm, r) = Put(vm, vm.regs["rip"] + 2, g, v)
  BY DEF Execute, Put, Mov
<1> QED
  BY <1>1, PutSets

(* Adding one to a register. *)
LEMMA IncEffect ==
  ASSUME NEW vm \in Vm, NEW r, NEW g \in Gpr, Fetch(vm) = Inc(g)
  PROVE  Sets(vm, Execute(vm, r), 1, g, vm.regs[g] + 1)
<1>1. Execute(vm, r) = Put(vm, vm.regs["rip"] + 1, g, vm.regs[g] + 1)
  BY DEF Execute, Put, Inc
<1> QED
  BY <1>1, PutSets

(* Reading memory into a register. *)
LEMMA LoadEffect ==
  ASSUME NEW vm \in Vm, NEW r, NEW g \in Gpr, NEW at, Fetch(vm) = Load(g, at)
  PROVE  Sets(vm, Execute(vm, r), 2, g, vm.mem.cells[at])
<1>1. Execute(vm, r) = Put(vm, vm.regs["rip"] + 2, g, vm.mem.cells[at])
  BY DEF Execute, Put, Load
<1> QED
  BY <1>1, PutSets

(* A conditional jump moves RIP only. *)
LEMMA JneEffect ==
  ASSUME NEW vm \in Vm, NEW r, NEW g \in Gpr, NEW v, NEW t, Fetch(vm) = Jne(g, v, t)
  PROVE  /\ Execute(vm, r).regs["rip"]
              = IF vm.regs[g] # v THEN t ELSE vm.regs["rip"] + 2
         /\ \A h \in Gpr : Execute(vm, r).regs[h] = vm.regs[h]
         /\ Execute(vm, r).mem = vm.mem
<1> DEFINE n == vm.regs["rip"] + 2
           ip == IF vm.regs[g] # v THEN t ELSE n
           new == Put(vm, n, "rip", ip)
<1>1. Execute(vm, r) = new
  BY DEF Execute, Put, Jne
<1>2. "rip" \in Registers /\ \A h \in Gpr : h \in Registers /\ h # "rip"
  BY DEF Registers, Captured, Gpr
<1> HIDE DEF n, ip
<1>3. /\ new.mem = vm.mem /\ new.regs["rip"] = ip
      /\ \A h \in Registers \ {"rip"} : new.regs[h] = vm.regs[h]
  BY <1>2, PutEffect
<1> HIDE DEF new
<1> QED
  BY <1>1, <1>2, <1>3 DEF ip, n

(* A store changes one cell of memory. *)
LEMMA StoreEffect ==
  ASSUME NEW vm \in Vm, NEW r, NEW g \in Gpr, NEW at \in Regions, Fetch(vm) = Store(g, at)
  PROVE  /\ Execute(vm, r).regs["rip"] = vm.regs["rip"] + 2
         /\ \A h \in Gpr : Execute(vm, r).regs[h] = vm.regs[h]
         /\ Execute(vm, r).mem.code = vm.mem.code
         /\ Execute(vm, r).mem.cells[at] = vm.regs[g]
         /\ \A c \in Regions \ {at} : Execute(vm, r).mem.cells[c] = vm.mem.cells[c]
<1> DEFINE n == vm.regs["rip"] + 2
           put == Put(vm, n, "rip", n)
           new == [put EXCEPT !.mem.cells[at] = vm.regs[g]]
<1>1. Execute(vm, r) = new
  BY DEF Execute, Put, Store
<1>2. "rip" \in Registers /\ \A h \in Gpr : h \in Registers /\ h # "rip"
  BY DEF Registers, Captured, Gpr
<1>3. /\ put.mem = vm.mem /\ put.regs["rip"] = n
      /\ \A h \in Registers \ {"rip"} : put.regs[h] = vm.regs[h]
  BY <1>2, PutEffect
<1>4. n \in Nat
  BY DEF Vm, Registers, Captured
<1>5. put \in Vm
  BY <1>2, <1>4, PutType DEF Put
<1> HIDE DEF put
<1> DEFINE cells == [put.mem.cells EXCEPT ![at] = vm.regs[g]]
           mem == [put.mem EXCEPT !.cells = cells]
<1>6. /\ cells[at] = vm.regs[g]
      /\ \A c \in Regions \ {at} : cells[c] = put.mem.cells[c]
  BY <1>5 DEF Vm, Memory
<1> HIDE DEF cells
<1>7. mem.cells = cells /\ mem.code = put.mem.code
  BY <1>5 DEF Vm, Memory
<1> HIDE DEF mem
<1>8. new.mem = mem /\ new.regs = put.regs
  BY <1>5 DEF Vm, mem, cells
<1> QED
  BY <1>1, <1>2, <1>3, <1>6, <1>7, <1>8

-----------------------------------------------------------------------------
(* target_app. *)

(* The listing, instruction by instruction. *)
LEMMA TargetAppCode ==
  ASSUME NEW n
  PROVE  /\ DOMAIN TargetApp(n) = 1..32
         /\ TargetApp(n)[1] = Mov("rbx", 0)
         /\ TargetApp(n)[3] = Load("rdx", "image") /\ TargetApp(n)[15] = Load("rdx", "image")
         /\ TargetApp(n)[5] = Mov("rax", 1) /\ TargetApp(n)[17] = Mov("rax", 1)
         /\ TargetApp(n)[7] = Mov("rcx", 0) /\ TargetApp(n)[19] = Mov("rcx", 1)
         /\ TargetApp(n)[9] = VMCALL /\ TargetApp(n)[21] = VMCALL
         /\ TargetApp(n)[12] = Inc("rdx") /\ TargetApp(n)[24] = Inc("rdx")
         /\ TargetApp(n)[13] = Store("rdx", "image") /\ TargetApp(n)[25] = Store("rdx", "image")
         /\ TargetApp(n)[27] = Inc("rbx")
         /\ TargetApp(n)[28] = Jne("rbx", n, 3)
         /\ TargetApp(n)[30] = Load("rax", "image")
         /\ TargetApp(n)[32] = HLT
  BY DEF TargetApp, execute_slice

(* target_app exits at its VMCALLs and its HLT, and nowhere else. *)
LEMMA AppReason ==
  ASSUME NEW n \in Nat, NEW vm \in Vm, AppState(n, vm)
  PROVE  \/ vm.regs["rip"] \in {9, 21} /\ Reason(vm) = Callout
         \/ vm.regs["rip"] = 32 /\ Reason(vm) = Halt
         \/ /\ vm.regs["rip"] \in {1, 3, 5, 7, 12, 13, 15, 17, 19, 24, 25, 27, 28, 30}
            /\ Reason(vm) = NoExit
<1> DEFINE ip == vm.regs["rip"]
<1>1. ip \in {9, 21, 32} \cup {1, 3, 5, 7, 12, 13, 15, 17, 19, 24, 25, 27, 28, 30}
  BY DEF AppState, AppAt, InSlice
<1>2. ip \in DOMAIN vm.mem.code /\ Fetch(vm) = TargetApp(n)[ip]
  BY <1>1, TargetAppCode DEF AppState, Fetch
<1> HIDE DEF ip
<1>3. CASE ip \in {9, 21}
  <2>1. Fetch(vm).op = "vmcall"
    BY <1>2, <1>3, TargetAppCode DEF VMCALL, Plain
  <2> QED
    BY <1>2, <1>3, <2>1 DEF Reason, ip
<1>4. CASE ip = 32
  <2>1. Fetch(vm).op = "hlt"
    BY <1>2, <1>4, TargetAppCode DEF HLT, Plain
  <2> QED
    BY <1>2, <1>4, <2>1 DEF Reason, ip
<1>5. CASE ip \in {3, 13, 15, 25, 30}
  <2>1. Fetch(vm).op \in {"load", "store"} /\ Fetch(vm).at = "image"
    BY <1>2, <1>5, TargetAppCode DEF Load, Store
  <2> QED
    BY <1>2, <1>5, <2>1 DEF Reason, ip
<1>6. CASE ip \in {1, 5, 7, 12, 17, 19, 24, 27, 28}
  <2>1. ip \in {1, 5, 7, 17, 19} => Fetch(vm).op = "mov"
    BY <1>2, TargetAppCode DEF Mov
  <2>2. ip \in {12, 24, 27} => Fetch(vm).op = "inc"
    BY <1>2, TargetAppCode DEF Inc
  <2>3. ip = 28 => Fetch(vm).op = "jne"
    <3>1. ip = 28 => Fetch(vm) = Jne("rbx", n, 3)
      BY <1>2, TargetAppCode
    <3> QED
      BY <3>1 DEF Jne
  <2>4. Fetch(vm).op \in {"mov", "inc", "jne"}
    BY <1>6, <2>1, <2>2, <2>3
  <2> QED
    BY <1>2, <1>6, <2>4 DEF Reason, ip
<1> QED
  BY <1>1, <1>3, <1>4, <1>5, <1>6

(* Every instruction of target_app leads from its assertion to the next one. *)
LEMMA AppExecutes ==
  ASSUME NEW n \in Nat \ {0}, NEW vm \in Vm, AppState(n, vm), Reason(vm) = NoExit, NEW r
  PROVE  AppState(n, Execute(vm, r))
<1> DEFINE new == Execute(vm, r)
           ip == vm.regs["rip"]
           c == vm.mem.cells["image"]
<1>1. ip \in {1, 3, 5, 7, 12, 13, 15, 17, 19, 24, 25, 27, 28, 30}
  BY AppReason DEF NoExit, Halt, Callout
<1>2. Fetch(vm) = TargetApp(n)[ip]
  BY DEF AppState, Fetch
<1>3. /\ "rax" \in Gpr /\ "rbx" \in Gpr /\ "rcx" \in Gpr /\ "rdx" \in Gpr
      /\ "image" \in Regions
  BY DEF Gpr, Regions
<1>4. /\ vm.regs["rdx"] \in Nat /\ vm.regs["rbx"] \in Nat /\ c \in Nat
      /\ vm.mem.code = TargetApp(n)
      /\ AppAt(n, ip, vm.regs["rax"], vm.regs["rbx"], vm.regs["rdx"], c)
  BY <1>3 DEF Vm, Memory, Registers, AppState
<1> SUFFICES /\ new.mem.code = TargetApp(n)
             /\ AppAt(n, new.regs["rip"], new.regs["rax"], new.regs["rbx"], new.regs["rdx"],
                      new.mem.cells["image"])
  BY DEF AppState
<1> HIDE DEF new, ip, c
<1>5. CASE ip = 1
  <2>1. Fetch(vm) = Mov("rbx", 0)
    BY <1>2, <1>5, TargetAppCode
  <2>2. /\ new.regs["rip"] = 3 /\ new.regs["rbx"] = 0 /\ new.mem = vm.mem
    BY <1>3, <1>5, <2>1, MovEffect DEF Sets, new, ip
  <2> QED
    BY <1>4, <1>5, <2>2 DEF AppAt, InSlice, c
<1>6. CASE ip \in {3, 15}
  <2>1. Fetch(vm) = Load("rdx", "image")
    BY <1>2, <1>6, TargetAppCode
  <2>2. /\ new.regs["rip"] = ip + 2 /\ new.regs["rdx"] = c
        /\ new.regs["rbx"] = vm.regs["rbx"] /\ new.mem = vm.mem
    BY <1>3, <2>1, LoadEffect DEF Sets, new, ip, c
  <2> QED
    BY <1>4, <1>6, <2>2 DEF AppAt, InSlice, c
<1>7. CASE ip \in {5, 7, 17, 19}
  <2>1. PICK g \in {"rax", "rcx"}, v \in Nat : Fetch(vm) = Mov(g, v)
    BY <1>2, <1>7, TargetAppCode
  <2>2. g \in Gpr /\ "rdx" \in Gpr \ {g} /\ "rbx" \in Gpr \ {g}
    BY DEF Gpr
  <2>3. Sets(vm, new, 2, g, v)
    BY <2>1, <2>2, MovEffect DEF new
  <2>4. /\ new.regs["rip"] = ip + 2 /\ new.regs["rdx"] = vm.regs["rdx"]
        /\ new.regs["rbx"] = vm.regs["rbx"] /\ new.mem = vm.mem
    BY <2>2, <2>3 DEF Sets, ip
  <2> QED
    BY <1>4, <1>7, <2>4 DEF AppAt, InSlice, c
<1>8. CASE ip \in {12, 24}
  <2>1. Fetch(vm) = Inc("rdx")
    BY <1>2, <1>8, TargetAppCode
  <2>2. /\ new.regs["rip"] = ip + 1 /\ new.regs["rdx"] = vm.regs["rdx"] + 1
        /\ new.regs["rbx"] = vm.regs["rbx"] /\ new.mem = vm.mem
    BY <1>3, <2>1, IncEffect DEF Sets, new, ip
  <2> QED
    BY <1>4, <1>8, <2>2 DEF AppAt, InSlice, c
<1>9. CASE ip \in {13, 25}
  <2>1. Fetch(vm) = Store("rdx", "image")
    BY <1>2, <1>9, TargetAppCode
  <2>2. /\ new.regs["rip"] = ip + 2 /\ new.regs["rbx"] = vm.regs["rbx"]
        /\ new.mem.code = vm.mem.code /\ new.mem.cells["image"] = vm.regs["rdx"]
    BY <1>3, <2>1, StoreEffect DEF new, ip
  <2> QED
    BY <1>4, <1>9, <2>2 DEF AppAt, InSlice
<1>10. CASE ip = 27
  <2>1. Fetch(vm) = Inc("rbx")
    BY <1>2, <1>10, TargetAppCode
  <2>2. /\ new.regs["rip"] = 28 /\ new.regs["rbx"] = vm.regs["rbx"] + 1
        /\ new.mem = vm.mem
    BY <1>3, <1>10, <2>1, IncEffect DEF Sets, new, ip
  <2> QED
    BY <1>4, <1>10, <2>2 DEF AppAt, InSlice, c
<1>11. CASE ip = 28
  <2>1. Fetch(vm) = Jne("rbx", n, 3)
    BY <1>2, <1>11, TargetAppCode
  <2>2. /\ new.regs["rip"] = IF vm.regs["rbx"] # n THEN 3 ELSE 30
        /\ new.regs["rbx"] = vm.regs["rbx"] /\ new.mem = vm.mem
    BY <1>3, <1>11, <2>1, JneEffect DEF new, ip
  <2> QED
    BY <1>4, <1>11, <2>2 DEF AppAt, InSlice, c
<1>12. CASE ip = 30
  <2>1. Fetch(vm) = Load("rax", "image")
    BY <1>2, <1>12, TargetAppCode
  <2>2. new.regs["rip"] = 32 /\ new.regs["rax"] = c /\ new.mem = vm.mem
    BY <1>3, <1>12, <2>1, LoadEffect DEF Sets, new, ip, c
  <2> QED
    BY <1>4, <1>12, <2>2 DEF AppAt, InSlice, c
<1> QED
  BY <1>1, <1>5, <1>6, <1>7, <1>8, <1>9, <1>10, <1>11, <1>12

\* RecordEngine::run's answers, as they change the registers of the guest.
AfterCallout(vm) == [vm EXCEPT !.regs = advance_rip(@, VMCALL_LEN)]

AfterCpuid(vm) ==
  [vm EXCEPT !.regs =
     advance_rip(set_registers(@, [rax |-> 10, rbx |-> 11, rcx |-> 12, rdx |-> 13]),
                 InstructionLength(ExitContext(vm)))]

AfterRdtsc(vm) ==
  [vm EXCEPT !.regs = advance_rip(set_registers(@, [rax |-> 4096, rdx |-> 0]),
                                  InstructionLength(ExitContext(vm)))]

(* advance_rip moves RIP only. *)
LEMMA AdvanceEffect ==
  ASSUME NEW regs \in Regs, NEW len
  PROVE  /\ advance_rip(regs, len)["rip"] = regs["rip"] + len
         /\ \A g \in Gpr : advance_rip(regs, len)[g] = regs[g]
  BY DEF advance_rip, set_registers, get_registers, Regs, Registers, Captured, Gpr

(* Replacing the registers of a machine. *)
LEMMA NewRegs ==
  ASSUME NEW vm \in Vm, NEW regs
  PROVE  [vm EXCEPT !.regs = regs].regs = regs /\ [vm EXCEPT !.regs = regs].mem = vm.mem
  BY DEF Vm

(* A yield of target_app changes nothing that it relies on. *)
LEMMA AppYields ==
  ASSUME NEW n \in Nat, NEW vm \in Vm, AppState(n, vm), Reason(vm) = Callout
  PROVE  AppState(n, AfterCallout(vm))
<1> DEFINE ip == vm.regs["rip"]
           regs == advance_rip(vm.regs, 3)
           new == [vm EXCEPT !.regs = regs]
<1>1. ip \in {9, 21}
  BY AppReason DEF Callout, Halt, NoExit
<1>2. vm.regs \in Regs
  BY DEF Vm, Regs
<1>3. "rax" \in Gpr /\ "rbx" \in Gpr /\ "rdx" \in Gpr
  BY DEF Gpr
<1>4. /\ regs["rip"] = ip + 3 /\ regs["rax"] = vm.regs["rax"]
      /\ regs["rbx"] = vm.regs["rbx"] /\ regs["rdx"] = vm.regs["rdx"]
  BY <1>2, <1>3, AdvanceEffect
<1>5. AfterCallout(vm) = new
  BY DEF AfterCallout, VMCALL_LEN
<1> HIDE DEF regs
<1>6. new.regs = regs /\ new.mem = vm.mem
  BY NewRegs
<1> HIDE DEF ip, new
<1>7. /\ vm.regs["rdx"] \in Nat /\ vm.regs["rbx"] \in Nat
      /\ AppAt(n, ip, vm.regs["rax"], vm.regs["rbx"], vm.regs["rdx"], vm.mem.cells["image"])
      /\ vm.mem.code = TargetApp(n)
  BY <1>3 DEF Vm, Registers, AppState, ip
<1>8. AppAt(n, ip + 3, vm.regs["rax"], vm.regs["rbx"], vm.regs["rdx"], vm.mem.cells["image"])
  BY <1>1, <1>7 DEF AppAt, InSlice
<1> QED
  BY <1>4, <1>5, <1>6, <1>7, <1>8 DEF AppState

(* HLT leaves general registers and memory as they are. *)
LEMMA HaltEffect ==
  ASSUME NEW vm \in Vm
  PROVE  AtExit(vm).mem = vm.mem /\ \A g \in Gpr : AtExit(vm).regs[g] = vm.regs[g]
<1> DEFINE regs == [vm.regs EXCEPT !["rip"] = @ + Fetch(vm).len]
<1>1. \A g \in Gpr : regs[g] = vm.regs[g]
  BY DEF Vm, Registers, Gpr
<1>2. AtExit(vm) = vm \/ AtExit(vm) = [vm EXCEPT !.regs = regs]
  BY DEF AtExit
<1> HIDE DEF regs
<1>3. [vm EXCEPT !.regs = regs].regs = regs /\ [vm EXCEPT !.regs = regs].mem = vm.mem
  BY NewRegs
<1> QED
  BY <1>1, <1>2, <1>3

(* target_app halts with the count in RAX and in memory. *)
LEMMA AppHalts ==
  ASSUME NEW n \in Nat, NEW vm \in Vm, AppState(n, vm), Reason(vm) = Halt
  PROVE  AtExit(vm).regs["rax"] = 2 * n /\ AtExit(vm).mem.cells["image"] = 2 * n
<1>1. vm.regs["rip"] = 32
  BY AppReason DEF Callout, Halt, NoExit
<1>2. vm.regs["rax"] = 2 * n /\ vm.mem.cells["image"] = 2 * n
  BY <1>1 DEF AppState, AppAt, InSlice
<1> QED
  BY <1>2, HaltEffect DEF Gpr

-----------------------------------------------------------------------------
(* test_target. *)

(* The listing, up to the HLT after 0x42. *)
LEMMA TestTargetCode ==
  /\ DOMAIN TestTarget = 1..22
  /\ TestTarget[1] = RDTSC
  /\ TestTarget[3] = Store("rax", "stack")
  /\ TestTarget[5] = CPUID
  /\ TestTarget[7] = Jne("rax", 10, 18)
  /\ TestTarget[9] = Load("rcx", "stack")
  /\ TestTarget[11] = Jne("rcx", 4096, 18)
  /\ TestTarget[13] = Mov("rdx", 66)
  /\ TestTarget[15] = Store("rdx", "stack")
  /\ TestTarget[17] = HLT
  BY DEF TestTarget

(* test_target exits at RDTSC, CPUID and the first HLT, and nowhere else. *)
LEMMA TestReason ==
  ASSUME NEW vm \in Vm, TestState(vm)
  PROVE  \/ vm.regs["rip"] = 1 /\ Reason(vm) = Rdtsc
         \/ vm.regs["rip"] = 5 /\ Reason(vm) = Cpuid
         \/ vm.regs["rip"] = 17 /\ Reason(vm) = Halt
         \/ vm.regs["rip"] \in {3, 7, 9, 11, 13, 15} /\ Reason(vm) = NoExit
<1> DEFINE ip == vm.regs["rip"]
<1>1. ip \in {1, 3, 5, 7, 9, 11, 13, 15, 17}
  BY DEF TestState, TestAt
<1>2. ip \in DOMAIN vm.mem.code /\ Fetch(vm) = TestTarget[ip]
  BY <1>1, TestTargetCode DEF TestState, Fetch
<1> HIDE DEF ip
<1>3. /\ ip = 1 => Fetch(vm).op = "rdtsc"
      /\ ip = 5 => Fetch(vm).op = "cpuid"
      /\ ip = 17 => Fetch(vm).op = "hlt"
  BY <1>2, TestTargetCode DEF RDTSC, CPUID, HLT, Plain
<1>4. ip \in {3, 9, 15} => Fetch(vm).op \in {"load", "store"} /\ Fetch(vm).at = "stack"
  BY <1>2, TestTargetCode DEF Load, Store
<1>5. ip \in {7, 11} => Fetch(vm).op = "jne"
  BY <1>2, TestTargetCode DEF Jne
<1>6. ip = 13 => Fetch(vm).op = "mov"
  BY <1>2, TestTargetCode DEF Mov
<1>7. CASE ip \in {1, 5, 17}
  BY <1>2, <1>3, <1>7 DEF Reason, ip
<1>8. CASE ip \in {3, 9, 15}
  BY <1>2, <1>4, <1>8 DEF Reason, ip
<1>9. CASE ip \in {7, 11, 13}
  BY <1>2, <1>5, <1>6, <1>9 DEF Reason, ip
<1> QED
  BY <1>1, <1>7, <1>8, <1>9

(* Every instruction of test_target leads from its assertion to the next one: *)
(* both of its checks succeed.                                                *)
LEMMA TestExecutes ==
  ASSUME NEW vm \in Vm, TestState(vm), Reason(vm) = NoExit, NEW r
  PROVE  TestState(Execute(vm, r))
<1> DEFINE new == Execute(vm, r)
           ip == vm.regs["rip"]
           slot == vm.mem.cells["stack"]
<1>1. ip \in {3, 7, 9, 11, 13, 15}
  BY TestReason DEF NoExit, Halt, Cpuid, Rdtsc
<1>2. Fetch(vm) = TestTarget[ip]
  BY DEF TestState, Fetch
<1>3. "rax" \in Gpr /\ "rcx" \in Gpr /\ "rdx" \in Gpr /\ "stack" \in Regions
  BY DEF Gpr, Regions
<1>4. /\ vm.mem.code = TestTarget
      /\ TestAt(ip, vm.regs["rax"], vm.regs["rcx"], vm.regs["rdx"], slot)
  BY DEF TestState
<1> SUFFICES /\ new.mem.code = TestTarget
             /\ TestAt(new.regs["rip"], new.regs["rax"], new.regs["rcx"], new.regs["rdx"],
                       new.mem.cells["stack"])
  BY DEF TestState
<1> HIDE DEF new, ip, slot
<1>5. CASE ip = 3
  <2>1. Fetch(vm) = Store("rax", "stack")
    BY <1>2, <1>5, TestTargetCode
  <2>2. /\ new.regs["rip"] = 5 /\ new.mem.code = vm.mem.code
        /\ new.mem.cells["stack"] = vm.regs["rax"]
    BY <1>3, <1>5, <2>1, StoreEffect DEF new, ip
  <2> QED
    BY <1>4, <1>5, <2>2 DEF TestAt
<1>6. CASE ip = 7
  <2>1. Fetch(vm) = Jne("rax", 10, 18) /\ vm.regs["rax"] = 10
    BY <1>2, <1>4, <1>6, TestTargetCode DEF TestAt
  <2>2. new.regs["rip"] = 9 /\ new.mem = vm.mem
    BY <1>3, <1>6, <2>1, JneEffect DEF new, ip
  <2> QED
    BY <1>4, <1>6, <2>2 DEF TestAt, slot
<1>7. CASE ip = 9
  <2>1. Fetch(vm) = Load("rcx", "stack")
    BY <1>2, <1>7, TestTargetCode
  <2>2. new.regs["rip"] = 11 /\ new.regs["rcx"] = slot /\ new.mem = vm.mem
    BY <1>3, <1>7, <2>1, LoadEffect DEF Sets, new, ip, slot
  <2> QED
    BY <1>4, <1>7, <2>2 DEF TestAt
<1>8. CASE ip = 11
  <2>1. Fetch(vm) = Jne("rcx", 4096, 18) /\ vm.regs["rcx"] = 4096
    BY <1>2, <1>4, <1>8, TestTargetCode DEF TestAt
  <2>2. new.regs["rip"] = 13 /\ new.mem = vm.mem
    BY <1>3, <1>8, <2>1, JneEffect DEF new, ip
  <2> QED
    BY <1>4, <2>2 DEF TestAt
<1>9. CASE ip = 13
  <2>1. Fetch(vm) = Mov("rdx", 66)
    BY <1>2, <1>9, TestTargetCode
  <2>2. Sets(vm, new, 2, "rdx", 66)
    BY <1>3, <2>1, MovEffect DEF new
  <2>3. new.regs["rip"] = 15 /\ new.regs["rdx"] = 66 /\ new.mem = vm.mem
    BY <1>9, <2>2 DEF Sets, ip
  <2> QED
    BY <1>4, <2>3 DEF TestAt
<1>10. CASE ip = 15
  <2>1. Fetch(vm) = Store("rdx", "stack")
    BY <1>2, <1>10, TestTargetCode
  <2>2. /\ new.regs["rip"] = 17 /\ new.mem.code = vm.mem.code
        /\ new.mem.cells["stack"] = vm.regs["rdx"]
    BY <1>3, <1>10, <2>1, StoreEffect DEF new, ip
  <2> QED
    BY <1>4, <1>10, <2>2 DEF TestAt
<1> QED
  BY <1>1, <1>5, <1>6, <1>7, <1>8, <1>9, <1>10

(* The registers that an answer sets, and RIP after the instruction. *)
LEMMA AnswerEffect ==
  ASSUME NEW regs \in Regs, NEW values, NEW len, "rip" \notin DOMAIN values
  PROVE  LET new == advance_rip(set_registers(regs, values), len)
         IN  /\ new["rip"] = regs["rip"] + len
             /\ \A g \in Gpr \cap DOMAIN values : new[g] = values[g]
  BY DEF advance_rip, set_registers, get_registers, Regs, Registers, Captured, Gpr

(* RDTSC gives test_target the value it compares with. *)
LEMMA TestTimes ==
  ASSUME NEW vm \in Vm, TestState(vm), Reason(vm) = Rdtsc
  PROVE  TestState(AfterRdtsc(vm))
<1> DEFINE values == [rax |-> 4096, rdx |-> 0]
           len == InstructionLength(ExitContext(vm))
           regs == advance_rip(set_registers(vm.regs, values), len)
           new == [vm EXCEPT !.regs = regs]
<1>1. vm.regs["rip"] = 1 /\ vm.mem.code = TestTarget
  BY TestReason DEF NoExit, Halt, Cpuid, Rdtsc, TestState
<1>2. len = 2
  <2>1. vm.regs["rip"] \in DOMAIN vm.mem.code /\ Fetch(vm) = RDTSC
    BY <1>1, TestTargetCode DEF Fetch
  <2>2. Fetch(vm).len = 2
    BY <2>1 DEF RDTSC, Plain
  <2> QED
    BY <2>1, <2>2, MaskedLength
<1> HIDE DEF len
<1>3. vm.regs \in Regs /\ "rip" \notin DOMAIN values /\ "rax" \in Gpr \cap DOMAIN values
  BY DEF Vm, Regs, Gpr
<1> HIDE DEF values
<1>4. regs["rip"] = 3 /\ regs["rax"] = values["rax"]
  BY <1>1, <1>2, <1>3, AnswerEffect
<1>5. AfterRdtsc(vm) = new
  BY DEF AfterRdtsc, len, values
<1> HIDE DEF regs
<1>6. new.regs = regs /\ new.mem = vm.mem
  BY NewRegs
<1>7. values["rax"] = 4096
  BY DEF values
<1> QED
  BY <1>1, <1>4, <1>5, <1>6, <1>7 DEF TestState, TestAt

(* CPUID gives test_target the value it compares with and keeps the first one. *)
LEMMA TestIdentifies ==
  ASSUME NEW vm \in Vm, TestState(vm), Reason(vm) = Cpuid
  PROVE  TestState(AfterCpuid(vm))
<1> DEFINE values == [rax |-> 10, rbx |-> 11, rcx |-> 12, rdx |-> 13]
           len == InstructionLength(ExitContext(vm))
           regs == advance_rip(set_registers(vm.regs, values), len)
           new == [vm EXCEPT !.regs = regs]
<1>1. vm.regs["rip"] = 5 /\ vm.mem.code = TestTarget /\ vm.mem.cells["stack"] = 4096
  BY TestReason DEF NoExit, Halt, Cpuid, Rdtsc, TestState, TestAt
<1>2. len = 2
  <2>1. vm.regs["rip"] \in DOMAIN vm.mem.code /\ Fetch(vm) = CPUID
    BY <1>1, TestTargetCode DEF Fetch
  <2>2. Fetch(vm).len = 2
    BY <2>1 DEF CPUID, Plain
  <2> QED
    BY <2>1, <2>2, MaskedLength
<1> HIDE DEF len
<1>3. vm.regs \in Regs /\ "rip" \notin DOMAIN values /\ "rax" \in Gpr \cap DOMAIN values
  BY DEF Vm, Regs, Gpr
<1> HIDE DEF values
<1>4. regs["rip"] = 7 /\ regs["rax"] = values["rax"]
  BY <1>1, <1>2, <1>3, AnswerEffect
<1>5. AfterCpuid(vm) = new
  BY DEF AfterCpuid, len, values
<1> HIDE DEF regs
<1>6. new.regs = regs /\ new.mem = vm.mem
  BY NewRegs
<1>7. values["rax"] = 10
  BY DEF values
<1> QED
  BY <1>1, <1>4, <1>5, <1>6, <1>7 DEF TestState, TestAt

(* test_target halts with 0x42 in its stack slot. *)
LEMMA TestHalts ==
  ASSUME NEW vm \in Vm, TestState(vm), Reason(vm) = Halt
  PROVE  AtExit(vm).mem.cells["stack"] = 66
<1>1. vm.regs["rip"] = 17
  BY TestReason DEF NoExit, Halt, Cpuid, Rdtsc
<1>2. vm.mem.cells["stack"] = 66
  BY <1>1 DEF TestState, TestAt
<1> QED
  BY <1>2, HaltEffect

-----------------------------------------------------------------------------
(* Recording and replaying the payloads. *)

\* The guest is where the assertions of its payload img allow it to be.
Expected(img, vm) ==
  /\ img = TestTargetImage => TestState(vm)
  /\ \A n \in Iterations : img = TargetAppImage(n) => AppState(n, vm)

PayloadInv ==
  /\ recPc = "running" => Expected(image, recVm)
  /\ recPc = "exit" /\ recExit.reason \in Intercepted => Expected(image, recVm)
  /\ recPc = "exit" /\ recExit.reason \notin Intercepted => Result(image, recVm)
  /\ recPc \in {"stopped", "saving", "saved"} => Result(image, recVm)

IsPayload(img) ==
  img = TestTargetImage \/ \E n \in Iterations : img = TargetAppImage(n)

(* Only payloads are constrained. *)
LEMMA OthersPass ==
  ASSUME NEW img, ~IsPayload(img), NEW vm
  PROVE  Expected(img, vm) /\ Result(img, vm)
  BY DEF IsPayload, Expected, Result

(* Both payloads start at their first instruction with COUNTER = 0. *)
LEMMA PayloadStarts ==
  ASSUME NEW img, NEW vm, vm.mem = LoadedMemory(img), vm.regs["rip"] = img.entry
  PROVE  Expected(img, vm)
<1>1. ASSUME img = TestTargetImage PROVE TestState(vm)
  <2>1. vm.mem.code = TestTarget /\ vm.regs["rip"] = 1
    BY <1>1 DEF LoadedMemory, TestTargetImage, PayloadImage
  <2> QED
    BY <2>1 DEF TestState, TestAt
<1>2. ASSUME NEW n \in Iterations, img = TargetAppImage(n) PROVE AppState(n, vm)
  <2>1. vm.mem.code = TargetApp(n) /\ vm.regs["rip"] = 1 /\ vm.mem.cells["image"] = 0
    BY <1>2 DEF LoadedMemory, TargetAppImage, PayloadImage
  <2> QED
    BY <2>1 DEF AppState, AppAt
<1> QED
  BY <1>1, <1>2 DEF Expected

(* An instruction keeps the guest where it is expected. *)
LEMMA ExpectedExecutes ==
  ASSUME NEW img, NEW vm \in Vm, Expected(img, vm), Reason(vm) = NoExit, NEW r
  PROVE  Expected(img, Execute(vm, r))
<1>1. \A n \in Iterations : n \in Nat \ {0}
  BY IterationsAssumption
<1> QED
  BY <1>1, AppExecutes, TestExecutes DEF Expected

(* So do the three answers of the recorder. *)
LEMMA ExpectedAnswers ==
  ASSUME NEW img, NEW vm \in Vm, Expected(img, vm)
  PROVE  /\ Reason(vm) = Callout => Expected(img, AfterCallout(vm))
         /\ Reason(vm) = Cpuid => Expected(img, AfterCpuid(vm))
         /\ Reason(vm) = Rdtsc => Expected(img, AfterRdtsc(vm))
<1>1. \A n \in Iterations : n \in Nat
  BY IterationsAssumption
<1>2. img = TestTargetImage => TestState(vm) /\ Reason(vm) # Callout
  BY TestReason DEF Expected, Callout, Halt, NoExit, Cpuid, Rdtsc
<1>3. \A n \in Iterations : img = TargetAppImage(n) =>
        AppState(n, vm) /\ Reason(vm) # Cpuid /\ Reason(vm) # Rdtsc
  BY <1>1, AppReason DEF Expected, Callout, Halt, NoExit, Cpuid, Rdtsc
<1>4. ASSUME Reason(vm) = Callout PROVE Expected(img, AfterCallout(vm))
  BY <1>1, <1>2, <1>3, <1>4, AppYields DEF Expected
<1>5. ASSUME Reason(vm) = Cpuid PROVE Expected(img, AfterCpuid(vm))
  BY <1>2, <1>3, <1>5, TestIdentifies DEF Expected
<1>6. ASSUME Reason(vm) = Rdtsc PROVE Expected(img, AfterRdtsc(vm))
  BY <1>2, <1>3, <1>6, TestTimes DEF Expected
<1> QED
  BY <1>4, <1>5, <1>6

(* A payload leaves the loop of the recorder by its HLT only, with its result. *)
LEMMA ExpectedEnds ==
  ASSUME NEW img, NEW vm \in Vm, Expected(img, vm)
  PROVE  /\ Reason(vm) = Halt => Result(img, AtExit(vm))
         /\ IsPayload(img) => Reason(vm) \in {NoExit, Halt} \cup Intercepted
<1>1. \A n \in Iterations : n \in Nat
  BY IterationsAssumption
<1>2. ASSUME Reason(vm) = Halt PROVE Result(img, AtExit(vm))
  BY <1>1, <1>2, AppHalts, TestHalts DEF Expected, Result
<1>3. ASSUME img = TestTargetImage PROVE Reason(vm) \in {NoExit, Halt} \cup Intercepted
  BY <1>3, TestReason DEF Expected, Intercepted
<1>4. ASSUME NEW n \in Iterations, img = TargetAppImage(n)
      PROVE  Reason(vm) \in {NoExit, Halt} \cup Intercepted
  BY <1>1, <1>4, AppReason DEF Expected, Intercepted
<1> QED
  BY <1>2, <1>3, <1>4 DEF IsPayload

(* The recorder keeps the guest of a payload on its way to the result. *)
LEMMA RecordPayloadInv ==
  ASSUME RecordInv, PayloadInv, RecordNext
  PROVE  PayloadInv'
<1>1. recVm \in Vm /\ Random \subseteq Nat
  BY GuestAssumption DEF RecordInv, RecordTypeOK
<1>2. CASE RecordStart
  <2> DEFINE base == setup_long_mode(ResetRegisters, PtGpa)
             regs == set_registers(base, [rip |-> image.entry, rsp |-> StackTop])
             vm == [regs |-> regs, mem |-> LoadedMemory(image)]
  <2>1. recPc' = "running" /\ recVm' = vm /\ image' = image
    BY <1>2 DEF RecordStart, Resume
  <2>2. regs["rip"] = image.entry
    <3>1. "rip" \in DOMAIN base
      BY LongModeType DEF Regs, Registers, Captured
    <3> HIDE DEF base
    <3> QED
      BY <3>1 DEF set_registers
  <2>3. vm.regs = regs /\ vm.mem = LoadedMemory(image)
    OBVIOUS
  <2> HIDE DEF vm, regs
  <2>4. Expected(image, vm)
    BY <2>2, <2>3, PayloadStarts
  <2> QED
    BY <2>1, <2>4 DEF PayloadInv
<1>3. CASE RecordStep
  <2>1. PICK r \in Random : Resume(Execute(recVm, r), Len(events))
    BY <1>3 DEF RecordStep
  <2>2. /\ recPc = "running" /\ recPc' = "running" /\ Reason(recVm) = NoExit
        /\ image' = image /\ recVm' = Execute(recVm, r)
    BY <1>3, <2>1 DEF RecordStep, Resume
  <2>3. Expected(image, Execute(recVm, r))
    BY <1>1, <2>2, ExpectedExecutes DEF PayloadInv
  <2> QED
    BY <2>2, <2>3 DEF PayloadInv
<1>4. CASE RecordExit
  <2>1. /\ recPc = "running" /\ recPc' = "exit" /\ image' = image
        /\ Reason(recVm) # NoExit /\ recExit' = ExitContext(recVm)
        /\ recVm' = IF Reason(recVm) = Halt THEN AtExit(recVm) ELSE recVm
    BY <1>4 DEF RecordExit, Resume
  <2>2. recExit'.reason = Reason(recVm)
    BY <2>1 DEF ExitContext
  <2>3. Expected(image, recVm)
    BY <2>1 DEF PayloadInv
  <2>4. CASE Reason(recVm) = Halt
    <3>1. Result(image, AtExit(recVm))
      BY <1>1, <2>3, <2>4, ExpectedEnds
    <3>2. recExit'.reason \notin Intercepted
      BY <2>2, <2>4 DEF Intercepted, Halt, Cpuid, Rdtsc, Callout
    <3> QED
      BY <2>1, <2>4, <3>1, <3>2 DEF PayloadInv
  <2>5. CASE Reason(recVm) # Halt
    <3>1. recExit'.reason \in Intercepted \/ ~IsPayload(image)
      BY <1>1, <2>1, <2>2, <2>3, <2>5, ExpectedEnds
    <3>2. recExit'.reason \in Intercepted \/ Result(image, recVm)
      BY <3>1, OthersPass
    <3> QED
      BY <2>1, <2>3, <2>5, <3>2 DEF PayloadInv
  <2> QED
    BY <2>4, <2>5
<1>5. CASE RecordCpuid \/ RecordRdtsc \/ RecordCallout
  <2>1. recPc = "exit" /\ recExit.reason \in Intercepted
    BY <1>5 DEF RecordCpuid, RecordRdtsc, RecordCallout, Intercepted
  <2>2. recExit = ExitContext(recVm) /\ recExit.reason = Reason(recVm)
    BY <2>1, InterceptedContext
  <2>3. Expected(image, recVm)
    BY <2>1 DEF PayloadInv
  <2>4. recPc' = "running" /\ image' = image
    BY <1>5 DEF RecordCpuid, RecordRdtsc, RecordCallout, LogAndResume
  <2>5. \/ recExit.reason = Cpuid /\ recVm' = AfterCpuid(recVm)
        \/ recExit.reason = Rdtsc /\ recVm' = AfterRdtsc(recVm)
        \/ recExit.reason = Callout /\ recVm' = AfterCallout(recVm)
    BY <1>5, <2>2 DEF RecordCpuid, RecordRdtsc, RecordCallout, LogAndResume, Resume,
                      AfterCpuid, AfterRdtsc, AfterCallout
  <2>6. Expected(image, recVm')
    BY <1>1, <2>2, <2>3, <2>5, ExpectedAnswers
  <2> QED
    BY <2>4, <2>6 DEF PayloadInv
<1>6. CASE RecordStop
  <2>1. /\ recPc = "exit" /\ recExit.reason \notin Intercepted /\ recPc' = "stopped"
        /\ UNCHANGED <<image, recVm>>
    BY <1>6 DEF RecordStop
  <2> QED
    BY <2>1 DEF PayloadInv
<1>7. CASE RecordFinish \/ RecordWrite
  <2>1. /\ recPc \in {"stopped", "saving", "saved"} /\ recPc' \in {"saving", "saved"}
        /\ UNCHANGED <<image, recVm>>
    BY <1>7 DEF RecordFinish, RecordWrite
  <2> QED
    BY <2>1 DEF PayloadInv
<1>8. CASE RecordPanic
  BY <1>8 DEF RecordPanic, PayloadInv
<1> QED
  BY <1>2, <1>3, <1>4, <1>5, <1>6, <1>7, <1>8 DEF RecordNext

(* Neither payload draws a random number. *)
LEMMA PayloadsDeterministic ==
  ASSUME IsPayload(image)
  PROVE  Det
<1>1. \A k \in DOMAIN TestTarget : TestTarget[k].op # "rdrand"
  BY DEF TestTarget, RDTSC, CPUID, HLT, JUNK, Plain, Store, Load, Jne, Mov
<1>2. ASSUME NEW n, NEW k \in DOMAIN TargetApp(n) PROVE TargetApp(n)[k].op # "rdrand"
  BY DEF TargetApp, execute_slice, VMCALL, HLT, JUNK, Plain, Store, Load, Jne, Mov, Inc
<1>3. image.code = TestTarget \/ \E n \in Iterations : image.code = TargetApp(n)
  BY DEF IsPayload, TestTargetImage, TargetAppImage, PayloadImage
<1> QED
  BY <1>1, <1>2, <1>3 DEF Det, Deterministic

(* Both listings are machine code: one instruction after the other, jumps to  *)
(* instructions, VMCALL in three bytes, and no SYSCALL.                       *)
LEMMA PayloadsAssembled ==
  /\ WellAssembled(TestTargetImage) /\ FaultFree(TestTarget)
  /\ \A n \in Nat : WellAssembled(TargetAppImage(n)) /\ FaultFree(TargetApp(n))
<1>1. WellAssembled(TestTargetImage) /\ FaultFree(TestTarget)
  <2> DEFINE starts == {1, 3, 5, 7, 9, 11, 13, 15, 17, 18, 20, 22}
  <2>1. Len(TestTarget) = 22 /\ DOMAIN TestTarget = 1..22
    BY DEF TestTarget
  <2>2. \A k \in 1..22 : TestTarget[k].op # "junk" <=> k \in starts
    BY DEF TestTarget, RDTSC, CPUID, HLT, JUNK, Plain, Store, Load, Jne, Mov
  <2>3. \A k \in starts :
          /\ k + TestTarget[k].len \in starts \cup {23}
          /\ TestTarget[k].op = "jne" => TestTarget[k].target = 18
          /\ TestTarget[k].op \notin {"vmcall", "syscall"}
    BY DEF TestTarget, RDTSC, CPUID, HLT, JUNK, Plain, Store, Load, Jne, Mov
  <2>4. \A k \in starts \cup {23} : Boundary(TestTarget, k)
    BY <2>1, <2>2 DEF Boundary
  <2>5. \A k \in 1..22 : TestTarget[k].op # "syscall"
    BY DEF TestTarget, RDTSC, CPUID, HLT, JUNK, Plain, Store, Load, Jne, Mov
  <2>6. TestTargetImage.code = TestTarget /\ TestTargetImage.entry = 1
    BY DEF TestTargetImage, PayloadImage
  <2> QED
    BY <2>1, <2>2, <2>3, <2>4, <2>5, <2>6 DEF WellAssembled, FaultFree
<1>2. ASSUME NEW n \in Nat
      PROVE  WellAssembled(TargetAppImage(n)) /\ FaultFree(TargetApp(n))
  <2> DEFINE starts == {1, 3, 5, 7, 9, 12, 13, 15, 17, 19, 21, 24, 25, 27, 28, 30, 32}
             code == TargetApp(n)
  <2>1. Len(code) = 32 /\ DOMAIN code = 1..32
    BY DEF TargetApp
  <2>2. \A k \in 1..32 : code[k].op # "junk" <=> k \in starts
    BY DEF TargetApp, execute_slice, VMCALL, HLT, JUNK, Plain, Store, Load, Jne, Mov, Inc
  <2>3. \A k \in starts :
          /\ k + code[k].len \in starts \cup {33}
          /\ code[k].op = "jne" => code[k].target = 3
          /\ code[k].op = "vmcall" => code[k].len = 3
          /\ code[k].op # "syscall"
    BY DEF TargetApp, execute_slice, VMCALL, HLT, JUNK, Plain, Store, Load, Jne, Mov, Inc
  <2>4. \A k \in 1..32 : code[k].op # "syscall"
    BY DEF TargetApp, execute_slice, VMCALL, HLT, JUNK, Plain, Store, Load, Jne, Mov, Inc
  <2>5. TargetAppImage(n).code = code /\ TargetAppImage(n).entry = 1
    BY DEF TargetAppImage, PayloadImage
  <2> HIDE DEF code
  <2>6. \A k \in starts \cup {33} : Boundary(code, k)
    BY <2>1, <2>2 DEF Boundary
  <2> QED
    BY <2>1, <2>2, <2>3, <2>4, <2>5, <2>6 DEF WellAssembled, FaultFree, code
<1> QED
  BY <1>1, <1>2

(* The payloads halt with the result their source computes: test_target with *)
(* 0x42, target_app with 2 * n after n iterations of its two slices, in the  *)
(* recording and in every replay that is confirmed.  The source's 100        *)
(* iterations are one case.                                                  *)
THEOREM PayloadsCorrect == Spec => []PayloadsHaltAsExpected
<1>1. Init => PayloadInv
  BY DEF Init, RecordInit, PayloadInv
<1>2. IInv /\ PayloadInv /\ [Next]_vars => PayloadInv'
  <2> SUFFICES ASSUME IInv, PayloadInv, [Next]_vars PROVE PayloadInv'
    OBVIOUS
  <2>1. CASE Record
    BY <2>1, RecordPayloadInv DEF IInv, Record
  <2>2. CASE UNCHANGED recordVars
    BY <2>2 DEF recordVars, PayloadInv
  <2> QED
    BY <2>1, <2>2 DEF Next, Replay, vars
<1>3. IInv /\ PayloadInv => PayloadsHaltAsExpected
  <2> SUFFICES ASSUME IInv, PayloadInv PROVE PayloadsHaltAsExpected
    OBVIOUS
  <2>1. recPc = "saved" => Result(image, recVm)
    BY DEF PayloadInv
  <2>2. ASSUME repPc = "verified", finalRun = "ok" PROVE Result(image, RepVm)
    <3>1. recPc = "saved"
      BY <2>2 DEF IInv, ReplayInv, ReplayPhase, LoadedOK
    <3>2. CASE IsPayload(image)
      <4>1. RepVm = recVm
        BY <2>2, <3>2, PayloadsDeterministic DEF IInv, ReplayInv, ReplayExitOK
      <4> QED
        BY <2>1, <3>1, <4>1
    <3>3. CASE ~IsPayload(image)
      BY <3>3, OthersPass
    <3> QED
      BY <3>2, <3>3
  <2> QED
    BY <2>1, <2>2 DEF PayloadsHaltAsExpected
<1>4. Spec => []IInv
  BY Invariance
<1> QED
  BY <1>1, <1>2, <1>3, <1>4, PTL DEF Spec

(* Both engines resume the payloads at instructions only: the masked length   *)
(* of CPUID and RDTSC and the constant length of VMCALL fit their code.       *)
THEOREM PayloadsOnBoundary ==
  Spec /\ IsPayload(image) =>
    [](/\ path # <<>> => OnBoundary(recVm)
       /\ Loaded => OnBoundary(RepVm))
<1>1. IsPayload(image) => WellAssembled(image) /\ FaultFree(image.code)
  <2>1. Iterations \subseteq Nat
    BY IterationsAssumption
  <2>2. /\ TestTargetImage.code = TestTarget
        /\ \A n \in Iterations : TargetAppImage(n).code = TargetApp(n)
    BY DEF TestTargetImage, TargetAppImage, PayloadImage
  <2> QED
    BY <2>1, <2>2, PayloadsAssembled DEF IsPayload
<1>2. IsPayload(image) /\ [Next]_vars => IsPayload(image)'
  <2>1. [Next]_vars => UNCHANGED image
    BY DEF Next, vars, Record, Replay, recordVars, RecordNext, RecordStart, RecordStep,
           RecordExit, RecordCpuid, RecordRdtsc, RecordCallout, RecordStop, RecordFinish,
           RecordWrite, RecordPanic, LogAndResume
  <2> QED
    BY <2>1 DEF IsPayload
<1>3. OnInstructionBoundary /\ FaultFree(image.code) =>
        /\ path # <<>> => OnBoundary(recVm)
        /\ Loaded => OnBoundary(RepVm)
  BY DEF OnInstructionBoundary
<1>4. Spec /\ WellAssembled(image) => []OnInstructionBoundary
  BY BoundaryCorrect
<1> QED
  BY <1>1, <1>2, <1>3, <1>4, PTL DEF Spec
=============================================================================
