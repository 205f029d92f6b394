---------------------------- MODULE PayloadRuns ----------------------------
(***************************************************************************)
(* Recording and replaying the two payloads of the repository.              *)
(***************************************************************************)
EXTENDS RecordReplay, Payloads

\* How often target_app may loop: 100 times in the source.
CONSTANT Iterations

ASSUME IterationsAssumption == Iterations \subseteq Nat \ {0}

TestTargetImage   == PayloadImage(TestTarget)
TargetAppImage(n) == PayloadImage(TargetApp(n))

\* What the payload img computes: the result 0x42, or two increments per iteration.
Result(img, vm) ==
  /\ img = TestTargetImage => vm.mem.cells["stack"] = 66
  /\ \A n \in Iterations : img = TargetAppImage(n) =>
       vm.regs["rax"] = 2 * n /\ vm.mem.cells["image"] = 2 * n

(* The repository's payloads halt with the result their source computes, in  *)
(* the recording and in a confirmed replay: test_target with 0x42 as its     *)
(* result (its check of the injected RDTSC and CPUID answers succeeds),      *)
(* target_app with two increments of COUNTER per iteration in memory and in  *)
(* RAX, none of them lost at a yield.                                        *)
PayloadsHaltAsExpected ==
  /\ recPc = "saved" => Result(image, recVm)
  /\ repPc = "verified" /\ finalRun = "ok" => Result(image, RepVm)
=============================================================================
