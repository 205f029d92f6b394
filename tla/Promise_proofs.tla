--------------------------- MODULE Promise_proofs ---------------------------
(***************************************************************************)
(* RecordReplay implements FaithfulReplay, for every set of target binaries *)
(* and every guest that draws no unrecorded random number.                  *)
(***************************************************************************)
EXTENDS RecordReplay_proofs, SequenceTheorems

-----------------------------------------------------------------------------
(* The refinement mapping. *)

\* What the mapping gives for `run`, `shown` and `outcome`.
RunOf(p) == [k \in DOMAIN p |-> p[k].vm]

ShownOf(loaded, steps) == IF loaded THEN steps + 1 ELSE 0

OutcomeOf(pc, final) ==
  CASE pc = "verified" /\ final = "ok" -> "confirmed"
    [] pc = "failed"   /\ final = "ok" -> "refuted"
    [] pc = "panicked" \/ final = "err" -> "aborted"
    [] OTHER -> "none"

(* The outcome as a function of where `cli replay` is. *)
LEMMA OutcomeCases ==
  ASSUME NEW pc, NEW final
  PROVE  /\ final = "none" /\ pc # "panicked" => OutcomeOf(pc, final) = "none"
         /\ pc \notin {"verified", "failed", "panicked"} /\ final # "err" =>
              OutcomeOf(pc, final) = "none"
         /\ pc = "verified" /\ final = "ok" => OutcomeOf(pc, final) = "confirmed"
         /\ pc = "panicked" \/ final = "err" => OutcomeOf(pc, final) = "aborted"
  BY DEF OutcomeOf

(* The recorded run as a sequence of machines. *)
LEMMA RunOfType ==
  ASSUME NEW p \in Seq(PathState)
  PROVE  /\ RunOf(p) \in Seq(Vm) /\ Len(RunOf(p)) = Len(p) /\ Len(p) \in Nat
         /\ \A k \in 1..Len(p) : RunOf(p)[k] = p[k].vm
<1>1. DOMAIN p = 1..Len(p) /\ Len(p) \in Nat
  OBVIOUS
<1>2. \A k \in 1..Len(p) : p[k].vm \in Vm
  <2>1. \A k \in 1..Len(p) : p[k] \in PathState
    OBVIOUS
  <2> QED
    BY <2>1 DEF PathState
<1>3. RunOf(p) = [k \in 1..Len(p) |-> p[k].vm]
  BY <1>1 DEF RunOf
<1>4. RunOf(p) \in [1..Len(p) -> Vm]
  BY <1>2, <1>3
<1>5. RunOf(p) \in Seq(Vm)
  BY <1>1, <1>4
<1>6. DOMAIN RunOf(p) = 1..Len(p)
  BY <1>3
<1>7. Len(RunOf(p)) = Len(p)
  BY <1>1, <1>5, <1>6
<1> QED
  BY <1>1, <1>3, <1>5, <1>7

(* A path that grows by one state extends the run by one machine. *)
LEMMA RunOfGrows ==
  ASSUME NEW p \in Seq(PathState), NEW q \in Seq(PathState),
         Len(q) = Len(p) + 1, \A k \in 1..Len(p) : q[k] = p[k]
  PROVE  /\ Len(RunOf(q)) = Len(RunOf(p)) + 1
         /\ SubSeq(RunOf(q), 1, Len(RunOf(p))) = RunOf(p)
<1> DEFINE a == RunOf(p)
           b == RunOf(q)
           s == SubSeq(b, 1, Len(a))
<1>1. a \in Seq(Vm) /\ Len(a) = Len(p) /\ Len(p) \in Nat /\ b \in Seq(Vm) /\ Len(b) = Len(q)
  BY RunOfType
<1>2. \A k \in 1..Len(p) : a[k] = p[k].vm /\ b[k] = q[k].vm
  BY <1>1, RunOfType
<1> HIDE DEF a, b
<1>3. \A k \in 1..Len(a) : a[k] = b[k]
  BY <1>1, <1>2
<1>4. s \in Seq(Vm) /\ Len(s) = Len(a) /\ \A k \in 1..Len(a) : s[k] = b[k]
  BY <1>1, SubSeqProperties
<1> HIDE DEF s
<1>5. s = a
  BY <1>1, <1>3, <1>4, SeqEqual
<1> QED
  BY <1>1, <1>5 DEF a, b, s

-----------------------------------------------------------------------------
(* One lemma per way a step can look from FaithfulReplay. *)

(* The mapping, in this state and the next. *)
LEMMA MappingIs ==
  /\ Outcome = OutcomeOf(repPc, finalRun)
  /\ Outcome' = OutcomeOf(repPc', finalRun')
  BY DEF Outcome, OutcomeOf

\* The part of the mapping that depends on the recording stays.
SameRecording == UNCHANGED <<path, recPc>>

\* The part that depends on the replay stays.
SameReplay == UNCHANGED <<RepVm, Loaded, repSteps, Outcome>>

(* A step that changes nothing the promise talks about. *)
LEMMA StutterStep ==
  ASSUME SameRecording, SameReplay
  PROVE  UNCHANGED Promise!vars
  BY DEF SameRecording, SameReplay, Promise!vars

(* The initial states. *)
LEMMA PromiseInit == Init => Promise!Init
<1> SUFFICES ASSUME Init PROVE Promise!Init
  OBVIOUS
<1>1. path = <<>> /\ recPc = "idle" /\ repPc = "idle" /\ finalRun = "none"
  BY DEF Init, RecordInit, ReplayInit
<1>2. ~Loaded
  BY NoArchiveType DEF Init, ReplayInit, Loaded
<1>3. Outcome = "none"
  BY <1>1, MappingIs, OutcomeCases
<1>4. [k \in DOMAIN path |-> path[k].vm] = <<>>
  BY <1>1
<1> QED
  BY <1>1, <1>2, <1>3, <1>4 DEF Promise!Init

(* The recording appends a state: Record. *)
LEMMA RecordedStep ==
  ASSUME path \in Seq(PathState), path' \in Seq(PathState), Len(path') = Len(path) + 1,
         \A k \in 1..Len(path) : path'[k] = path[k],
         recPc # "saved", recPc' # "saved", SameReplay
  PROVE  Promise!Record
<1>1. /\ Len(RunOf(path')) = Len(RunOf(path)) + 1
      /\ SubSeq(RunOf(path'), 1, Len(RunOf(path))) = RunOf(path)
  BY RunOfGrows
<1> QED
  BY <1>1 DEF Promise!Record, SameReplay, RunOf

(* The last word of the archive is written: Seal. *)
LEMMA SealedStep ==
  ASSUME path \in Seq(PathState), path # <<>>, UNCHANGED path,
         recPc # "saved", recPc' = "saved", SameReplay
  PROVE  Promise!Seal
<1>1. RunOf(path) # <<>>
  BY RunOfType
<1> QED
  BY <1>1 DEF Promise!Seal, SameReplay, RunOf

(* The replayed guest enters the next recorded state: Show. *)
LEMMA ShownStep ==
  ASSUME SameRecording, recPc = "saved", path \in Seq(PathState),
         NEW n \in Nat, ShownOf(Loaded, repSteps) = n, n + 1 \in 1..Len(path),
         Loaded', repSteps' = n, path[n + 1].vm = RepVm',
         Outcome = "none", Outcome' = "none"
  PROVE  Promise!Show
<1>1. RunOf(path)[n + 1] = RepVm' /\ n < Len(RunOf(path))
  BY RunOfType
<1> QED
  BY <1>1 DEF Promise!Show, SameRecording, RunOf, ShownOf

(* The verdict after the last recorded state: Confirm. *)
LEMMA ConfirmedStep ==
  ASSUME SameRecording, recPc = "saved", path \in Seq(PathState),
         UNCHANGED <<RepVm, Loaded, repSteps>>, Loaded, repSteps + 1 = Len(path),
         Outcome = "none", Outcome' = "confirmed"
  PROVE  Promise!Confirm
<1>1. Len(RunOf(path)) = Len(path)
  BY RunOfType
<1> QED
  BY <1>1 DEF Promise!Confirm, SameRecording, RunOf

(* The replay dies or its last run fails: Abort. *)
LEMMA AbortedStep ==
  ASSUME SameRecording, UNCHANGED <<RepVm, Loaded, repSteps>>,
         Outcome = "none", Outcome' = "aborted"
  PROVE  Promise!Abort
  BY DEF Promise!Abort, SameRecording

-----------------------------------------------------------------------------
(* The steps of the two processes. *)

(* Every step of `cli record` is Record, Seal or a stutter. *)
LEMMA RecordSimulates ==
  ASSUME IInv, IInv', RecordNext, UNCHANGED replayVars
  PROVE  [Promise!Next]_(Promise!vars)
<1>1. SameReplay
  BY DEF SameReplay, replayVars, RepVm, Loaded, Outcome
<1>2. path' \in Seq(PathState)
  BY DEF IInv, RecordInv, RecordTypeOK, PathState
<1> RecordInv
  BY DEF IInv
<1>3. CASE Len(path') = Len(path) + 1 /\ recPc' # "saved"
           /\ \A k \in 1..Len(path) : path'[k] = path[k]
  BY <1>1, <1>2, <1>3, RecordNextPath, RecordedStep DEF Promise!Next
<1>4. CASE UNCHANGED path /\ path # <<>> /\ recPc' = "saved"
  BY <1>1, <1>4, RecordNextPath, SealedStep DEF Promise!Next
<1>5. CASE UNCHANGED path /\ recPc' # "saved"
  <2>1. recPc # "saved"
    BY RecordNextPath
  <2> QED
    BY <1>1, <1>5, <2>1 DEF SameReplay, Promise!vars
<1> QED
  BY <1>3, <1>4, <1>5, RecordNextPath

(* What a step of `cli replay` leaves alone, and what is known of its run. *)
LEMMA ReplayKnows ==
  ASSUME IInv, IInv', Det, UNCHANGED recordVars
  PROVE  /\ SameRecording /\ path \in Seq(PathState)
         /\ Loaded => recPc = "saved" /\ ShownOf(Loaded, repSteps) = repSteps + 1
         /\ Loaded' => /\ recPc = "saved" /\ repSteps' \in Nat
                       /\ repSteps' + 1 \in 1..Len(path)
                       /\ path[repSteps' + 1].vm = RepVm'
<1>1. SameRecording /\ Det' /\ UNCHANGED path /\ UNCHANGED recPc
  BY RecordVarsUnchanged DEF SameRecording
<1>2. path \in Seq(PathState)
  BY DEF IInv, RecordInv, RecordTypeOK, PathState
<1>3. Loaded => recPc = "saved"
  BY DEF IInv, ReplayInv, LoadedOK
<1>4. ASSUME Loaded'
      PROVE  /\ recPc = "saved" /\ repSteps' \in Nat
             /\ repSteps' + 1 \in 1..Len(path) /\ path[repSteps' + 1].vm = RepVm'
  <2>1. recPc' = "saved"
    BY <1>4 DEF IInv, ReplayInv, LoadedOK
  <2>2. /\ repSteps' + 1 \in DOMAIN path
        /\ path[repSteps' + 1] = [vm |-> RepVm', logged |-> next' - 1]
    BY <1>1, <1>4 DEF IInv, ReplayInv, Lockstep
  <2>3. repSteps' \in Nat
    BY DEF IInv, ReplayInv, ReplayTypeOK
  <2>4. DOMAIN path = 1..Len(path)
    BY <1>2
  <2>5. path[repSteps' + 1].vm = RepVm'
    BY <2>2
  <2> QED
    BY <1>1, <2>1, <2>2, <2>3, <2>4, <2>5
<1> QED
  BY <1>1, <1>2, <1>3, <1>4 DEF ShownOf

(* A step that moves the replayed guest is Show. *)
LEMMA MovesSimulate ==
  ASSUME IInv, IInv', Det, UNCHANGED recordVars, UNCHANGED finalRun,
         repPc \in {"running", "exit"}, repPc' \in {"running", "exit"},
         NEW vm, MoveTo(vm)
  PROVE  Promise!Show
<1>1. Loaded /\ Loaded' /\ finalRun = "none"
  BY DEF IInv, ReplayInv, ReplayPhase
<1>2. Outcome = "none" /\ Outcome' = "none"
  BY <1>1, MappingIs, OutcomeCases
<1>3. repSteps' = repSteps + 1
  BY DEF MoveTo
<1> QED
  BY <1>1, <1>2, <1>3, ReplayKnows, ShownStep

(* Every step of `cli replay` is Show, Confirm, Abort or a stutter. *)
LEMMA ReplaySimulates ==
  ASSUME IInv, IInv', Det, ReplayNext, UNCHANGED recordVars
  PROVE  [Promise!Next]_(Promise!vars)
<1> USE DEF Promise!Next
<1>1. SameRecording /\ path \in Seq(PathState)
  BY ReplayKnows
<1>2. CASE ReplayLoad
  <2>1. /\ repPc = "idle" /\ repPc' = "running" /\ UNCHANGED <<repSteps, finalRun>>
    BY <1>2 DEF ReplayLoad
  <2>2. ~Loaded /\ repSteps = 0 /\ finalRun = "none" /\ Loaded'
    BY <2>1 DEF IInv, ReplayInv, ReplayPhase
  <2>3. Outcome = "none" /\ Outcome' = "none"
    BY <2>1, <2>2, MappingIs, OutcomeCases
  <2>4. ShownOf(Loaded, repSteps) = 0
    BY <2>2 DEF ShownOf
  <2> QED
    BY <1>1, <2>1, <2>2, <2>3, <2>4, ReplayKnows, ShownStep
<1>3. CASE ReplayStep
  BY <1>3, MovesSimulate DEF ReplayStep
<1>4. CASE ReplayCpuid \/ ReplayRdtsc \/ ReplayCallout
  <2>1. repPc = "exit" /\ \E n : InjectAndResume(n)
    BY <1>4 DEF ReplayCpuid, ReplayRdtsc, ReplayCallout
  <2> QED
    BY <2>1, MovesSimulate DEF InjectAndResume
<1>5. CASE ReplayExit /\ Reason(RepVm) = Halt
  BY <1>5, MovesSimulate DEF ReplayExit
<1>6. CASE \/ ReplayExit /\ Reason(RepVm) # Halt
           \/ ReplayMismatch \/ ReplayRetry \/ ReplayStop \/ FinalExit
  <2>1. /\ repPc \in {"running", "exit"} /\ repPc' \in {"running", "exit", "verify"}
        /\ finalRun' \in {finalRun, "ok"} /\ UNCHANGED <<repRegs, repSnapshot, repSteps>>
    BY <1>6 DEF ReplayExit, ReplayMismatch, ReplayRetry, ReplayStop, SkipEvent, FinalExit
  <2>2. finalRun = "none"
    BY <2>1 DEF IInv, ReplayInv, ReplayPhase
  <2>3. Outcome = "none" /\ Outcome' = "none"
    BY <2>1, <2>2, MappingIs, OutcomeCases
  <2> QED
    BY <1>1, <2>1, <2>3, StutterStep DEF SameReplay, RepVm, Loaded
<1>7. CASE ReplayLoadFails \/ ReplayPanic \/ FinalError
  <2>1. /\ repPc \in {"idle", "running", "exit", "verify"}
        /\ repPc' = "panicked" \/ finalRun' = "err"
        /\ UNCHANGED <<repRegs, repSnapshot, repSteps>>
    BY <1>7 DEF ReplayLoadFails, ReplayPanic, FinalError
  <2>2. Outcome \in {"none", "aborted"} /\ Outcome' = "aborted"
    BY <2>1, MappingIs, OutcomeCases
  <2>3. UNCHANGED <<RepVm, Loaded, repSteps>>
    BY <2>1 DEF RepVm, Loaded
  <2>4. CASE Outcome = "none"
    BY <1>1, <2>2, <2>3, <2>4, AbortedStep
  <2>5. CASE Outcome = "aborted"
    BY <1>1, <2>2, <2>3, <2>5, StutterStep DEF SameReplay
  <2> QED
    BY <2>2, <2>4, <2>5
<1>8. CASE ReplayVerify
  <2>1. /\ repPc = "verify" /\ repPc' \in {"verified", "failed"}
        /\ UNCHANGED <<finalRun, repRegs, repSteps>>
        /\ repSnapshot' = capture_registers(repSnapshot, repRegs, Captured)
    BY <1>8 DEF ReplayVerify
  <2>2. Loaded /\ Loaded'
    BY <2>1 DEF IInv, ReplayInv, ReplayPhase
  <2>3. repSnapshot'.memory_regions = repSnapshot.memory_regions
    BY <2>1 DEF capture_registers, IInv, ReplayInv, ReplayTypeOK, Snapshot
  <2>4. UNCHANGED <<RepVm, Loaded, repSteps>>
    BY <2>1, <2>2, <2>3 DEF RepVm
  <2>5. CASE finalRun = "ok"
    <3>1. repPc' # "failed" /\ repSteps + 1 = Len(path)
      BY <2>1, <2>5, RecordVarsUnchanged DEF IInv, ReplayInv, ReplayExitOK
    <3>2. Outcome = "none" /\ Outcome' = "confirmed"
      BY <2>1, <2>5, <3>1, MappingIs, OutcomeCases
    <3> QED
      BY <1>1, <2>2, <2>4, <3>1, <3>2, ReplayKnows, ConfirmedStep
  <2>6. CASE finalRun # "ok"
    <3>1. finalRun \in {"none", "err"}
      BY <2>6 DEF IInv, ReplayInv, ReplayTypeOK
    <3>2. UNCHANGED Outcome
      BY <2>1, <3>1, MappingIs, OutcomeCases
    <3> QED
      BY <1>1, <2>4, <3>2, StutterStep DEF SameReplay
  <2> QED
    BY <2>5, <2>6
<1> QED
  BY <1>2, <1>3, <1>4, <1>5, <1>6, <1>7, <1>8 DEF ReplayNext, ReplayProgress

(* Recording and replaying a guest that draws no unrecorded random number    *)
(* implements FaithfulReplay: the replay shows exactly the recorded states,  *)
(* in order, confirms only after the last one and is never refuted.          *)
THEOREM PromiseKept == Spec /\ Det => KeepsPromise
<1>1. Init => Promise!Init
  BY PromiseInit
<1>2. Det /\ [Next]_vars => Det'
  <2>1. RecordNext => UNCHANGED image
    BY DEF RecordNext, RecordStart, RecordStep, RecordExit, RecordCpuid, RecordRdtsc,
           RecordCallout, LogAndResume, RecordStop, RecordFinish, RecordWrite, RecordPanic
  <2> QED
    BY <2>1 DEF Next, Record, Replay, vars, recordVars, Det
<1>3. IInv /\ IInv' /\ Det /\ [Next]_vars => [Promise!Next]_(Promise!vars)
  <2> SUFFICES ASSUME IInv, IInv', Det, [Next]_vars
               PROVE  [Promise!Next]_(Promise!vars)
    OBVIOUS
  <2>1. CASE Record
    BY <2>1, RecordSimulates DEF Record
  <2>2. CASE Replay
    BY <2>2, ReplaySimulates DEF Replay
  <2>3. CASE UNCHANGED vars
    <3>1. SameRecording /\ SameReplay
      BY <2>3 DEF vars, recordVars, replayVars, SameRecording, SameReplay, RepVm, Loaded, Outcome
    <3> QED
      BY <3>1, StutterStep
  <2> QED
    BY <2>1, <2>2, <2>3 DEF Next
<1> QED
  BY <1>1, <1>2, <1>3, Invariance, PTL DEF Spec, KeepsPromise, Promise!Spec
=============================================================================
