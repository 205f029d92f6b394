--------------------------- MODULE FaithfulReplay ---------------------------
(***************************************************************************)
(* What Vestigium promises, without traces, exits or registers: a run of    *)
(* the guest is recorded and sealed; a replay then shows the guest in       *)
(* exactly the recorded states, one after another, and confirms             *)
(* determinism only after showing the last one.  A replay may be aborted by *)
(* an error, and is never refuted.                                          *)
(***************************************************************************)
EXTENDS Naturals, Sequences

VARIABLES
  run,      \* the guest states of the recorded execution
  sealed,   \* the recording is on disk
  shown,    \* number of recorded states the replay has gone through
  current,  \* <<the state the replayed guest is in>>, or <<>> before it starts
  outcome   \* "none", "confirmed" or "aborted"

vars == <<run, sealed, shown, current, outcome>>

Init ==
  /\ run = <<>> /\ sealed = FALSE
  /\ shown = 0 /\ current = <<>>
  /\ outcome = "none"

Record ==
  /\ ~sealed
  /\ Len(run') = Len(run) + 1
  /\ SubSeq(run', 1, Len(run)) = run
  /\ UNCHANGED <<sealed, shown, current, outcome>>

Seal ==
  /\ ~sealed /\ run # <<>>
  /\ sealed' = TRUE
  /\ UNCHANGED <<run, shown, current, outcome>>

Show ==
  /\ sealed /\ outcome = "none" /\ shown < Len(run)
  /\ shown' = shown + 1
  /\ current' = <<run[shown + 1]>>
  /\ UNCHANGED <<run, sealed, outcome>>

Confirm ==
  /\ sealed /\ outcome = "none" /\ shown = Len(run)
  /\ outcome' = "confirmed"
  /\ UNCHANGED <<run, sealed, shown, current>>

Abort ==
  /\ outcome = "none"
  /\ outcome' = "aborted"
  /\ UNCHANGED <<run, sealed, shown, current>>

Next == Record \/ Seal \/ Show \/ Confirm \/ Abort

Spec == Init /\ [][Next]_vars
=============================================================================
