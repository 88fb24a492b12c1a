--------------------------- MODULE AtomicCheckpoint ---------------------------
(***************************************************************************)
(* What saving and resuming promise: a job that has one checkpoint, and    *)
(* replaces it as a whole.  A checkpoint is the step it was taken at and   *)
(* the launches its parts come from.  A save withdraws the checkpoint and  *)
(* puts the new one in its place (latest_checkpointed_iteration.txt is     *)
(* overwritten where it is); between the two, and only there, a crash      *)
(* leaves none, and every later launch is refused.                         *)
(***************************************************************************)
EXTENDS Naturals

CONSTANTS
  TotalSteps,   (* total_training_steps                                     *)
  SaveFreq      (* trainer.save_freq                                        *)

VARIABLES
  status,       (* "down", "running" or "done"                              *)
  launch,       (* how many times the job was launched                      *)
  step,         (* the last training step of the job                        *)
  kept          (* the checkpoint                                           *)

vars == <<status, launch, step, kept>>

Checkpoint(s, launches) == [there |-> TRUE, step |-> s, from |-> launches]

\* Nothing was saved yet; the checkpoint is withdrawn.
Empty == Checkpoint(0, {})
Withdrawn == [there |-> FALSE, step |-> 0, from |-> {}]

Init ==
  /\ status = "down"
  /\ launch = 0
  /\ step = 0
  /\ kept = Empty

\* A step, unless the save of an earlier one is due, or all are done.
Train ==
  /\ status = "running"
  /\ kept.there
  /\ step < kept.step + SaveFreq
  /\ step < TotalSteps \/ step = kept.step
  /\ step' = step + 1
  /\ UNCHANGED <<status, launch, kept>>

Withdraw ==
  /\ status = "running"
  /\ kept.there /\ kept.step < step
  /\ kept' = Withdrawn
  /\ UNCHANGED <<status, launch, step>>

\* All parts of the new checkpoint are of this launch.
Commit ==
  /\ status = "running"
  /\ ~kept.there
  /\ kept' = Checkpoint(step, {launch})
  /\ status' = IF step < TotalSteps THEN "running" ELSE "done"
  /\ UNCHANGED <<launch, step>>

Crash ==
  /\ status = "running"
  /\ status' = "down"
  /\ UNCHANGED <<launch, step, kept>>

Launch ==
  /\ status # "running"
  /\ kept.there
  /\ status' = "running"
  /\ launch' = launch + 1
  /\ step' = kept.step
  /\ UNCHANGED kept

Refused ==
  /\ status # "running"
  /\ ~kept.there
  /\ status' = "down"
  /\ launch' = launch + 1
  /\ UNCHANGED <<step, kept>>

Next == Train \/ Withdraw \/ Commit \/ Crash \/ Launch \/ Refused

Spec == Init /\ [][Next]_vars
===============================================================================
