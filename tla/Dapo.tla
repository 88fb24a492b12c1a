--------------------------------- MODULE Dapo ---------------------------------
(***************************************************************************)
(* The DAPO driver (RayDAPOTrainer.fit).  A training step may need several *)
(* batches of the data loader: prompts whose responses all score the same  *)
(* are filtered out, and the trainer keeps generating until enough groups  *)
(* are left.  The groups, the two counters that go with them and the data  *)
(* loader's position live in different places, and a crash, the end of an  *)
(* epoch or the end of the data may fall between any two generations.      *)
(*                                                                         *)
(* A group (one prompt and its responses) is the number of the draw it     *)
(* comes from and the policy that generated it; a policy is the number of  *)
(* updates behind it.  A checkpoint is written in one step (Checkpoint     *)
(* takes it apart).                                                        *)
(***************************************************************************)
EXTENDS Integers, Sequences

CONSTANTS
  BatchesPerEpoch,  (* len(train_dataloader)                                *)
  Epochs,           (* total_epochs                                         *)
  TotalSteps,       (* total_training_steps                                 *)
  GenSize,          (* gen_batch_size                                       *)
  PromptSize,       (* train_batch_size                                     *)
  MaxGenBatches,    (* max_num_gen_batches, 0 for no limit                  *)
  SaveFreq,         (* trainer.save_freq, positive                          *)
  MaxLaunches       (* bound: how often the job is launched                 *)

ASSUME DapoAssumption ==
  /\ BatchesPerEpoch \in Nat \ {0}
  /\ Epochs \in Nat \ {0}
  /\ TotalSteps \in Nat \ {0}
  /\ GenSize \in Nat \ {0}
  /\ PromptSize \in Nat \ {0}
  /\ MaxGenBatches \in Nat
  /\ SaveFreq \in Nat \ {0}
  /\ MaxLaunches \in Nat \ {0}

VARIABLES
  filter,      (* filter_groups.enable                                      *)
  status,      (* what the job does                                         *)
  launch,      (* how many times the job was launched                       *)
  epoch,       (* epochs the running loop has been through                  *)
  loader,      (* the data loader: passes over the data, batches of this one *)
  batch,       (* the groups kept since the last update                     *)
  numPrompt,   (* num_prompt_in_batch                                       *)
  numGen,      (* num_gen_batches                                           *)
  globalSteps, (* global_steps: the step being worked on                    *)
  policy,      (* updates behind the weights                                *)
  seen,        (* draws behind the weights, used or filtered out            *)
  folders,     (* steps whose global_step_N directory exists                *)
  disk         (* the checkpoint the tracker names                          *)

accumulated == <<batch, numPrompt, numGen>>
vars == <<filter, status, launch, epoch, loader, accumulated, globalSteps, policy, seen,
          folders, disk>>

-----------------------------------------------------------------------------
MaxDraws == BatchesPerEpoch * Epochs * MaxLaunches

Groups == [draw : 1..MaxDraws, policy : 0..MaxDraws]

Loaders == [pass : 0..(Epochs * MaxLaunches), pos : 0..BatchesPerEpoch]

\* step is 0 if nothing was saved yet.
Checkpoints == [step : 0..TotalSteps, policy : 0..MaxDraws, loader : Loaders,
                seen : 0..MaxDraws]

TypeOK ==
  /\ filter \in BOOLEAN
  /\ status \in {"down", "running", "raised", "done"}
  /\ launch \in 0..MaxLaunches
  /\ epoch \in 0..Epochs
  /\ loader \in Loaders
  /\ batch \in Seq(Groups)
  /\ numPrompt \in 0..(GenSize * MaxDraws)
  /\ numGen \in 0..MaxDraws
  /\ globalSteps \in 0..TotalSteps
  /\ policy \in 0..MaxDraws
  /\ seen \in 0..MaxDraws
  /\ folders \subseteq 1..TotalSteps
  /\ disk \in Checkpoints

Init ==
  /\ filter \in BOOLEAN
  /\ status = "down"
  /\ launch = 0
  /\ epoch = 0
  /\ loader = [pass |-> 0, pos |-> 0]
  /\ batch = << >>
  /\ numPrompt = 0
  /\ numGen = 0
  /\ globalSteps = 0
  /\ policy = 0
  /\ seen = 0
  /\ folders = {}
  /\ disk = [step |-> 0, policy |-> 0, loader |-> loader, seen |-> 0]

\* How many batches the loader has handed out since the very first pass.
Drawn(where) == where.pass * BatchesPerEpoch + where.pos

-----------------------------------------------------------------------------
(* Checkpoints.                                                             *)

\* Mutant: off by one.
LastStepLate == globalSteps > TotalSteps

IsLastStep == globalSteps >= TotalSteps

\* Mutant: the last step is saved only if it is a multiple.
SavesMultiples == globalSteps % SaveFreq = 0

Saves == IsLastStep \/ globalSteps % SaveFreq = 0

\* A save in global_step_N, and the same save cut short by a crash.
Save ==
  /\ folders' = folders \cup {globalSteps}
  /\ disk' = [step |-> globalSteps, policy |-> policy', loader |-> loader', seen |-> seen']

TornSave ==
  /\ folders' = folders \cup {globalSteps}
  /\ status' = "down"
  /\ UNCHANGED disk

\* Mutant: data.pt is missing, which _load_checkpoint only warns about.
StartsOver(ckpt) == [pass |-> 0, pos |-> 0]

\* The loader goes on after the last batch it handed out.
Resumed(ckpt) == ckpt.loader

-----------------------------------------------------------------------------
(* One iteration of the inner loop.                                         *)

\* The groups a draw may keep: those whose responses do not all score the same.
Kept ==
  {[i \in 1..n |-> [draw |-> Drawn(loader) + 1, policy |-> policy]] :
     n \in IF filter THEN 0..GenSize ELSE {GenSize}}

\* Mutant: every generated prompt counts.
CountsGenerated(kept) == numPrompt + GenSize

PromptsWith(kept) == numPrompt + Len(kept)

Enough(kept) == filter => PromptsWith(kept) >= PromptSize

\* The batch a step trains on: batch[:traj_bsz] of the groups so far.
StepBatch(kept) ==
  IF filter THEN SubSeq(batch \o kept, 1, PromptSize) ELSE kept

\* Mutant: groups beyond the aligned batch wait for the next step.
KeepsLeftover(kept) ==
  LET all == batch \o kept IN SubSeq(all, PromptSize + 1, Len(all))

\* batch = None: groups beyond the aligned batch are dropped.
NextBatch(kept) == << >>

Draw ==
  /\ status = "running"
  /\ epoch < Epochs
  /\ loader.pos < BatchesPerEpoch
  /\ loader' = [loader EXCEPT !.pos = @ + 1]

GenerateMore(kept) ==
  /\ Draw
  /\ ~Enough(kept)
  /\ MaxGenBatches = 0 \/ numGen + 1 < MaxGenBatches
  /\ batch' = batch \o kept
  /\ numPrompt' = PromptsWith(kept)
  /\ numGen' = numGen + 1
  /\ UNCHANGED <<filter, status, launch, epoch, globalSteps, policy, seen, folders, disk>>

\* "Generated too many. Please check if your data are too difficult."
TooMany(kept) ==
  /\ Draw
  /\ ~Enough(kept)
  /\ MaxGenBatches # 0 /\ numGen + 1 >= MaxGenBatches
  /\ status' = "raised"
  /\ UNCHANGED <<filter, launch, epoch, accumulated, globalSteps, policy, seen, folders, disk>>

\* The update; the batch and its counters start over.
Train(kept) ==
  /\ Draw
  /\ Enough(kept)
  /\ policy' = policy + 1
  /\ seen' = Drawn(loader')
  /\ batch' = NextBatch(kept)
  /\ numPrompt' = 0
  /\ numGen' = 0
  /\ UNCHANGED <<filter, launch, epoch>>

Step(kept) ==
  /\ Train(kept)
  /\ IF Saves THEN Save ELSE UNCHANGED <<folders, disk>>
  /\ status' = IF IsLastStep THEN "done" ELSE status
  /\ globalSteps' = IF IsLastStep THEN globalSteps ELSE globalSteps + 1

StepDies(kept) ==
  /\ Train(kept)
  /\ Saves
  /\ TornSave
  /\ UNCHANGED globalSteps

-----------------------------------------------------------------------------
(* The outer loop, and launches.                                            *)

EndEpoch ==
  /\ status = "running"
  /\ epoch < Epochs
  /\ loader.pos = BatchesPerEpoch
  /\ epoch' = epoch + 1
  /\ loader' = [pass |-> loader.pass + 1, pos |-> 0]
  /\ UNCHANGED <<filter, status, launch, accumulated, globalSteps, policy, seen, folders, disk>>

\* The data ran out before the last step: "check if last step checkpint exists".
FolderMissing == globalSteps \notin folders

Exhausted ==
  /\ status = "running"
  /\ epoch = Epochs
  /\ UNCHANGED <<filter, launch, epoch, loader, accumulated, globalSteps, policy, seen>>

Finish ==
  /\ Exhausted
  /\ status' = "done"
  /\ IF FolderMissing THEN Save ELSE UNCHANGED <<folders, disk>>

FinishDies ==
  /\ Exhausted
  /\ FolderMissing
  /\ TornSave

Crash ==
  /\ status = "running"
  /\ status' = "down"
  /\ UNCHANGED <<filter, launch, epoch, loader, accumulated, globalSteps, policy, seen,
                 folders, disk>>

\* _load_checkpoint; the loop starts with empty variables and its first epoch.
Launch ==
  /\ status \in {"down", "raised"}
  /\ launch < MaxLaunches
  /\ launch' = launch + 1
  /\ status' = "running"
  /\ epoch' = 0
  /\ loader' = Resumed(disk)
  /\ batch' = << >>
  /\ numPrompt' = 0
  /\ numGen' = 0
  /\ globalSteps' = disk.step + 1
  /\ policy' = disk.policy
  /\ seen' = disk.seen
  /\ UNCHANGED <<filter, folders, disk>>

Ended ==
  /\ status = "done" \/ (status # "running" /\ launch = MaxLaunches)
  /\ UNCHANGED vars

Next ==
  \/ \E kept \in Kept :
       GenerateMore(kept) \/ TooMany(kept) \/ Step(kept) \/ StepDies(kept)
  \/ EndEpoch
  \/ Finish
  \/ FinishDies
  \/ Crash
  \/ Launch
  \/ Ended

Spec == Init /\ [][Next]_vars

-----------------------------------------------------------------------------
(* Properties.                                                              *)

\* Every batch of the data loader goes into one update of the surviving weights:
\* however many generations a step took, wherever an epoch ended and whatever a
\* crash undid, the draws behind the weights and those waiting for the next
\* update are all the loader has handed out, each once.
DrawnOnce == status = "running" => Drawn(loader) = seen + numGen

\* No update trains on a group of an older policy, although a batch is gathered
\* over several generations and the last one usually leaves groups over.
OnPolicy ==
  [][\A kept \in Kept :
       Train(kept) => \A i \in DOMAIN StepBatch(kept) : StepBatch(kept)[i].policy = policy]_vars

\* An update with the filter trains on train_batch_size groups, neither fewer
\* nor more ("until there are enough qualified groups for train_batch_size").
FullBatches ==
  [][\A kept \in Kept :
       Train(kept) /\ filter => Len(batch \o kept) >= PromptSize]_vars

\* A job that ends has saved its last update, except where an interrupted save
\* left the directory of that step behind.
EndIsSaved ==
  status = "done" =>
    disk.policy = policy \/ (globalSteps \in folders /\ disk.step # globalSteps)

=============================================================================
