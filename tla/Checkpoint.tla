------------------------------ MODULE Checkpoint ------------------------------
(***************************************************************************)
(* Saving, rotating and resuming checkpoints of a PPO job.                 *)
(*                                                                         *)
(* The driver (RayPPOTrainer.fit, _save_checkpoint, _load_checkpoint) asks *)
(* the actor's and then the critic's FSDP worker group to save; every rank *)
(* of a group writes its own shard between two collective barriers while   *)
(* rank 0 alone rotates old checkpoints away.  The driver then writes the  *)
(* data loader's state and the tracker file that names the checkpoint to   *)
(* resume from.  The process may die between any two of these steps and be *)
(* launched again; the disk survives, the managers' memory does not.       *)
(***************************************************************************)
EXTENDS Integers, Sequences, FiniteSets

CONSTANTS
  Ranks,          (* ranks of a worker group                                *)
  Rank0,          (* the rank that rotates and records saved paths          *)
  UseCritic,      (* use_critic: a critic group saves after the actor       *)
  UseAlpha,       (* the actor runs Alpha-Stabler: one more file per rank   *)
  TotalSteps,     (* total_training_steps                                   *)
  SaveFreq,       (* trainer.save_freq, positive                            *)
  MaxActorKeep,   (* max_actor_ckpt_to_keep, 0 for null                     *)
  MaxCriticKeep,  (* max_critic_ckpt_to_keep, 0 for null                    *)
  ResumeModes,    (* trainer.resume_mode values a launch may be given       *)
  MaxLaunches     (* bound: how often the job is launched                   *)

ASSUME CheckpointAssumption ==
  /\ IsFiniteSet(Ranks)
  /\ Rank0 \in Ranks
  /\ UseCritic \in BOOLEAN
  /\ UseAlpha \in BOOLEAN
  /\ TotalSteps \in Nat \ {0}
  /\ SaveFreq \in Nat \ {0}
  /\ MaxActorKeep \in Nat
  /\ MaxCriticKeep \in Nat
  /\ ResumeModes \subseteq {"auto", "disable", "resume_path"}
  /\ MaxLaunches \in Nat \ {0}

VARIABLES
  file,      (* content of every per-rank file: file[kind][step][rank]      *)
  folders,   (* steps whose global_step_N directory exists                  *)
  data,      (* content of global_step_N/data.pt                            *)
  tracker,   (* latest_checkpointed_iteration.txt                           *)
  launch,    (* how many times the job was launched                         *)
  phase,     (* where the driver is                                         *)
  step,      (* global_steps of the last training step done (or resumed)    *)
  saved,     (* rank 0's previous_saved_paths, per worker group             *)
  doomed,    (* paths rank 0 is removing in the running save call           *)
  pc         (* where every rank is inside the running save call            *)

disk == <<file, folders, data, tracker>>
memory == <<saved, doomed, pc>>
vars == <<file, folders, data, tracker, launch, phase, step, saved, doomed, pc>>

-----------------------------------------------------------------------------
(* Files.  A file is absent, torn (opened or half removed when the process  *)
(* died) or holds what launch l wrote.                                      *)

Absent == 0
Torn == -1
Launches == 1..MaxLaunches
Content == {Absent, Torn} \cup Launches

\* A launch that resumes a finished job still runs one step past TotalSteps.
Steps == 1..(TotalSteps + MaxLaunches)

NoTracker == 0
Truncated == -1

Roles == {"actor"} \cup (IF UseCritic THEN {"critic"} ELSE {})

\* alpha_stabler_rank_N.pt lies in the actor's directory and goes with it.
Kinds == Roles \cup (IF UseAlpha THEN {"alpha"} ELSE {})
FilesOf(role) == IF role = "actor" THEN Kinds \ {"critic"} ELSE {"critic"}

Keep(role) == IF role = "actor" THEN MaxActorKeep ELSE MaxCriticKeep

Phases == {"down", "train", "actor", "critic", "data", "writing_data",
           "tracker", "writing_tracker", "done"}

Positions == {"idle", "rotate", "mkdir", "ready", "dump", "dumping", "dumped",
              "alpha", "writing_alpha", "saved"}

Idle == [r \in Ranks |-> "idle"]

TypeOK ==
  /\ file \in [Kinds -> [Steps -> [Ranks -> Content]]]
  /\ folders \in SUBSET Steps
  /\ data \in [Steps -> Content]
  /\ tracker \in {NoTracker, Truncated} \cup Steps
  /\ launch \in 0..MaxLaunches
  /\ phase \in Phases
  /\ step \in {0} \cup Steps
  /\ saved \in [Roles -> Seq(Steps)]
  /\ doomed \in SUBSET Steps
  /\ pc \in [Ranks -> Positions]

Init ==
  /\ file = [k \in Kinds |-> [s \in Steps |-> [r \in Ranks |-> Absent]]]
  /\ folders = {}
  /\ data = [s \in Steps |-> Absent]
  /\ tracker = NoTracker
  /\ launch = 0
  /\ phase = "down"
  /\ step = 0
  /\ saved = [role \in Roles |-> << >>]
  /\ doomed = {}
  /\ pc = Idle

-----------------------------------------------------------------------------
(* A training step, and the start of a save.                                *)

IsLastStep(s) == s >= TotalSteps

\* Paths that a save call of `role` removes first: with K checkpoints to keep
\* and len >= K recorded paths, the oldest len - K + 1 of them.
RemovesOneMore(role) == Len(saved[role]) - Keep(role) + 2
KeepStart(role) == Len(saved[role]) - Keep(role) + 1

RotatesLate(role) == Keep(role) > 0 /\ Len(saved[role]) > Keep(role)

Rotates(role) == Keep(role) > 0 /\ Len(saved[role]) >= Keep(role)

DoomedSteps(role) ==
  IF Rotates(role) THEN {saved[role][i] : i \in 1..KeepStart(role)} ELSE {}

\* The driver calls save_checkpoint of a group: rank 0 starts by rotating.
StartSave(role) ==
  /\ phase' = role
  /\ doomed' = DoomedSteps(role)
  /\ pc' = [r \in Ranks |-> IF r = Rank0 THEN "rotate" ELSE "mkdir"]

\* Where the loop goes after a step that saves nothing, or once it has saved.
NeverStops(s) == "train"

AfterStep(s) == IF IsLastStep(s) THEN "done" ELSE "train"

OnlyLastOrEsi(s, esi) == IsLastStep(s) \/ esi

MustSave(s, esi) == IsLastStep(s) \/ s % SaveFreq = 0 \/ esi

Train ==
  /\ phase = "train"
  /\ step' = step + 1
  /\ \E esi \in BOOLEAN :
       IF MustSave(step + 1, esi)
         THEN StartSave("actor")
         ELSE phase' = AfterStep(step + 1) /\ UNCHANGED <<doomed, pc>>
  /\ UNCHANGED <<disk, launch, saved>>

-----------------------------------------------------------------------------
(* One save call of a worker group.                                         *)

InGroup == phase \in Roles

At(r, here) == InGroup /\ pc[r] = here

\* Rank 0: rmtree removes the files of the old paths one by one.
RemoveOldFile(k, s, r) ==
  /\ At(Rank0, "rotate")
  /\ k \in FilesOf(phase) /\ s \in doomed
  /\ file[k][s][r] # Absent
  /\ file' = [file EXCEPT ![k][s][r] = Absent]
  /\ UNCHANGED <<folders, data, tracker, launch, phase, step, memory>>

Rotated(role) ==
  \A k \in FilesOf(role), s \in doomed, r \in Ranks : file[k][s][r] = Absent

\* previous_saved_paths = previous_saved_paths[keep_start:]
FinishRotation ==
  /\ At(Rank0, "rotate")
  /\ Rotated(phase)
  /\ saved' = IF Rotates(phase)
                THEN [saved EXCEPT ![phase] =
                        SubSeq(@, KeepStart(phase) + 1, Len(@))]
                ELSE saved
  /\ doomed' = {}
  /\ pc' = [pc EXCEPT ![Rank0] = "mkdir"]
  /\ UNCHANGED <<disk, launch, phase, step>>

Mkdir(r) ==
  /\ At(r, "mkdir")
  /\ folders' = folders \cup {step}
  /\ pc' = [pc EXCEPT ![r] = "ready"]
  /\ UNCHANGED <<file, data, tracker, launch, phase, step, saved, doomed>>

\* A collective: it completes once every rank has entered it.
Barrier(here, there) ==
  /\ InGroup
  /\ \A r \in Ranks : pc[r] = here
  /\ pc' = [r \in Ranks |-> there]

MkdirBarrier ==
  /\ Barrier("ready", "dump")
  /\ UNCHANGED <<disk, launch, phase, step, saved, doomed>>

\* torch.save of one file: torn from the moment it is opened until it closes.
BeginWrite(k, r, here, there) ==
  /\ At(r, here)
  /\ file' = [file EXCEPT ![k][step][r] = Torn]
  /\ pc' = [pc EXCEPT ![r] = there]
  /\ UNCHANGED <<folders, data, tracker, launch, phase, step, saved, doomed>>

FinishWrite(k, r, here, there) ==
  /\ At(r, here)
  /\ file' = [file EXCEPT ![k][step][r] = launch]
  /\ pc' = [pc EXCEPT ![r] = there]
  /\ UNCHANGED <<folders, data, tracker, launch, phase, step, saved, doomed>>

\* model, optimizer and extra shards of a rank (rank 0 adds its config files).
BeginDump(r) == BeginWrite(phase, r, "dump", "dumping")

\* Mutant: the last barrier is in the block of rank 0.
OnlyRank0Waits(r) ==
  FinishWrite(phase, r, "dumping",
              CASE r = Rank0 -> "dumped"
                [] r # Rank0 /\ phase = "actor" /\ UseAlpha -> "alpha"
                [] OTHER -> "saved")

FinishDump(r) == FinishWrite(phase, r, "dumping", "dumped")

\* The manager's last barrier; each rank then records the path it saved.
DumpBarrier ==
  /\ Barrier("dumped", IF phase = "actor" /\ UseAlpha THEN "alpha" ELSE "saved")
  /\ saved' = [saved EXCEPT ![phase] = Append(@, step)]
  /\ UNCHANGED <<disk, launch, phase, step, doomed>>

BeginAlpha(r) == BeginWrite("alpha", r, "alpha", "writing_alpha")
FinishAlpha(r) == FinishWrite("alpha", r, "writing_alpha", "saved")

\* The worker's own barrier; the blocking call returns to the driver, which
\* goes on to the critic or to its own files.
OvertakesSlowRanks ==
  /\ InGroup
  /\ \E r \in Ranks : pc[r] = "saved"
  /\ IF phase = "actor" /\ UseCritic
       THEN StartSave("critic")
       ELSE phase' = "data" /\ pc' = Idle /\ UNCHANGED doomed
  /\ UNCHANGED <<disk, launch, step, saved>>

ReturnBarrier ==
  /\ InGroup
  /\ \A r \in Ranks : pc[r] = "saved"
  /\ IF phase = "actor" /\ UseCritic
       THEN StartSave("critic")
       ELSE phase' = "data" /\ pc' = Idle /\ UNCHANGED doomed
  /\ UNCHANGED <<disk, launch, step, saved>>

-----------------------------------------------------------------------------
(* The driver's own files.                                                  *)

BeginData ==
  /\ phase = "data"
  /\ phase' = "writing_data"
  /\ folders' = folders \cup {step}
  /\ data' = [data EXCEPT ![step] = Torn]
  /\ UNCHANGED <<file, tracker, launch, step, memory>>

FinishData ==
  /\ phase = "writing_data"
  /\ phase' = "tracker"
  /\ data' = [data EXCEPT ![step] = launch]
  /\ UNCHANGED <<file, folders, tracker, launch, step, memory>>

\* open(tracker, "w") truncates the file that names the last checkpoint ...
OpenTracker ==
  /\ phase = "tracker"
  /\ phase' = "writing_tracker"
  /\ tracker' = Truncated
  /\ UNCHANGED <<file, folders, data, launch, step, memory>>

\* ... and its content arrives when the file is closed.
CloseTracker ==
  /\ phase = "writing_tracker"
  /\ tracker' = step
  /\ phase' = AfterStep(step)
  /\ UNCHANGED <<file, folders, data, launch, step, memory>>

-----------------------------------------------------------------------------
(* Crash and launch.                                                        *)

\* Any failure (a rank's exception reaches the driver) ends the whole job.
Crash ==
  /\ phase \notin {"down", "done"}
  /\ phase' = "down"
  /\ saved' = [role \in Roles |-> << >>]
  /\ doomed' = {}
  /\ pc' = Idle
  /\ UNCHANGED <<disk, launch, step>>

\* find_latest_ckpt_path: int("") raises on a truncated tracker.
TrackerReadable == tracker # Truncated

\* Mutant: the newest directory, whatever the tracker says.
NewestFolder ==
  IF folders = {} THEN 0 ELSE CHOOSE s \in folders : \A t \in folders : t <= s

LatestCheckpoint == IF tracker \in folders THEN tracker ELSE 0

\* load_checkpoint of a rank raises on a missing or torn file; a missing
\* data.pt is only warned about, a torn one raises.
Loadable(s) ==
  /\ \A k \in Kinds, r \in Ranks : file[k][s][r] \in Launches
  /\ data[s] # Torn

\* The step a launch resumes from, 0 for a start from scratch.
Target(mode, path) ==
  CASE mode = "disable" -> 0
    [] mode = "auto" -> LatestCheckpoint
    [] mode = "resume_path" -> path

Starts(mode, path) ==
  \/ mode = "disable"
  \/ /\ TrackerReadable
     /\ Target(mode, path) # 0 => Loadable(Target(mode, path))

NewLaunch ==
  /\ phase \in {"down", "done"}
  /\ launch < MaxLaunches
  /\ launch' = launch + 1
  /\ saved' = [role \in Roles |-> << >>]
  /\ UNCHANGED <<disk, doomed, pc>>

Launch(mode, path) ==
  /\ NewLaunch
  /\ Starts(mode, path)
  /\ step' = Target(mode, path)
  /\ phase' = "train"

\* _load_checkpoint raises: the job is down again before its first step.
LaunchFails(mode, path) ==
  /\ NewLaunch
  /\ ~Starts(mode, path)
  /\ phase' = "down"
  /\ UNCHANGED step

\* What a rank does in a save call.
RankStep(r) ==
  \/ Mkdir(r)
  \/ BeginDump(r)
  \/ FinishDump(r)
  \/ BeginAlpha(r)
  \/ FinishAlpha(r)

\* Everything the running processes do by themselves.
Work ==
  \/ Train
  \/ \E k \in Kinds, s \in Steps, r \in Ranks : RemoveOldFile(k, s, r)
  \/ FinishRotation
  \/ \E r \in Ranks : RankStep(r)
  \/ MkdirBarrier
  \/ DumpBarrier
  \/ ReturnBarrier
  \/ BeginData
  \/ FinishData
  \/ OpenTracker
  \/ CloseTracker

Start ==
  \E mode \in ResumeModes, path \in Steps :
    Launch(mode, path) \/ LaunchFails(mode, path)

Next == Work \/ Crash \/ Start

Spec == Init /\ [][Next]_vars

\* Running processes keep running: a collective completes once every rank is in
\* it.  Nothing makes Crash happen, and nobody has to launch the job again.
Fairness == WF_vars(Work)

FairSpec == Spec /\ Fairness

-----------------------------------------------------------------------------
(* Properties.                                                              *)

WrittenBy(s, l) ==
  /\ s \in folders
  /\ data[s] = l
  /\ \A k \in Kinds, r \in Ranks : file[k][s][r] = l

\* The checkpoint the tracker names is always there to resume from: all files
\* of all ranks and groups, whole, and all of one launch, whatever is being
\* rotated, rewritten or interrupted.  (_save_checkpoint writes the tracker
\* last; the rotation must spare the tracked checkpoint.)
TrackedIsWhole ==
  tracker \in Steps => \E l \in Launches : WrittenBy(tracker, l)

\* Resuming never costs save_freq steps or more: while it trains, the job is
\* less than save_freq steps ahead of the checkpoint an automatic resume would
\* pick.  (fit's save condition, the tracker and _load_checkpoint together.)
BoundedLoss ==
  phase = "train" => step - LatestCheckpoint < SaveFreq

\* The tracker only ever moves to a checkpoint that the running launch itself
\* has written completely: no barrier lets the driver overtake a slow rank.
CommitIsOwn ==
  [][tracker' # tracker /\ tracker' \in Steps => WrittenBy(tracker', launch)]_vars

\* The launches the parts of the checkpoint at step s come from.
Origins(s) == {file[k][s][r] : k \in Kinds, r \in Ranks} \cup {data[s]}

\* What the tracker and the files at the step it names amount to.
Kept ==
  CASE tracker \in Steps -> [there |-> TRUE, step |-> tracker, from |-> Origins(tracker)]
    [] tracker = NoTracker -> [there |-> TRUE, step |-> 0, from |-> {}]
    [] tracker = Truncated -> [there |-> FALSE, step |-> 0, from |-> {}]

Status == IF phase \in {"down", "done"} THEN phase ELSE "running"

Atomic == INSTANCE AtomicCheckpoint WITH status <- Status, kept <- Kept

\* However many processes write and remove files, whatever is interrupted and
\* launched again: seen through the tracker, the checkpoint is replaced as a
\* whole, stays untouched in between, is what a launch resumes from, is never
\* save_freq steps behind, and is missing only if a crash hits its replacement.
ActsAtomically == Atomic!Spec

\* Steps of which a group's directory holds files written by launch l.
Held(role, l) ==
  {s \in Steps : \E k \in FilesOf(role), r \in Ranks : file[k][s][r] = l}

\* Of the checkpoints one launch wrote, at most max_ckpt_to_keep of a group are
\* on disk at any moment, the one being written included.
KeepPerLaunch ==
  \A role \in Roles, l \in Launches :
    Keep(role) > 0 => Cardinality(Held(role, l)) <= Keep(role)

\* No rank waits for another for ever: every launch ends, and one that nothing
\* interrupts with its last step.  (The barriers of save_checkpoint, entered after
\* work that differs between ranks.)  Whether another launch can start then is not
\* said: after a crash between OpenTracker and CloseTracker none with resume_mode
\* auto does.
LaunchEnds ==
  phase \notin {"down", "done"} ~> phase \in {"down", "done"}
=============================================================================
