------------------------ MODULE CheckpointAtomic_proofs ------------------------
(***************************************************************************)
(* Checkpoint implements AtomicCheckpoint: for every number of ranks,      *)
(* steps and launches, the save that many processes write file by file     *)
(* looks, through the tracker, like the replacement of one checkpoint by   *)
(* the next.  Proved for automatic resume when neither group is told to    *)
(* keep just one checkpoint.                                               *)
(*                                                                         *)
(* Every action but six leaves the view alone, because it neither moves    *)
(* the tracker nor touches a file of the step it names (Unseen).  The six  *)
(* are the steps of AtomicCheckpoint.  What Checkpoint_proofs shows to be  *)
(* invariant tells where the job stands when they happen; in addition, a   *)
(* job past its last step trains only if it has just resumed (Overtime).   *)
(***************************************************************************)
EXTENDS Checkpoint_proofs

Overtime == phase = "train" /\ step >= TotalSteps => step = tracker

Opened == phase = "writing_tracker" => tracker = Truncated

AtomicInv == IInv /\ NoneDue /\ Overtime /\ Opened

USE CheckpointAssumption
USE DEF Steps, Launches, Content, Absent, Torn, NoTracker, Truncated, Roles,
        Kinds, FilesOf, Phases, Positions, Idle, Late, Committing, Saving

-----------------------------------------------------------------------------
(* The invariant.                                                           *)

LEMMA OvertimeStep ==
  ASSUME SafeConfiguration, IInv, Overtime, [Next]_vars
  PROVE  Overtime'
<1>1. CASE Train
  <2>1. step \in Nat
    BY DEF IInv, TypeOK
  <2>2. ASSUME phase' = "train"
        PROVE  step' < TotalSteps
    <3>1. step' = step + 1 /\ phase' = AfterStep(step + 1)
      BY <1>1, <2>2 DEF Train, StartSave
    <3> QED
      BY <2>1, <2>2, <3>1 DEF AfterStep, IsLastStep
  <2>3. step' \in Nat
    BY <1>1, <2>1 DEF Train
  <2> QED
    BY <2>2, <2>3 DEF Overtime
<1>2. CASE CloseTracker
  BY <1>2 DEF CloseTracker, Overtime, memory
<1>3. CASE Start
  <2>1. PICK path \in Steps : Launch("auto", path) \/ LaunchFails("auto", path)
    BY <1>3 DEF Start, SafeConfiguration
  <2>2. CASE LaunchFails("auto", path)
    BY <2>2 DEF LaunchFails, Overtime
  <2>3. CASE Launch("auto", path)
    <3>1. step' = LatestCheckpoint /\ TrackerReadable /\ tracker' = tracker
      BY <2>3 DEF Launch, NewLaunch, Starts, Target, disk
    <3> QED
      BY <3>1 DEF IInv, TypeOK, LatestCheckpoint, TrackerReadable, TrackedIsWhole, WrittenBy,
                  Overtime
  <2> QED
    BY <2>1, <2>2, <2>3
<1>4. CASE Crash
  BY <1>4 DEF Crash, Overtime
<1>5. CASE Work /\ ~Train /\ ~CloseTracker
  <2>1. phase' # "train"
    BY <1>5 DEF Work, RankStep, RemoveOldFile, FinishRotation, Mkdir, BeginDump, FinishDump,
                BeginAlpha, FinishAlpha, BeginWrite, FinishWrite, MkdirBarrier, DumpBarrier,
                ReturnBarrier, Barrier, At, InGroup, StartSave, BeginData, FinishData, OpenTracker
  <2> QED
    BY <2>1 DEF Overtime
<1>6. CASE UNCHANGED vars
  BY <1>6 DEF vars, Overtime
<1> QED
  BY <1>1, <1>2, <1>3, <1>4, <1>5, <1>6 DEF Next

LEMMA OpenedStep ==
  ASSUME Opened, [Next]_vars
  PROVE  Opened'
<1>1. CASE OpenTracker
  BY <1>1 DEF OpenTracker, Opened
<1>2. CASE UNCHANGED vars
  BY <1>2 DEF vars, Opened
<1>3. CASE Next /\ ~OpenTracker
  <2>1. phase' # "writing_tracker"
    BY <1>3 DEF Next, Work, Crash, Start, Launch, LaunchFails, Train, AfterStep, RankStep,
                RemoveOldFile, FinishRotation, Mkdir, BeginDump, FinishDump, BeginAlpha,
                FinishAlpha, BeginWrite, FinishWrite, MkdirBarrier, DumpBarrier, ReturnBarrier,
                Barrier, At, InGroup, StartSave, BeginData, FinishData, CloseTracker
  <2> QED
    BY <2>1 DEF Opened
<1> QED
  BY <1>1, <1>2, <1>3

LEMMA AtomicInvariant ==
  ASSUME SafeConfiguration
  PROVE  Spec => []AtomicInv
<1>1. Init => NoneDue /\ Overtime /\ Opened
  BY DEF Init, NoneDue, Overtime, Opened
<1>2. AtomicInv /\ [Next]_vars => AtomicInv'
  BY NextIInv, NoneDueStep, OvertimeStep, OpenedStep DEF AtomicInv
<1> QED
  BY <1>1, <1>2, InitIInv, PTL DEF Spec, AtomicInv

-----------------------------------------------------------------------------
(* What the tracker shows.                                                  *)

(* A step that leaves the tracker and the files of the tracked step alone   *)
(* is not seen.                                                             *)
LEMMA KeptUntouched ==
  ASSUME IInv, tracker' = tracker,
         tracker \in Steps =>
           /\ data'[tracker] = data[tracker]
           /\ \A k \in Kinds, r \in Ranks : file'[k][tracker][r] = file[k][tracker][r]
  PROVE  Kept' = Kept
<1>1. CASE tracker \in Steps
  <2>1. Origins(tracker)' = Origins(tracker)
    BY <1>1 DEF Origins
  <2> QED
    BY <1>1, <2>1 DEF Kept
<1>2. CASE tracker \notin Steps
  BY <1>2 DEF Kept, IInv, TypeOK
<1> QED
  BY <1>1, <1>2

(* The checkpoint a readable tracker shows.                                 *)
LEMMA KeptShown ==
  ASSUME IInv, tracker # Truncated
  PROVE  Kept = [there |-> TRUE, step |-> tracker, from |-> Kept.from]
BY DEF IInv, TypeOK, Kept

Unseen == UNCHANGED <<Status, launch, step, Kept>>

(* Processes that write and remove files.                                   *)
LEMMA FilesUnseen ==
  ASSUME SafeConfiguration, IInv,
         \/ \E k \in Kinds, s \in Steps, r \in Ranks : RemoveOldFile(k, s, r)
         \/ FinishRotation
         \/ \E r \in Ranks : RankStep(r)
         \/ MkdirBarrier \/ DumpBarrier \/ ReturnBarrier
         \/ BeginData \/ FinishData
  PROVE  Unseen
<1>1. /\ tracker' = tracker /\ launch' = launch /\ step' = step
      /\ phase \notin {"down", "done"} /\ phase' \notin {"down", "done"}
  BY DEF RankStep, RemoveOldFile, FinishRotation, Mkdir, BeginDump, FinishDump,
         BeginAlpha, FinishAlpha, BeginWrite, FinishWrite, MkdirBarrier, DumpBarrier,
         ReturnBarrier, Barrier, At, InGroup, StartSave, BeginData, FinishData, disk
<1>2. Status' = Status
  BY <1>1 DEF Status
<1>3. CASE \E k \in Kinds, s \in Steps, r \in Ranks : RemoveOldFile(k, s, r)
  <2>1. PICK k \in Kinds, s \in Steps, r \in Ranks : RemoveOldFile(k, s, r)
    BY <1>3
  <2>2. s # tracker /\ data' = data /\ file' = [file EXCEPT ![k][s][r] = Absent]
    BY <2>1 DEF RemoveOldFile, IInv, Removing, TypeOK
  <2> QED
    BY <1>1, <1>2, <2>2, KeptUntouched DEF Unseen, IInv, TypeOK
<1>4. CASE \E r \in Ranks : RankStep(r)
  <2>1. tracker # step /\ data' = data
    BY <1>4, TrackedIsOlder
    DEF RankStep, Mkdir, BeginDump, FinishDump, BeginAlpha, FinishAlpha, BeginWrite,
        FinishWrite, At, InGroup
  <2>2. \/ file' = file
        \/ \E k \in Kinds, r \in Ranks, c \in Content : file' = [file EXCEPT ![k][step][r] = c]
    <3>1. PICK r \in Ranks : RankStep(r)
      BY <1>4
    <3>2. CASE Mkdir(r)
      BY <3>2 DEF Mkdir
    <3>3. CASE BeginDump(r) \/ FinishDump(r)
      BY <3>3 DEF BeginDump, FinishDump, BeginWrite, FinishWrite, At, InGroup, IInv, TypeOK,
                  Progress
    <3>4. CASE BeginAlpha(r) \/ FinishAlpha(r)
      <4>1. UseAlpha /\ launch \in Launches
        BY <3>4 DEF BeginAlpha, FinishAlpha, BeginWrite, FinishWrite, At, InGroup, IInv,
                    Positioned, Progress
      <4> QED
        BY <3>4, <4>1 DEF BeginAlpha, FinishAlpha, BeginWrite, FinishWrite
    <3> QED
      BY <3>1, <3>2, <3>3, <3>4 DEF RankStep
  <2>3. ASSUME tracker \in Steps, NEW k \in Kinds, NEW r \in Ranks
        PROVE  file'[k][tracker][r] = file[k][tracker][r]
    <3>1. file \in [Kinds -> [Steps -> [Ranks -> Content]]]
      BY DEF IInv, TypeOK
    <3>2. CASE file' = file
      BY <3>2
    <3>3. ASSUME NEW j \in Kinds, NEW q \in Ranks, NEW c \in Content,
                 file' = [file EXCEPT ![j][step][q] = c]
          PROVE  file'[k][tracker][r] = file[k][tracker][r]
      BY <2>1, <2>3, <3>1, <3>3
    <3> QED
      BY <2>2, <3>2, <3>3
  <2> QED
    BY <1>1, <1>2, <2>1, <2>3, KeptUntouched DEF Unseen
<1>5. CASE FinishRotation \/ MkdirBarrier \/ DumpBarrier \/ ReturnBarrier
  <2>1. data' = data /\ file' = file
    BY <1>5 DEF FinishRotation, MkdirBarrier, DumpBarrier, ReturnBarrier, disk
  <2> QED
    BY <1>1, <1>2, <2>1, KeptUntouched DEF Unseen
<1>6. CASE BeginData \/ FinishData
  <2>1. tracker # step /\ file' = file
    BY <1>6, TrackedIsOlder DEF BeginData, FinishData
  <2>2. tracker \in Steps => data'[tracker] = data[tracker]
    BY <1>6, <2>1 DEF BeginData, FinishData, IInv, TypeOK
  <2> QED
    BY <1>1, <1>2, <2>1, <2>2, KeptUntouched DEF Unseen
<1> QED
  BY <1>3, <1>4, <1>5, <1>6

-----------------------------------------------------------------------------
(* The steps that are seen.                                                 *)

LEMMA TrainSeen ==
  ASSUME SafeConfiguration, AtomicInv, Train
  PROVE  Atomic!Train
<1> USE DEF AtomicInv
<1>1. /\ phase = "train" /\ step' = step + 1 /\ launch' = launch
      /\ tracker' = tracker /\ file' = file /\ data' = data
  BY DEF Train, disk
<1>2. /\ tracker \in Nat /\ step \in Nat /\ tracker <= step
  BY <1>1, TrainsFromTracked
<1>3. Kept = [there |-> TRUE, step |-> tracker, from |-> Kept.from]
  BY <1>2, KeptShown
<1>4. step < tracker + SaveFreq
  <2>1. ~(step - tracker >= SaveFreq)
    BY <1>1, <1>2, MultipleAhead DEF NoneDue
  <2> QED
    BY <1>2, <2>1
<1>5. step < TotalSteps \/ step = tracker
  BY <1>1, <1>2 DEF Overtime
<1>6. Kept' = Kept
  BY <1>1, KeptUntouched
<1>7. phase' \notin {"down", "done"}
  <2>1. PICK esi \in BOOLEAN :
          IF MustSave(step + 1, esi)
            THEN StartSave("actor")
            ELSE phase' = AfterStep(step + 1) /\ UNCHANGED <<doomed, pc>>
    BY DEF Train
  <2>2. CASE MustSave(step + 1, esi)
    BY <2>1, <2>2 DEF StartSave
  <2>3. CASE ~MustSave(step + 1, esi)
    BY <2>1, <2>3 DEF MustSave, AfterStep
  <2> QED
    BY <2>2, <2>3
<1>8. Status = "running" /\ Status' = "running"
  BY <1>1, <1>7 DEF Status
<1> QED
  BY <1>1, <1>3, <1>4, <1>5, <1>6, <1>8 DEF Atomic!Train

LEMMA OpenSeen ==
  ASSUME AtomicInv, OpenTracker
  PROVE  Atomic!Withdraw
<1> USE DEF AtomicInv
<1>1. /\ phase = "tracker" /\ phase' = "writing_tracker" /\ tracker' = Truncated
      /\ launch' = launch /\ step' = step
  BY DEF OpenTracker
<1>2. tracker \in 0..(step - 1) /\ step \in Steps
  BY <1>1 DEF IInv, TypeOK, Progress
<1>3. Kept = [there |-> TRUE, step |-> tracker, from |-> Kept.from] /\ tracker < step
  BY <1>2, KeptShown
<1>4. Kept' = [there |-> FALSE, step |-> 0, from |-> {}]
  BY <1>1 DEF Kept
<1>5. Status' = Status /\ Status = "running"
  BY <1>1 DEF Status
<1> QED
  BY <1>1, <1>3, <1>4, <1>5 DEF Atomic!Withdraw, Atomic!Withdrawn

LEMMA CloseSeen ==
  ASSUME AtomicInv, CloseTracker
  PROVE  Atomic!Commit
<1> USE DEF AtomicInv
<1>1. /\ phase = "writing_tracker" /\ phase' = AfterStep(step) /\ tracker' = step
      /\ launch' = launch /\ step' = step /\ file' = file /\ data' = data
  BY DEF CloseTracker, memory
<1>2. step \in Steps /\ launch \in Launches
  BY <1>1 DEF IInv, Progress
<1>3. Kept = [there |-> FALSE, step |-> 0, from |-> {}]
  BY <1>1 DEF Opened, Kept
<1>4. Origins(step)' = {launch}
  BY <1>1, <1>2 DEF IInv, Written, Origins
<1>5. Kept' = [there |-> TRUE, step |-> step, from |-> {launch}]
  BY <1>1, <1>2, <1>4 DEF Kept
<1>6. Status = "running" /\ Status' = IF step < TotalSteps THEN "running" ELSE "done"
  BY <1>1, <1>2 DEF Status, AfterStep, IsLastStep
<1> QED
  BY <1>1, <1>3, <1>5, <1>6 DEF Atomic!Commit, Atomic!Checkpoint

LEMMA CrashSeen ==
  ASSUME AtomicInv, Crash
  PROVE  Atomic!Crash
<1>1. /\ phase \notin {"down", "done"} /\ phase' = "down" /\ tracker' = tracker
      /\ launch' = launch /\ step' = step /\ file' = file /\ data' = data
  BY DEF Crash, disk
<1>2. Kept' = Kept
  BY <1>1, KeptUntouched DEF AtomicInv
<1> QED
  BY <1>1, <1>2 DEF Atomic!Crash, Status

LEMMA StartSeen ==
  ASSUME SafeConfiguration, AtomicInv, Start
  PROVE  Atomic!Launch \/ Atomic!Refused
<1> USE DEF AtomicInv
<1>1. PICK path \in Steps : Launch("auto", path) \/ LaunchFails("auto", path)
  BY DEF Start, SafeConfiguration
<1>2. /\ phase \in {"down", "done"} /\ launch' = launch + 1
      /\ tracker' = tracker /\ file' = file /\ data' = data
  BY <1>1 DEF Launch, LaunchFails, NewLaunch, disk
<1>3. Kept' = Kept /\ Status # "running"
  BY <1>2, KeptUntouched DEF Status
<1>4. CASE Launch("auto", path)
  <2>1. phase' = "train" /\ step' = LatestCheckpoint /\ tracker # Truncated
    BY <1>4 DEF Launch, Starts, Target, TrackerReadable
  <2>2. step' = tracker
    BY <2>1 DEF IInv, TypeOK, LatestCheckpoint, TrackedIsWhole, WrittenBy
  <2>3. Kept = [there |-> TRUE, step |-> tracker, from |-> Kept.from]
    BY <2>1, KeptShown
  <2>4. Status' = "running"
    BY <2>1 DEF Status
  <2> QED
    BY <1>2, <1>3, <2>2, <2>3, <2>4 DEF Atomic!Launch
<1>5. CASE LaunchFails("auto", path)
  <2>1. phase' = "down" /\ step' = step /\ ~Starts("auto", path)
    BY <1>5 DEF LaunchFails
  <2>2. tracker = Truncated
    <3>1. tracker \in Steps => Loadable(tracker)
      BY DEF IInv, TrackedIsWhole, WrittenBy, Loadable
    <3> QED
      BY <2>1, <3>1 DEF Starts, Target, TrackerReadable, LatestCheckpoint, IInv, TypeOK
  <2>3. Kept = [there |-> FALSE, step |-> 0, from |-> {}]
    BY <2>2 DEF Kept
  <2>4. Status' = "down"
    BY <2>1 DEF Status
  <2> QED
    BY <1>2, <1>3, <2>1, <2>3, <2>4 DEF Atomic!Refused
<1> QED
  BY <1>1, <1>4, <1>5

LEMMA InitSeen == Init => Atomic!Init
BY DEF Init, Atomic!Init, Atomic!Empty, Atomic!Checkpoint, Status, Kept

LEMMA NextSeen ==
  ASSUME SafeConfiguration, AtomicInv, [Next]_vars
  PROVE  [Atomic!Next]_(Atomic!vars)
<1>1. CASE Train
  BY <1>1, TrainSeen DEF Atomic!Next
<1>2. CASE OpenTracker
  BY <1>2, OpenSeen DEF Atomic!Next
<1>3. CASE CloseTracker
  BY <1>3, CloseSeen DEF Atomic!Next
<1>4. CASE Work /\ ~Train /\ ~OpenTracker /\ ~CloseTracker
  BY <1>4, FilesUnseen DEF Work, AtomicInv, Unseen, Atomic!vars
<1>5. CASE Crash
  BY <1>5, CrashSeen DEF Atomic!Next
<1>6. CASE Start
  BY <1>6, StartSeen DEF Atomic!Next
<1>7. CASE UNCHANGED vars
  BY <1>7, KeptUntouched DEF vars, AtomicInv, Status, Atomic!vars
<1> QED
  BY <1>1, <1>2, <1>3, <1>4, <1>5, <1>6, <1>7 DEF Next

(* Seen through the tracker, every behaviour of the processes that save,    *)
(* rotate, crash and resume is one in which a single checkpoint is replaced *)
(* as a whole, for any number of ranks, steps and launches                  *)
(* (_save_checkpoint, _load_checkpoint, FSDPCheckpointManager).             *)
THEOREM SaveIsAtomic ==
  ASSUME SafeConfiguration
  PROVE  Spec => ActsAtomically
<1> QED
  BY AtomicInvariant, InitSeen, NextSeen, PTL DEF Spec, ActsAtomically, Atomic!Spec
===============================================================================
