-------------------------- MODULE Checkpoint_proofs --------------------------
(***************************************************************************)
(* The tracked checkpoint stays whole, for every number of ranks, steps    *)
(* and launches: proved for automatic resume when neither group is told to *)
(* keep just one checkpoint.                                               *)
(*                                                                         *)
(* Why it is inductive: while a save runs, the tracker is strictly behind  *)
(* the step being saved (Progress), so no write touches the tracked step;  *)
(* the paths rank 0 has recorded increase and end with the tracked step    *)
(* until the group appends the new one (Recorded), so that a rotation that *)
(* leaves at least one of them removes only older steps (Removing); and    *)
(* when the driver reaches the tracker, the barriers have let every file   *)
(* of the step be written by this launch (Written).                        *)
(*                                                                         *)
(* From the same invariant: the tracker never moves before every rank has  *)
(* written the step, and with no multiple of save_freq between tracker and *)
(* step (NoneDue) a resume loses less than save_freq steps.                *)
(***************************************************************************)
EXTENDS Checkpoint, SequenceTheorems, TLAPS

SafeConfiguration ==
  /\ MaxActorKeep # 1
  /\ MaxCriticKeep # 1
  /\ ResumeModes = {"auto"}

Late == {"alpha", "writing_alpha", "saved"}

Committing == {"data", "writing_data", "tracker", "writing_tracker"}

Saving == {"actor", "critic"} \cup Committing

Progress ==
  /\ phase # "down" => launch \in Launches
  /\ phase = "train" => tracker \in 0..step /\ step < TotalSteps + launch
  /\ phase \in Saving => step \in Steps
  /\ phase \in Saving \ {"writing_tracker"} => tracker \in 0..(step - 1)
  /\ tracker <= TotalSteps + launch
  /\ step <= TotalSteps + launch

Appended(role) ==
  \/ phase \in Committing
  \/ phase = role /\ pc[Rank0] \in Late
  \/ phase = "critic" /\ role = "actor"

Increasing(q) == \A i, j \in 1..Len(q) : i < j => q[i] < q[j]

Recorded ==
  \A role \in Roles :
    /\ Increasing(saved[role])
    /\ saved[role] # << >> /\ phase \notin {"down", "done"} =>
         saved[role][Len(saved[role])] = IF Appended(role) THEN step ELSE tracker

Removing ==
  /\ \A s \in doomed : s < tracker
  /\ doomed # {} => At(Rank0, "rotate")

Positioned ==
  /\ ~InGroup => pc = Idle
  /\ \A r \in Ranks : pc[r] \in {"alpha", "writing_alpha"} => phase = "actor" /\ UseAlpha
  /\ \A q, r \in Ranks : pc[q] \in Late => pc[r] \in Late

Written ==
  /\ \A r \in Ranks :
       pc[r] \in Late \cup {"dumped"} => file[phase][step][r] = launch
  /\ \A r \in Ranks :
       phase = "actor" /\ UseAlpha /\ pc[r] = "saved" => file["alpha"][step][r] = launch
  /\ phase \in {"critic"} \cup Committing =>
       \A k \in FilesOf("actor"), r \in Ranks : file[k][step][r] = launch
  /\ phase \in Committing => \A k \in Kinds, r \in Ranks : file[k][step][r] = launch
  /\ phase \in {"tracker", "writing_tracker"} => data[step] = launch
  /\ phase \in Committing \ {"data"} => step \in folders

IInv ==
  /\ TypeOK
  /\ TrackedIsWhole
  /\ Progress
  /\ Recorded
  /\ Removing
  /\ Positioned
  /\ Written

-----------------------------------------------------------------------------
(* Sets and constants that every proof below may look into.                 *)

USE CheckpointAssumption
USE DEF Steps, Launches, Content, Absent, Torn, NoTracker, Truncated, Roles,
        Kinds, FilesOf, Phases, Positions, Idle, Late, Committing, Saving

(* A step that leaves the tracker and the files of the tracked step alone   *)
(* keeps the tracked checkpoint whole.                                      *)
LEMMA TrackedUntouched ==
  ASSUME IInv, tracker' = tracker, folders \subseteq folders',
         tracker \in Steps =>
           /\ data'[tracker] = data[tracker]
           /\ \A k \in Kinds, r \in Ranks : file'[k][tracker][r] = file[k][tracker][r]
  PROVE  TrackedIsWhole'
BY DEF IInv, TrackedIsWhole, WrittenBy

(* While a save runs the tracked step is not the step being written.        *)
LEMMA TrackedIsOlder ==
  ASSUME IInv, phase \in Saving \ {"writing_tracker"}
  PROVE  tracker # step /\ step \in Steps
BY DEF IInv, TypeOK, Progress

(* The last element of an increasing list is its largest.                   *)
LEMMA LastIsLargest ==
  ASSUME NEW q \in Seq(Int), Increasing(q), NEW i \in 1..Len(q)
  PROVE  q[i] <= q[Len(q)]
<1>1. Len(q) \in Nat /\ \A j \in 1..Len(q) : q[j] \in Int
  BY ElementOfSeq, LenProperties
<1>2. CASE i = Len(q)
  BY <1>1, <1>2
<1>3. CASE i < Len(q)
  <2>1. Len(q) \in 1..Len(q)
    BY <1>1, <1>3
  <2> QED
    BY <1>1, <1>3, <2>1 DEF Increasing
<1> QED
  BY <1>1, <1>2, <1>3

(* What is left of a list after dropping its first n elements.              *)
LEMMA SuffixProperties ==
  ASSUME NEW S, NEW q \in Seq(S), NEW n \in Nat, n < Len(q)
  PROVE  /\ SubSeq(q, n + 1, Len(q)) \in Seq(S)
         /\ Len(SubSeq(q, n + 1, Len(q))) = Len(q) - n
         /\ \A i \in 1..(Len(q) - n) : SubSeq(q, n + 1, Len(q))[i] = q[n + i]
<1>1. Len(q) \in Nat /\ \A i \in 1..Len(q) : q[i] \in S
  BY ElementOfSeq, LenProperties
<1>2. n + 1 \in Int /\ Len(q) \in Int /\ \A i \in (n + 1)..Len(q) : q[i] \in S
  BY <1>1
<1>3. /\ SubSeq(q, n + 1, Len(q)) \in Seq(S)
      /\ Len(SubSeq(q, n + 1, Len(q))) =
           IF n + 1 <= Len(q) THEN Len(q) - (n + 1) + 1 ELSE 0
      /\ \A i \in 1..(Len(q) - (n + 1) + 1) :
           SubSeq(q, n + 1, Len(q))[i] = q[(n + 1) + i - 1]
  <2> DEFINE m == n + 1
               l == Len(q)
  <2>2. m \in Int /\ l \in Int /\ \A i \in m..l : q[i] \in S
    BY <1>2
  <2> HIDE DEF m, l
  <2>3. /\ SubSeq(q, m, l) \in Seq(S)
        /\ Len(SubSeq(q, m, l)) = IF m <= l THEN l - m + 1 ELSE 0
        /\ \A i \in 1..(l - m + 1) : SubSeq(q, m, l)[i] = q[m + i - 1]
    BY <2>2, SubSeqProperties
  <2> QED
    BY <2>3 DEF m, l
<1> QED
  BY <1>1, <1>3

(* ... and it increases if the list does.                                   *)
LEMMA SuffixIncreases ==
  ASSUME NEW q \in Seq(Int), Increasing(q), NEW n \in Nat, n < Len(q)
  PROVE  Increasing(SubSeq(q, n + 1, Len(q)))
<1> DEFINE t == SubSeq(q, n + 1, Len(q))
<1>1. Len(q) \in Nat
  BY LenProperties
<1>2. Len(t) = Len(q) - n /\ \A i \in 1..(Len(q) - n) : t[i] = q[n + i]
  BY SuffixProperties
<1> HIDE DEF t
<1>3. ASSUME NEW i \in 1..Len(t), NEW j \in 1..Len(t), i < j
      PROVE  t[i] < t[j]
  <2>1. /\ n + i \in 1..Len(q) /\ n + j \in 1..Len(q) /\ n + i < n + j
    BY <1>1, <1>2, <1>3
  <2>2. t[i] = q[n + i] /\ t[j] = q[n + j]
    BY <1>2
  <2> QED
    BY <2>1, <2>2 DEF Increasing
<1>4. Increasing(t)
  BY <1>3 DEF Increasing
<1> QED
  BY <1>4 DEF t

LEMMA KeepIsNotOne ==
  ASSUME SafeConfiguration, NEW role \in Roles
  PROVE  Keep(role) \in Nat /\ Keep(role) # 1
BY DEF SafeConfiguration, Keep

(* When a group starts to save, everything it will rotate away is older     *)
(* than the tracked step: it records its paths in increasing order, the     *)
(* last one is the tracked step, and at least one of them is kept.          *)
LEMMA DoomedIsOlder ==
  ASSUME SafeConfiguration, IInv, NEW role \in Roles,
         ~Appended(role), phase \notin {"down", "done"}
  PROVE  /\ DoomedSteps(role) \in SUBSET Steps
         /\ \A s \in DoomedSteps(role) : s < tracker
<1> DEFINE q == saved[role]
<1>1. q \in Seq(Steps) /\ Len(q) \in Nat /\ \A i \in 1..Len(q) : q[i] \in Steps
  BY ElementOfSeq, LenProperties DEF IInv, TypeOK
<1>2. CASE Rotates(role)
  <2>1. KeepStart(role) < Len(q) /\ Len(q) # 0
    BY <1>1, <1>2, KeepIsNotOne DEF KeepStart, Rotates
  <2>2. q[Len(q)] = tracker /\ Increasing(q)
    BY <1>1, <2>1, EmptySeq DEF IInv, Recorded
  <2>3. \A i \in 1..KeepStart(role) : q[i] \in Steps /\ q[i] < tracker
    <3>1. KeepStart(role) \in Int
      BY <1>1, KeepIsNotOne DEF KeepStart
    <3> SUFFICES ASSUME NEW i \in 1..KeepStart(role)
                 PROVE  q[i] \in Steps /\ q[i] < tracker
      OBVIOUS
    <3>2. i \in 1..Len(q) /\ Len(q) \in 1..Len(q) /\ i < Len(q)
      BY <1>1, <2>1, <3>1
    <3> QED
      BY <1>1, <2>2, <3>2 DEF Increasing
  <2> QED
    BY <1>2, <2>3 DEF DoomedSteps
<1>3. CASE ~Rotates(role)
  BY <1>3 DEF DoomedSteps
<1> QED
  BY <1>2, <1>3

LEMMA StartSaveStep ==
  ASSUME SafeConfiguration, IInv, NEW role \in Roles,
         ~Appended(role), phase \notin {"down", "done"},
         StartSave(role), tracker' = tracker
  PROVE  /\ phase' \in Phases
         /\ doomed' \in SUBSET Steps
         /\ pc' \in [Ranks -> Positions]
         /\ \A r \in Ranks : pc'[r] \in {"rotate", "mkdir"}
         /\ Removing'
<1>1. /\ phase' \in Phases
      /\ pc' \in [Ranks -> Positions]
      /\ \A r \in Ranks : pc'[r] \in {"rotate", "mkdir"}
      /\ pc'[Rank0] = "rotate"
      /\ phase' \in Roles
  BY DEF StartSave
<1>2. /\ doomed' \in SUBSET Steps
      /\ \A s \in doomed' : s < tracker'
  BY DoomedIsOlder DEF StartSave
<1> QED
  BY <1>1, <1>2 DEF Removing, At, InGroup

(* The collectives of a save call and a rank's directory.                   *)
LEMMA MkdirStep ==
  ASSUME SafeConfiguration, IInv, NEW r \in Ranks, Mkdir(r)
  PROVE  IInv'
<1> USE DEF IInv, Mkdir, At, InGroup, disk
<1>1. TypeOK'
  BY DEF TypeOK, Progress, Positioned
<1>2. TrackedIsWhole'
  BY TrackedUntouched
<1>3. Progress'
  BY DEF TypeOK, Progress, Positioned
<1>4. Recorded'
  BY DEF TypeOK, Progress, Positioned, Recorded, Increasing, Appended
<1>5. Removing'
  BY DEF TypeOK, Progress, Positioned, Removing, At
<1>6. Positioned'
  BY DEF TypeOK, Progress, Positioned
<1>7. Written'
  BY DEF TypeOK, Progress, Positioned, Written
<1> QED
  BY <1>1, <1>2, <1>3, <1>4, <1>5, <1>6, <1>7

LEMMA MkdirBarrierStep ==
  ASSUME SafeConfiguration, IInv, MkdirBarrier
  PROVE  IInv'
<1> USE DEF IInv, MkdirBarrier, Barrier, InGroup, disk
<1>1. TypeOK'
  BY DEF TypeOK, Progress, Positioned
<1>2. TrackedIsWhole'
  BY DEF TypeOK, Progress, Positioned, TrackedIsWhole, WrittenBy
<1>3. Progress'
  BY DEF TypeOK, Progress, Positioned
<1>4. Recorded'
  BY DEF TypeOK, Progress, Positioned, Recorded, Increasing, Appended
<1>5. Removing'
  BY DEF TypeOK, Progress, Positioned, Removing, At
<1>6. Positioned'
  BY DEF TypeOK, Progress, Positioned
<1>7. Written'
  BY DEF TypeOK, Progress, Positioned, Written
<1> QED
  BY <1>1, <1>2, <1>3, <1>4, <1>5, <1>6, <1>7

(* The rotation removes files of steps older than the tracked one.          *)
LEMMA RemoveOldFileStep ==
  ASSUME SafeConfiguration, IInv, NEW k \in Kinds, NEW s \in Steps, NEW r \in Ranks, RemoveOldFile(k, s, r)
  PROVE  IInv'
<1> USE DEF IInv, RemoveOldFile, At, InGroup, memory
<1>1. TypeOK'
  BY DEF TypeOK, Progress, Positioned
<1>2. TrackedIsWhole'
  BY TrackedUntouched DEF TypeOK, Removing
<1>3. Progress'
  BY DEF TypeOK, Progress, Positioned
<1>4. Recorded'
  BY DEF TypeOK, Progress, Positioned, Recorded, Increasing, Appended
<1>5. Removing'
  BY DEF TypeOK, Progress, Positioned, Removing, At
<1>6. Positioned'
  BY DEF TypeOK, Progress, Positioned
<1>7. Written'
  BY DEF TypeOK, Progress, Positioned, Removing, Written
<1> QED
  BY <1>1, <1>2, <1>3, <1>4, <1>5, <1>6, <1>7

(* What is left of the recorded paths is a suffix: still increasing, same last. *)
LEMMA FinishRotationStep ==
  ASSUME SafeConfiguration, IInv, FinishRotation
  PROVE  IInv'
<1> USE DEF IInv, FinishRotation, At, InGroup, disk
<1>1. TypeOK'
  BY SubSeqProperties, ElementOfSeq, LenProperties DEF TypeOK, Rotates, KeepStart, Keep
<1>2. TrackedIsWhole'
  BY DEF TypeOK, Progress, Positioned, TrackedIsWhole, WrittenBy
<1>3. Progress'
  BY DEF TypeOK, Progress, Positioned
<1>4. Recorded'
  <2> SUFFICES ASSUME NEW role \in Roles
               PROVE  /\ Increasing(saved'[role])
                      /\ saved'[role] # << >> =>
                           saved'[role][Len(saved'[role])] =
                             IF Appended(role)' THEN step' ELSE tracker'
    BY DEF Recorded
  <2>1. Appended(role)' <=> Appended(role)
    BY DEF TypeOK, Appended
  <2>2. CASE ~Rotates(phase) \/ role # phase
    BY <2>1, <2>2 DEF TypeOK, Recorded
  <2>3. CASE Rotates(phase) /\ role = phase
    <3> DEFINE q == saved[role]
               n == KeepStart(role)
               t == SubSeq(q, n + 1, Len(q))
    <3>1. saved'[role] = t
      BY <2>3 DEF TypeOK
    <3>2. q \in Seq(Steps) /\ Len(q) \in Nat /\ \A i \in 1..Len(q) : q[i] \in Steps
      BY ElementOfSeq, LenProperties DEF TypeOK
    <3>3. n \in 1..(Len(q) - 1)
      <4> HIDE DEF q
      <4>1. Keep(role) \in Nat /\ Keep(role) # 1
        BY KeepIsNotOne
      <4>2. Keep(role) # 0 /\ Len(q) >= Keep(role)
        BY <2>3 DEF Rotates, q
      <4>3. n = Len(q) - Keep(role) + 1
        BY DEF KeepStart, q
      <4> QED
        BY <3>2, <4>1, <4>2, <4>3
    <3>4. /\ t \in Seq(Steps)
          /\ Len(t) = Len(q) - n
          /\ \A i \in 1..(Len(q) - n) : t[i] = q[n + i]
      <4> HIDE DEF q, n
      <4>1. n \in Nat /\ n < Len(q)
        BY <3>2, <3>3
      <4> QED
        BY <3>2, <4>1, SuffixProperties
    <3> HIDE DEF q, n, t
    <3>5. q # << >> /\ Increasing(q)
      BY <3>2, <3>3, EmptySeq DEF Recorded, q
    <3>6. Increasing(t)
      <4>1. n \in Nat /\ n < Len(q) /\ q \in Seq(Int)
        BY <3>2, <3>3 DEF Steps
      <4> QED
        BY <3>5, <4>1, SuffixIncreases DEF t
    <3>7. t[Len(t)] = q[Len(q)]
      <4>1. Len(t) \in 1..(Len(q) - n) /\ n + Len(t) = Len(q)
        BY <3>2, <3>3, <3>4
      <4> QED
        BY <3>4, <4>1
    <3>8. q[Len(q)] = IF Appended(role) THEN step ELSE tracker
      BY <3>5, <2>3 DEF Recorded, q
    <3> QED
      BY <2>1, <3>1, <3>6, <3>7, <3>8
  <2> QED
    BY <2>2, <2>3
<1>5. Removing'
  BY DEF TypeOK, Progress, Positioned, Removing, At
<1>6. Positioned'
  BY DEF TypeOK, Progress, Positioned
<1>7. Written'
  BY DEF TypeOK, Progress, Positioned, Written
<1> QED
  BY <1>1, <1>2, <1>3, <1>4, <1>5, <1>6, <1>7

(* The files of the step being saved; the tracked step is an older one.     *)
LEMMA BeginDumpStep ==
  ASSUME SafeConfiguration, IInv, NEW r \in Ranks, BeginDump(r)
  PROVE  IInv'
<1> USE DEF IInv, BeginDump, BeginWrite, At, InGroup
<1>1. TypeOK'
  BY DEF TypeOK, Progress, Positioned
<1>2. TrackedIsWhole'
  BY TrackedIsOlder, TrackedUntouched DEF TypeOK
<1>3. Progress'
  BY DEF TypeOK, Progress, Positioned
<1>4. Recorded'
  BY DEF TypeOK, Progress, Positioned, Recorded, Increasing, Appended
<1>5. Removing'
  BY DEF TypeOK, Progress, Positioned, Removing, At
<1>6. Positioned'
  BY DEF TypeOK, Progress, Positioned
<1>7. Written'
  BY DEF TypeOK, Progress, Positioned, Written
<1> QED
  BY <1>1, <1>2, <1>3, <1>4, <1>5, <1>6, <1>7

LEMMA FinishDumpStep ==
  ASSUME SafeConfiguration, IInv, NEW r \in Ranks, FinishDump(r)
  PROVE  IInv'
<1> USE DEF IInv, FinishDump, FinishWrite, At, InGroup
<1>1. TypeOK'
  BY DEF TypeOK, Progress, Positioned
<1>2. TrackedIsWhole'
  BY TrackedIsOlder, TrackedUntouched DEF TypeOK
<1>3. Progress'
  BY DEF TypeOK, Progress, Positioned
<1>4. Recorded'
  BY DEF TypeOK, Progress, Positioned, Recorded, Increasing, Appended
<1>5. Removing'
  BY DEF TypeOK, Progress, Positioned, Removing, At
<1>6. Positioned'
  BY DEF TypeOK, Progress, Positioned
<1>7. Written'
  BY DEF TypeOK, Progress, Positioned, Written
<1> QED
  BY <1>1, <1>2, <1>3, <1>4, <1>5, <1>6, <1>7

LEMMA BeginAlphaStep ==
  ASSUME SafeConfiguration, IInv, NEW r \in Ranks, BeginAlpha(r)
  PROVE  IInv'
<1> USE DEF IInv, BeginAlpha, BeginWrite, At, InGroup
<1>1. TypeOK'
  BY DEF TypeOK, Progress, Positioned
<1>2. TrackedIsWhole'
  BY TrackedIsOlder, TrackedUntouched DEF TypeOK
<1>3. Progress'
  BY DEF TypeOK, Progress, Positioned
<1>4. Recorded'
  BY DEF TypeOK, Progress, Positioned, Recorded, Increasing, Appended
<1>5. Removing'
  BY DEF TypeOK, Progress, Positioned, Removing, At
<1>6. Positioned'
  BY DEF TypeOK, Progress, Positioned
<1>7. Written'
  BY DEF TypeOK, Progress, Positioned, Written
<1> QED
  BY <1>1, <1>2, <1>3, <1>4, <1>5, <1>6, <1>7

LEMMA FinishAlphaStep ==
  ASSUME SafeConfiguration, IInv, NEW r \in Ranks, FinishAlpha(r)
  PROVE  IInv'
<1> USE DEF IInv, FinishAlpha, FinishWrite, At, InGroup
<1>1. TypeOK'
  BY DEF TypeOK, Progress, Positioned
<1>2. TrackedIsWhole'
  BY TrackedIsOlder, TrackedUntouched DEF TypeOK
<1>3. Progress'
  BY DEF TypeOK, Progress, Positioned
<1>4. Recorded'
  BY DEF TypeOK, Progress, Positioned, Recorded, Increasing, Appended
<1>5. Removing'
  BY DEF TypeOK, Progress, Positioned, Removing, At
<1>6. Positioned'
  BY DEF TypeOK, Progress, Positioned
<1>7. Written'
  BY DEF TypeOK, Progress, Positioned, Written
<1> QED
  BY <1>1, <1>2, <1>3, <1>4, <1>5, <1>6, <1>7

(* The group appends the step, which is larger than every recorded one.     *)
LEMMA DumpBarrierStep ==
  ASSUME SafeConfiguration, IInv, DumpBarrier
  PROVE  IInv'
<1> USE DEF IInv, DumpBarrier, Barrier, InGroup, disk
<1>1. TypeOK'
  BY DEF TypeOK, Progress, Positioned
<1>2. TrackedIsWhole'
  BY DEF TypeOK, Progress, Positioned, TrackedIsWhole, WrittenBy
<1>3. Progress'
  BY DEF TypeOK, Progress, Positioned
<1>4. Recorded'
  <2> SUFFICES ASSUME NEW role \in Roles
               PROVE  /\ Increasing(saved'[role])
                      /\ saved'[role] # << >> =>
                           saved'[role][Len(saved'[role])] =
                             IF Appended(role)' THEN step' ELSE tracker'
    BY DEF Recorded
  <2>1. CASE role # phase
    BY <2>1 DEF TypeOK, Recorded, Appended
  <2>2. CASE role = phase
    <3> DEFINE q == saved[role]
    <3>1. q \in Seq(Steps) /\ Len(q) \in Nat /\ \A i \in 1..Len(q) : q[i] \in Steps
      BY ElementOfSeq, LenProperties DEF TypeOK
    <3>2. saved'[role] = Append(q, step) /\ step \in Steps /\ tracker < step
      BY <2>2 DEF TypeOK, Progress
    <3>3. /\ Len(saved'[role]) = Len(q) + 1
          /\ \A i \in 1..Len(q) : saved'[role][i] = q[i]
          /\ saved'[role][Len(q) + 1] = step
      BY <3>1, <3>2, AppendProperties
    <3>4. ~Appended(role) /\ Appended(role)'
      BY <2>2 DEF Appended
    <3>5. Increasing(q) /\ (q # << >> => q[Len(q)] = tracker)
      BY <2>2, <3>4 DEF Recorded
    <3>6. \A i \in 1..Len(q) : q[i] < step
      <4> SUFFICES ASSUME NEW i \in 1..Len(q)
                   PROVE  q[i] < step
        OBVIOUS
      <4>1. q # << >>
        BY <3>1
      <4>2. q[i] <= q[Len(q)]
        <5>1. q \in Seq(Int)
          BY <3>1 DEF Steps
        <5> HIDE DEF q, IInv, DumpBarrier
        <5> QED
          BY <3>5, <5>1, LastIsLargest
      <4> QED
        BY <3>1, <3>2, <3>5, <4>1, <4>2 DEF TypeOK
    <3>7. Increasing(saved'[role])
      BY <3>1, <3>2, <3>3, <3>5, <3>6 DEF Increasing
    <3> QED
      BY <3>3, <3>4, <3>7
  <2> QED
    BY <2>1, <2>2
<1>5. Removing'
  BY DEF TypeOK, Progress, Positioned, Removing, At
<1>6. Positioned'
  BY DEF TypeOK, Progress, Positioned
<1>7. Written'
  BY DEF TypeOK, Progress, Positioned, Written
<1> QED
  BY <1>1, <1>2, <1>3, <1>4, <1>5, <1>6, <1>7

(* The critic's save starts like the actor's; else the driver's files follow. *)
LEMMA ReturnBarrierStep ==
  ASSUME SafeConfiguration, IInv, ReturnBarrier
  PROVE  IInv'
<1> USE DEF IInv, ReturnBarrier, InGroup, disk
<1>1. CASE phase = "actor" /\ UseCritic
  <2>1. ~Appended("critic") /\ StartSave("critic") /\ phase' = "critic"
    BY <1>1 DEF Appended, StartSave, Roles
  <2>2. /\ phase' \in Phases
        /\ doomed' \in SUBSET Steps
        /\ pc' \in [Ranks -> Positions]
        /\ \A r \in Ranks : pc'[r] \in {"rotate", "mkdir"}
        /\ Removing'
    BY <1>1, <2>1, StartSaveStep
  <2>3. TypeOK'
    BY <2>2 DEF TypeOK
  <2>4. TrackedIsWhole' /\ Progress'
    BY <1>1, <2>1 DEF TypeOK, Progress, TrackedIsWhole, WrittenBy
  <2>7. Positioned'
    BY <2>1, <2>2 DEF Positioned
  <2>5. Recorded'
    BY <1>1, <2>1, <2>2 DEF TypeOK, Progress, Positioned, Recorded, Increasing, Appended
  <2>6. Written'
    <3>1. \A k \in FilesOf("actor"), r \in Ranks : file[k][step][r] = launch
      BY <1>1 DEF TypeOK, Positioned, Written, FilesOf
    <3>2. file' = file /\ step' = step /\ launch' = launch
      BY <2>1 DEF StartSave
    <3> QED
      BY <2>1, <2>2, <3>1, <3>2 DEF Written
  <2> QED
    BY <2>2, <2>3, <2>4, <2>5, <2>6, <2>7
<1>2. CASE ~(phase = "actor" /\ UseCritic)
  <2>1. phase' = "data" /\ pc' = Idle /\ doomed' = doomed
    BY <1>2
  <2>2. TypeOK' /\ TrackedIsWhole' /\ Progress' /\ Positioned'
    BY <1>2, <2>1 DEF TypeOK, Progress, Positioned, TrackedIsWhole, WrittenBy
  <2>3. Removing'
    BY <2>1 DEF TypeOK, Removing, At
  <2>4. Recorded'
    BY <1>2, <2>1 DEF TypeOK, Progress, Positioned, Recorded, Increasing, Appended
  <2>5. Written'
    <3>1. \A k \in Kinds, r \in Ranks : file[k][step][r] = launch
      BY <1>2 DEF TypeOK, Positioned, Written
    <3> QED
      BY <2>1, <3>1 DEF TypeOK, Written
  <2> QED
    BY <2>2, <2>3, <2>4, <2>5
<1> QED
  BY <1>1, <1>2

(* A training step moves ahead of the tracker, and may start a save.        *)
LEMMA TrainStep ==
  ASSUME SafeConfiguration, IInv, Train
  PROVE  IInv'
<1> USE DEF IInv, Train, InGroup, disk
<1>1. /\ phase = "train" /\ tracker \in 0..step /\ step \in Nat
      /\ step' = step + 1 /\ step' \in Steps /\ step' <= TotalSteps + launch
      /\ pc = Idle /\ doomed = {}
  BY DEF TypeOK, Progress, Positioned, Removing, At
<1>2. TrackedIsWhole'
  BY TrackedUntouched
<1>3. CASE StartSave("actor")
  <2>1. ~Appended("actor") /\ phase' = "actor"
    BY <1>1, <1>3 DEF Appended, StartSave
  <2>2. /\ phase' \in Phases
        /\ doomed' \in SUBSET Steps
        /\ pc' \in [Ranks -> Positions]
        /\ \A r \in Ranks : pc'[r] \in {"rotate", "mkdir"}
        /\ Removing'
    BY <1>1, <1>3, <2>1, StartSaveStep
  <2>3. TypeOK' /\ Progress'
    BY <1>1, <2>1, <2>2 DEF TypeOK, Progress
  <2>6. Positioned'
    BY <2>1, <2>2 DEF Positioned
  <2>4. Recorded'
    BY <1>1, <2>1, <2>2 DEF TypeOK, Recorded, Increasing, Appended
  <2>5. Written'
    BY <1>1, <2>1, <2>2 DEF Written
  <2> QED
    BY <1>2, <2>2, <2>3, <2>4, <2>5, <2>6
<1>4. CASE ~StartSave("actor")
  <2>1. /\ phase' = AfterStep(step') /\ doomed' = doomed /\ pc' = pc
        /\ ~IsLastStep(step')
    BY <1>1, <1>4 DEF MustSave
  <2>2. phase' = "train" /\ step' < TotalSteps
    BY <1>1, <2>1 DEF AfterStep, IsLastStep
  <2>3. TypeOK' /\ Progress' /\ Removing' /\ Positioned'
    BY <1>1, <2>1, <2>2 DEF TypeOK, Progress, Removing, At, Positioned
  <2>4. Recorded'
    BY <1>1, <2>1, <2>2 DEF TypeOK, Recorded, Increasing, Appended
  <2>5. Written'
    BY <1>1, <2>1, <2>2 DEF Written
  <2> QED
    BY <1>2, <2>3, <2>4, <2>5
<1> QED
  BY <1>3, <1>4

(* The driver's own files; closing the tracker makes the new step the tracked. *)
LEMMA BeginDataStep ==
  ASSUME SafeConfiguration, IInv, BeginData
  PROVE  IInv'
<1> USE DEF IInv, BeginData, InGroup, memory
<1>1. TypeOK'
  BY DEF TypeOK, Progress, Positioned
<1>2. TrackedIsWhole'
  BY TrackedIsOlder, TrackedUntouched DEF TypeOK
<1>3. Progress'
  BY DEF TypeOK, Progress, Positioned
<1>4. Recorded'
  BY DEF TypeOK, Progress, Positioned, Recorded, Increasing, Appended
<1>5. Removing'
  BY DEF TypeOK, Progress, Positioned, Removing, At
<1>6. Positioned'
  BY DEF TypeOK, Progress, Positioned
<1>7. Written'
  BY DEF TypeOK, Progress, Positioned, Written
<1> QED
  BY <1>1, <1>2, <1>3, <1>4, <1>5, <1>6, <1>7

LEMMA FinishDataStep ==
  ASSUME SafeConfiguration, IInv, FinishData
  PROVE  IInv'
<1> USE DEF IInv, FinishData, InGroup, memory
<1>1. TypeOK'
  BY DEF TypeOK, Progress, Positioned
<1>2. TrackedIsWhole'
  BY TrackedIsOlder, TrackedUntouched DEF TypeOK
<1>3. Progress'
  BY DEF TypeOK, Progress, Positioned
<1>4. Recorded'
  BY DEF TypeOK, Progress, Positioned, Recorded, Increasing, Appended
<1>5. Removing'
  BY DEF TypeOK, Progress, Positioned, Removing, At
<1>6. Positioned'
  BY DEF TypeOK, Progress, Positioned
<1>7. Written'
  BY DEF TypeOK, Progress, Positioned, Written
<1> QED
  BY <1>1, <1>2, <1>3, <1>4, <1>5, <1>6, <1>7

LEMMA OpenTrackerStep ==
  ASSUME SafeConfiguration, IInv, OpenTracker
  PROVE  IInv'
<1> USE DEF IInv, OpenTracker, InGroup, memory
<1>1. TypeOK'
  BY DEF TypeOK, Progress, Positioned
<1>2. TrackedIsWhole'
  BY DEF TypeOK, Progress, Positioned, TrackedIsWhole, WrittenBy
<1>3. Progress'
  BY DEF TypeOK, Progress, Positioned
<1>4. Recorded'
  BY DEF TypeOK, Progress, Positioned, Recorded, Increasing, Appended
<1>5. Removing'
  BY DEF TypeOK, Progress, Positioned, Removing, At
<1>6. Positioned'
  BY DEF TypeOK, Progress, Positioned
<1>7. Written'
  BY DEF TypeOK, Progress, Positioned, Written
<1> QED
  BY <1>1, <1>2, <1>3, <1>4, <1>5, <1>6, <1>7

LEMMA CloseTrackerStep ==
  ASSUME SafeConfiguration, IInv, CloseTracker
  PROVE  IInv'
<1> USE DEF IInv, CloseTracker, AfterStep, IsLastStep, InGroup, memory
<1>1. TypeOK'
  BY DEF TypeOK, Progress, Positioned
<1>2. TrackedIsWhole'
  BY DEF TypeOK, Progress, Written, TrackedIsWhole, WrittenBy
<1>3. Progress'
  BY DEF TypeOK, Progress, Positioned
<1>4. Recorded'
  BY DEF TypeOK, Progress, Positioned, Recorded, Increasing, Appended
<1>5. Removing'
  BY DEF TypeOK, Progress, Positioned, Removing, At
<1>6. Positioned'
  BY DEF TypeOK, Progress, Positioned
<1>7. Written'
  BY DEF TypeOK, Progress, Positioned, Written
<1> QED
  BY <1>1, <1>2, <1>3, <1>4, <1>5, <1>6, <1>7

(* A crash keeps the disk and forgets the rest; a launch reads the tracker. *)
LEMMA CrashStep ==
  ASSUME SafeConfiguration, IInv, Crash
  PROVE  IInv'
<1> USE DEF IInv, Crash, InGroup, disk
<1>1. TypeOK'
  BY DEF TypeOK, Progress, Positioned
<1>2. TrackedIsWhole'
  BY DEF TypeOK, Progress, Positioned, TrackedIsWhole, WrittenBy
<1>3. Progress'
  BY DEF TypeOK, Progress, Positioned
<1>4. Recorded'
  BY DEF TypeOK, Progress, Positioned, Recorded, Increasing, Appended
<1>5. Removing'
  BY DEF TypeOK, Progress, Positioned, Removing, At
<1>6. Positioned'
  BY DEF TypeOK, Progress, Positioned
<1>7. Written'
  BY DEF TypeOK, Progress, Positioned, Written
<1> QED
  BY <1>1, <1>2, <1>3, <1>4, <1>5, <1>6, <1>7

LEMMA StartStep ==
  ASSUME SafeConfiguration, IInv, Start
  PROVE  IInv'
<1> USE DEF IInv, InGroup, disk
<1>1. PICK path \in Steps : Launch("auto", path) \/ LaunchFails("auto", path)
  BY DEF Start, SafeConfiguration
<1>2. /\ phase \in {"down", "done"} /\ launch' = launch + 1 /\ launch' \in Launches
      /\ UNCHANGED <<file, folders, data, tracker, doomed, pc>>
      /\ saved' = [role \in Roles |-> << >>]
  BY <1>1 DEF Launch, LaunchFails, NewLaunch, TypeOK
<1>3. pc = Idle /\ doomed = {}
  BY <1>2 DEF Positioned, Removing, At
<1>4. TrackedIsWhole'
  BY <1>2, TrackedUntouched
<1>5. Recorded'
  BY <1>2, EmptySeq DEF Recorded, Increasing
<1>6. Removing'
  BY <1>2, <1>3 DEF Removing
<1>7. CASE Launch("auto", path)
  <2>1. phase' = "train" /\ step' = LatestCheckpoint /\ TrackerReadable
    BY <1>7 DEF Launch, Starts, Target
  <2>2. step' = tracker /\ tracker \in Nat
    BY <2>1 DEF TypeOK, LatestCheckpoint, TrackerReadable, TrackedIsWhole, WrittenBy
  <2>3. TypeOK' /\ Progress' /\ Positioned'
    BY <1>2, <1>3, <1>5, <2>1, <2>2, EmptySeq DEF TypeOK, Progress, Positioned
  <2>4. Written'
    BY <1>2, <1>3, <2>1 DEF Written
  <2> QED
    BY <1>4, <1>5, <1>6, <2>3, <2>4
<1>8. CASE LaunchFails("auto", path)
  <2>1. phase' = "down" /\ step' = step
    BY <1>8 DEF LaunchFails
  <2>2. TypeOK' /\ Progress' /\ Positioned'
    BY <1>2, <1>3, <2>1, EmptySeq DEF TypeOK, Progress, Positioned
  <2>3. Written'
    BY <1>2, <1>3, <2>1 DEF Written
  <2> QED
    BY <1>4, <1>5, <1>6, <2>2, <2>3
<1> QED
  BY <1>1, <1>7, <1>8

LEMMA StutterStep ==
  ASSUME IInv, UNCHANGED vars
  PROVE  IInv'
BY DEF IInv, vars, TypeOK, TrackedIsWhole, WrittenBy, Progress, Recorded, Increasing,
       Appended, Removing, At, InGroup, Positioned, Written

LEMMA InitIInv == Init => IInv
<1> SUFFICES ASSUME Init
             PROVE  IInv
  OBVIOUS
<1>1. TypeOK
  BY EmptySeq DEF Init, TypeOK
<1>2. TrackedIsWhole /\ Progress /\ Removing /\ Positioned /\ Written
  BY DEF Init, TrackedIsWhole, Progress, Removing, Positioned, InGroup, Written
<1>3. Recorded
  BY EmptySeq DEF Init, Recorded, Increasing
<1> QED
  BY <1>1, <1>2, <1>3 DEF IInv

LEMMA NextIInv ==
  ASSUME SafeConfiguration, IInv, [Next]_vars
  PROVE  IInv'
<1>1. CASE Work
  BY <1>1, TrainStep, RemoveOldFileStep, FinishRotationStep, MkdirStep, BeginDumpStep,
     FinishDumpStep, BeginAlphaStep, FinishAlphaStep, MkdirBarrierStep, DumpBarrierStep,
     ReturnBarrierStep, BeginDataStep, FinishDataStep, OpenTrackerStep, CloseTrackerStep
  DEF Work, RankStep
<1>2. CASE Crash
  BY <1>2, CrashStep
<1>3. CASE Start
  BY <1>3, StartStep
<1>4. CASE UNCHANGED vars
  BY <1>4, StutterStep
<1> QED
  BY <1>1, <1>2, <1>3, <1>4 DEF Next

(* The checkpoint the tracker names is whole in every reachable state, for  *)
(* every number of ranks, steps and launches, with or without a critic and  *)
(* Alpha-Stabler, if neither group keeps exactly one checkpoint.  (The      *)
(* rotation in FSDPCheckpointManager.save_checkpoint, the order of writes   *)
(* in _save_checkpoint and the barriers between them.)                      *)
THEOREM TrackedCheckpointIsWhole ==
  ASSUME SafeConfiguration
  PROVE  Spec => []TrackedIsWhole
<1>1. Init => IInv
  BY InitIInv
<1>2. IInv /\ [Next]_vars => IInv'
  BY NextIInv
<1>3. IInv => TrackedIsWhole
  BY DEF IInv
<1> QED
  BY <1>1, <1>2, <1>3, PTL DEF Spec

-----------------------------------------------------------------------------
(* What a resume costs, and who commits.                                    *)

(* While the job trains, a resume would pick the tracked step.              *)
LEMMA TrainsFromTracked ==
  ASSUME IInv, phase = "train"
  PROVE  tracker \in Nat /\ step \in Nat /\ tracker <= step /\ LatestCheckpoint = tracker
<1>1. tracker \in 0..step /\ step \in {0} \cup Steps /\ folders \in SUBSET Steps
  BY DEF IInv, TypeOK, Progress
<1>2. tracker \in Steps => tracker \in folders
  BY DEF IInv, TrackedIsWhole, WrittenBy
<1> QED
  BY <1>1, <1>2 DEF IInv, TypeOK, LatestCheckpoint

(* No multiple of save_freq lies between the tracked step and the last one, *)
(* for its save would have moved the tracker.                               *)
NoneDue == phase = "train" => \A m \in (tracker + 1)..step : m % SaveFreq # 0

LEMMA NoneDueStep ==
  ASSUME SafeConfiguration, IInv, NoneDue, [Next]_vars
  PROVE  NoneDue'
<1>1. CASE Train
  <2>1. phase = "train" /\ step' = step + 1 /\ tracker' = tracker
    BY <1>1 DEF Train, disk
  <2>2. tracker \in Nat /\ step \in Nat /\ tracker <= step
    BY <2>1, TrainsFromTracked
  <2>3. CASE (step + 1) % SaveFreq = 0
    <3>1. \A esi \in BOOLEAN : MustSave(step + 1, esi)
      BY <2>3 DEF MustSave
    <3>2. phase' = "actor"
      BY <1>1, <3>1 DEF Train, StartSave
    <3> QED
      BY <3>2 DEF NoneDue
  <2>4. CASE (step + 1) % SaveFreq # 0
    <3>1. \A m \in (tracker + 1)..(step + 1) : m \in (tracker + 1)..step \/ m = step + 1
      BY <2>2
    <3> QED
      BY <2>1, <2>4, <3>1 DEF NoneDue
  <2> QED
    BY <2>3, <2>4
<1>2. CASE CloseTracker
  <2>1. tracker' = step /\ step' = step /\ step \in Int
    BY <1>2 DEF CloseTracker, memory, IInv, TypeOK
  <2> QED
    BY <2>1 DEF NoneDue
<1>3. CASE Start
  <2>1. PICK path \in Steps : Launch("auto", path) \/ LaunchFails("auto", path)
    BY <1>3 DEF Start, SafeConfiguration
  <2>2. CASE LaunchFails("auto", path)
    BY <2>2 DEF LaunchFails, NoneDue
  <2>3. CASE Launch("auto", path)
    <3>1. step' = LatestCheckpoint /\ TrackerReadable /\ tracker' = tracker
      BY <2>3 DEF Launch, NewLaunch, Starts, Target, disk
    <3>2. step' = tracker /\ tracker \in Nat
      BY <3>1 DEF IInv, TypeOK, LatestCheckpoint, TrackerReadable, TrackedIsWhole, WrittenBy
    <3> QED
      BY <3>1, <3>2 DEF NoneDue
  <2> QED
    BY <2>1, <2>2, <2>3
<1>4. CASE Crash
  BY <1>4 DEF Crash, NoneDue
<1>5. CASE Work /\ ~Train /\ ~CloseTracker
  <2>1. phase' # "train"
    BY <1>5 DEF Work, RankStep, RemoveOldFile, FinishRotation, Mkdir, BeginDump, FinishDump,
                BeginAlpha, FinishAlpha, BeginWrite, FinishWrite, MkdirBarrier, DumpBarrier,
                ReturnBarrier, Barrier, At, InGroup, StartSave, BeginData, FinishData, OpenTracker
  <2> QED
    BY <2>1 DEF NoneDue
<1>6. CASE UNCHANGED vars
  BY <1>6 DEF vars, NoneDue
<1> QED
  BY <1>1, <1>2, <1>3, <1>4, <1>5, <1>6 DEF Next

(* Among save_freq steps in a row, one is a multiple of it.                 *)
LEMMA MultipleAhead ==
  ASSUME NEW a \in Nat, NEW b \in Nat, b - a >= SaveFreq
  PROVE  \E m \in (a + 1)..b : m % SaveFreq = 0
<1> DEFINE m == a + SaveFreq - (a % SaveFreq)
<1>1. a % SaveFreq \in 0..(SaveFreq - 1)
  OBVIOUS
<1>2. m \in (a + 1)..b
  BY <1>1
<1>3. m = SaveFreq * ((a \div SaveFreq) + 1)
  <2>1. a = SaveFreq * (a \div SaveFreq) + (a % SaveFreq) /\ a \div SaveFreq \in Nat
    OBVIOUS
  <2> QED
    BY <1>1, <2>1
<1>4. m % SaveFreq = 0
  <2>1. (a \div SaveFreq) + 1 \in Nat
    OBVIOUS
  <2>2. ASSUME NEW q \in Nat
        PROVE  (SaveFreq * q) % SaveFreq = 0
    OBVIOUS
  <2> QED
    BY <1>3, <2>1, <2>2
<1> QED
  BY <1>2, <1>4

(* A job that trains is less than save_freq steps ahead of what a resume    *)
(* would pick, for any save_freq, any capacity expiries and crashes         *)
(* (fit's save condition, find_latest_ckpt_path).                           *)
THEOREM LossIsBounded ==
  ASSUME SafeConfiguration
  PROVE  Spec => []BoundedLoss
<1>1. Init => NoneDue
  BY DEF Init, NoneDue
<1>2. IInv /\ NoneDue => BoundedLoss
  <2> SUFFICES ASSUME IInv, NoneDue, phase = "train"
               PROVE  step - LatestCheckpoint < SaveFreq
    BY DEF BoundedLoss
  <2>1. tracker \in Nat /\ step \in Nat /\ LatestCheckpoint = tracker
    BY TrainsFromTracked
  <2>2. ~(step - tracker >= SaveFreq)
    BY <2>1, MultipleAhead DEF NoneDue
  <2> QED
    BY <2>1, <2>2
<1> QED
  BY <1>1, <1>2, InitIInv, NextIInv, NoneDueStep, PTL DEF Spec

(* The tracker only moves to a checkpoint whose every file the running      *)
(* launch has written, for any number of ranks (the barriers of             *)
(* save_checkpoint and the order of _save_checkpoint).                      *)
THEOREM CommitsAreOwn ==
  ASSUME SafeConfiguration
  PROVE  Spec => CommitIsOwn
<1>1. IInv /\ [Next]_vars =>
        [tracker' # tracker /\ tracker' \in Steps => WrittenBy(tracker', launch)]_vars
  <2> SUFFICES ASSUME IInv, [Next]_vars, tracker' # tracker, tracker' \in Steps
               PROVE  WrittenBy(tracker', launch)
    OBVIOUS
  <2>1. ~OpenTracker
    BY DEF OpenTracker
  <2>2. CloseTracker
    BY <2>1 DEF Next, Work, Train, RankStep, RemoveOldFile, FinishRotation, Mkdir, BeginDump,
                FinishDump, BeginAlpha, FinishAlpha, BeginWrite, FinishWrite, MkdirBarrier,
                DumpBarrier, ReturnBarrier, BeginData, FinishData, Crash, Start, Launch,
                LaunchFails, NewLaunch, disk, vars
  <2>3. phase = "writing_tracker" /\ tracker' = step
    BY <2>2 DEF CloseTracker
  <2> QED
    BY <2>3 DEF IInv, Written, WrittenBy
<1> QED
  BY <1>1, InitIInv, NextIInv, PTL DEF Spec, CommitIsOwn
=============================================================================
