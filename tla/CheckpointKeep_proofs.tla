------------------------ MODULE CheckpointKeep_proofs ------------------------
(***************************************************************************)
(* The disk stays bounded: of the checkpoints one launch wrote, a worker   *)
(* group never holds more than it was told to keep.  Proved for every      *)
(* number of ranks, steps and launches and for every configuration: any    *)
(* resume mode, any number to keep.                                        *)
(*                                                                         *)
(* Why it is inductive: what the running launch wrote for a group lies in  *)
(* the directories rank 0 has recorded, or in the one being filled         *)
(* (Shelved); no rank fills it before rank 0 has rotated, because of the   *)
(* barrier after mkdir (Lockstep); and the rotation makes room for it      *)
(* before it does (Roomy), having emptied every directory it then forgets  *)
(* (Rotating).  The files of earlier launches are only ever removed or     *)
(* overwritten.                                                            *)
(*                                                                         *)
(* And the job goes on: what LaunchEnds says under fairness, in two parts  *)
(* that need none.  Somebody can always take a step (NobodyBlocked), and   *)
(* every step leaves fewer to take (WorkRunsOut).                          *)
(***************************************************************************)
EXTENDS Checkpoint, FiniteSetTheorems, SequenceTheorems, TLAPS

Late == {"alpha", "writing_alpha", "saved"}

Filling == {"dump", "dumping", "dumped"}

Room == {"mkdir", "ready"} \cup Filling

Committing == {"data", "writing_data", "tracker", "writing_tracker"}

Saving == {"actor", "critic"} \cup Committing

Bounded ==
  /\ phase # "down" => launch \in Launches
  /\ phase = "train" => step < TotalSteps + launch
  /\ phase \in Saving => step \in Steps
  /\ step <= TotalSteps + launch
  /\ tracker <= TotalSteps + launch

Dated ==
  \A k \in Kinds, s \in Steps, r \in Ranks :
    file[k][s][r] # Absent => s <= TotalSteps + launch /\ file[k][s][r] <= launch

Positioned ==
  /\ ~InGroup => pc = Idle
  /\ \A r \in Ranks : pc[r] \in {"alpha", "writing_alpha"} => phase = "actor" /\ UseAlpha

Lockstep ==
  \A r \in Ranks :
    /\ pc[r] \in Filling => pc[Rank0] \in Filling
    /\ pc[r] \in Late => pc[Rank0] \in Late

Listed(role) == {saved[role][i] : i \in 1..Len(saved[role])}

Fills(role) == phase = role /\ pc[Rank0] \in Filling

Shelf(role) == Listed(role) \cup (IF Fills(role) THEN {step} ELSE {})

Shelved ==
  /\ phase # "down" => \A role \in Roles : Held(role, launch) \subseteq Shelf(role)
  /\ InGroup /\ pc[Rank0] \in Late => step \in Listed(phase)

Roomy ==
  \A role \in Roles :
    Keep(role) > 0 =>
      /\ Len(saved[role]) <= Keep(role)
      /\ phase = role /\ pc[Rank0] \in Room => Len(saved[role]) < Keep(role)

Rotating == At(Rank0, "rotate") => doomed = DoomedSteps(phase)

IInv ==
  /\ TypeOK
  /\ Bounded
  /\ Dated
  /\ Positioned
  /\ Lockstep
  /\ Shelved
  /\ Roomy
  /\ Rotating
  /\ KeepPerLaunch

-----------------------------------------------------------------------------
(* Counting.                                                                *)

USE CheckpointAssumption
USE DEF Steps, Launches, Content, Absent, Torn, NoTracker, Truncated, Roles,
        Kinds, FilesOf, Phases, Positions, Idle, Late, Filling, Room,
        Committing, Saving

(* A list names no more elements than it is long.                           *)
LEMMA ListIsShort ==
  ASSUME NEW S, NEW q \in Seq(S)
  PROVE  /\ IsFiniteSet({q[i] : i \in 1..Len(q)})
         /\ Cardinality({q[i] : i \in 1..Len(q)}) <= Len(q)
<1> DEFINE T == {q[i] : i \in 1..Len(q)}
           f == [i \in 1..Len(q) |-> q[i]]
<1>1. Len(q) \in Nat
  BY LenProperties
<1>2. IsFiniteSet(1..Len(q)) /\ Cardinality(1..Len(q)) = Len(q)
  <2> DEFINE n == Len(q)
  <2> HIDE DEF n
  <2>1. n \in Int /\ 1 \in Int /\ n >= 0
    BY <1>1 DEF n
  <2>2. /\ IsFiniteSet(1..n)
        /\ Cardinality(1..n) = IF 1 > n THEN 0 ELSE n - 1 + 1
    BY <2>1, FS_Interval
  <2>3. Cardinality(1..n) = n
    BY <2>1, <2>2
  <2> QED
    BY <2>2, <2>3 DEF n
<1>3. f \in Surjection(1..Len(q), T)
  BY DEF Surjection
<1>4. IsFiniteSet(T) /\ Cardinality(T) <= Cardinality(1..Len(q))
  BY <1>2, <1>3, FS_Surjection
<1> QED
  BY <1>2, <1>4

(* With room made for the checkpoint being written, a group's directories   *)
(* are no more than it may keep.                                            *)
SmallShelves ==
  \A role \in Roles :
    Keep(role) > 0 => IsFiniteSet(Shelf(role)) /\ Cardinality(Shelf(role)) <= Keep(role)

LEMMA ShelfIsSmall == TypeOK /\ Roomy => SmallShelves
<1> SUFFICES ASSUME TypeOK, Roomy, NEW role \in Roles, Keep(role) > 0
             PROVE  IsFiniteSet(Shelf(role)) /\ Cardinality(Shelf(role)) <= Keep(role)
  BY DEF SmallShelves
<1>1. saved[role] \in Seq(Steps) /\ Len(saved[role]) \in Nat
  BY LenProperties DEF TypeOK
<1>2. Keep(role) \in Nat
  BY DEF Keep
<1>3. IsFiniteSet(Listed(role)) /\ Cardinality(Listed(role)) <= Len(saved[role])
  BY <1>1, ListIsShort DEF Listed
<1>4. Cardinality(Listed(role)) \in Nat
  BY <1>3, FS_CardinalityType
<1>5. CASE Fills(role)
  <2>1. Len(saved[role]) < Keep(role)
    BY <1>5 DEF Roomy, Fills
  <2>2. Shelf(role) = Listed(role) \cup {step}
    BY <1>5 DEF Shelf
  <2>3. /\ IsFiniteSet(Listed(role) \cup {step})
        /\ Cardinality(Listed(role) \cup {step}) <= Cardinality(Listed(role)) + 1
    <3>1. /\ IsFiniteSet(Listed(role) \cup {step})
          /\ Cardinality(Listed(role) \cup {step}) =
               IF step \in Listed(role) THEN Cardinality(Listed(role))
                                        ELSE Cardinality(Listed(role)) + 1
      BY <1>3, FS_AddElement
    <3> QED
      BY <1>4, <3>1
  <2>4. Cardinality(Listed(role) \cup {step}) \in Nat
    BY <2>3, FS_CardinalityType
  <2> QED
    BY <1>1, <1>2, <1>3, <1>4, <2>1, <2>2, <2>3, <2>4
<1>6. CASE ~Fills(role)
  <2>1. Len(saved[role]) <= Keep(role)
    BY DEF Roomy
  <2>2. Shelf(role) = Listed(role)
    BY <1>6 DEF Shelf
  <2> QED
    BY <1>1, <1>2, <1>3, <1>4, <2>1, <2>2
<1> QED
  BY <1>5, <1>6

LEMMA ShelfStaysSmall == TypeOK' /\ Roomy' => SmallShelves'
BY ShelfIsSmall, PTL

(* Nothing but the running launch's own writes adds to what a launch holds. *)
Overwritten ==
  \A k \in Kinds, s \in Steps, r \in Ranks :
    \/ file'[k][s][r] = file[k][s][r]
    \/ file'[k][s][r] \in {Absent, Torn}
    \/ phase' # "down" /\ file'[k][s][r] = launch'

LEMMA HeldIsFinite ==
  ASSUME NEW role \in Roles, NEW l \in Launches
  PROVE  IsFiniteSet(Held(role, l)) /\ Cardinality(Held(role, l)) \in Nat
<1>1. IsFiniteSet(Steps)
  BY FS_Interval
<1>2. Held(role, l) \in SUBSET Steps
  BY DEF Held
<1>3. IsFiniteSet(Held(role, l))
  BY <1>1, <1>2, FS_Subset
<1> QED
  BY <1>3, FS_CardinalityType

LEMMA KeepStep ==
  ASSUME IInv, TypeOK', Shelved', Roomy', Overwritten
  PROVE  KeepPerLaunch'
<1> SUFFICES ASSUME NEW role \in Roles, NEW l \in Launches, Keep(role) > 0
             PROVE  Cardinality(Held(role, l)') <= Keep(role)
  BY DEF KeepPerLaunch, Keep
<1>1. Keep(role) \in Nat
  BY DEF Keep
<1>2. CASE phase' # "down" /\ l = launch'
  <2>1. Held(role, l)' \in SUBSET (Shelf(role)')
    BY <1>2 DEF Shelved, Held
  <2>2. IsFiniteSet(Shelf(role)') /\ Cardinality(Shelf(role)') <= Keep(role)
    BY ShelfStaysSmall DEF SmallShelves, Keep
  <2>3. IsFiniteSet(Held(role, l)') /\ Cardinality(Held(role, l)') <= Cardinality(Shelf(role)')
    BY <2>1, <2>2, FS_Subset
  <2>4. Cardinality(Held(role, l)') \in Nat /\ Cardinality(Shelf(role)') \in Nat
    BY <2>2, <2>3, FS_CardinalityType
  <2> QED
    BY <1>1, <2>2, <2>3, <2>4
<1>3. CASE ~(phase' # "down" /\ l = launch')
  <2>1. \A k \in Kinds, s \in Steps, r \in Ranks :
          file'[k][s][r] = l => file[k][s][r] = l
    BY <1>3 DEF Overwritten
  <2>2. Held(role, l)' \in SUBSET Held(role, l)
    BY <2>1 DEF Held
  <2>3. IsFiniteSet(Held(role, l)) /\ Cardinality(Held(role, l)) \in Nat
    BY HeldIsFinite
  <2>4. IsFiniteSet(Held(role, l)') /\ Cardinality(Held(role, l)') <= Cardinality(Held(role, l))
    BY <2>2, <2>3, FS_Subset
  <2>5. Cardinality(Held(role, l)') \in Nat
    BY <2>4, FS_CardinalityType
  <2>6. Cardinality(Held(role, l)) <= Keep(role)
    BY DEF IInv, KeepPerLaunch
  <2> QED
    BY <1>1, <2>3, <2>4, <2>5, <2>6
<1> QED
  BY <1>2, <1>3

-----------------------------------------------------------------------------
(* Every step keeps the invariant.                                          *)

\* Everything but the counting itself.
Retained == TypeOK /\ Bounded /\ Dated /\ Positioned /\ Lockstep /\ Shelved /\ Roomy /\ Rotating

(* A step that leaves files and recorded paths alone.                       *)
LEMMA Undisturbed ==
  ASSUME IInv, file' = file, saved' = saved, launch' = launch,
         phase' # "down" => phase # "down",
         \A role \in Roles : Fills(role) => Fills(role)' /\ step' = step,
         InGroup' /\ pc'[Rank0] \in Late => phase' = phase /\ pc[Rank0] \in Late /\ step' = step
  PROVE  Shelved'
<1>1. \A role \in Roles : Listed(role)' = Listed(role)
  BY DEF Listed
<1>2. \A role \in Roles : Shelf(role) \subseteq Shelf(role)'
  BY <1>1 DEF Shelf
<1>3. phase' # "down" => \A role \in Roles : Held(role, launch)' \subseteq Shelf(role)'
  BY <1>2 DEF IInv, Shelved, Held
<1>4. InGroup' /\ pc'[Rank0] \in Late => step' \in Listed(phase)'
  BY <1>1 DEF IInv, Shelved, InGroup, Listed
<1> QED
  BY <1>3, <1>4 DEF Shelved

LEMMA StartSaveStep ==
  ASSUME TypeOK, NEW role \in Roles, StartSave(role)
  PROVE  /\ phase' = role
         /\ doomed' \in SUBSET Steps
         /\ pc' \in [Ranks -> Positions]
         /\ \A r \in Ranks : pc'[r] \in {"rotate", "mkdir"}
         /\ pc'[Rank0] = "rotate"
         /\ saved' = saved => Rotating'
<1>1. saved[role] \in Seq(Steps) /\ Len(saved[role]) \in Nat
  BY LenProperties DEF TypeOK
<1>2. \A i \in 1..Len(saved[role]) : saved[role][i] \in Steps
  BY <1>1, ElementOfSeq
<1>3. Rotates(role) => KeepStart(role) <= Len(saved[role]) /\ KeepStart(role) \in Int
  BY <1>1 DEF Rotates, KeepStart, Keep
<1>4. DoomedSteps(role) \in SUBSET Steps
  BY <1>1, <1>2, <1>3 DEF DoomedSteps
<1>5. saved' = saved => DoomedSteps(role)' = DoomedSteps(role)
  BY DEF DoomedSteps, Rotates, KeepStart, Keep
<1> QED
  BY <1>4, <1>5 DEF StartSave, Rotating

LEMMA TrainStep ==
  ASSUME IInv, Train
  PROVE  Retained'
<1> USE DEF IInv, Train, disk
<1>1. "actor" \in Roles /\ step + 1 \in Steps /\ launch \in Launches /\ ~InGroup
  BY DEF TypeOK, Bounded, InGroup
<1>2. CASE StartSave("actor")
  <2>1. /\ phase' = "actor"
        /\ doomed' \in SUBSET Steps
        /\ pc' \in [Ranks -> Positions]
        /\ \A r \in Ranks : pc'[r] \in {"rotate", "mkdir"}
        /\ pc'[Rank0] = "rotate"
        /\ Rotating'
    BY <1>1, <1>2, StartSaveStep
  <2>2. TypeOK'
    BY <1>1, <2>1 DEF TypeOK
  <2>3. Bounded' /\ Dated'
    BY <1>1, <2>1 DEF TypeOK, Bounded, Dated
  <2>4. Positioned' /\ Lockstep'
    BY <2>1 DEF Positioned, Lockstep, InGroup
  <2>5. Shelved'
    BY <1>1, <2>1, Undisturbed DEF Fills, Positioned
  <2>6. Roomy'
    BY <2>1 DEF Roomy, Keep
  <2> QED
    BY <2>1, <2>2, <2>3, <2>4, <2>5, <2>6 DEF Retained
<1>3. CASE phase' = AfterStep(step + 1) /\ UNCHANGED <<doomed, pc>>
  <2>1. phase' \in {"train", "done"} /\ (phase' = "train" => step + 1 < TotalSteps)
    BY <1>1, <1>3 DEF AfterStep, IsLastStep
  <2>2. TypeOK'
    BY <1>1, <1>3, <2>1 DEF TypeOK
  <2>3. Bounded' /\ Dated'
    BY <1>1, <1>3, <2>1 DEF TypeOK, Bounded, Dated
  <2>4. Positioned' /\ Lockstep' /\ Rotating'
    BY <1>1, <1>3, <2>1 DEF Positioned, Lockstep, InGroup, Rotating, At
  <2>5. Shelved'
    BY <1>1, <1>3, <2>1, Undisturbed DEF Fills, Positioned, InGroup
  <2>6. Roomy'
    BY <1>3, <2>1 DEF Roomy, Keep
  <2> QED
    BY <2>2, <2>3, <2>4, <2>5, <2>6 DEF Retained
<1> QED
  BY <1>2, <1>3

LEMMA MkdirStep ==
  ASSUME IInv, NEW r \in Ranks, Mkdir(r)
  PROVE  Retained'
<1> USE DEF IInv, Mkdir, At, InGroup
<1>1. TypeOK'
  BY DEF TypeOK, Bounded
<1>2. Bounded' /\ Dated'
  BY DEF TypeOK, Bounded, Dated
<1>3. Positioned' /\ Lockstep' /\ Rotating'
  BY DEF TypeOK, Positioned, Lockstep, Rotating, DoomedSteps, Rotates, KeepStart, Keep
<1>4. Shelved'
  BY Undisturbed DEF TypeOK, Fills
<1>5. Roomy'
  BY DEF TypeOK, Roomy, Keep
<1> QED
  BY <1>1, <1>2, <1>3, <1>4, <1>5 DEF Retained

LEMMA MkdirBarrierStep ==
  ASSUME IInv, MkdirBarrier
  PROVE  Retained'
<1> USE DEF IInv, MkdirBarrier, Barrier, InGroup, disk
<1>1. TypeOK'
  BY DEF TypeOK
<1>2. Bounded' /\ Dated'
  BY DEF TypeOK, Bounded, Dated
<1>3. Positioned' /\ Lockstep' /\ Rotating'
  BY DEF TypeOK, Positioned, Lockstep, Rotating, At
<1>4. Shelved'
  BY Undisturbed DEF TypeOK, Fills
<1>5. Roomy'
  BY DEF TypeOK, Roomy, Keep
<1> QED
  BY <1>1, <1>2, <1>3, <1>4, <1>5 DEF Retained

LEMMA ReturnBarrierStep ==
  ASSUME IInv, ReturnBarrier
  PROVE  Retained'
<1> USE DEF IInv, ReturnBarrier, InGroup, disk
<1>1. phase \in Roles /\ step \in Steps /\ launch \in Launches /\ pc[Rank0] = "saved"
  BY DEF TypeOK, Bounded
<1>2. CASE phase = "actor" /\ UseCritic
  <2>1. "critic" \in Roles /\ StartSave("critic")
    BY <1>2
  <2>2. /\ phase' = "critic"
        /\ doomed' \in SUBSET Steps
        /\ pc' \in [Ranks -> Positions]
        /\ \A r \in Ranks : pc'[r] \in {"rotate", "mkdir"}
        /\ pc'[Rank0] = "rotate"
        /\ Rotating'
    BY <2>1, StartSaveStep
  <2>3. TypeOK'
    BY <2>2 DEF TypeOK
  <2>4. Bounded' /\ Dated'
    BY <1>1, <2>2 DEF TypeOK, Bounded, Dated
  <2>5. Positioned' /\ Lockstep'
    BY <2>1, <2>2 DEF Positioned, Lockstep
  <2>6. Shelved'
    BY <1>1, <2>2, Undisturbed DEF Fills
  <2>7. Roomy'
    BY <2>2 DEF Roomy, Keep
  <2> QED
    BY <2>2, <2>3, <2>4, <2>5, <2>6, <2>7 DEF Retained
<1>3. CASE ~(phase = "actor" /\ UseCritic)
  <2>1. phase' = "data" /\ pc' = Idle /\ doomed' = doomed
    BY <1>3
  <2>2. TypeOK'
    BY <2>1 DEF TypeOK
  <2>3. Bounded' /\ Dated'
    BY <1>1, <2>1 DEF TypeOK, Bounded, Dated
  <2>4. Positioned' /\ Lockstep' /\ Rotating'
    BY <2>1 DEF Positioned, Lockstep, Rotating, At
  <2>5. Shelved'
    BY <1>1, <2>1, Undisturbed DEF Fills
  <2>6. Roomy'
    BY <2>1 DEF Roomy, Keep
  <2> QED
    BY <2>2, <2>3, <2>4, <2>5, <2>6 DEF Retained
<1> QED
  BY <1>2, <1>3

(* The four writes of a rank: each touches one file of the step being saved, *)
(* and only once its group has left the barrier after mkdir.                 *)
LEMMA BeginWriteStep ==
  ASSUME IInv, NEW r \in Ranks, NEW k \in Kinds,
         NEW here \in Positions, NEW there \in Positions,
         BeginWrite(k, r, here, there),
         \/ here \in Filling /\ there \in Filling
         \/ here \in Late /\ there \in Late /\ phase = "actor" /\ UseAlpha
  PROVE  Retained' /\ Overwritten
<1> USE DEF IInv, BeginWrite, At, InGroup
<1>1. step \in Steps /\ launch \in Launches /\ phase \in Roles
  BY DEF TypeOK, Bounded
<1>2. \A j \in Kinds, s \in Steps, q \in Ranks :
        file'[j][s][q] = IF j = k /\ s = step /\ q = r THEN Torn ELSE file[j][s][q]
  BY <1>1 DEF TypeOK
<1>3. TypeOK'
  BY <1>1 DEF TypeOK
<1>4. Bounded'
  BY <1>1 DEF TypeOK, Bounded
<1>5. Dated'
  BY <1>1, <1>2 DEF TypeOK, Bounded, Dated
<1>6. Positioned' /\ Lockstep'
  BY <1>1 DEF TypeOK, Positioned, Lockstep
<1>7. Rotating'
  BY <1>1 DEF TypeOK, Lockstep, Rotating, DoomedSteps, Rotates, KeepStart, Keep
<1>8. Shelved'
  <2>1. \A role \in Roles : Shelf(role)' = Shelf(role)
    BY <1>1 DEF TypeOK, Shelf, Listed, Fills, Lockstep
  <2>2. \A role \in Roles : Held(role, launch)' \subseteq Held(role, launch)
    BY <1>1, <1>2 DEF Held
  <2>3. \A role \in Roles : Listed(role)' = Listed(role)
    BY DEF Listed
  <2> QED
    BY <1>1, <2>1, <2>2, <2>3 DEF TypeOK, Shelved, Lockstep
<1>9. Roomy'
  BY <1>1 DEF TypeOK, Roomy, Keep
<1>10. Overwritten
  BY <1>2 DEF Overwritten
<1> QED
  BY <1>3, <1>4, <1>5, <1>6, <1>7, <1>8, <1>9, <1>10 DEF Retained

LEMMA FinishWriteStep ==
  ASSUME IInv, NEW r \in Ranks, NEW k \in Kinds,
         NEW here \in Positions, NEW there \in Positions,
         FinishWrite(k, r, here, there), k \in FilesOf(phase),
         \/ here \in Filling /\ there \in Filling
         \/ here \in Late /\ there = "saved"
  PROVE  Retained' /\ Overwritten
<1> USE DEF IInv, FinishWrite, At, InGroup
<1>1. step \in Steps /\ launch \in Launches /\ phase \in Roles
  BY DEF TypeOK, Bounded
<1>2. \A j \in Kinds, s \in Steps, q \in Ranks :
        file'[j][s][q] = IF j = k /\ s = step /\ q = r THEN launch ELSE file[j][s][q]
  BY <1>1 DEF TypeOK
<1>3. TypeOK'
  BY <1>1 DEF TypeOK
<1>4. Bounded'
  BY <1>1 DEF TypeOK, Bounded
<1>5. Dated'
  BY <1>1, <1>2 DEF TypeOK, Bounded, Dated
<1>6. Positioned' /\ Lockstep'
  BY <1>1 DEF TypeOK, Positioned, Lockstep
<1>7. Rotating'
  BY <1>1 DEF TypeOK, Lockstep, Rotating, DoomedSteps, Rotates, KeepStart, Keep
<1>8. Shelved'
  <2>1. \A role \in Roles : Shelf(role)' = Shelf(role)
    BY <1>1 DEF TypeOK, Shelf, Listed, Fills, Lockstep
  <2>2. step \in Shelf(phase)
    BY <1>1 DEF TypeOK, Shelf, Fills, Lockstep, Shelved
  <2>3. \A role \in Roles :
          Held(role, launch)' \subseteq
            Held(role, launch) \cup (IF role = phase THEN {step} ELSE {})
    BY <1>1, <1>2 DEF Held
  <2>4. \A role \in Roles : Held(role, launch) \subseteq Shelf(role)
    BY <1>1 DEF Shelved
  <2>5. \A role \in Roles : Held(role, launch)' \subseteq Shelf(role)'
    BY <2>1, <2>2, <2>3, <2>4
  <2>6. \A role \in Roles : Listed(role)' = Listed(role)
    BY DEF Listed
  <2> QED
    BY <1>1, <2>5, <2>6 DEF TypeOK, Shelved, Lockstep
<1>9. Roomy'
  BY <1>1 DEF TypeOK, Roomy, Keep
<1>10. Overwritten
  BY <1>1, <1>2 DEF Overwritten
<1> QED
  BY <1>3, <1>4, <1>5, <1>6, <1>7, <1>8, <1>9, <1>10 DEF Retained

(* A directory rank 0 forgets has been emptied of the group's files.        *)
LEMMA RemoveOldFileStep ==
  ASSUME IInv, NEW k \in Kinds, NEW s \in Steps, NEW r \in Ranks, RemoveOldFile(k, s, r)
  PROVE  Retained' /\ Overwritten
<1> USE DEF IInv, RemoveOldFile, At, InGroup, memory
<1>1. \A j \in Kinds, t \in Steps, q \in Ranks :
        file'[j][t][q] = IF j = k /\ t = s /\ q = r THEN Absent ELSE file[j][t][q]
  BY DEF TypeOK
<1>2. TypeOK'
  BY DEF TypeOK
<1>3. Bounded'
  BY DEF TypeOK, Bounded
<1>4. Dated'
  BY <1>1 DEF TypeOK, Bounded, Dated
<1>5. Positioned' /\ Lockstep'
  BY DEF TypeOK, Positioned, Lockstep
<1>6. Rotating'
  BY DEF Rotating, DoomedSteps, Rotates, KeepStart, Keep
<1>7. Shelved'
  <2>1. \A role \in Roles : Shelf(role)' = Shelf(role) /\ Listed(role)' = Listed(role)
    BY DEF Shelf, Listed, Fills
  <2>2. launch \in Launches
    BY DEF Bounded
  <2>3. \A role \in Roles : Held(role, launch)' \subseteq Held(role, launch)
    BY <1>1, <2>2 DEF Held
  <2> QED
    BY <2>1, <2>3 DEF TypeOK, Shelved
<1>8. Roomy'
  BY DEF TypeOK, Roomy, Keep
<1>9. Overwritten
  BY <1>1 DEF Overwritten
<1> QED
  BY <1>2, <1>3, <1>4, <1>5, <1>6, <1>7, <1>8, <1>9 DEF Retained

(* What is left of a list after dropping its first n elements.              *)
LEMMA SuffixProperties ==
  ASSUME NEW S, NEW q \in Seq(S), NEW n \in Nat, n <= Len(q)
  PROVE  /\ SubSeq(q, n + 1, Len(q)) \in Seq(S)
         /\ Len(SubSeq(q, n + 1, Len(q))) = Len(q) - n
         /\ \A i \in 1..(Len(q) - n) : SubSeq(q, n + 1, Len(q))[i] = q[n + i]
<1> DEFINE m == n + 1
           l == Len(q)
<1>1. l \in Nat /\ \A i \in 1..l : q[i] \in S
  BY ElementOfSeq, LenProperties
<1>2. m \in Int /\ l \in Int /\ (\A i \in m..l : q[i] \in S) /\ m = n + 1 /\ m <= l + 1
  BY <1>1
<1> HIDE DEF m, l
<1>3. /\ SubSeq(q, m, l) \in Seq(S)
      /\ Len(SubSeq(q, m, l)) = IF m <= l THEN l - m + 1 ELSE 0
      /\ \A i \in 1..(l - m + 1) : SubSeq(q, m, l)[i] = q[m + i - 1]
  BY <1>2, SubSeqProperties
<1>4. /\ SubSeq(q, m, l) \in Seq(S)
      /\ Len(SubSeq(q, m, l)) = l - n
      /\ \A i \in 1..(l - n) : SubSeq(q, m, l)[i] = q[n + i]
  <2>1. l - m + 1 = l - n /\ (\A i \in 1..(l - n) : m + i - 1 = n + i)
    BY <1>2
  <2>2. Len(SubSeq(q, m, l)) = l - n
    BY <1>2, <1>3
  <2>3. ASSUME NEW i \in 1..(l - n)
        PROVE  SubSeq(q, m, l)[i] = q[n + i]
    <3>1. SubSeq(q, m, l)[i] = q[m + i - 1]
      BY <1>3, <2>1
    <3> QED
      BY <2>1, <3>1
  <2> QED
    BY <1>3, <2>2, <2>3
<1> QED
  BY <1>4 DEF m, l

LEMMA FinishRotationStep ==
  ASSUME IInv, FinishRotation
  PROVE  Retained'
<1> USE DEF IInv, FinishRotation, At, InGroup, disk
<1> DEFINE q == saved[phase]
           n == KeepStart(phase)
           t == SubSeq(q, n + 1, Len(q))
<1>1. phase \in Roles /\ step \in Steps /\ launch \in Launches /\ Keep(phase) \in Nat
  BY DEF TypeOK, Bounded, Keep
<1>2. q \in Seq(Steps) /\ Len(q) \in Nat
  BY <1>1, LenProperties DEF TypeOK
<1>3. /\ saved' \in [Roles -> Seq(Steps)]
      /\ \A role \in Roles : role # phase => saved'[role] = saved[role]
      /\ Keep(phase) > 0 => Len(saved'[phase]) < Keep(phase)
      /\ \A i \in 1..Len(q) : q[i] \in Listed(phase)' \/ q[i] \in doomed
  <2>1. CASE Rotates(phase)
    <3>1. n \in Nat /\ n <= Len(q) /\ Len(q) - n = Keep(phase) - 1
      BY <1>1, <1>2, <2>1 DEF Rotates, KeepStart
    <3> HIDE DEF n, q
    <3>2. /\ t \in Seq(Steps)
          /\ Len(t) = Len(q) - n
          /\ \A i \in 1..(Len(q) - n) : t[i] = q[n + i]
      BY <1>2, <3>1, SuffixProperties
    <3>3. saved' = [saved EXCEPT ![phase] = t]
      BY <2>1 DEF n, q
    <3> HIDE DEF t
    <3>4. /\ saved' \in [Roles -> Seq(Steps)]
          /\ saved'[phase] = t
          /\ \A role \in Roles : role # phase => saved'[role] = saved[role]
      <4>1. saved \in [Roles -> Seq(Steps)]
        BY DEF TypeOK
      <4> QED
        BY ONLY <1>1, <3>2, <3>3, <4>1
    <3>5. Len(t) < Keep(phase)
      BY <1>1, <1>2, <3>1, <3>2
    <3>6. doomed = {q[i] : i \in 1..n}
      BY <2>1 DEF Rotating, DoomedSteps, q, n
    <3>7. ASSUME NEW i \in 1..Len(q), i \notin 1..n
          PROVE  q[i] \in Listed(phase)'
      <4>1. i - n \in 1..(Len(q) - n) /\ n + (i - n) = i
        BY <1>2, <3>1, <3>7
      <4>2. t[i - n] = q[i]
        BY <3>2, <4>1
      <4>3. Listed(phase)' = {t[j] : j \in 1..Len(t)}
        <5>1. saved'[phase'] = t
          BY <3>4
        <5>2. Listed(phase)' = {saved'[phase'][j] : j \in 1..Len(saved'[phase'])}
          BY ONLY DEF Listed
        <5> QED
          BY ONLY <5>1, <5>2
      <4> QED
        BY <3>2, <4>1, <4>2, <4>3
    <3> QED
      BY <3>4, <3>5, <3>6, <3>7
  <2>2. CASE ~Rotates(phase)
    <3>1. saved' = saved
      BY <2>2
    <3>2. Keep(phase) > 0 => Len(q) < Keep(phase)
      BY <1>1, <1>2, <2>2 DEF Rotates
    <3>3. Listed(phase)' = Listed(phase)
      BY <3>1 DEF Listed
    <3> QED
      BY <1>1, <3>1, <3>2, <3>3 DEF TypeOK, Listed
  <2> QED
    BY <2>1, <2>2
<1> HIDE DEF q, n, t
<1>4. pc'[Rank0] = "mkdir" /\ \A r \in Ranks : r # Rank0 => pc'[r] = pc[r]
  BY DEF TypeOK
<1>5. TypeOK'
  BY <1>3 DEF TypeOK
<1>6. Bounded' /\ Dated'
  BY DEF TypeOK, Bounded, Dated
<1>7. Positioned'
  BY <1>4 DEF TypeOK, Positioned
<1>8. Lockstep'
  BY <1>4 DEF TypeOK, Lockstep
<1>9. Rotating'
  BY <1>4 DEF Rotating
<1>10. Shelved'
  <2>1. \A role \in Roles : role # phase => Listed(role)' = Listed(role)
    BY <1>3 DEF Listed
  <2>2. \A role \in Roles : role # phase => Held(role, launch)' \subseteq Listed(role)'
    BY <1>1, <2>1 DEF Shelved, Shelf, Fills, Held
  <2>3. Held(phase, launch)' \subseteq Listed(phase)'
    <3>1. Held(phase, launch) \subseteq Listed(phase)
      BY <1>1 DEF Shelved, Shelf, Fills
    <3>2. Listed(phase) \subseteq Listed(phase)' \cup doomed
      BY <1>3 DEF Listed, q
    <3>3. Held(phase, launch) \cap doomed = {}
      BY <1>1 DEF Rotated, Held
    <3>4. Held(phase, launch)' = Held(phase, launch)
      BY DEF Held
    <3> QED
      BY <3>1, <3>2, <3>3, <3>4
  <2>4. \A role \in Roles : Listed(role)' \subseteq Shelf(role)'
    BY DEF Shelf
  <2>5. \A role \in Roles : Held(role, launch)' \subseteq Shelf(role)'
    BY <2>2, <2>3, <2>4
  <2> QED
    BY <1>4, <2>5 DEF Shelved
<1>11. Roomy'
  BY <1>1, <1>3, <1>4 DEF TypeOK, Roomy, Keep
<1> QED
  BY <1>5, <1>6, <1>7, <1>8, <1>9, <1>10, <1>11 DEF Retained

LEMMA DumpBarrierStep ==
  ASSUME IInv, DumpBarrier
  PROVE  Retained'
<1> USE DEF IInv, DumpBarrier, Barrier, InGroup, disk
<1> DEFINE q == saved[phase]
<1>1. phase \in Roles /\ step \in Steps /\ launch \in Launches /\ Keep(phase) \in Nat
  BY DEF TypeOK, Bounded, Keep
<1>2. q \in Seq(Steps) /\ Len(q) \in Nat
  BY <1>1, LenProperties DEF TypeOK
<1>3. /\ Append(q, step) \in Seq(Steps)
      /\ Len(Append(q, step)) = Len(q) + 1
      /\ \A i \in 1..Len(q) : Append(q, step)[i] = q[i]
      /\ Append(q, step)[Len(q) + 1] = step
  BY <1>1, <1>2, AppendProperties
<1>4. /\ saved' \in [Roles -> Seq(Steps)]
      /\ saved'[phase] = Append(q, step)
      /\ \A role \in Roles : role # phase => saved'[role] = saved[role]
  BY <1>1, <1>3 DEF TypeOK
<1>5. Listed(phase) \cup {step} \subseteq Listed(phase)'
  <2>1. Listed(phase)' = {Append(q, step)[i] : i \in 1..(Len(q) + 1)}
    <3>1. saved'[phase'] = Append(q, step) /\ Len(saved'[phase']) = Len(q) + 1
      BY <1>3, <1>4
    <3>2. Listed(phase)' = {saved'[phase'][j] : j \in 1..Len(saved'[phase'])}
      BY ONLY DEF Listed
    <3> QED
      BY ONLY <3>1, <3>2
  <2>2. \A i \in 1..Len(q) : i \in 1..(Len(q) + 1)
    BY <1>2
  <2>3. Len(q) + 1 \in 1..(Len(q) + 1)
    BY <1>2
  <2> QED
    BY <1>3, <2>1, <2>2, <2>3 DEF Listed
<1> HIDE DEF q
<1>6. \A r \in Ranks : pc[r] = "dumped" /\ pc'[r] \in {"alpha", "saved"}
  OBVIOUS
<1>7. TypeOK'
  BY <1>4 DEF TypeOK
<1>8. Bounded' /\ Dated'
  BY DEF TypeOK, Bounded, Dated
<1>9. Positioned' /\ Lockstep' /\ Rotating'
  BY DEF TypeOK, Positioned, Lockstep, Rotating, At
<1>10. Shelved'
  <2>1. \A role \in Roles : Shelf(role) \subseteq Listed(role)'
    BY <1>4, <1>5 DEF Shelf, Fills, Listed
  <2>2. \A role \in Roles : Held(role, launch)' \subseteq Listed(role)'
    BY <1>1, <2>1 DEF Shelved, Held
  <2>3. \A role \in Roles : Held(role, launch)' \subseteq Shelf(role)'
    BY <2>2 DEF Shelf
  <2> QED
    BY <1>5, <2>3 DEF Shelved
<1>11. Roomy'
  <2>1. ASSUME NEW role \in Roles, Keep(role) > 0
        PROVE  Len(saved'[role]) <= Keep(role)
    <3>1. CASE role = phase
      BY <1>1, <1>2, <1>3, <1>4, <1>6, <2>1, <3>1 DEF Roomy, q
    <3>2. CASE role # phase
      BY <1>4, <2>1, <3>2 DEF Roomy
    <3> QED
      BY <3>1, <3>2
  <2> QED
    BY <1>6, <2>1 DEF Roomy, Keep
<1> QED
  BY <1>7, <1>8, <1>9, <1>10, <1>11 DEF Retained

(* The driver's own files lie outside the groups' directories.              *)
LEMMA DriverStep ==
  ASSUME IInv, BeginData \/ FinishData \/ OpenTracker \/ CloseTracker
  PROVE  Retained'
<1> USE DEF IInv, BeginData, FinishData, OpenTracker, CloseTracker, memory
<1>1. /\ phase \in Committing /\ ~InGroup /\ pc = Idle /\ pc[Rank0] = "idle"
      /\ step \in Steps /\ launch \in Launches
      /\ file' = file /\ launch' = launch /\ step' = step
      /\ saved' = saved /\ doomed' = doomed /\ pc' = pc
  BY DEF TypeOK, Bounded, Positioned, InGroup
<1>2. /\ phase' \in Committing \cup {"train", "done"}
      /\ phase' = "train" => step < TotalSteps
      /\ tracker' \in {tracker, Truncated, step}
  <2>1. step >= TotalSteps \/ step < TotalSteps
    BY <1>1
  <2> QED
    BY <1>1, <2>1 DEF AfterStep, IsLastStep
<1>3. TypeOK'
  <2>1. folders' \in SUBSET Steps /\ data' \in [Steps -> Content]
    <3>1. folders \in SUBSET Steps /\ data \in [Steps -> Content]
      BY DEF TypeOK
    <3>2. folders' \in {folders, folders \cup {step}}
      OBVIOUS
    <3>3. data' = data \/ \E c \in Content : data' = [data EXCEPT ![step] = c]
      BY <1>1
    <3> QED
      BY ONLY <1>1, <3>1, <3>2, <3>3
  <2>2. phase' \in Phases /\ tracker' \in {NoTracker, Truncated} \cup Steps
    BY <1>1, <1>2 DEF TypeOK
  <2> QED
    BY ONLY IInv, <1>1, <2>1, <2>2 DEF IInv, TypeOK
<1>4. Bounded'
  BY <1>1, <1>2 DEF TypeOK, Bounded
<1>5. Dated'
  BY <1>1 DEF TypeOK, Bounded, Dated
<1>6. Positioned' /\ Lockstep' /\ Rotating'
  BY <1>1, <1>2 DEF Positioned, Lockstep, Rotating, At, InGroup
<1>7. Shelved'
  BY <1>1, <1>2, Undisturbed DEF Fills
<1>8. Roomy'
  BY <1>1, <1>2 DEF Roomy, Keep
<1> QED
  BY <1>3, <1>4, <1>5, <1>6, <1>7, <1>8 DEF Retained

(* A crash forgets the recorded paths; the files stay.                      *)
LEMMA CrashStep ==
  ASSUME IInv, Crash
  PROVE  Retained'
<1> USE DEF IInv, Crash, disk
<1>1. \A role \in Roles : saved'[role] = << >>
  OBVIOUS
<1>2. TypeOK'
  BY EmptySeq DEF TypeOK
<1>3. Bounded' /\ Dated'
  BY DEF TypeOK, Bounded, Dated
<1>4. Positioned' /\ Lockstep' /\ Rotating'
  BY DEF Positioned, Lockstep, Rotating, At, InGroup
<1>5. Shelved'
  BY DEF Shelved, InGroup
<1>6. Roomy'
  BY <1>1, EmptySeq DEF Roomy, Keep
<1> QED
  BY <1>2, <1>3, <1>4, <1>5, <1>6 DEF Retained

(* A launch resumes at a step that some launch reached, and has written     *)
(* nothing yet.                                                             *)
LEMMA TargetIsReached ==
  ASSUME IInv, NEW mode \in ResumeModes, NEW path \in Steps, Starts(mode, path)
  PROVE  /\ Target(mode, path) \in {0} \cup Steps
         /\ Target(mode, path) <= TotalSteps + launch
<1>1. mode \in {"auto", "disable", "resume_path"}
  OBVIOUS
<1>2. CASE mode = "disable"
  BY <1>2 DEF IInv, TypeOK, Target
<1>3. CASE mode = "auto"
  <2>1. Target(mode, path) = LatestCheckpoint
    BY <1>3 DEF Target
  <2> QED
    BY <2>1 DEF IInv, TypeOK, Bounded, LatestCheckpoint
<1>4. CASE mode = "resume_path"
  <2>1. Target(mode, path) = path
    BY <1>4 DEF Target
  <2>2. "actor" \in Kinds /\ path # 0
    OBVIOUS
  <2>3. file["actor"][path][Rank0] \in Launches
    BY <1>4, <2>1, <2>2 DEF Starts, Loadable
  <2>4. path <= TotalSteps + launch
    BY <2>2, <2>3 DEF IInv, Dated
  <2> QED
    BY <2>1, <2>4
<1> QED
  BY <1>1, <1>2, <1>3, <1>4

LEMMA StartStep ==
  ASSUME IInv, NEW mode \in ResumeModes, NEW path \in Steps,
         Launch(mode, path) \/ LaunchFails(mode, path)
  PROVE  Retained'
<1> USE DEF IInv, NewLaunch, disk
<1>1. /\ launch' = launch + 1 /\ launch' \in Launches
      /\ phase' \in {"train", "down"} /\ ~InGroup /\ pc = Idle
      /\ file' = file /\ tracker' = tracker /\ folders' = folders /\ data' = data
      /\ doomed' = doomed /\ pc' = pc
      /\ \A role \in Roles : saved'[role] = << >>
      /\ saved' = [role \in Roles |-> << >>]
  BY DEF Launch, LaunchFails, TypeOK, Positioned, InGroup
<1>2. step' \in {0} \cup Steps /\ step' <= TotalSteps + launch
  BY TargetIsReached DEF Launch, LaunchFails, TypeOK, Bounded
<1>3. TypeOK'
  BY <1>1, <1>2, EmptySeq DEF TypeOK
<1>4. Bounded'
  BY <1>1, <1>2 DEF TypeOK, Bounded
<1>5. Dated'
  <2> SUFFICES ASSUME NEW k \in Kinds, NEW s \in Steps, NEW r \in Ranks,
                      file[k][s][r] # Absent
               PROVE  s <= TotalSteps + launch' /\ file[k][s][r] <= launch'
    BY <1>1 DEF Dated
  <2>1. s <= TotalSteps + launch /\ file[k][s][r] <= launch
    BY DEF Dated
  <2>2. file[k][s][r] \in Int /\ launch \in Nat
    BY DEF TypeOK
  <2>3. launch' = launch + 1
    BY <1>1
  <2> QED
    BY ONLY <2>1, <2>2, <2>3, s \in Steps, CheckpointAssumption DEF Steps
<1>6. Positioned' /\ Lockstep' /\ Rotating'
  BY <1>1 DEF Positioned, Lockstep, Rotating, At, InGroup
<1>7. Shelved'
  <2>1. \A k \in Kinds, s \in Steps, r \in Ranks : file'[k][s][r] # launch'
    BY <1>1 DEF TypeOK, Dated
  <2>2. \A role \in Roles : Held(role, launch)' = {}
    BY <2>1 DEF Held
  <2> QED
    BY <1>1, <2>2 DEF Shelved, InGroup
<1>8. Roomy'
  BY <1>1, EmptySeq DEF Roomy, Keep
<1> QED
  BY <1>3, <1>4, <1>5, <1>6, <1>7, <1>8 DEF Retained

LEMMA Stays == IInv /\ [Next]_vars => IInv'
<1> SUFFICES ASSUME IInv, [Next]_vars
             PROVE  Retained' /\ Overwritten
  BY KeepStep DEF Retained, IInv
<1>1. CASE Train
  BY <1>1, TrainStep DEF Train, disk, Overwritten
<1>2. ASSUME NEW k \in Kinds, NEW s \in Steps, NEW r \in Ranks, RemoveOldFile(k, s, r)
      PROVE  Retained' /\ Overwritten
  BY <1>2, RemoveOldFileStep
<1>3. CASE FinishRotation
  BY <1>3, FinishRotationStep DEF FinishRotation, disk, Overwritten
<1>4. ASSUME NEW r \in Ranks, Mkdir(r)
      PROVE  Retained' /\ Overwritten
  BY <1>4, MkdirStep DEF Mkdir, Overwritten
<1>5. ASSUME NEW r \in Ranks, BeginDump(r)
      PROVE  Retained' /\ Overwritten
  <2>1. phase \in Kinds
    BY <1>5 DEF BeginDump, BeginWrite, At, InGroup
  <2> QED
    BY <1>5, <2>1, BeginWriteStep DEF BeginDump
<1>6. ASSUME NEW r \in Ranks, FinishDump(r)
      PROVE  Retained' /\ Overwritten
  <2>1. phase \in Kinds /\ phase \in FilesOf(phase)
    BY <1>6 DEF FinishDump, FinishWrite, At, InGroup
  <2> QED
    BY <1>6, <2>1, FinishWriteStep DEF FinishDump
<1>7. ASSUME NEW r \in Ranks, BeginAlpha(r)
      PROVE  Retained' /\ Overwritten
  <2>1. phase = "actor" /\ UseAlpha /\ "alpha" \in Kinds
    BY <1>7 DEF BeginAlpha, BeginWrite, At, IInv, Positioned
  <2> QED
    BY <1>7, <2>1, BeginWriteStep DEF BeginAlpha
<1>8. ASSUME NEW r \in Ranks, FinishAlpha(r)
      PROVE  Retained' /\ Overwritten
  <2>1. phase = "actor" /\ "alpha" \in Kinds /\ "alpha" \in FilesOf(phase)
    BY <1>8 DEF FinishAlpha, FinishWrite, At, IInv, Positioned
  <2> QED
    BY <1>8, <2>1, FinishWriteStep DEF FinishAlpha
<1>9. CASE MkdirBarrier
  BY <1>9, MkdirBarrierStep DEF MkdirBarrier, disk, Overwritten
<1>10. CASE DumpBarrier
  BY <1>10, DumpBarrierStep DEF DumpBarrier, disk, Overwritten
<1>11. CASE ReturnBarrier
  BY <1>11, ReturnBarrierStep DEF ReturnBarrier, disk, Overwritten
<1>12. CASE BeginData \/ FinishData \/ OpenTracker \/ CloseTracker
  BY <1>12, DriverStep DEF BeginData, FinishData, OpenTracker, CloseTracker, Overwritten
<1>13. CASE Crash
  BY <1>13, CrashStep DEF Crash, disk, Overwritten
<1>14. CASE Start
  BY <1>14, StartStep DEF Start, Launch, LaunchFails, NewLaunch, disk, Overwritten
<1>15. CASE UNCHANGED vars
  <2>1. TypeOK' /\ Bounded' /\ Dated' /\ Positioned'
    BY <1>15 DEF vars, IInv, TypeOK, Bounded, Dated, Positioned, InGroup
  <2>2. Lockstep' /\ Rotating' /\ Roomy'
    BY <1>15 DEF vars, IInv, Lockstep, Rotating, At, InGroup, Roomy, Keep,
                 DoomedSteps, Rotates, KeepStart
  <2>3. Shelved'
    BY <1>15, Undisturbed DEF vars, Fills, InGroup
  <2> QED
    BY <1>15, <2>1, <2>2, <2>3 DEF vars, Retained, Overwritten
<1> QED
  BY <1>1, <1>2, <1>3, <1>4, <1>5, <1>6, <1>7, <1>8, <1>9, <1>10, <1>11, <1>12,
     <1>13, <1>14, <1>15 DEF Next, Work, RankStep

LEMMA AtInit == Init => IInv
<1> SUFFICES ASSUME Init PROVE IInv
  OBVIOUS
<1> USE DEF Init
<1>1. TypeOK
  BY EmptySeq DEF TypeOK
<1>2. Bounded /\ Dated /\ Positioned /\ Lockstep /\ Rotating
  BY DEF Bounded, Dated, Positioned, Lockstep, Rotating, At, InGroup
<1>3. Shelved /\ Roomy
  BY EmptySeq DEF Shelved, Roomy, InGroup, Keep
<1>4. KeepPerLaunch
  <2>1. \A role \in Roles, l \in Launches : Held(role, l) = {}
    BY DEF Held
  <2>2. Cardinality({}) = 0
    BY FS_EmptySet
  <2>3. ASSUME NEW role \in Roles, NEW l \in Launches, Keep(role) > 0
        PROVE  Cardinality(Held(role, l)) <= Keep(role)
    <3>1. Cardinality(Held(role, l)) = 0
      BY <2>1, <2>2
    <3>2. Keep(role) \in Nat
      BY DEF Keep
    <3> QED
      BY <3>1, <3>2
  <2> QED
    BY <2>3 DEF KeepPerLaunch
<1> QED
  BY <1>1, <1>2, <1>3, <1>4 DEF IInv

LEMMA Always == Spec => []IInv
BY AtInit, Stays, PTL DEF Spec

-----------------------------------------------------------------------------

\* Every reachable state is well typed, whatever is kept and however the job is
\* resumed (fit, _save_checkpoint, _load_checkpoint, save_checkpoint).
THEOREM TypeCorrect == Spec => []TypeOK
BY Always, PTL DEF IInv

\* A group never has more checkpoints of one launch on disk than it keeps, the
\* one being written included: rank 0 makes room before any rank writes
\* (save_checkpoint's rotation and barrier).
THEOREM DiskIsBounded == Spec => []KeepPerLaunch
BY Always, PTL DEF IInv

-----------------------------------------------------------------------------
(* Nobody is blocked.  Between two collectives all ranks of a group walk    *)
(* the same leg of a save call; so whoever is not waiting can go on, and    *)
(* if all wait, they wait for each other in the same collective.            *)

Legs == {{"rotate", "mkdir", "ready"}, Filling, Late}

Abreast ==
  /\ InGroup => \E leg \in Legs : \A r \in Ranks : pc[r] \in leg
  /\ \A r \in Ranks : pc[r] = "rotate" => r = Rank0
  /\ phase = "critic" => UseCritic

\* The guards of Work: of the driver's actions, of rank 0's rotation, of
\* RankStep and of the three collectives.
Alone == {"mkdir", "dump", "dumping", "alpha", "writing_alpha"}

Collectives == {"ready", "dumped", "saved"}

SomebodyCanGoOn ==
  \/ phase \in {"train"} \cup Committing
  \/ At(Rank0, "rotate")
  \/ \E r \in Ranks, here \in Alone : At(r, here)
  \/ \E here \in Collectives : InGroup /\ \A r \in Ranks : pc[r] = here

USE DEF Legs, Alone, Collectives

LEMMA SaveStartsAbreast ==
  ASSUME NEW role \in Roles, StartSave(role)
  PROVE  Abreast'
<1>1. pc' = [r \in Ranks |-> IF r = Rank0 THEN "rotate" ELSE "mkdir"] /\ phase' = role
  BY DEF StartSave
<1>2. \A r \in Ranks : pc'[r] \in {"rotate", "mkdir", "ready"}
  BY <1>1
<1> QED
  BY <1>1, <1>2 DEF Abreast

LEMMA AbreastStep ==
  ASSUME TypeOK, Abreast, [Next]_vars
  PROVE  Abreast'
<1>1. ASSUME ~InGroup', phase' # "critic", pc' = Idle
      PROVE  Abreast'
  BY <1>1 DEF Abreast
<1>2. ASSUME phase' = phase, pc' = pc
      PROVE  Abreast'
  BY <1>2 DEF Abreast, InGroup
<1>3. ASSUME NEW r \in Ranks, NEW leg \in Legs, NEW here \in leg, NEW there \in leg,
             InGroup, phase' = phase, pc[r] = here, pc' = [pc EXCEPT ![r] = there],
             there # "rotate"
      PROVE  Abreast'
  <2>1. PICK l \in Legs : \A q \in Ranks : pc[q] \in l
    BY <1>3 DEF Abreast
  <2>2. l = leg
    BY <1>3, <2>1
  <2>3. \A q \in Ranks : pc'[q] \in leg /\ (pc'[q] = "rotate" => q = Rank0)
    BY <1>3, <2>1, <2>2 DEF TypeOK, Abreast
  <2> QED
    BY <1>3, <2>3 DEF Abreast
<1>4. ASSUME NEW there \in {"dump", "alpha", "saved"}, phase' = phase, pc' = [q \in Ranks |-> there]
      PROVE  Abreast'
  BY <1>4 DEF Abreast
<1>5. CASE Train
  <2>1. CASE StartSave("actor")
    BY <2>1, SaveStartsAbreast
  <2>2. CASE phase' = AfterStep(step + 1) /\ pc' = pc
    BY <1>5, <2>2 DEF Train, AfterStep, InGroup, Abreast
  <2> QED
    BY <1>5, <2>1, <2>2 DEF Train
<1>6. ASSUME NEW k \in Kinds, NEW s \in Steps, NEW r \in Ranks, RemoveOldFile(k, s, r)
      PROVE  Abreast'
  BY <1>2, <1>6 DEF RemoveOldFile, memory
<1>7. CASE FinishRotation
  BY <1>3, <1>7 DEF FinishRotation, At
<1>8. ASSUME NEW r \in Ranks, RankStep(r)
      PROVE  Abreast'
  <2>1. CASE Mkdir(r)
    BY <1>3, <2>1 DEF Mkdir, At
  <2>2. CASE BeginDump(r)
    BY <1>3, <2>2 DEF BeginDump, BeginWrite, At
  <2>3. CASE FinishDump(r)
    BY <1>3, <2>3 DEF FinishDump, FinishWrite, At
  <2>4. CASE BeginAlpha(r)
    BY <1>3, <2>4 DEF BeginAlpha, BeginWrite, At
  <2>5. CASE FinishAlpha(r)
    BY <1>3, <2>5 DEF FinishAlpha, FinishWrite, At
  <2> QED
    BY <1>8, <2>1, <2>2, <2>3, <2>4, <2>5 DEF RankStep
<1>9. CASE MkdirBarrier \/ DumpBarrier
  BY <1>4, <1>9 DEF MkdirBarrier, DumpBarrier, Barrier
<1>10. CASE ReturnBarrier
  <2>1. CASE phase = "actor" /\ UseCritic
    BY <1>10, <2>1, SaveStartsAbreast DEF ReturnBarrier
  <2>2. CASE ~(phase = "actor" /\ UseCritic)
    BY <1>1, <1>10, <2>2 DEF ReturnBarrier, InGroup
  <2> QED
    BY <2>1, <2>2
<1>11. CASE BeginData \/ FinishData \/ OpenTracker \/ CloseTracker
  BY <1>11 DEF BeginData, FinishData, OpenTracker, CloseTracker, memory, AfterStep, InGroup, Abreast
<1>12. CASE Crash
  BY <1>1, <1>12 DEF Crash, InGroup
<1>13. CASE Start
  BY <1>13 DEF Start, Launch, LaunchFails, NewLaunch, InGroup, Abreast
<1>14. CASE UNCHANGED vars
  BY <1>2, <1>14 DEF vars
<1> QED
  BY <1>5, <1>6, <1>7, <1>8, <1>9, <1>10, <1>11, <1>12, <1>13, <1>14 DEF Next, Work

\* As long as the job neither died nor finished, one of its processes can take
\* a step: no rank waits in a barrier that the others cannot reach (the
\* barriers of save_checkpoint and of the workers, the driver's blocking
\* calls).  Together with WorkRunsOut, all of LaunchEnds but the fairness.
THEOREM NobodyBlocked ==
  Spec => [](phase \notin {"down", "done"} => SomebodyCanGoOn)
<1>1. Init => Abreast
  BY DEF Init, Abreast, InGroup
<1>2. TypeOK /\ Abreast /\ [Next]_vars => Abreast'
  BY AbreastStep
<1>3. TypeOK /\ Abreast => (phase \notin {"down", "done"} => SomebodyCanGoOn)
  <2> SUFFICES ASSUME TypeOK, Abreast, phase \notin {"down", "done"}
               PROVE  SomebodyCanGoOn
    OBVIOUS
  <2>1. CASE ~InGroup
    BY <2>1 DEF TypeOK, Abreast, InGroup, SomebodyCanGoOn
  <2>2. CASE InGroup
    <3>1. PICK leg \in Legs : \A r \in Ranks : pc[r] \in leg
      BY <2>2 DEF Abreast
    <3>2. CASE \E r \in Ranks : pc[r] \in Alone \cup {"rotate"}
      BY <2>2, <3>2 DEF Abreast, At, SomebodyCanGoOn
    <3>3. CASE \A r \in Ranks : pc[r] \in Collectives
      <4>1. \E here \in Collectives : \A r \in Ranks : pc[r] = here
        BY <3>1, <3>3
      <4> QED
        BY <2>2, <4>1 DEF SomebodyCanGoOn
    <3> QED
      BY <3>1, <3>2, <3>3
  <2> QED
    BY <2>1, <2>2
<1> QED
  BY <1>1, <1>2, <1>3, TypeCorrect, PTL DEF Spec

-----------------------------------------------------------------------------
(* The work of a launch runs out.  What is left to do are the phases of the *)
(* driver, the places every rank passes in a save call, and the files rank  *)
(* 0 has to remove: of the present step those still ahead, of later steps   *)
(* all.                                                                     *)

PhaseNo ==
  CASE phase = "actor" -> 1
    [] phase = "critic" -> 2
    [] phase = "data" -> 3
    [] phase = "writing_data" -> 4
    [] phase = "tracker" -> 5
    [] phase = "writing_tracker" -> 6
    [] OTHER -> 7

PlaceNo(here) ==
  CASE here = "idle" -> 0
    [] here = "rotate" -> 1
    [] here = "mkdir" -> 2
    [] here = "ready" -> 3
    [] here = "dump" -> 4
    [] here = "dumping" -> 5
    [] here = "dumped" -> 6
    [] here = "alpha" -> 7
    [] here = "writing_alpha" -> 8
    [] here = "saved" -> 9

\* The n-th phase of step u[1], where u[2] = n.
Ahead(u) == u[1] > step \/ (u[1] = step /\ u[2] > PhaseNo)

Now(u) == u[1] = step /\ u[2] = PhaseNo

PhasesLeft == {u \in Steps \X (1..7) : Ahead(u)}

PlacesLeft ==
  {u \in (Steps \X (1..2)) \X (Ranks \X (1..9)) :
     Ahead(u[1]) \/ (Now(u[1]) /\ u[2][2] > PlaceNo(pc[u[2][1]]))}

FilesLeft ==
  {u \in (Steps \X (1..2)) \X ((Kinds \X Steps) \X Ranks) :
     Ahead(u[1]) \/ (Now(u[1]) /\ pc[Rank0] = "rotate"
                               /\ file[u[2][1][1]][u[2][1][2]][u[2][2]] # Absent)}

Left == Cardinality(PhasesLeft) + Cardinality(PlacesLeft) + Cardinality(FilesLeft)

LEMMA FiniteParts ==
  /\ IsFiniteSet(Steps \X (1..7))
  /\ IsFiniteSet((Steps \X (1..2)) \X (Ranks \X (1..9)))
  /\ IsFiniteSet((Steps \X (1..2)) \X ((Kinds \X Steps) \X Ranks))
<1>1. \A n \in Int : IsFiniteSet(1..n)
  BY FS_Interval
<1>2. IsFiniteSet(Steps)
  <2>1. TotalSteps + MaxLaunches \in Int
    OBVIOUS
  <2> QED
    BY <1>1, <2>1
<1>3. IsFiniteSet(Kinds)
  <2>1. IsFiniteSet({}) /\ IsFiniteSet({"actor"})
    BY FS_EmptySet, FS_Singleton
  <2>2. IsFiniteSet(({"actor"} \cup {"critic"}) \cup {"alpha"})
    BY <2>1, FS_AddElement
  <2> QED
    BY <2>2, FS_Subset
<1>4. IsFiniteSet(Ranks)
  BY CheckpointAssumption
<1>5. IsFiniteSet(1..7) /\ IsFiniteSet(1..2) /\ IsFiniteSet(1..9)
  <2>1. 7 \in Int /\ 2 \in Int /\ 9 \in Int
    OBVIOUS
  <2> HIDE DEF Steps, Kinds
  <2> QED
    BY <1>1, <2>1, Zenon
<1> HIDE DEF Steps, Kinds
<1>6. IsFiniteSet(Steps \X (1..2))
  BY <1>2, <1>5, FS_Product
<1>7. IsFiniteSet(Ranks \X (1..9))
  BY <1>4, <1>5, FS_Product
<1>8. IsFiniteSet((Kinds \X Steps) \X Ranks)
  <2>1. IsFiniteSet(Kinds \X Steps)
    BY <1>2, <1>3, FS_Product
  <2> QED
    BY <1>4, <2>1, FS_Product
<1> QED
  BY <1>2, <1>5, <1>6, <1>7, <1>8, FS_Product

(* Losing one thing that is left, and getting none back, lowers Left.       *)
LEMMA LeftFalls ==
  ASSUME PhasesLeft' \subseteq PhasesLeft, PlacesLeft' \subseteq PlacesLeft,
         FilesLeft' \subseteq FilesLeft,
         PhasesLeft' # PhasesLeft \/ PlacesLeft' # PlacesLeft \/ FilesLeft' # FilesLeft
  PROVE  Left \in Nat /\ Left' \in Nat /\ Left' < Left
<1>1. IsFiniteSet(PhasesLeft) /\ IsFiniteSet(PlacesLeft) /\ IsFiniteSet(FilesLeft)
  <2>1. /\ PhasesLeft \in SUBSET (Steps \X (1..7))
        /\ PlacesLeft \in SUBSET ((Steps \X (1..2)) \X (Ranks \X (1..9)))
        /\ FilesLeft \in SUBSET ((Steps \X (1..2)) \X ((Kinds \X Steps) \X Ranks))
    BY DEF PhasesLeft, PlacesLeft, FilesLeft
  <2> QED
    BY <2>1, FiniteParts, FS_Subset
<1>2. ASSUME NEW S, NEW T, IsFiniteSet(S), T \subseteq S
      PROVE  /\ Cardinality(S) \in Nat /\ Cardinality(T) \in Nat
             /\ Cardinality(T) <= Cardinality(S)
             /\ T # S => Cardinality(T) # Cardinality(S)
  BY <1>2, FS_Subset, FS_CardinalityType
<1>3. /\ Cardinality(PhasesLeft) \in Nat /\ Cardinality(PhasesLeft') \in Nat
      /\ Cardinality(PhasesLeft') <= Cardinality(PhasesLeft)
      /\ PhasesLeft' # PhasesLeft => Cardinality(PhasesLeft') # Cardinality(PhasesLeft)
  BY <1>1, <1>2
<1>4. /\ Cardinality(PlacesLeft) \in Nat /\ Cardinality(PlacesLeft') \in Nat
      /\ Cardinality(PlacesLeft') <= Cardinality(PlacesLeft)
      /\ PlacesLeft' # PlacesLeft => Cardinality(PlacesLeft') # Cardinality(PlacesLeft)
  BY <1>1, <1>2
<1>5. /\ Cardinality(FilesLeft) \in Nat /\ Cardinality(FilesLeft') \in Nat
      /\ Cardinality(FilesLeft') <= Cardinality(FilesLeft)
      /\ FilesLeft' # FilesLeft => Cardinality(FilesLeft') # Cardinality(FilesLeft)
  BY <1>1, <1>2
<1> QED
  BY <1>3, <1>4, <1>5 DEF Left

LEMMA StepPasses ==
  ASSUME step \in Nat, step' = step + 1, step' \in Steps,
         phase' \in {"actor", "train", "done"}
  PROVE  Left \in Nat /\ Left' \in Nat /\ Left' < Left
<1>1. PhaseNo \in 1..7 /\ PhaseNo' \in 1..7
  BY DEF PhaseNo
<1>2. ASSUME NEW u \in Steps \X (1..7), Ahead(u)' \/ Now(u)'
      PROVE  Ahead(u)
  BY <1>2 DEF Ahead, Now
<1>3. PhasesLeft' \subseteq PhasesLeft
  BY <1>2 DEF PhasesLeft
<1>4. PlacesLeft' \subseteq PlacesLeft /\ FilesLeft' \subseteq FilesLeft
  <2>1. \A u \in Steps \X (1..2) : Ahead(u)' \/ Now(u)' => Ahead(u)
    BY <1>2
  <2> QED
    BY <2>1 DEF PlacesLeft, FilesLeft
<1>5. <<step', 1>> \in PhasesLeft /\ <<step', 1>> \notin PhasesLeft'
  BY <1>1 DEF PhasesLeft, Ahead
<1> QED
  BY <1>3, <1>4, <1>5, LeftFalls

LEMMA PhasePasses ==
  ASSUME step' = step, step \in Steps, PhaseNo' > PhaseNo
  PROVE  Left \in Nat /\ Left' \in Nat /\ Left' < Left
<1>1. PhaseNo \in 1..7 /\ PhaseNo' \in 1..7
  BY DEF PhaseNo
<1>2. ASSUME NEW u \in Steps \X (1..7), Ahead(u)' \/ Now(u)'
      PROVE  Ahead(u)
  BY <1>1, <1>2 DEF Ahead, Now
<1>3. PhasesLeft' \subseteq PhasesLeft
  BY <1>2 DEF PhasesLeft
<1>4. PlacesLeft' \subseteq PlacesLeft /\ FilesLeft' \subseteq FilesLeft
  <2>1. \A u \in Steps \X (1..2) : Ahead(u)' \/ Now(u)' => Ahead(u)
    BY <1>2
  <2> QED
    BY <2>1 DEF PlacesLeft, FilesLeft
<1>5. <<step, PhaseNo'>> \in PhasesLeft /\ <<step, PhaseNo'>> \notin PhasesLeft'
  BY <1>1 DEF PhasesLeft, Ahead
<1> QED
  BY <1>3, <1>4, <1>5, LeftFalls

LEMMA PlacePasses ==
  ASSUME TypeOK, InGroup, step' = step, step \in Steps, phase' = phase,
         pc' \in [Ranks -> Positions],
         \A r \in Ranks : PlaceNo(pc'[r]) >= PlaceNo(pc[r]),
         NEW q \in Ranks, PlaceNo(pc'[q]) > PlaceNo(pc[q]),
         pc'[Rank0] # "rotate" \/ (pc[Rank0] = "rotate" /\ file' = file)
  PROVE  Left \in Nat /\ Left' \in Nat /\ Left' < Left
<1>1. PhaseNo' = PhaseNo /\ PhaseNo \in 1..2
  BY DEF PhaseNo, InGroup
<1>2. \A u : (Ahead(u)' <=> Ahead(u)) /\ (Now(u)' <=> Now(u))
  BY <1>1 DEF Ahead, Now
<1>3. PhasesLeft' \subseteq PhasesLeft
  BY <1>2 DEF PhasesLeft
<1>4. FilesLeft' \subseteq FilesLeft
  BY <1>2 DEF FilesLeft
<1>5. \A here \in Positions : PlaceNo(here) \in 0..9
  BY DEF PlaceNo
<1>6. \A r \in Ranks : PlaceNo(pc[r]) \in 0..9 /\ PlaceNo(pc'[r]) \in 0..9
  BY <1>5 DEF TypeOK
<1>7. PlacesLeft' \subseteq PlacesLeft
  <2>1. ASSUME NEW u \in (Steps \X (1..2)) \X (Ranks \X (1..9)),
               u[2][2] > PlaceNo(pc'[u[2][1]])
        PROVE  u[2][2] > PlaceNo(pc[u[2][1]])
    <3>1. u[2][1] \in Ranks /\ u[2][2] \in 1..9
      OBVIOUS
    <3> QED
      BY <1>6, <2>1, <3>1
  <2> QED
    BY <1>2, <2>1 DEF PlacesLeft
<1>8. /\ <<<<step, PhaseNo>>, <<q, PlaceNo(pc'[q])>>>> \in PlacesLeft
      /\ <<<<step, PhaseNo>>, <<q, PlaceNo(pc'[q])>>>> \notin PlacesLeft'
  <2>1. PlaceNo(pc'[q]) \in 1..9
    BY <1>6
  <2> QED
    BY <1>1, <1>6, <2>1 DEF PlacesLeft, Ahead, Now
<1> QED
  BY <1>3, <1>4, <1>7, <1>8, LeftFalls

LEMMA FileGoes ==
  ASSUME TypeOK, step \in Steps,
         NEW k \in Kinds, NEW s \in Steps, NEW r \in Ranks, RemoveOldFile(k, s, r)
  PROVE  Left \in Nat /\ Left' \in Nat /\ Left' < Left
<1>1. /\ InGroup /\ pc[Rank0] = "rotate" /\ pc' = pc /\ phase' = phase /\ step' = step
      /\ file[k][s][r] # Absent
      /\ \A l \in Kinds, t \in Steps, q \in Ranks :
           file'[l][t][q] # Absent => file[l][t][q] # Absent
      /\ file'[k][s][r] = Absent
  BY DEF RemoveOldFile, At, memory, TypeOK
<1>2. PhaseNo' = PhaseNo /\ PhaseNo \in 1..2
  BY <1>1 DEF PhaseNo, InGroup
<1>3. \A u : (Ahead(u)' <=> Ahead(u)) /\ (Now(u)' <=> Now(u))
  BY <1>1, <1>2 DEF Ahead, Now
<1>4. PhasesLeft' \subseteq PhasesLeft
  BY <1>3 DEF PhasesLeft
<1>5. PlacesLeft' \subseteq PlacesLeft
  BY <1>1, <1>3 DEF PlacesLeft
<1>6. FilesLeft' \subseteq FilesLeft
  <2>1. ASSUME NEW u \in (Steps \X (1..2)) \X ((Kinds \X Steps) \X Ranks),
               file'[u[2][1][1]][u[2][1][2]][u[2][2]] # Absent
        PROVE  file[u[2][1][1]][u[2][1][2]][u[2][2]] # Absent
    <3>1. u[2][1][1] \in Kinds /\ u[2][1][2] \in Steps /\ u[2][2] \in Ranks
      OBVIOUS
    <3> QED
      BY <1>1, <2>1, <3>1
  <2>2. ASSUME NEW u \in (Steps \X (1..2)) \X ((Kinds \X Steps) \X Ranks), u \in FilesLeft'
        PROVE  u \in FilesLeft
    <3>1. Ahead(u[1])' \/ (Now(u[1])' /\ file'[u[2][1][1]][u[2][1][2]][u[2][2]] # Absent)
      BY <2>2 DEF FilesLeft
    <3>2. Ahead(u[1]) \/ (Now(u[1]) /\ file[u[2][1][1]][u[2][1][2]][u[2][2]] # Absent)
      BY <1>3, <2>1, <3>1
    <3> QED
      BY <1>1, <3>2 DEF FilesLeft
  <2>3. FilesLeft' \subseteq (Steps \X (1..2)) \X ((Kinds \X Steps) \X Ranks)
    BY DEF FilesLeft
  <2> HIDE DEF Steps, Kinds
  <2> QED
    BY <2>2, <2>3, Zenon
<1>7. /\ <<<<step, PhaseNo>>, <<<<k, s>>, r>>>> \in FilesLeft
      /\ <<<<step, PhaseNo>>, <<<<k, s>>, r>>>> \notin FilesLeft'
  BY <1>1, <1>2 DEF FilesLeft, Ahead, Now
<1> QED
  BY <1>4, <1>5, <1>6, <1>7, LeftFalls

LEMMA PlacesInOrder ==
  /\ PlaceNo("mkdir") > PlaceNo("rotate")
  /\ PlaceNo("ready") > PlaceNo("mkdir")
  /\ PlaceNo("dump") > PlaceNo("ready")
  /\ PlaceNo("dumping") > PlaceNo("dump")
  /\ PlaceNo("dumped") > PlaceNo("dumping")
  /\ PlaceNo("alpha") > PlaceNo("dumped")
  /\ PlaceNo("writing_alpha") > PlaceNo("alpha")
  /\ PlaceNo("saved") > PlaceNo("writing_alpha")
  /\ PlaceNo("saved") > PlaceNo("dumped")
BY DEF PlaceNo

LEMMA WorkLowersLeft ==
  ASSUME IInv, Abreast, TypeOK', Work
  PROVE  Left \in Nat /\ Left' \in Nat /\ Left' < Left
<1>1. TypeOK /\ (InGroup => step \in Steps) /\ (phase \in Committing => step \in Steps)
  BY DEF IInv, Bounded, InGroup
<1>2. CASE Train
  <2>1. step \in Nat /\ step + 1 \in Steps
    BY <1>2 DEF Train, IInv, TypeOK, Bounded
  <2>2. step' = step + 1 /\ phase' \in {"actor", "train", "done"}
    BY <1>2 DEF Train, StartSave, AfterStep
  <2> QED
    BY <2>1, <2>2, StepPasses
<1>3. ASSUME NEW k \in Kinds, NEW s \in Steps, NEW r \in Ranks, RemoveOldFile(k, s, r)
      PROVE  Left \in Nat /\ Left' \in Nat /\ Left' < Left
  <2>1. InGroup
    BY <1>3 DEF RemoveOldFile, At
  <2> QED
    BY <1>1, <1>3, <2>1, FileGoes
<1>4. ASSUME NEW r \in Ranks, NEW here \in Positions, NEW there \in Positions \ {"rotate"},
             At(r, here), pc' = [pc EXCEPT ![r] = there], PlaceNo(there) > PlaceNo(here),
             step' = step, phase' = phase, file' = file \/ pc[Rank0] # "rotate"
      PROVE  Left \in Nat /\ Left' \in Nat /\ Left' < Left
  <2>1. InGroup /\ step \in Steps /\ pc[r] = here
    BY <1>1, <1>4 DEF At
  <2>2. pc'[r] = there /\ \A q \in Ranks : q # r => pc'[q] = pc[q]
    BY <1>4 DEF TypeOK, IInv
  <2>3. \A p \in Positions : PlaceNo(p) \in 0..9
    BY DEF PlaceNo
  <2>4. ASSUME NEW q \in Ranks
        PROVE  PlaceNo(pc'[q]) >= PlaceNo(pc[q])
    <3>1. CASE q = r
      <4>1. PlaceNo(there) \in 0..9 /\ PlaceNo(here) \in 0..9
        BY <2>3
      <4> QED
        BY <1>4, <2>1, <2>2, <3>1, <4>1
    <3>2. CASE q # r
      <4>1. PlaceNo(pc[q]) \in 0..9
        BY <1>1, <2>3 DEF TypeOK
      <4> QED
        BY <2>2, <3>2, <4>1
    <3> QED
      BY <3>1, <3>2
  <2>5. pc' \in [Ranks -> Positions]
    BY DEF TypeOK
  <2>6. pc'[Rank0] # "rotate" \/ (pc[Rank0] = "rotate" /\ file' = file)
    BY <1>4, <2>2
  <2> QED
    BY <1>1, <1>4, <2>1, <2>2, <2>4, <2>5, <2>6, PlacePasses
<1>5. CASE FinishRotation
  BY <1>4, <1>5, PlacesInOrder DEF FinishRotation, At, disk
<1>6. ASSUME NEW r \in Ranks, RankStep(r)
      PROVE  Left \in Nat /\ Left' \in Nat /\ Left' < Left
  <2>1. CASE Mkdir(r)
    BY <1>4, <2>1, PlacesInOrder DEF Mkdir
  <2>2. pc[r] \in Filling \cup Late => pc[Rank0] # "rotate"
    BY DEF IInv, Lockstep
  <2>3. CASE BeginDump(r)
    BY <1>4, <2>2, <2>3, PlacesInOrder DEF BeginDump, BeginWrite, At
  <2>4. CASE FinishDump(r)
    BY <1>4, <2>2, <2>4, PlacesInOrder DEF FinishDump, FinishWrite, At
  <2>5. CASE BeginAlpha(r)
    BY <1>4, <2>2, <2>5, PlacesInOrder DEF BeginAlpha, BeginWrite, At
  <2>6. CASE FinishAlpha(r)
    BY <1>4, <2>2, <2>6, PlacesInOrder DEF FinishAlpha, FinishWrite, At
  <2> QED
    BY <1>6, <2>1, <2>3, <2>4, <2>5, <2>6 DEF RankStep
<1>7. ASSUME NEW here \in Collectives, NEW there \in {"dump", "alpha", "saved"},
             Barrier(here, there), PlaceNo(there) > PlaceNo(here),
             step' = step, phase' = phase, file' = file
      PROVE  Left \in Nat /\ Left' \in Nat /\ Left' < Left
  <2>1. InGroup /\ step \in Steps /\ pc' = [r \in Ranks |-> there]
    BY <1>1, <1>7 DEF Barrier
  <2>2. \A r \in Ranks : pc[r] = here /\ pc'[r] = there
    BY <1>7, <2>1 DEF Barrier
  <2>3. PlaceNo(there) \in Nat /\ PlaceNo(here) \in Nat
    BY DEF PlaceNo
  <2>4. \A r \in Ranks : PlaceNo(pc'[r]) >= PlaceNo(pc[r]) /\ PlaceNo(pc'[r]) > PlaceNo(pc[r])
    BY <1>7, <2>2, <2>3
  <2>5. pc' \in [Ranks -> Positions] /\ pc'[Rank0] # "rotate"
    BY <2>1
  <2> QED
    BY <1>1, <1>7, <2>1, <2>4, <2>5, PlacePasses
<1>8. CASE MkdirBarrier
  BY <1>7, <1>8, PlacesInOrder DEF MkdirBarrier, disk
<1>9. CASE DumpBarrier
  <2>1. \A there \in {"alpha", "saved"} : PlaceNo(there) > PlaceNo("dumped")
    BY PlacesInOrder
  <2> QED
    BY <1>7, <1>9, <2>1 DEF DumpBarrier, disk
<1>10. CASE ReturnBarrier
  <2>1. step' = step /\ step \in Steps
    BY <1>1, <1>10 DEF ReturnBarrier
  <2>2. PhaseNo' > PhaseNo
    BY <1>10 DEF ReturnBarrier, StartSave, InGroup, PhaseNo
  <2> QED
    BY <2>1, <2>2, PhasePasses
<1>11. CASE BeginData \/ FinishData \/ OpenTracker \/ CloseTracker
  <2>1. step' = step /\ step \in Steps
    BY <1>1, <1>11 DEF BeginData, FinishData, OpenTracker, CloseTracker
  <2>2. PhaseNo' > PhaseNo
    BY <1>11 DEF BeginData, FinishData, OpenTracker, CloseTracker, AfterStep, PhaseNo
  <2> QED
    BY <2>1, <2>2, PhasePasses
<1> QED
  BY <1>2, <1>3, <1>5, <1>6, <1>8, <1>9, <1>10, <1>11 DEF Work

\* The running processes never go round in circles: every step they take
\* leaves them fewer to take, so a launch that is not interrupted comes to its
\* end after a number of steps that its start determines (fit's loop, the save
\* calls, the removal of old files).
THEOREM WorkRunsOut ==
  Spec => [][Work => Left \in Nat /\ Left' \in Nat /\ Left' < Left]_vars
<1>1. Init => Abreast
  BY DEF Init, Abreast, InGroup
<1>2. TypeOK /\ Abreast /\ [Next]_vars => Abreast'
  BY AbreastStep
<1>3. /\ IInv /\ Abreast /\ TypeOK' /\ [Next]_vars
      => [Work => Left \in Nat /\ Left' \in Nat /\ Left' < Left]_vars
  BY WorkLowersLeft
<1> QED
  BY <1>1, <1>2, <1>3, Always, TypeCorrect, PTL DEF Spec
=============================================================================
