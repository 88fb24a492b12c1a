------------------------------ MODULE Dapo_proofs ------------------------------
(***************************************************************************)
(* Every draw of the data loader feeds one update, every update is full    *)
(* and on-policy, and the last one is saved, for any number of batches,    *)
(* epochs, steps and launches, and for any filter outcome.                 *)
(***************************************************************************)
EXTENDS Dapo, TLAPS

USE DapoAssumption

\* Where the loader is and what is behind the weights, without the bounds that
\* TypeOK puts on them.
Positions ==
  /\ status \in {"down", "running", "raised", "done"}
  /\ loader \in [pass : Nat, pos : 0..BatchesPerEpoch]
  /\ seen \in Nat
  /\ numGen \in Nat
  /\ disk.loader \in [pass : Nat, pos : 0..BatchesPerEpoch]
  /\ disk.seen \in Nat

\* A checkpoint that a launch may resume from was taken right after an update,
\* so that nothing the loader had handed out was still waiting.  The exception
\* is the checkpoint at the end of the data, and after it the job is done.
Resumable == status # "done" => Drawn(disk.loader) = disk.seen

Accounted == Positions /\ Resumable /\ DrawnOnce

LEMMA AccountedInit == Init => Accounted
  BY DEF Init, Accounted, Positions, Resumable, DrawnOnce, Drawn

LEMMA DrawCounts ==
  ASSUME Positions, Draw
  PROVE  /\ loader' \in [pass : Nat, pos : 0..BatchesPerEpoch]
         /\ Drawn(loader') = Drawn(loader) + 1
         /\ Drawn(loader') \in Nat
  <1>1. loader' = [loader EXCEPT !.pos = loader.pos + 1]
    BY DEF Draw
  <1>2. loader'.pass = loader.pass /\ loader'.pos = loader.pos + 1
    BY <1>1 DEF Positions
  <1>3. loader' \in [pass : Nat, pos : 0..BatchesPerEpoch]
    BY <1>1 DEF Positions, Draw
  <1>4. loader.pass * BatchesPerEpoch \in Nat
    BY DEF Positions
  <1> QED
    BY <1>2, <1>3, <1>4 DEF Positions, Drawn

LEMMA AccountedStep == Accounted /\ [Next]_vars => Accounted'
<1> SUFFICES ASSUME Accounted, [Next]_vars
             PROVE  Accounted'
  OBVIOUS
<1> USE DEF Accounted, Positions, Resumable, DrawnOnce
<1>1. ASSUME NEW kept \in Kept, GenerateMore(kept)
      PROVE  Accounted'
  <2>1. Draw /\ numGen' = numGen + 1
    BY <1>1 DEF GenerateMore
  <2>2. status = "running" /\ UNCHANGED <<status, seen, disk>>
    BY <1>1 DEF GenerateMore, Draw
  <2>3. Drawn(disk.loader)' = disk.seen'
    BY <2>2 DEF Drawn
  <2> QED
    BY <2>1, <2>2, <2>3, DrawCounts
<1>2. ASSUME NEW kept \in Kept, TooMany(kept)
      PROVE  Accounted'
  BY <1>2, DrawCounts DEF TooMany, Draw, accumulated, Drawn
<1>3. ASSUME NEW kept \in Kept, Step(kept)
      PROVE  Accounted'
  <2>1. Draw /\ numGen' = 0 /\ seen' = Drawn(loader')
    BY <1>3 DEF Step, Train
  <2>2. status' \in {"running", "done"}
    BY <1>3 DEF Step, Train, Draw
  <2>3. CASE Saves
    <3>1. disk' = [step |-> globalSteps, policy |-> policy', loader |-> loader', seen |-> seen']
      BY <1>3, <2>3 DEF Step, Save
    <3>2. Drawn(disk.loader)' = disk'.seen
      BY <3>1, <2>1 DEF Drawn
    <3> QED
      BY <2>1, <2>2, <3>1, <3>2, DrawCounts
  <2>4. CASE ~Saves
    <3>1. disk' = disk
      BY <1>3, <2>4 DEF Step
    <3> QED
      BY <2>1, <2>2, <3>1, DrawCounts DEF Draw, Drawn
  <2> QED
    BY <2>3, <2>4
<1>4. ASSUME NEW kept \in Kept, StepDies(kept)
      PROVE  Accounted'
  BY <1>4, DrawCounts DEF StepDies, Train, TornSave, Draw, Drawn
<1>5. CASE EndEpoch
  <2>1. loader' = [pass |-> loader.pass + 1, pos |-> 0] /\ loader.pos = BatchesPerEpoch
    BY <1>5 DEF EndEpoch
  <2>2. Drawn(loader') = Drawn(loader)
    BY <2>1 DEF Drawn
  <2> QED
    BY <1>5, <2>1, <2>2 DEF EndEpoch, accumulated, Drawn
<1>6. CASE Finish
  BY <1>6 DEF Finish, Exhausted, Save, accumulated, Drawn
<1>7. CASE FinishDies
  BY <1>7 DEF FinishDies, Exhausted, TornSave, accumulated, Drawn
<1>8. CASE Crash
  BY <1>8 DEF Crash, accumulated, Drawn
<1>9. CASE Launch
  BY <1>9 DEF Launch, Resumed, Drawn
<1>10. CASE UNCHANGED vars
  BY <1>10 DEF vars, accumulated, Drawn
<1> QED
  BY <1>1, <1>2, <1>3, <1>4, <1>5, <1>6, <1>7, <1>8, <1>9, <1>10 DEF Next, Ended

\* Every draw of the loader goes into exactly one update of the surviving
\* weights or waits for the next one (DrawnOnce): filtering, epochs, crashes in
\* and between steps, and relaunches never skip or repeat one.
THEOREM EveryDrawOnce == Spec => []DrawnOnce
<1>1. Accounted => DrawnOnce
  BY DEF Accounted
<1> QED
  BY <1>1, AccountedInit, AccountedStep, PTL DEF Spec

-----------------------------------------------------------------------------
(* On-policy batches.                                                       *)

\* The groups that wait were generated by the policy that the next update moves,
\* and num_prompt_in_batch counts them.
Waiting ==
  /\ policy \in Nat
  /\ disk.policy \in Nat
  /\ filter => numPrompt = Len(batch)
  /\ batch \in Seq([draw : Int, policy : {policy}])

OwnGroups == Waiting /\ Accounted

LEMMA KeptAreOwn ==
  ASSUME Positions, NEW kept \in Kept
  PROVE  kept \in Seq([draw : Int, policy : {policy}])
  <1>1. PICK n \in Nat : kept = [i \in 1..n |-> [draw |-> Drawn(loader) + 1, policy |-> policy]]
    BY DEF Kept
  <1>2. Drawn(loader) + 1 \in Int
    BY DEF Positions, Drawn
  <1> QED
    BY <1>1, <1>2

LEMMA OwnGroupsInit == Init => OwnGroups
  BY AccountedInit DEF Init, OwnGroups, Waiting

LEMMA OwnGroupsStep == OwnGroups /\ [Next]_vars => OwnGroups'
<1> SUFFICES ASSUME OwnGroups, [Next]_vars
             PROVE  Waiting'
  BY AccountedStep DEF OwnGroups
<1> USE DEF OwnGroups, Waiting
<1>1. ASSUME NEW kept \in Kept, GenerateMore(kept)
      PROVE  Waiting'
  <2>1. kept \in Seq([draw : Int, policy : {policy}])
    BY KeptAreOwn DEF Accounted
  <2>2. /\ batch' = batch \o kept
        /\ numPrompt' = numPrompt + Len(kept)
        /\ UNCHANGED <<policy, disk, filter>>
    BY <1>1 DEF GenerateMore, PromptsWith
  <2>3. batch' \in Seq([draw : Int, policy : {policy}])
    BY <2>1, <2>2
  <2>4. Len(batch') = Len(batch) + Len(kept)
    BY <2>1, <2>2
  <2> QED
    BY <2>2, <2>3, <2>4
<1>2. ASSUME NEW kept \in Kept, TooMany(kept)
      PROVE  Waiting'
  BY <1>2 DEF TooMany, accumulated
<1>3. ASSUME NEW kept \in Kept, Step(kept) \/ StepDies(kept)
      PROVE  Waiting'
  <2>1. /\ policy' = policy + 1 /\ batch' = << >> /\ numPrompt' = 0
    BY <1>3 DEF Step, StepDies, Train, NextBatch
  <2>2. disk'.policy \in {policy', disk.policy}
    BY <1>3 DEF Step, StepDies, Save, TornSave
  <2> QED
    BY <2>1, <2>2
<1>4. CASE Launch
  <2>1. policy' = disk.policy /\ batch' = << >> /\ numPrompt' = 0 /\ disk' = disk
    BY <1>4 DEF Launch
  <2> QED
    BY <2>1
<1>5. CASE Finish
  <2>1. disk'.policy \in {policy', disk.policy}
    BY <1>5 DEF Finish, Save
  <2>2. UNCHANGED <<filter, batch, numPrompt, policy>>
    BY <1>5 DEF Finish, Exhausted, accumulated
  <2> QED
    BY <2>1, <2>2
<1>6. CASE UNCHANGED <<filter, batch, numPrompt, policy, disk>>
  BY <1>6
<1> QED
  BY <1>1, <1>2, <1>3, <1>4, <1>5, <1>6
  DEF Next, EndEpoch, FinishDies, TornSave, Exhausted, Crash, Ended, vars, accumulated

LEMMA EnoughGroups ==
  ASSUME OwnGroups, NEW kept \in Kept, Train(kept), filter
  PROVE  Len(batch \o kept) >= PromptSize
  <1>1. kept \in Seq([draw : Int, policy : {policy}])
    BY KeptAreOwn DEF OwnGroups, Accounted
  <1>2. Len(batch \o kept) = Len(batch) + Len(kept)
    BY <1>1 DEF OwnGroups, Waiting
  <1> QED
    BY <1>2 DEF Train, Enough, PromptsWith, OwnGroups, Waiting

\* An update with the filter on never trains on fewer groups than
\* train_batch_size, however the kept groups fall on the generations.
THEOREM UpdatesAreFull == Spec => FullBatches
<1>1. OwnGroups /\ [Next]_vars =>
        [\A kept \in Kept :
           Train(kept) /\ filter => Len(batch \o kept) >= PromptSize]_vars
  BY EnoughGroups
<1> QED
  BY <1>1, OwnGroupsInit, OwnGroupsStep, PTL DEF Spec, FullBatches

\* A sequence of own groups holds nothing else.
LEMMA Element ==
  ASSUME NEW S, NEW s \in Seq(S), NEW i \in DOMAIN s
  PROVE  s[i] \in S
  OBVIOUS

LEMMA GroupIsOwn ==
  ASSUME NEW p, NEW groups \in Seq([draw : Int, policy : {p}]), NEW i \in DOMAIN groups
  PROVE  groups[i].policy = p
  <1>1. groups[i] \in [draw : Int, policy : {p}]
    BY Element, Zenon
  <1> QED
    BY <1>1

\* Every group an update trains on was generated by the policy it updates.
THEOREM UpdatesAreOnPolicy == Spec => OnPolicy
<1>1. OwnGroups =>
        \A kept \in Kept :
          Train(kept) => \A i \in DOMAIN StepBatch(kept) : StepBatch(kept)[i].policy = policy
  <2> SUFFICES ASSUME OwnGroups, NEW kept \in Kept, Train(kept),
                      NEW i \in DOMAIN StepBatch(kept)
               PROVE  StepBatch(kept)[i].policy = policy
    OBVIOUS
  <2>1. kept \in Seq([draw : Int, policy : {policy}])
    BY KeptAreOwn DEF OwnGroups, Accounted
  <2>2. CASE filter
    <3>1. batch \o kept \in Seq([draw : Int, policy : {policy}])
      BY <2>1 DEF OwnGroups, Waiting
    <3>2. Len(batch \o kept) >= PromptSize
      BY <2>2, EnoughGroups
    <3>3. StepBatch(kept) = SubSeq(batch \o kept, 1, PromptSize)
      BY <2>2 DEF StepBatch
    <3>4. i \in 1..PromptSize /\ StepBatch(kept)[i] = (batch \o kept)[i]
      BY <3>1, <3>2, <3>3
    <3>5. i \in DOMAIN (batch \o kept)
      BY <3>1, <3>2, <3>4
    <3>6. (batch \o kept)[i].policy = policy
      BY <3>1, <3>5, GroupIsOwn, Zenon
    <3> QED
      BY <3>4, <3>6
  <2>3. CASE ~filter
    <3>1. StepBatch(kept) = kept
      BY <2>3 DEF StepBatch
    <3> QED
      BY <2>1, <3>1, GroupIsOwn
  <2> QED
    BY <2>2, <2>3
<1>2. OwnGroups /\ [Next]_vars =>
        [\A kept \in Kept :
           Train(kept) => \A i \in DOMAIN StepBatch(kept) : StepBatch(kept)[i].policy = policy]_vars
  BY <1>1
<1> QED
  BY <1>2, OwnGroupsInit, OwnGroupsStep, PTL DEF Spec, OnPolicy
-----------------------------------------------------------------------------
(* What is on disk when the job ends.                                       *)

\* A running job is past the checkpoint it would resume from, and only a job that
\* is done has saved the last step.
Numbered ==
  /\ disk.step \in 0..TotalSteps /\ globalSteps \in 0..TotalSteps
  /\ status \in {"down", "running", "raised", "done"}
  /\ status = "running" => disk.step < globalSteps
  /\ status \in {"down", "raised"} => disk.step < TotalSteps
  /\ folders \subseteq 1..TotalSteps
  /\ EndIsSaved

LEMMA NumberedInit == Init => Numbered
  BY DEF Init, Numbered, EndIsSaved

LEMMA NumberedStep == Numbered /\ [Next]_vars => Numbered'
<1> SUFFICES ASSUME Numbered, [Next]_vars
             PROVE  Numbered'
  OBVIOUS
<1> USE DEF Numbered
<1>1. ASSUME NEW kept \in Kept, GenerateMore(kept) \/ TooMany(kept)
      PROVE  Numbered'
  <2>1. status = "running" /\ UNCHANGED <<globalSteps, folders, disk>>
    BY <1>1 DEF GenerateMore, TooMany, Draw
  <2>2. status' \in {"running", "raised"}
    BY <1>1, <2>1 DEF GenerateMore, TooMany
  <2> QED
    BY <2>1, <2>2 DEF EndIsSaved
<1>2. ASSUME NEW kept \in Kept, Step(kept)
      PROVE  Numbered'
  <2>1. status = "running" /\ globalSteps \in 1..TotalSteps
    BY <1>2 DEF Step, Train, Draw
  <2>2. CASE Saves
    <3>1. /\ folders' = folders \cup {globalSteps}
          /\ disk' = [step |-> globalSteps, policy |-> policy', loader |-> loader', seen |-> seen']
      BY <1>2, <2>2 DEF Step, Save
    <3>2. disk'.step = globalSteps /\ disk'.policy = policy'
      BY <3>1
    <3>3. /\ status' = IF IsLastStep THEN "done" ELSE "running"
          /\ globalSteps' = IF IsLastStep THEN globalSteps ELSE globalSteps + 1
      BY <1>2, <2>1 DEF Step
    <3> QED
      BY <2>1, <3>1, <3>2, <3>3 DEF IsLastStep, EndIsSaved
  <2>3. CASE ~Saves
    <3>1. globalSteps < TotalSteps /\ ~IsLastStep
      BY <2>1, <2>3 DEF Saves, IsLastStep
    <3>2. UNCHANGED <<folders, disk>> /\ status' = "running" /\ globalSteps' = globalSteps + 1
      BY <1>2, <2>1, <2>3, <3>1 DEF Step
    <3> QED
      BY <2>1, <3>1, <3>2 DEF EndIsSaved
  <2> QED
    BY <2>2, <2>3
<1>3. ASSUME NEW kept \in Kept, StepDies(kept)
      PROVE  Numbered'
  BY <1>3 DEF StepDies, Train, Draw, TornSave, EndIsSaved
<1>4. CASE EndEpoch \/ Crash
  <2>1. status = "running" /\ status' \in {"running", "down"}
    BY <1>4 DEF EndEpoch, Crash
  <2>2. UNCHANGED <<globalSteps, folders, disk>>
    BY <1>4 DEF EndEpoch, Crash
  <2> QED
    BY <2>1, <2>2 DEF EndIsSaved
<1>5. CASE Finish
  <2>1. status = "running" /\ globalSteps \in 1..TotalSteps
    BY <1>5 DEF Finish, Exhausted
  <2>2. CASE FolderMissing
    <3>1. /\ folders' = folders \cup {globalSteps}
          /\ disk' = [step |-> globalSteps, policy |-> policy', loader |-> loader', seen |-> seen']
      BY <1>5, <2>2 DEF Finish, Save
    <3>2. disk'.step = globalSteps /\ disk'.policy = policy'
      BY <3>1
    <3> QED
      BY <1>5, <2>1, <3>1, <3>2 DEF Finish, Exhausted, EndIsSaved
  <2>3. CASE ~FolderMissing
    <3>1. globalSteps \in folders /\ UNCHANGED <<globalSteps, folders, disk>> /\ status' = "done"
      BY <1>5, <2>3 DEF Finish, Exhausted, FolderMissing
    <3> QED
      BY <2>1, <3>1 DEF EndIsSaved
  <2> QED
    BY <2>2, <2>3
<1>6. CASE FinishDies
  BY <1>6 DEF FinishDies, Exhausted, TornSave, EndIsSaved
<1>7. CASE Launch
  BY <1>7 DEF Launch, EndIsSaved
<1>8. CASE UNCHANGED vars
  BY <1>8 DEF vars, EndIsSaved
<1> QED
  BY <1>1, <1>2, <1>3, <1>4, <1>5, <1>6, <1>7, <1>8 DEF Next, Ended

\* A job that ends has its last update on disk, or the directory of that step was
\* left by an interrupted save.
THEOREM LastUpdateKept == Spec => []EndIsSaved
<1>1. Numbered => EndIsSaved
  BY DEF Numbered
<1> QED
  BY <1>1, NumberedInit, NumberedStep, PTL DEF Spec

-----------------------------------------------------------------------------
(* The bounds.                                                              *)

\* A launch makes at most Epochs passes over the data, and every update is behind
\* a draw of its own.
Passes ==
  /\ launch \in 0..MaxLaunches
  /\ epoch \in 0..Epochs
  /\ loader.pass <= Epochs * launch
  /\ disk.loader.pass <= Epochs * launch
  /\ status = "running" => loader.pass + Epochs <= Epochs * launch + epoch

Prompts == numPrompt \in Nat /\ numPrompt <= GenSize * numGen

Counted ==
  /\ filter \in BOOLEAN
  /\ policy \in Nat /\ policy <= seen /\ seen <= MaxDraws
  /\ disk.policy \in Nat /\ disk.policy <= disk.seen /\ disk.seen <= MaxDraws
  /\ numGen <= MaxDraws
  /\ Prompts
  /\ batch \in Seq(Groups)
  /\ disk = [step |-> disk.step, policy |-> disk.policy, loader |-> disk.loader, seen |-> disk.seen]

LEMMA PassesStep == Positions /\ Passes /\ [Next]_vars => Passes'
<1> SUFFICES ASSUME Positions, Passes, [Next]_vars
             PROVE  Passes'
  OBVIOUS
<1> DEFINE made == Epochs * launch
<1>1. made \in Nat /\ Epochs * (launch + 1) = made + Epochs
  BY DEF Passes
<1>2. CASE \E kept \in Kept : Step(kept) \/ StepDies(kept) \/ GenerateMore(kept) \/ TooMany(kept)
  <2>1. PICK kept \in Kept : Step(kept) \/ StepDies(kept) \/ GenerateMore(kept) \/ TooMany(kept)
    BY <1>2
  <2>2. Draw /\ UNCHANGED <<launch, epoch>>
    BY <2>1 DEF Step, StepDies, Train, GenerateMore, TooMany
  <2>3. loader'.pass = loader.pass
    BY <2>2 DEF Draw, Positions
  <2>4. disk' = disk \/ disk'.loader = loader'
    BY <2>1 DEF Step, StepDies, Save, TornSave, GenerateMore, TooMany
  <2> QED
    BY <2>2, <2>3, <2>4 DEF Draw, Passes
<1>3. CASE EndEpoch
  <2>1. /\ status = "running" /\ epoch < Epochs /\ epoch' = epoch + 1
        /\ loader'.pass = loader.pass + 1 /\ UNCHANGED <<launch, disk>>
    BY <1>3 DEF EndEpoch
  <2> HIDE DEF made
  <2>2. loader.pass + Epochs <= made + epoch /\ loader.pass \in Nat /\ epoch \in 0..Epochs
    BY <2>1 DEF Passes, Positions, made
  <2>3. loader'.pass <= made /\ loader'.pass + Epochs <= made + epoch'
    BY <1>1, <2>1, <2>2
  <2> QED
    BY <2>1, <2>2, <2>3 DEF Passes, made
<1>4. CASE Launch
  <2>1. /\ launch' = launch + 1 /\ launch < MaxLaunches /\ epoch' = 0
        /\ loader' = disk.loader /\ disk' = disk
    BY <1>4 DEF Launch, Resumed
  <2> HIDE DEF made
  <2>2. disk.loader.pass <= made /\ disk.loader.pass \in Nat
    BY DEF Passes, Positions, made
  <2>3. Epochs * launch' = made + Epochs
    BY <1>1, <2>1
  <2> QED
    BY <1>1, <2>1, <2>2, <2>3 DEF Passes
<1>5. CASE Finish \/ FinishDies \/ Crash \/ Ended \/ UNCHANGED vars
  <2>1. UNCHANGED <<launch, epoch, loader>> /\ (disk' = disk \/ disk'.loader = loader')
    BY <1>5 DEF Finish, FinishDies, Exhausted, Save, TornSave, Crash, Ended, vars
  <2>2. status' = status \/ status' # "running"
    BY <1>5 DEF Finish, FinishDies, TornSave, Crash, Ended, vars
  <2> QED
    BY <2>1, <2>2 DEF Passes
<1> QED
  BY <1>2, <1>3, <1>4, <1>5 DEF Next

\* A draw stays within all the loader can hand out in so many launches.
LEMMA DrawBounded ==
  ASSUME Positions, Passes, Draw
  PROVE  Drawn(loader) + 1 \in 1..MaxDraws
<1> DEFINE p == loader.pass
           all == Epochs * MaxLaunches
<1>1. p \in Nat /\ loader.pos \in 0..(BatchesPerEpoch - 1)
  BY DEF Positions, Draw
<1>2. p + 1 <= Epochs * launch
  BY <1>1 DEF Passes, Draw
<1>3. Epochs * launch <= all /\ all \in Nat /\ Epochs * launch \in Nat
  BY DEF Passes
<1>4. MaxDraws = BatchesPerEpoch * all
  BY DEF MaxDraws
<1>5. Drawn(loader) = p * BatchesPerEpoch + loader.pos
  BY DEF Drawn
<1> HIDE DEF p, all
<1>6. p + 1 <= all
  BY <1>1, <1>2, <1>3
<1>7. BatchesPerEpoch * (p + 1) <= BatchesPerEpoch * all
  BY <1>1, <1>3, <1>6
<1>8. BatchesPerEpoch * (p + 1) = p * BatchesPerEpoch + BatchesPerEpoch /\ p * BatchesPerEpoch \in Nat
  BY <1>1
<1>9. MaxDraws \in Nat
  BY <1>3, <1>4
<1> QED
  BY <1>1, <1>4, <1>5, <1>7, <1>8, <1>9

LEMMA KeptAreGroups ==
  ASSUME Positions, Passes, Counted, Draw, NEW kept \in Kept
  PROVE  kept \in Seq(Groups) /\ Len(kept) \in 0..GenSize
<1>1. PICK n \in 0..GenSize :
        kept = [i \in 1..n |-> [draw |-> Drawn(loader) + 1, policy |-> policy]]
  BY DEF Kept
<1>2. MaxDraws \in Nat /\ policy \in 0..MaxDraws
  <2>1. MaxDraws \in Nat
    BY DEF MaxDraws
  <2>2. seen \in Nat
    BY DEF Positions
  <2>3. policy \in Nat /\ policy <= seen /\ seen <= MaxDraws
    BY DEF Counted
  <2> QED
    BY <2>1, <2>2, <2>3
<1>3. [draw |-> Drawn(loader) + 1, policy |-> policy] \in Groups
  BY <1>2, DrawBounded DEF Groups
<1> QED
  BY <1>1, <1>3

LEMMA CountedStep == Accounted /\ Passes /\ Counted /\ [Next]_vars => Counted'
<1> SUFFICES ASSUME Accounted, Passes, Counted, [Next]_vars
             PROVE  Counted'
  OBVIOUS
<1>1. /\ Positions /\ seen \in Nat /\ numGen \in Nat /\ disk.seen \in Nat
      /\ status = "running" => Drawn(loader) = seen + numGen
  BY DEF Accounted, Positions, DrawnOnce
<1>2. MaxDraws \in Nat
  BY DEF MaxDraws
<1>3. ASSUME NEW kept \in Kept, GenerateMore(kept)
      PROVE  Counted'
  <2>1. /\ Draw /\ batch' = batch \o kept /\ numPrompt' = numPrompt + Len(kept)
        /\ numGen' = numGen + 1 /\ UNCHANGED <<filter, policy, seen, disk>>
    BY <1>3 DEF GenerateMore, PromptsWith
  <2>2. kept \in Seq(Groups) /\ Len(kept) \in 0..GenSize
    BY <1>1, <2>1, KeptAreGroups
  <2>3. numGen' <= MaxDraws
    <3>1. Drawn(loader) + 1 <= MaxDraws /\ Drawn(loader) = seen + numGen
      BY <1>1, <1>2, <2>1, DrawBounded DEF Draw
    <3> QED
      BY <1>1, <1>2, <2>1, <3>1
  <2>4. numPrompt' \in Nat /\ numPrompt' <= GenSize * numGen'
    <3>1. GenSize * numGen' = GenSize * numGen + GenSize /\ GenSize * numGen \in Nat
      BY <1>1, <2>1
    <3>2. numPrompt \in Nat /\ numPrompt <= GenSize * numGen
      BY DEF Counted, Prompts
    <3>3. numPrompt' = numPrompt + Len(kept)
      BY <2>1
    <3> QED
      BY <2>2, <3>1, <3>2, <3>3
  <2>5. batch' \in Seq(Groups)
    BY <2>1, <2>2 DEF Counted, Prompts
  <2> QED
    BY <2>1, <2>3, <2>4, <2>5 DEF Counted, Prompts
<1>4. ASSUME NEW kept \in Kept, Step(kept) \/ StepDies(kept)
      PROVE  Counted'
  <2>1. /\ Draw /\ policy' = policy + 1 /\ seen' = Drawn(loader') /\ batch' = << >>
        /\ numPrompt' = 0 /\ numGen' = 0 /\ filter' = filter
    BY <1>4 DEF Step, StepDies, Train, NextBatch
  <2>2. seen' = Drawn(loader) + 1 /\ seen' \in Nat /\ seen' <= MaxDraws
    BY <1>1, <1>2, <2>1, DrawCounts, DrawBounded
  <2>3. policy' \in Nat /\ policy' <= seen'
    <3>1. policy \in Nat /\ policy <= seen /\ Drawn(loader) = seen + numGen
      BY <1>1, <2>1 DEF Counted, Draw
    <3> QED
      BY <1>1, <2>1, <2>2, <3>1
  <2>4. \/ disk' = disk
        \/ disk' = [step |-> globalSteps, policy |-> policy', loader |-> loader', seen |-> seen']
    BY <1>4 DEF Step, StepDies, Save, TornSave
  <2>5. 0 <= GenSize * 0
    OBVIOUS
  <2> QED
    BY <1>2, <2>1, <2>2, <2>3, <2>4, <2>5 DEF Counted, Prompts
<1>5. CASE Launch
  BY <1>2, <1>5 DEF Launch, Counted, Prompts
<1>6. CASE Finish
  <2>1. UNCHANGED <<filter, policy, seen, batch, numPrompt, numGen>>
    BY <1>6 DEF Finish, Exhausted, accumulated
  <2>2. \/ disk' = disk
        \/ disk' = [step |-> globalSteps, policy |-> policy', loader |-> loader', seen |-> seen']
    BY <1>6 DEF Finish, Save
  <2> QED
    BY <1>1, <2>1, <2>2 DEF Counted, Prompts
<1>7. CASE UNCHANGED <<filter, policy, seen, batch, numPrompt, numGen, disk>>
  BY <1>7 DEF Counted, Prompts
<1> QED
  BY <1>3, <1>4, <1>5, <1>6, <1>7
  DEF Next, TooMany, EndEpoch, FinishDies, TornSave, Exhausted, Crash, Ended, vars, accumulated

LEMMA Typing == Accounted /\ Numbered /\ Passes /\ Counted => TypeOK
<1> SUFFICES ASSUME Accounted, Numbered, Passes, Counted
             PROVE  TypeOK
  OBVIOUS
<1>1. Positions
  BY DEF Accounted
<1>2. MaxDraws \in Nat
  BY DEF MaxDraws
<1>3. Epochs * launch <= Epochs * MaxLaunches /\ Epochs * launch \in Nat /\ Epochs * MaxLaunches \in Nat
  BY DEF Passes
<1>4. loader \in Loaders /\ disk.loader \in Loaders
  BY <1>1, <1>3 DEF Passes, Positions, Loaders
<1>5. numPrompt \in 0..(GenSize * MaxDraws)
  <2>1. /\ GenSize * numGen <= GenSize * MaxDraws
        /\ GenSize * numGen \in Nat /\ GenSize * MaxDraws \in Nat
    <3>1. numGen \in Nat /\ numGen <= MaxDraws
      BY <1>1 DEF Counted, Positions
    <3> QED
      BY <1>2, <3>1
  <2> QED
    BY <2>1 DEF Counted, Prompts
<1>6. /\ numGen \in 0..MaxDraws /\ policy \in 0..MaxDraws /\ seen \in 0..MaxDraws
      /\ disk.policy \in 0..MaxDraws /\ disk.seen \in 0..MaxDraws
  <2>1. numGen \in Nat /\ seen \in Nat /\ disk.seen \in Nat
    BY <1>1 DEF Positions
  <2>2. /\ numGen <= MaxDraws
        /\ policy \in Nat /\ policy <= seen /\ seen <= MaxDraws
        /\ disk.policy \in Nat /\ disk.policy <= disk.seen /\ disk.seen <= MaxDraws
    BY DEF Counted
  <2> QED
    BY <1>2, <2>1, <2>2
<1>7. disk \in Checkpoints
  BY <1>4, <1>6 DEF Counted, Numbered, Checkpoints
<1> QED
  BY <1>1, <1>4, <1>5, <1>6, <1>7 DEF TypeOK, Positions, Numbered, Passes, Counted

\* Every variable stays within its type: a job of so many launches draws, updates
\* and saves no more than the bounds of TypeOK allow.
THEOREM TypeCorrect == Spec => []TypeOK
<1>1. Init => Passes /\ Counted
  <2> SUFFICES ASSUME Init
               PROVE  Passes /\ Counted
    OBVIOUS
  <2>1. MaxDraws \in Nat /\ Epochs * 0 = 0 /\ GenSize * 0 = 0
    BY DEF MaxDraws
  <2>2. /\ disk = [step |-> 0, policy |-> 0, loader |-> loader, seen |-> 0]
        /\ loader.pass = 0
    BY DEF Init
  <2> QED
    BY <2>1, <2>2 DEF Init, Passes, Counted, Prompts
<1>2. Accounted => Positions
  BY DEF Accounted
<1> QED
  BY <1>1, <1>2, AccountedInit, AccountedStep, NumberedInit, NumberedStep, PassesStep,
     CountedStep, Typing, PTL DEF Spec
=============================================================================
