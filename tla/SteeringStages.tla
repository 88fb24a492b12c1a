---------------------------- MODULE SteeringStages ----------------------------
(***************************************************************************)
(* The steering curricula that follow the global step.  The vector a hook  *)
(* injects is a combination of basis rows, times alpha; which rows, with   *)
(* which coefficients, and whether alpha applies, is a function of the     *)
(* step (verl/utils/steer_coeffs.py).  The step is kept by the worker, the *)
(* actor and the hooks, which are set together (verl/workers/              *)
(* fsdp_workers.py, verl/workers/actor/dp_actor.py), and sent to vLLM with *)
(* the rows and alpha (verl/utils/vllm/patch.py); the driver               *)
(* (verl/trainer/ppo/ray_trainer.py) passes it along with its calls.       *)
(*                                                                         *)
(* Rows are abstracted to a norm and to a number that stands for the       *)
(* direction: a row that moves gets the next number.  Coefficients are     *)
(* abstracted to the step that seeds them.  One hook is modelled: the      *)
(* others see the same steps.                                              *)
(***************************************************************************)
EXTENDS Integers, FiniteSets

CONSTANTS
  Curricula,      (* curricula to choose from                               *)
  AsyncModes,     (* whether rollouts are generated by agent loops          *)
  BypassModes,    (* rollout_correction.bypass_mode: no old log probs       *)
  AlphaModes,     (* whether alpha is a parameter (learnable_alpha)         *)
  NumVectors,     (* num_vectors                                            *)
  WarmupSteps,    (* warmup_steps                                           *)
  Scale,          (* vector_scale, the scale vLLM uses when alpha is fixed  *)
  AlphaInit,      (* alpha_init                                             *)
  MaxNorm,        (* bound: norms and alpha are at most MaxNorm             *)
  MiniBatches,    (* optimizer steps in a training step                     *)
  SaveFreq,       (* trainer.save_freq                                      *)
  TestFreq,       (* trainer.test_freq                                      *)
  TotalSteps,     (* total_training_steps                                   *)
  MaxCrashes      (* bound: crashes of the job                              *)

Configs == [curriculum : Curricula, async : AsyncModes,
            bypass : BypassModes, learnable : AlphaModes]

ASSUME SteeringAssumption ==
  /\ Curricula \subseteq {"none", "warmup_expand", "alpha_then_basis",
                          "progressive_double", "raw_then_double"}
  /\ AsyncModes \subseteq BOOLEAN
  /\ BypassModes \subseteq BOOLEAN
  /\ AlphaModes \subseteq BOOLEAN
  /\ NumVectors \in Nat /\ NumVectors >= 2
  /\ WarmupSteps \in Nat
  /\ MaxNorm \in Nat \ {0}
  /\ Scale \in 1..MaxNorm /\ AlphaInit \in 1..MaxNorm
  /\ MiniBatches \in Nat \ {0}
  /\ SaveFreq \in Nat \ {0} /\ TestFreq \in Nat \ {0}
  /\ TotalSteps \in Nat
  /\ MaxCrashes \in Nat

VARIABLES
  config,     (* a member of Configs                                        *)
  pc,         (* where the driver is                                        *)
  step,       (* global_steps of the driver                                 *)
  batch,      (* optimizer steps done in this training step                 *)
  hook,       (* the hook of the training side                              *)
  momentum,   (* rows Adam keeps momentum for                               *)
  sent,       (* the payload vLLM injects                                   *)
  saved,      (* the last checkpoint                                        *)
  history,    (* moves of a row outside its block; not read by the code     *)
  crashes

vars == <<config, pc, step, batch, hook, momentum, sent, saved, history, crashes>>

-----------------------------------------------------------------------------
(* What a step stands for.                                                  *)

Rows == 0..(NumVectors - 1)

Lesser(a, b) == IF a <= b THEN a ELSE b

StageSteps == IF WarmupSteps = 0 THEN 1 ELSE WarmupSteps

\* Stages 0, 1, 2, ... use 1, 2, 4, ... rows; the last one uses them all.
LastStage == Cardinality({k \in 0..NumVectors : 2^k < NumVectors})

\* Mutant: the stages go on after the last.
Unlimited(s) == s \div StageSteps

Stage(s) == Lesser(s \div StageSteps, LastStage)

ActiveIn(stage) == Lesser(2^stage, NumVectors)

Active(s) == ActiveIn(Stage(s))

PrevActive(s) == IF Stage(s) = 0 THEN 0 ELSE ActiveIn(Stage(s) - 1)

Doubling == config.curriculum \in {"progressive_double", "raw_then_double"}

\* The raw phase trains and injects row 0 as it is.
Raw(s) == config.curriculum = "raw_then_double" /\ s < StageSteps

\* The first phase of alpha_then_basis, and the warm-up of warmup_expand.
FirstPhase(s) == config.curriculum = "alpha_then_basis" /\ s < WarmupSteps
WarmingUp(s) == config.curriculum = "warmup_expand" /\ s <= WarmupSteps

AlphaFrozen(s) ==
  \/ Doubling /\ Stage(s) >= 1
  \/ config.curriculum = "alpha_then_basis" /\ s >= WarmupSteps

\* Mutant: a stage adds one row.
OneRow(s) == {PrevActive(s)}

\* The rows a stage adds; the raw phase and stage 0 have row 0.
Block(s) == PrevActive(s)..(Active(s) - 1)

\* The rows with a coefficient.
Used(s) == CASE Doubling -> 0..(Active(s) - 1)
             [] FirstPhase(s) -> {0}
             [] OTHER -> Rows

\* The rows project_gradients_to_tangent leaves a gradient.
Trained(s) == CASE Doubling -> Block(s)
                [] FirstPhase(s) -> {0}
                [] OTHER -> Rows

\* The step that seeds the coefficients; one row, or all rows alike, need none.
Seed(s) == IF Used(s) = {0} \/ WarmingUp(s) THEN 0 ELSE s

NoVector == [seed |-> 0, scale |-> 0, rows |-> {}]

\* The vector injected at step s: sample_vector on the training side,
\* _sample_vllm_steer_vector in vLLM.  The raw phase scales row 0 by its norm; a
\* combination of zero rows is left at zero.
Vector(rows, scale, s) ==
  LET on == {r \in Used(s) : rows[r].norm > 0}
  IN IF on = {} THEN NoVector
     ELSE [seed |-> Seed(s),
           scale |-> IF Raw(s) THEN rows[0].norm ELSE scale,
           rows |-> {<<r, rows[r].dir>> : r \in on}]

-----------------------------------------------------------------------------
(* The hook.                                                                *)

Norms == 0..MaxNorm

Row == [norm : Norms, dir : Nat]

\* switched, stage and expanded are plain attributes: no checkpoint holds them.
Hooks == [step : 0..TotalSteps, rows : [Rows -> Row], alpha : Norms,
          switched : BOOLEAN,               \* _rtd_switched
          stage : -1..LastStage,            \* _pd_last_activated_stage
          expanded : BOOLEAN]               \* _orthogonalized_after_warmup

Histories == [Rows -> Nat]

Checkpoints == [rows : [Rows -> Row], alpha : Norms, momentum : SUBSET Rows,
                step : 0..TotalSteps, history : Histories]

\* A new direction of unit norm.
Turned(row) == [norm |-> 1, dir |-> row.dir + 1]

\* _rtd_extract_alpha_and_normalize: the norm of row 0 becomes alpha, row 0 a
\* unit vector.  The other rows are zero or orthogonal to it already.
Extracted(h) ==
  IF config.curriculum # "raw_then_double" \/ h.switched \/ h.step < StageSteps THEN h
  ELSE IF h.rows[0].norm = 0
    THEN [h EXCEPT !.alpha = Scale, !.rows[0] = Turned(@), !.switched = TRUE]
    ELSE [h EXCEPT !.alpha = h.rows[0].norm, !.rows[0].norm = 1, !.switched = TRUE]

\* Mutant: rows that are trained already start over.
ActivatesAll(h, r) == TRUE

NeedsActivation(h, r) == h.rows[r].norm = 0

\* Mutant: stage 0 counts as activated from the start.
ActivatesLater(h) ==
  IF ~Doubling \/ Raw(h.step) \/ Stage(h.step) <= h.stage \/ Stage(h.step) = 0 THEN h
  ELSE [h EXCEPT !.rows = [r \in Rows |-> IF r \in Block(h.step) /\ NeedsActivation(h, r)
                                            THEN Turned(h.rows[r]) ELSE h.rows[r]],
                 !.stage = Stage(h.step)]

\* _activate_new_basis_block, once per stage.
Activated(h) ==
  IF ~Doubling \/ Raw(h.step) \/ Stage(h.step) <= h.stage THEN h
  ELSE [h EXCEPT !.rows = [r \in Rows |-> IF r \in Block(h.step) /\ NeedsActivation(h, r)
                                            THEN Turned(h.rows[r]) ELSE h.rows[r]],
                 !.stage = Stage(h.step)]

\* maybe_activate_expanded_basis: rows that were trained alike are told apart.
Expanded(h) ==
  IF config.curriculum # "warmup_expand" \/ h.step <= WarmupSteps \/ h.expanded THEN h
  ELSE [h EXCEPT !.rows = [r \in Rows |-> IF r > 0 \/ h.rows[r].norm = 0
                                            THEN Turned(h.rows[r]) ELSE h.rows[r]],
                 !.expanded = TRUE]

\* set_current_global_step
AtStep(h, s) == Expanded(Activated(Extracted([h EXCEPT !.step = s])))

\* The attributes __init__ sets.
Built(rows, alpha) ==
  [step |-> 0, rows |-> rows, alpha |-> alpha,
   switched |-> FALSE, stage |-> -1, expanded |-> FALSE]

\* Rows start at zero.  Once the optimizer is built they are orthogonalized, which
\* leaves zero rows alone, but in a warm-up makes unit vectors of them, all alike.
FirstRow == [norm |-> IF WarmingUp(0) THEN 1 ELSE 0, dir |-> 0]

\* The hook once the actor has set it to step 0.
Fresh == AtStep(Built([r \in Rows |-> FirstRow],
                      IF config.learnable THEN AlphaInit ELSE Scale), 0)

\* rollout_mode: alpha is in the payload only if it is a parameter.
Payload(h) ==
  [step |-> h.step, rows |-> h.rows, alpha |-> IF config.learnable THEN h.alpha ELSE Scale]

Injected(h) == Vector(h.rows, h.alpha, h.step)
Rollouts == Vector(sent.rows, sent.alpha, sent.step)

TypeOK ==
  /\ config \in Configs
  /\ pc \in {"start", "rollout", "logprob", "update", "validate", "failed"}
  /\ step \in 0..TotalSteps
  /\ batch \in 0..MiniBatches
  /\ hook \in Hooks
  /\ momentum \subseteq Rows
  /\ sent \in [step : 0..TotalSteps, rows : [Rows -> Row], alpha : Norms]
  /\ saved \in Checkpoints
  /\ history \in Histories
  /\ crashes \in 0..MaxCrashes

NoHistory == [r \in Rows |-> 0]

Init ==
  /\ config \in Configs
  /\ pc = "start"
  /\ step = 0
  /\ batch = 0
  /\ hook = Fresh
  /\ momentum = {}
  /\ sent = Payload(Fresh)
  /\ saved = [rows |-> Fresh.rows, alpha |-> Fresh.alpha, momentum |-> {},
              step |-> 0, history |-> NoHistory]
  /\ history = NoHistory
  /\ crashes = 0

-----------------------------------------------------------------------------
(* Rollouts and log probabilities.                                          *)

\* generate_sequences takes the step from the driver; the agent loops only wake
\* the servers, whose payload is that of the hook as it is.
Generates(s) ==
  /\ hook' = IF config.async THEN hook ELSE AtStep(hook, s)
  /\ sent' = Payload(hook')

ValidateFirst ==
  /\ pc = "start"
  /\ Generates(step)
  /\ pc' = "rollout"
  /\ UNCHANGED <<config, step, batch, momentum, saved, history, crashes>>

StartTraining ==
  /\ pc = "start"
  /\ pc' = "rollout"
  /\ UNCHANGED <<config, step, batch, hook, momentum, sent, saved, history, crashes>>

Rollout ==
  /\ pc = "rollout"
  /\ step < TotalSteps
  /\ step' = step + 1
  /\ batch' = 0
  /\ Generates(step + 1)
  /\ pc' = IF config.bypass THEN "update" ELSE "logprob"
  /\ UNCHANGED <<config, momentum, saved, history, crashes>>

\* Mutant: the driver counts the step before the update.
NextStep == step + 1

\* The global_step compute_log_prob and update_actor get.
PassedStep == step

OldLogProb ==
  /\ pc = "logprob"
  /\ hook' = AtStep(hook, PassedStep)
  /\ pc' = "update"
  /\ UNCHANGED <<config, step, batch, momentum, sent, saved, history, crashes>>

-----------------------------------------------------------------------------
(* One optimizer step (_optimizer_step).                                    *)

\* Mutant: momentum stays where it was.
KeepsMomentum(s) == momentum \cup Trained(s)

\* _reset_frozen_basis_optimizer_state
MomentumLeft(s) == (momentum \cup Trained(s)) \cap Trained(s)

\* A zero combination is replaced by a constant, and all other parameters are
\* frozen: the loss has no gradient then.  The raw phase injects row 0 itself.
HasGradient(h) == Raw(h.step) \/ Injected(h) # NoVector

\* The rows Adam moves.
Moved(h) == Trained(h.step) \cup momentum

\* orthogonalize_basis: a row that moves turns the rows after it, unless they are
\* zero.  The warm-up only normalises, and makes a unit vector of a zero row.
Turns(h, r) ==
  \/ r \in Moved(h)
  \/ WarmingUp(h.step) /\ h.rows[r].norm = 0
  \/ ~WarmingUp(h.step) /\ h.rows[r].norm > 0 /\ \E q \in Moved(h) : q < r

\* The raw phase leaves row 0 its norm.
SteppedRows(h, n) ==
  [r \in Rows |-> IF Raw(h.step)
                    THEN IF r \in Moved(h) THEN [norm |-> n, dir |-> h.rows[r].dir + 1]
                                           ELSE h.rows[r]
                    ELSE IF Turns(h, r) THEN Turned(h.rows[r]) ELSE h.rows[r]]

\* Mutant: alpha is learned in every stage.
LearnsThroughout(h, n) == IF config.learnable THEN n ELSE h.alpha

SteppedAlpha(h, n) ==
  IF config.learnable /\ ~Raw(h.step) /\ ~AlphaFrozen(h.step) THEN n ELSE h.alpha

NextBatch ==
  /\ batch' = batch + 1
  /\ pc' = IF batch + 1 = MiniBatches THEN "validate" ELSE "update"

Update ==
  /\ pc = "update"
  /\ HasGradient(hook)
  /\ \E n \in 1..MaxNorm :
       hook' = [hook EXCEPT !.rows = SteppedRows(hook, n), !.alpha = SteppedAlpha(hook, n)]
  /\ momentum' = MomentumLeft(hook.step)
  /\ history' = [r \in Rows |-> IF r \notin Trained(hook.step) /\ hook'.rows[r] # hook.rows[r]
                                  THEN history[r] + 1 ELSE history[r]]
  /\ NextBatch
  /\ UNCHANGED <<config, step, sent, saved, crashes>>

\* A gradient norm that is not finite skips the optimizer.
SkippedUpdate ==
  /\ pc = "update"
  /\ HasGradient(hook)
  /\ NextBatch
  /\ UNCHANGED <<config, step, hook, momentum, sent, saved, history, crashes>>

\* The backward pass of a loss without a gradient raises, and the job dies.
UpdateRaises ==
  /\ pc = "update"
  /\ ~HasGradient(hook)
  /\ pc' = "failed"
  /\ UNCHANGED <<config, step, batch, hook, momentum, sent, saved, history, crashes>>

-----------------------------------------------------------------------------
(* The end of a step, checkpoints and restarts.                             *)

ShouldValidate == step = TotalSteps \/ step % TestFreq = 0

ShouldSave == step = TotalSteps \/ step % SaveFreq = 0

FinishStep ==
  /\ pc = "validate"
  /\ IF ShouldValidate THEN Generates(step) ELSE UNCHANGED <<hook, sent>>
  /\ saved' = IF ShouldSave
                THEN [rows |-> hook'.rows, alpha |-> hook'.alpha, momentum |-> momentum,
                      step |-> step, history |-> history]
                ELSE saved
  /\ pc' = "rollout"
  /\ UNCHANGED <<config, step, batch, momentum, history, crashes>>

\* The rows, a learnable alpha and Adam's state come back.
CrashAndResume ==
  /\ crashes < MaxCrashes
  /\ crashes' = crashes + 1
  /\ hook' = [Fresh EXCEPT !.rows = saved.rows,
                           !.alpha = IF config.learnable THEN saved.alpha ELSE @]
  /\ sent' = Payload(hook')
  /\ momentum' = saved.momentum
  /\ history' = saved.history
  /\ step' = saved.step
  /\ batch' = 0
  /\ pc' = "start"
  /\ UNCHANGED <<config, saved>>

Ended ==
  /\ \/ pc = "failed"
     \/ pc = "rollout" /\ step = TotalSteps
  /\ UNCHANGED vars

Next ==
  \/ ValidateFirst
  \/ StartTraining
  \/ Rollout
  \/ OldLogProb
  \/ Update
  \/ SkippedUpdate
  \/ UpdateRaises
  \/ FinishStep
  \/ CrashAndResume
  \/ Ended

Spec == Init /\ [][Next]_vars

-----------------------------------------------------------------------------
(* Properties.                                                              *)

\* The rollouts of a step were steered by the very vector its updates start
\* from, coefficients, directions and scale: they were generated before the old
\* log probabilities were computed, by another process, from what it was sent
\* ("all three phases (rollout / old-logp / new-logp) share the same
\* global_step", steer_coeffs.py).  Not so with agent loops; nor for a
\* raw_then_double whose alpha is no parameter, which vLLM is never told.
SameVector ==
  pc = "update" /\ batch = 0 /\ (config.learnable \/ config.curriculum # "raw_then_double") =>
    Rollouts = Injected(hook)

\* The curricula that give row 0 a direction before the first update, or inject it
\* as it is until it has a norm.
Seeding == {"warmup_expand", "progressive_double", "raw_then_double"}

\* In these an update always has a gradient to work with, whatever the stages, the
\* updates skipped and the checkpoints resumed from: none ever combines zero rows
\* only, whose sum sample_vector replaces by a constant.
SeedsTrain == config.curriculum \in Seeding => pc # "failed"

\* From stage 1 on every row a rollout combines has been given a direction,
\* whatever stages the launch has seen itself.
AllActive ==
  pc = "update" /\ Doubling /\ ~Raw(sent.step) =>
    \A r \in Used(sent.step) : sent.rows[r].norm > 0

\* What momentum is left may carry a row away once after its block is closed, and
\* never again, across skipped updates, stages and restarts
\* (_reset_frozen_basis_optimizer_state).
StraysOnce == \A r \in Rows : history[r] <= 1

\* Entering a stage, for the first time or again after a resume, keeps the
\* direction of every row that has one.
EntryKeepsDirections ==
  [][Doubling /\ pc' # "start" /\ pc # "update" =>
       \A r \in Rows : hook.rows[r].norm > 0 => hook'.rows[r].dir = hook.rows[r].dir]_vars

\* Between the first stage with a fixed alpha and the end of the launch, no step
\* changes alpha.
AlphaFixed ==
  [][AlphaFrozen(hook.step) /\ AlphaFrozen(hook'.step) => hook'.alpha = hook.alpha]_vars

\* Documented, and not so.  In none and alpha_then_basis too, which start from zero
\* rows, training goes on ("orthogonalising zero rows is a no-op, it heals as they
\* grow with the gradient", TrainableTokenVectorHook.__init__).
ZeroHeals == pc # "failed"

\* Documented, and not so.  The alpha of raw_then_double is the norm row 0 had
\* when the raw phase ended, and frozen from then on ("alpha := the norm of
\* basis[0], frozen afterwards"), so two checkpoints past that phase agree on it.
AlphaSurvives ==
  [][config.curriculum = "raw_then_double" /\ saved.step >= StageSteps =>
       saved'.alpha = saved.alpha]_vars
=============================================================================
