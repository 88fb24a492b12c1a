------------------------- MODULE SequentialCurriculum -------------------------
(***************************************************************************)
(* The sequential_orthogonal steering curriculum: every steered layer owns *)
(* a hook (TrainableTokenVectorHook) with NumVectors basis vectors, trained *)
(* one at a time.  Vector 0 trains a fixed number of optimizer steps and   *)
(* its norm becomes the layer's target.  A later vector is frozen once its *)
(* norm reaches the target, and all layers switch together when all are    *)
(* frozen (verl/workers/actor/dp_actor.py).  The trainer generates the     *)
(* rollouts, runs the mini-batches of the step and validates after a       *)
(* switch (verl/trainer/ppo/ray_trainer.py).                               *)
(*                                                                         *)
(* A vector is abstracted to its norm, a small integer.  What moves a      *)
(* vector is its gradient and the momentum Adam keeps for its row.         *)
(***************************************************************************)
EXTENDS Integers, FiniteSets

CONSTANTS
  Layers,         (* steered layers                                         *)
  NumVectors,     (* num_vectors                                            *)
  RawSteps,       (* seq_raw_steps, at least 1                              *)
  MinSteps,       (* max(seq_loss_patience, 10)                             *)
  InitNorm,       (* norm of a fresh vector (vector_scale)                  *)
  MaxNorm,        (* bound: norms are 0..MaxNorm                            *)
  MiniBatches,    (* optimizer steps in a training step                     *)
  SaveFreq,       (* trainer.save_freq, positive                            *)
  MaxSteps,       (* bound: training steps of one launch                    *)
  MaxCrashes      (* bound: crashes of the job                              *)

\* A curriculum needs two vectors; a training step holds no more optimizer
\* steps than a vector needs, so that it sees at most one switch.
ASSUME CurriculumAssumption ==
  /\ IsFiniteSet(Layers) /\ Layers # {}
  /\ NumVectors \in Nat /\ NumVectors >= 2
  /\ RawSteps \in Nat \ {0}
  /\ MinSteps \in Nat \ {0}
  /\ MaxNorm \in Nat /\ InitNorm \in 0..MaxNorm
  /\ MiniBatches \in 1..MinSteps
  /\ SaveFreq \in Nat \ {0}
  /\ MaxSteps \in Nat
  /\ MaxCrashes \in Nat

VARIABLES
  hook,       (* the curriculum state of every layer                        *)
  saved,      (* the vectors and Adam's momentum in the last checkpoint     *)
  pc,         (* where the trainer is in its step                           *)
  step,       (* training steps of this launch                              *)
  batch,      (* mini-batches done in this step                             *)
  sampled,    (* the vector of each layer that generated the rollouts       *)
  switched,   (* actor/seq_vector_switched of this step                     *)
  judged,     (* vectors injected by the validations that followed a switch *)
  evals,      (* number of those validations                                *)
  crashes

vars == <<hook, saved, pc, step, batch, sampled, switched, judged, evals, crashes>>

-----------------------------------------------------------------------------
Rows == 0..(NumVectors - 1)

Norms == 0..MaxNorm

NoTarget == -1

\* The parameters of a layer, and Adam's state for them: the rows with momentum.
Parameters == [norm : [Rows -> Norms], momentum : SUBSET Rows]

\* The _seq_* attributes are plain Python: a checkpoint holds none of them.
Hooks == [active : 0..NumVectors, evalIdx : Rows, steps : 0..(MaxSteps * MiniBatches),
          reached : BOOLEAN, done : BOOLEAN, target : Norms \cup {NoTarget},
          norm : [Rows -> Norms], momentum : SUBSET Rows]

\* The hook __init__ builds around given parameters.
Built(p) ==
  [active |-> 0, evalIdx |-> 0, steps |-> 0, reached |-> FALSE, done |-> FALSE,
   target |-> NoTarget, norm |-> p.norm, momentum |-> p.momentum]

Zeros == [norm |-> [v \in Rows |-> 0], momentum |-> {}]

TypeOK ==
  /\ hook \in [Layers -> Hooks]
  /\ saved \in [Layers -> Parameters]
  /\ pc \in {"rollout", "update", "validate", "failed"}
  /\ step \in 0..MaxSteps
  /\ batch \in 0..MiniBatches
  /\ sampled \in [Layers -> Rows]
  /\ switched \in BOOLEAN
  /\ judged \subseteq Rows
  /\ evals \in 0..MaxSteps
  /\ crashes \in 0..MaxCrashes

Init ==
  /\ saved = [l \in Layers |-> Zeros]
  /\ hook = [l \in Layers |-> Built(Zeros)]
  /\ pc = "rollout"
  /\ step = 0
  /\ batch = 0
  /\ sampled = [l \in Layers |-> 0]
  /\ switched = FALSE
  /\ judged = {}
  /\ evals = 0
  /\ crashes = 0

-----------------------------------------------------------------------------
(* Rollouts: vLLM injects what seq_eval_payload returns.                    *)

Rollout ==
  /\ pc = "rollout"
  /\ step < MaxSteps
  /\ step' = step + 1
  /\ batch' = 0
  /\ switched' = FALSE
  /\ sampled' = [l \in Layers |-> hook[l].evalIdx]
  /\ pc' = "update"
  /\ UNCHANGED <<hook, saved, judged, evals, crashes>>

\* sample_vector: the vector the training forward injects, clamped once all
\* vectors are trained.
Injected(h) == IF h.active \in Rows THEN h.active ELSE NumVectors - 1

-----------------------------------------------------------------------------
(* One optimizer step (_optimizer_step).                                    *)

\* Mutant: the gradient mask is missing.
TrainsAll(h) == Rows

\* project_gradients_to_tangent zeroes the gradient of every row but the active
\* one, and of the active one once it has reached its target.
Trained(h) == IF h.reached THEN {} ELSE {h.active}

\* Zeroing the active row of a finished curriculum indexes past the last row.
IndexError(h) == h.reached /\ h.active \notin Rows

\* _reset_frozen_basis_optimizer_state: the rows that lose their momentum.
Frozen(h) == Rows \ {h.active}

Clamp(n) == IF n < 0 THEN 0 ELSE IF n > MaxNorm THEN MaxNorm ELSE n

\* Adam moves the rows with a gradient or momentum; orthogonalisation may also
\* shorten them.
Stepped(h, by) ==
  [h EXCEPT !.norm = [v \in Rows |->
                        IF v \in Trained(h) \cup h.momentum THEN Clamp(h.norm[v] + by)
                                                            ELSE h.norm[v]],
            !.momentum = (@ \cup Trained(h)) \ Frozen(h)]

-----------------------------------------------------------------------------
(* advance_sequential_state, after the optimizer step.                      *)

\* Mutant: the old momentum survives the switch.
KeepsMomentum(h) == h.momentum

\* _maybe_reset_steer_optimizer_on_switch
MomentumAfterSwitch(h) == {}

\* Mutant: the index to evaluate moves on with the active one.
EvaluatesNext(h) ==
  LET next == h.active + 1
  IN IF next \notin Rows
       THEN [h EXCEPT !.active = next, !.evalIdx = next, !.done = TRUE]
       ELSE [h EXCEPT !.active = next, !.evalIdx = next, !.norm[next] = InitNorm,
                      !.steps = 0, !.reached = FALSE, !.momentum = {}]

\* _seq_activate_next_vector; the last vector leaves everything else in place.
Switched(h) ==
  LET next == h.active + 1
      left == [h EXCEPT !.evalIdx = h.active, !.active = next]
  IN IF next \notin Rows
       THEN [left EXCEPT !.done = TRUE]
       ELSE [left EXCEPT !.norm[next] = InitNorm,
                         !.steps = 0,
                         !.reached = FALSE,
                         !.momentum = MomentumAfterSwitch(h)]

\* Mutant: a layer that waits does not count the step.
CountsTraining(h) ==
  [h EXCEPT !.steps = IF h.reached THEN @ ELSE @ + 1, !.evalIdx = h.active]

\* Mutant: the index to evaluate moves at switches only.
CountsOnly(h) == [h EXCEPT !.steps = @ + 1]

Counted(h) == [h EXCEPT !.steps = @ + 1, !.evalIdx = h.active]

ReachedTarget(h) == h.steps >= MinSteps /\ h.norm[h.active] >= h.target

Advanced(h, force) ==
  LET c == Counted(h)
      r == [c EXCEPT !.reached = @ \/ ReachedTarget(c)]
  IN CASE h.done -> h
       [] ~h.done /\ h.active = 0 ->
            IF c.steps >= RawSteps THEN Switched([c EXCEPT !.target = c.norm[0]]) ELSE c
       [] ~h.done /\ h.active # 0 -> IF force THEN Switched(r) ELSE r

\* Mutant: the first layer to reach its target switches them all.
AnyReached(hooks) ==
  /\ \A l \in Layers : hooks[l].done \/ hooks[l].active # 0
  /\ \E l \in Layers : hooks[l].reached

\* Decided before any layer advances.
ForceSwitch(hooks) ==
  LET targeted == {l \in Layers : hooks[l].target # NoTarget}
  IN /\ \A l \in Layers : hooks[l].done \/ hooks[l].active # 0
     /\ targeted # {}
     /\ \A l \in targeted : hooks[l].reached

\* Mutant: the metric of the last mini-batch replaces the earlier ones.
LastBatchOnly(before, after) == \E l \in Layers : after[l].active # before[l].active

\* The metrics of a step: 1.0 if any of its mini-batches switched.
SwitchSeen(before, after) ==
  switched \/ \E l \in Layers : after[l].active # before[l].active

Advance(hooks) ==
  /\ hook' = [l \in Layers |-> Advanced(hooks[l], ForceSwitch(hooks))]
  /\ switched' = SwitchSeen(hooks, hook')
  /\ batch' = batch + 1
  /\ pc' = IF batch + 1 = MiniBatches THEN "validate" ELSE "update"
  /\ UNCHANGED <<saved, step, sampled, judged, evals, crashes>>

Updatable == pc = "update" /\ ~(\E l \in Layers : IndexError(hook[l]))

Update ==
  /\ Updatable
  /\ \E by \in [Layers -> {-1, 0, 1}] :
       Advance([l \in Layers |-> Stepped(hook[l], by[l])])

\* A gradient norm that is not finite skips the optimizer, not the curriculum.
SkippedUpdate ==
  /\ Updatable
  /\ Advance(hook)

UpdateRaises ==
  /\ pc = "update"
  /\ \E l \in Layers : IndexError(hook[l])
  /\ pc' = "failed"
  /\ UNCHANGED <<hook, saved, step, batch, sampled, switched, judged, evals, crashes>>

-----------------------------------------------------------------------------
(* Validation, checkpoints and restarts.                                    *)

\* What the checkpoint at the end of a step holds.
Kept ==
  IF step % SaveFreq = 0
    THEN [l \in Layers |-> [norm |-> hook[l].norm, momentum |-> hook[l].momentum]]
    ELSE saved

\* The end of a training step: a validation if a layer switched, then a
\* checkpoint every SaveFreq steps.  A periodic validation injects the same
\* vectors and leaves no trace.
Validate ==
  /\ pc = "validate"
  /\ pc' = "rollout"
  /\ judged' = IF switched THEN judged \cup {hook[l].evalIdx : l \in Layers} ELSE judged
  /\ evals' = IF switched THEN evals + 1 ELSE evals
  /\ saved' = Kept
  /\ UNCHANGED <<hook, step, batch, sampled, switched, crashes>>

\* The vectors and Adam's state come back; the curriculum starts over.
CrashAndResume ==
  /\ crashes < MaxCrashes
  /\ crashes' = crashes + 1
  /\ hook' = [l \in Layers |-> Built(saved[l])]
  /\ pc' = "rollout"
  /\ step' = 0
  /\ batch' = 0
  /\ sampled' = [l \in Layers |-> 0]
  /\ switched' = FALSE
  /\ judged' = {}
  /\ evals' = 0
  /\ UNCHANGED saved

Ended ==
  /\ pc = "failed" \/ (pc = "rollout" /\ step = MaxSteps)
  /\ UNCHANGED vars

Next ==
  \/ Rollout
  \/ Update
  \/ SkippedUpdate
  \/ UpdateRaises
  \/ Validate
  \/ CrashAndResume
  \/ Ended

Spec == Init /\ [][Next]_vars

-----------------------------------------------------------------------------
(* Properties.                                                              *)

\* All layers train the same vector and have spent the same number of steps on
\* it, whenever their own norms reach their own targets; one layer never
\* finishes the curriculum before another (_advance_trainable_vector_sequential:
\* "Switching is SYNCHRONIZED across all steer layers").
Synchronized ==
  \A l, k \in Layers :
    /\ hook[l].active = hook[k].active
    /\ hook[l].steps = hook[k].steps
    /\ hook[l].evalIdx = hook[k].evalIdx
    /\ hook[l].done = hook[k].done

\* A later vector is compared with the norm vector 0 still has: neither the
\* gradients nor the momentum of later vectors, nor their initialisation, ever
\* move a vector that has finished.
TargetIsV0 == \A l \in Layers : hook[l].active > 0 => hook[l].target = hook[l].norm[0]

\* No optimizer step moves a vector once the curriculum has passed it.
FinishedStay ==
  [][\A l \in Layers : \A v \in Rows :
       v < hook[l].active /\ hook'[l].active > 0 => hook'[l].norm[v] = hook[l].norm[v]]_vars

\* A vector after the first is left only if every layer's vector has trained
\* for MinSteps steps and has reached its target, in an earlier step.
SwitchTogether ==
  [][\A l \in Layers :
       hook[l].active > 0 /\ hook'[l].active > hook[l].active =>
         \A k \in Layers : hook[k].reached /\ hook[k].steps >= MinSteps]_vars

\* Between two training steps, each finished vector has had exactly one
\* validation ("eval fires exactly once per vector"), however the switches fall
\* among the mini-batches.
OneEvalPerVector == pc = "rollout" => \A l \in Layers : evals = hook[l].active

\* The rollouts of a step come from the vector its training forward injects ("the
\* SAME single active vector that sample_vector() uses on the training side"),
\* except in the one step that follows a switch in the last mini-batch, whose
\* rollouts still come from the finished vector (seq_eval_payload).
RolloutsLagOneStep ==
  pc = "update" /\ batch = 0 =>
    \A l \in Layers : \/ sampled[l] = Injected(hook[l])
                      \/ hook[l].steps = 0 /\ sampled[l] = hook[l].active - 1

\* Documented, and not so.  The validation after a switch injects the vector
\* that has just finished ("inject the JUST-FINISHED vector (_seq_eval_idx)").
FinishedAreJudged ==
  pc = "rollout" => \A l \in Layers : \A v \in Rows : v < hook[l].active => v \in judged

\* Documented, and not so.  Training goes on with the last vector once all are
\* trained ("clamp so we keep injecting the last trained vector").
OutlivesCurriculum == pc # "failed"

=============================================================================
