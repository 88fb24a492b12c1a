# TLA+ models of On-Policy Vector Training

This directory holds TLA+ specifications of the control logic of the trainer: when it saves, what a
crash leaves, which rank decides what, which vector is trained, injected and validated, and which
data an update is made of. TLC checks small instances; TLAPS proves what matters most for every
value of the constants. Tensor arithmetic is out of scope.

    tlc -config Checkpoint.cfg Checkpoint.tla     # one model-checking run
    tlapm Checkpoint_proofs.tla                   # the proofs of one module

## The system

The program is a fork of verl. A driver process runs the training loop and calls worker groups (one
process per GPU rank) over Ray; a call returns when every rank has returned.

| part | state it keeps | operations | talks to |
|---|---|---|---|
| PPO driver, `verl/trainer/ppo/ray_trainer.py` | `global_steps`, data loader | roll out, update critic and actor, validate, save, resume | worker groups, disk |
| DAPO driver, `recipe/dapo/dapo_ray_trainer.py` | the above; accumulated `batch`, `num_prompt_in_batch`, `num_gen_batches` | generate until enough groups pass the filter, update | the same |
| checkpoint managers, `verl/utils/checkpoint/` | `previous_saved_paths` per rank; files on disk | rotate, write shards, load | barriers between ranks |
| Alpha-Stabler, `verl/utils/alpha_stabler.py` | step, moments, records, bases, a predictor per layer, on every rank | observe an update, calibrate, project gradients | all-reduce and broadcast between ranks |
| steering hooks, `TrainableTokenVectorHook` in `verl/workers/fsdp_workers.py`, driven by `verl/workers/actor/dp_actor.py` | basis vectors, curriculum position per layer, Adam state of each row | inject, mask gradients, advance, switch | driver (metric that asks for a validation), vLLM (payload) |
| curricula by global step: the same hooks, `verl/utils/steer_coeffs.py`, `verl/utils/vllm/patch.py` | the step in driver, worker, actor and hooks; rows, alpha and Adam state; the payload vLLM holds | enter a stage, send rows, combine, train a block | driver (passes the step), vLLM |
| tool agent loop, `verl/experimental/agent_loop/` | token list, mask, probabilities, turns and tool calls of each conversation; map from conversation to server | pending, generating, processing tools, interacting; choose a server; create, execute, release a tool | rollout servers, tools, a simulated user |
| code sandbox, `recipe/code_sandbox/`, `reward_score/sandbox_fusion/` | requests in flight | run a case, retry, map the result | HTTP |
| SFT trainer, `checkpoint_handler.py` | as the checkpoint managers | save, resume | barriers, disk |
| batching, `seqlen_balancing.py`, `protocol.py`, `single_controller/` | none | split, pad, balance, collect | worker groups |

What is hard about it, and hard to test: a crash between any two file operations; ranks that
progress at their own pace between barriers; copies of one controller that nothing compares; layers
that finish at different times and must switch together; indices that are read later than they are
written; momentum that outlives the gradient it came from; a step number that four processes keep and
only some calls carry; batches that are gathered over several generations; conversations that share
one event loop, one map of servers and one set of tools, each of whose awaits may raise.
`PROJECT.json` lists these hazards at their lines.

What makes each part correct: the checkpoint a resume picks is whole and recent; a resumed job
neither repeats nor skips data; all ranks do the same collectives and hold the same controller; a
finished vector does not change, is validated once and with its own values, and rollouts come from
the vector that is trained; stages hand over without losing directions, momentum or alpha; an update
is full and on-policy; what a conversation hands to the trainer fits together, a request finds room
for an answer and the server that knows the conversation, and no tool instance is left behind.

## Modules

### Checkpoint and AtomicCheckpoint: saving, rotating, resuming

| TLA+ | code |
|---|---|
| `Train`, `MustSave`, `AfterStep` | the loop of `RayPPOTrainer.fit`, its save condition (last step, `save_freq`, capacity expiry) and its end |
| `StartSave(role)` | `save_checkpoint` of the actor's, then the critic's group |
| `RemoveOldFile`, `FinishRotation` | `remove_previous_save_local_path` on rank 0, file by file, and the cut list |
| `Mkdir`, `MkdirBarrier`, `BeginDump`, `FinishDump`, `DumpBarrier` | `FSDPCheckpointManager.save_checkpoint` |
| `BeginAlpha`, `FinishAlpha`, `ReturnBarrier` | the controller's file and the worker's barrier in `ActorRolloutRefWorker.save_checkpoint` |
| `BeginData`, `FinishData`, `OpenTracker`, `CloseTracker` | the driver's own files |
| `Crash`, `Launch`, `LaunchFails` | the end of the process, and `_load_checkpoint` |

A file is absent, torn, or what a launch wrote. The three shards of a rank (model, optimizer, extra)
are one file: they are written by one rank without a barrier in between and are needed together.
A failure of one rank ends the job, because Ray hands its exception to the driver.

The run `checkpoint` has two ranks, actor, critic and controller files, three steps, `save_freq` 2
and three launches: enough for a save at a multiple, one at the last step, one on capacity expiry,
rotation with both a tight and a loose limit, and a crash during the rewriting of a checkpoint that
an earlier crash had left. A launch that resumes a finished job runs one step past the last
(the loop tests its end after the step), which is why `Steps` reaches `TotalSteps + MaxLaunches`.
It shows that the tracked checkpoint is always whole (`TrackedIsWhole`), that a resume costs less than
`save_freq` steps (`BoundedLoss`), that rotation keeps its limit within a launch (`KeepPerLaunch`),
that the tracker never moves before all ranks are done (`CommitIsOwn`), and that every launch
comes to its end, so no rank waits for another for ever (`LaunchEnds`). That the job as a whole gets
to its last step is not said, and is not so: see the last paragraph of this section.
`resume_mode` is `auto` here: with `disable` or `resume_path` a launch deliberately
ignores the tracker, so it may overwrite or outpace the tracked step, and the two
properties that relate the tracker to the running step do not apply.

`AtomicCheckpoint` says in one page what all this amounts to: a job has one checkpoint, at most
`save_freq` steps old, and replaces it as a whole; a launch resumes from it, and it is missing only
after a crash in the middle of its replacement, which is when the tracker is being rewritten. The
same run shows that `Checkpoint` implements it (`ActsAtomically`). The mapping (`Kept`, `Status`)
looks through the tracker at the files of the step it names and records of which launches they are;
the rotation, the barriers, the shards and the removal of other steps are stutters.

The run `checkpoint_keep_one` refutes a comment: with one checkpoint to keep, a setting
`ray_trainer.py:939` recommends, the rotation removes the tracked checkpoint before the next one is
written. Two more things show in the model without a run of their own: the list of saved paths is
memory of one launch, so after a relaunch more checkpoints than the limit may be on disk; and
the tracker is opened for writing in place, so a crash can leave it empty, and no launch with
`resume_mode` `auto` can then start (`LaunchFails`): the step it names is read before anything else,
and the comment beside it, "for atomic usage", describes what the write is not. A rotation whose
`rmtree` fails is ignored by the code and not modelled.

### Dapo: the driver with dynamic sampling

`Draw` takes the next batch of the data loader; `GenerateMore`, `TooMany` and `Step` are the three
ways an iteration goes on (`continue`, the `ValueError`, the update with save and reset). `EndEpoch`
and `Finish` are the outer loop and the code after it; `StepDies` and `FinishDies` are saves cut
short, `Crash` everything else. A group is the number of its draw and of its policy; which prompts
pass the filter is open. The data loader is external: `StatefulDataLoader` goes on after the last
batch it handed out, and a loader saved after the end of its data starts the next pass. A crash
between the save of the last step and the return of `fit` is left out (relaunching a finished job
is in `Checkpoint`); `critic_warmup` is 0.

The run `dapo` has two passes over four batches of two prompts, three groups to an update, at most
three generations, `save_freq` 2 and three launches: leftovers, steps across an epoch's end, the
generation limit, and the end of the data before the last step all occur. `DrawnOnce` says that the
draws behind the surviving weights and those waiting make up all the loader has handed out;
`OnPolicy` and `FullBatches` are about what an update trains on; `EndIsSaved` about what is on disk
when the job ends: the last update, unless a directory left by an interrupted save passes for its
checkpoint (`FolderMissing`), which is the one way it is lost. The module also shows (no run) that the
checkpoint written after the data ran out is named one step too high: `globalSteps` is already that
of the step that never happened.

### AlphaStabler and Hysteresis: one controller, many copies

`AlphaStabler` runs `before_update` and `observe_update` on every rank (`SkipObservation`, `WarmUp`,
`Monitor`, `Apply`), the collectives as joint steps of all ranks (`Reduce`, `CalibrateStep`,
`OptimizerStep`), the forward passes that read the flags (`Forward`), checkpoints and resumes.
A collective is enabled when all ranks are in one with the same slot, so a rank that counted fewer
records blocks the others: this is how a mismatch shows. `Hysteresis` is what the documentation
promises: one controller, a verdict per layer and monitored update, `Persistence` warnings in a row
to enable control, a low value to end it. `ActsAsOne` is the refinement, read from a rank no other
is ahead of.

The run has two ranks, two layers, three warm-up updates of which one is monitored, three monitored
updates after it (one more than the persistence, so that control is enabled and can be released),
two micro-batches and one crash. Percentages are quarters; the predictor is deterministic in the
pooled energy, so a coarser scale only changes which verdicts occur, and all three do.
Checkpoints may fall between any two updates, which covers every `save_freq` and every number of
updates per step. Besides the refinement it shows that the copies agree (`Agreement`), that ranks
wait in the same collective (`Aligned`), that the flags of an update are one assignment
(`FlagsFixed`), that thresholds come from the whole warm-up (`CalibratedOnWarmup`), that control is
earned (`ControlIsEarned`), and that every update ends or raises (`Ends`).

### SequentialCurriculum: one vector at a time

A hook is its `_seq_*` attributes, the norm of each basis vector and the set of rows with momentum.
`Update` is `_optimizer_step` plus `advance_sequential_state` of all layers; `SkippedUpdate` the path
of a non-finite gradient norm, which skips the optimizer but still counts as a step;
`UpdateRaises` the index past the last row; `Rollout` what vLLM is given; `Validate` the end of a
training step with its validation and its checkpoint. `CrashAndResume` brings back vectors and Adam
state; none of the `_seq_*` attributes is saved, so the curriculum starts over.

The run has two layers, three vectors (a first, a middle and a last one), two mini-batches
a step and one crash; norms move by at most one per update. A switch falls in the first as well as
in the last mini-batch, layers reach their targets in different updates, and the restart happens
before and after each switch. The assumption `MiniBatches <= MinSteps` reflects the code's minimum
of ten updates per vector; with more mini-batches than that in a step, two switches would share a
validation. It shows that layers stay synchronized (`Synchronized`), switch only together and when
all are ready (`SwitchTogether`), that finished vectors and the target they define stay put
(`FinishedStay`, `TargetIsV0`), that each vector has one validation (`OneEvalPerVector`), and that
rollouts come from the vector that is trained or, for one step after a switch, from the one before it
(`RolloutsLagOneStep`): a switch in the last mini-batch leaves `_seq_eval_idx` where it was until
the next update.

Two runs refute comments: the validation injects the fresh vector when the switch was not in the
last mini-batch (`sequential_evals`); the update after the last vector raises
(`sequential_completion`). Not given a run: a vector that has reached its target and waits for the
other layers is still moved by its momentum (its gradient is zeroed, Adam's state is kept until the
switch); and `seq_max_iters`, documented as the most updates per vector, is stored and never read,
so a vector whose norm stays below the target is trained for ever.

### SteeringStages: the curricula that follow the global step

| TLA+ | code |
|---|---|
| `Stage`, `Active`, `Block`, `Used`, `Trained`, `Seed` | the schedules of `steer_coeffs.py` and of the hook: which rows have a coefficient, which a gradient |
| `AtStep` (`Extracted`, `Activated`, `Expanded`) | `set_current_global_step` of a hook, in its order: extract alpha and normalize, activate the new block, expand and orthogonalize |
| `Generates` | `generate_sequences` and `rollout_mode`: set the step, send rows, alpha and step to vLLM |
| `FirstRow`, `Fresh` | the rows `__init__` creates, as they are once the optimizer is built: in a warm-up the zero rows have been normalised, all to the same unit vector |
| `Vector`, `Injected`, `Rollouts` | what a hook adds and what `patch.py` adds in vLLM |
| `ValidateFirst`, `StartTraining`, `Rollout`, `OldLogProb`, `FinishStep` | the calls of `RayPPOTrainer.fit` in their order, with the step each one passes |
| `Update`, `SkippedUpdate` | `_optimizer_step`: gradients projected, rows moved, basis orthogonalized, momentum of closed rows reset |
| `HasGradient`, `UpdateRaises` | a zero combination is replaced by a constant, everything else is frozen, so the backward pass has nothing to differentiate and raises |
| `CrashAndResume` | `load_checkpoint`: rows, a learnable alpha and Adam state come back, every plain attribute is new |

A row is a norm and a number for its direction: a row that moves gets the next number, so two vectors
are equal exactly when they combine the same rows in the same state. Coefficients are the step that
seeds them. One hook is modelled, for all are called with the same steps and share nothing.

The run `steering_stages` has four rows and three stages of three steps (one, two and four rows, so
that the last block has two), two optimizer steps in a step, saves and validations that do not
coincide, two crashes, with and without old log probabilities and a learnable alpha. It shows that
rollouts and updates inject the same vector (`SameVector`), that no row past the raw phase is
combined before it has a direction (`AllActive`), that a closed row is moved by its momentum once at
most (`StraysOnce`), that entering a stage, even again after a resume, keeps the directions there are
(`EntryKeepsDirections`), that an alpha once fixed is fixed for the launch (`AlphaFixed`), and
that an update has a gradient to work with (`SeedsTrain`) in the three curricula that give row 0 a
direction first or inject it as it is: `warmup_expand`, `progressive_double` and `raw_then_double`.
It covers all five curricula; in the other two every launch ends at its first update.

Three more runs refute comments. `steering_zero` is about those two, `none` and
`alpha_then_basis`: they combine rows that start at zero, the code replaces a zero combination by
a constant, and all other parameters are frozen, so the loss has no gradient and the first backward
pass raises. The comment beside the zero rows says they heal as they grow with the gradient
(`ZeroHeals`).
`steering_async`: with agent loops the servers are woken without a
step, so the rollouts of a step use the rows and the stage of the step before, while old log
probabilities and updates use the new ones. `steering_resume`: alpha is extracted from row 0 a second
time after a resume, when that row is a unit vector, so the restored alpha is lost.

### AgentLoop: conversations with tools

| TLA+ | code |
|---|---|
| `StartRaises` | the start of the interaction, before the first state |
| `Pending`, `Answer`, `EndTools`, `Interact`, `Raises` | the handlers of `ToolAgentLoop.run`, from one await to the next |
| `Send` with `ChooseServer` | the request to `AsyncLLMServerManager.generate`: least requests, then an `LRUCache` |
| `Refused`, `Room` | the bound on `max_tokens` in `vllm_async_server.py` |
| `Create`, `Execute`, `Release` and the `...Raises` | `_call_tool`, one await at a time, for every call of a turn at once |
| `PromptIds`, `ResponseIds`, `ResponseMask`, `ResponseLogProbs` | the slices `run` returns |
| `Width`, `Stackable` | the padding of a prompt, which fills up to `prompt_length` and cuts nothing off, and the concatenation of the rows of a worker |
| `NextBatch`, `Ended` | `AgentLoopWorker.generate_sequences`, which gathers the conversations |

A token is the kind of text it belongs to. All conversations of a call run on one event loop, so an
action is what happens between two awaits. A call that raises outside `_call_tool`'s `try` fails its
conversation and with it the call of the worker; the other tasks are not cancelled and go on.

The run `agent_loop` has two conversations at once and two after them, two servers and a map of two
entries, so that every new conversation evicts an old one; a limit of two tokens for a prompt and
prompts of up to three, for nothing in the loop cuts a prompt or checks it: the dataset's filter is
off by default and does not count the schemas of the tools; a response of three tokens and
observations of up to two, so that one fits, fills or overflows; up to three tool calls found and two
started; assistant turns without a cap and with one; with and without a simulated user. A cap on
user turns is left to the theorems: both caps are read in one test. It
shows that the output fits together (`OutputsAligned`), that no request lacks room when there is
no simulated user, whose words are appended unchecked, and the prompt keeps to its limit
(`RoomLeft`), that a conversation
stays with its server (`Sticky`), that no tool instance outlives its turn (`Released`), and that the
calls of the worker end (`Ends`). Nothing calls `finalize_interaction`, so what an interaction keeps
for a conversation stays for ever; that is a reading of the code, not a run. A prompt over its limit
has two consequences, both errors of the whole call: a request may find no room (`Refused`), and
the rows of the worker may differ in width (`Stackable`). Rows of different workers meet in
the manager, which is not modelled.

## Fairness

Three properties need it.

* `LaunchEnds` of `Checkpoint`: a running job goes on (a collective completes once every rank is in it,
  processes are scheduled); nothing forces a crash, and nothing a launch.
* `Ends` of `AlphaStabler`: ranks keep running.
* `Ends` of `AgentLoop`: every task of the event loop that can go on does, each with a weak
  fairness of its own because `asyncio` runs ready tasks in turn. Servers, tools and users answer: the
  code waits for them without a time limit, so without this a conversation may indeed wait for ever.

In the first two the fairness is one weak-fairness condition on the union of the actions the running
processes take by themselves, never on `Crash`. `Dapo`, `SequentialCurriculum` and `SteeringStages`
state safety only and assume none.

## Proofs

Every theorem is `Spec => ...` for every value of the constants that the named `ASSUME` of its module
allows; TLC evaluates those assumptions in every run. Each rests on an inductive invariant, which is
stated first in its module with the reason for each conjunct.

`Checkpoint_proofs`, for any number of ranks, steps and launches. All three theorems assume
`SafeConfiguration`: no group keeps exactly one checkpoint, and launches resume automatically. The run
`checkpoint_keep_one` shows that the first half is needed.

* `TrackedCheckpointIsWhole`. `TrackedIsWhole` is not inductive: the rotation removes what `saved`
  lists, so the invariant `IInv` must say that `saved` lists increasing steps whose last entry is at
  or past the tracked one (`Recorded`), that what is being removed is older (`Removing`), where
  each rank stands in the running save (`Positioned`), what it has written by then (`Written`), and
  how `step`, `tracker` and `phase` are related (`Progress`).
* `LossIsBounded`: no multiple of `save_freq` lies between the tracker and the running step
  (`NoneDue`), because the save due there would have moved the tracker.
* `CommitsAreOwn`, from `Written` at the moment the tracker is closed.

`CheckpointAtomic_proofs`, under the same `SafeConfiguration`:

* `SaveIsAtomic`: `Spec => ActsAtomically`, the refinement of `AtomicCheckpoint`. Every action but six
  leaves the mapping alone, because it neither moves the tracker nor touches a file of the step it
  names (`Unseen`). The six are the abstract steps; where the job stands when they happen is what
  `IInv` and `NoneDue` say, and that a job past its last step trains only if it has just resumed
  (`Overtime`).

`CheckpointKeep_proofs`, for any ranks, steps and launches and every configuration, so any resume
mode and any number to keep:

* `DiskIsBounded`: what the running launch wrote for a group lies in the directories rank 0 has
  recorded or in the one being filled (`Shelved`); no rank fills that one before rank 0 has rotated,
  because of the barrier after `mkdir` (`Lockstep`); the rotation makes room for it (`Roomy`) and
  forgets a directory only when it is empty (`Rotating`). Earlier launches' files only go away.
* `TypeCorrect`, which needs the same parts, `Bounded` and `Dated` for the counters.
* `NobodyBlocked`: a job that neither died nor finished can take a step. The ranks of a group are never
  a barrier apart (`Abreast`), so one that waits waits for ranks that can go on.
* `WorkRunsOut`: every step of the running processes leaves fewer of them (`Left`, see below).

`AlphaStabler_proofs`, for any ranks, layers, thresholds, energies and crashes:

* `CopiesAreOne`: `Spec => ActsAsOne`, the refinement of `Hysteresis`. The mapping reads the copy of a
  rank no other is ahead of; the proof shows which copy that is (`Led`), that a step that takes the
  lead is one verdict on one layer, and that the steps of those who follow are stutters.
* `CopiesAgree` and `CollectivesAligned` (`Together`). What ties the ranks together between two
  collectives is not the copy they hold now but the collective each will come to next (`StopOf`) and
  the copy it will hold there (`ThenOf`): a step of one rank leaves both unchanged, and a joint
  step changes them for all alike.
* `WarmUpIsWhole`, `NoEarlyControl` and `TypeCorrect` follow from what holds of each rank alone
  (`Alone`, with `Sound` for where the warm-up ends and `Earned` for control), `FlagsStayFixed` from
  `Flagged`; `Stopped` says that a job that raises does so in the warm-up, with a rank in the lead.
* `NobodyBlocked` (from `Together`: ranks that all wait, wait in one collective) and `WorkRunsOut`.

`SequentialCurriculum_proofs`, for any layers, vectors, mini-batches, norms and launches:

* `LayersSynchronized`, `TargetStaysV0`, `OneValidationEach`, `PassedVectorsStay`,
  `SwitchesTogether`. The argument goes layer by layer: an
  optimizer step (`SteppedHook`), a switch (`SwitchedHook`) and the curriculum's part of a mini-batch
  (`AdvancedHook`) keep `HookOK`, of which the deciding part is that no row before the active one
  has momentum. `Synchronized` then follows because whether a layer moves on depends only on what
  the layers share. `OneValidationEach` needs `Judging`: a step that has seen a switch cannot see a
  second one, since the vector it went to has had fewer steps than a target needs. This uses the
  assumption that a training step holds at most `MinSteps` mini-batches.
* `RolloutsLag` (`LagInv`): the index to evaluate is refreshed in the first mini-batch of a step.
* `CompletionRaises`: what `sequential_completion` finds is the only error there is and cannot be
  avoided. A step raises only when every layer has finished its last vector, and the first optimizer
  step after that does, whatever the norms are.
* `TypeCorrect` (`TypeInv`): no vector counts more steps than its launch has done mini-batches.

`SteeringStages_proofs`, for any number of vectors, stages, steps and crashes, in all curricula:

* `VectorShared` and `RowsActive` assume `AsyncModes = {FALSE}`; `steering_async` shows that they
  must. Their invariant `Together` says where the step of hook and vLLM is that of the driver,
  and that the rows of hook, payload and checkpoint are fit for the step they belong to.
* `TypeCorrect`, `AlphaStays` and `DirectionsKept` need no such assumption (`Always`, whose deciding
  part, `Settled`, says what the stage a hook has entered has done to it).
* `AgentLoopsLag` (`Lagging`) says how far `steering_async` goes: with agent loops the rollouts of a step
  use the step before it, or step 0 after a resume, never their own; and if the old log probabilities
  are bypassed as well, hook and vLLM stay at step 0 for ever.
* `StraysAtMostOnce` (`Traced`) assumes `AsyncModes = {FALSE}` too. A row that strayed
  lies behind every row that still has momentum (`Trail`), and a row without momentum and gradient
  does not move.
* `SeedsAlwaysTrain` (`Training`), with agent loops too: in the three curricula it is about, the hook
  and the checkpoint always have a row 0 to combine, or inject it as it is (`Rooted`). It is
  lost neither by an update nor by a stage entered again after a resume.

`Dapo_proofs`, for any sizes, limits, epochs and launches:

* `EveryDrawOnce`. The strengthening (`Accounted`) adds that a checkpoint a
  launch may resume from was taken with nothing waiting.
* `UpdatesAreOnPolicy` and `UpdatesAreFull`, from `OwnGroups`: the waiting groups carry the current
  policy and `num_prompt_in_batch` counts them.
* `LastUpdateKept` (`Numbered`: a running job is past what it would resume from, and only a job
  that is done has saved the last step) and `TypeCorrect` (`Passes`, `Counted`: a launch makes at most
  `Epochs` passes, and every update is behind a draw of its own).

`AgentLoop_proofs`, for any lengths, caps, servers, tools and numbers of conversations, covers
every safety property of the run:

* `OutputsFit` and `RequestsHaveRoom` (for prompts within their limit), conversation by conversation: `Lists` says how the three lists
  of a conversation fit before they are cut, `Conversation` how long they are in each state.
* `InstancesReleased` (`Tasks`): instances are counted against the calls that hold one; only a failed
  conversation may have left one behind.
* `StaysWithServer` (`Sessions`): entries of earlier calls of the worker stand before those of the
  running one, of which there are never more than the map has places, so the entry that makes room is
  always an old one. This uses that the map is not smaller than the batch (10000 in the code).
* `TypeCorrect` puts them together.
* `NobodyBlocked`: a conversation that has not ended can take a step, whatever the others do. There is
  a server to ask, because some server has the fewest conversations (`LeastLoaded`) or the map has
  the one chosen before; and a gather never waits for a call that has nothing left to do, because a
  call is lost only together with its conversation (`NoneLost`).
* `WorkRunsOut`: every step of the worker leaves fewer of them. A conversation comes back to a state
  only with more tokens (`StepGoes`), and the context bounds them (`Short`): an answer fits the room
  it was given, and after an overlong prompt, observation or turn of the user the next request is
  refused.

Every safety property of every passing run is a theorem. The three liveness properties, `LaunchEnds`
and the two `Ends`, are only model-checked, since liveness under fairness and `ENABLED` are out of the
prover's reach. Proved of each are the two facts about running processes it rests on, which need
neither:

* somebody can always go on until the end (`NobodyBlocked`). The theorem spells out the guards of the
  actions the fairness is about; TLC's liveness check shows on the small instance that they are
  the right ones;
* nobody goes on for ever (`WorkRunsOut`): each step makes a natural number `Left` smaller. `Left` is
  the number of positions still ahead: a process stands at a position in a finite product of numbers,
  ordered lexicographically (step of training, phase, rank's place in the save, and so on), and a
  step may set later components back only when it advances an earlier one. Counting the positions
  ahead turns the order into one number, so that the provers need only that a set became a proper
  subset. `Crash`, `Launch` and a resume are not among these steps; they occur once per launch at
  most, and launches are bounded. The worker of `AgentLoop` has no such steps.

What is left to TLC is the step from these two facts and the fairness to the liveness property.
Violations are shown by TLC, on the smallest instance that has them.

## Plan

The modules were written in the order of what an error would cost: what a crash leaves on disk
(`Checkpoint` against `AtomicCheckpoint`), copies that must agree (`AlphaStabler` against `Hysteresis`), which vector is
trained, judged and used (`SequentialCurriculum`, then `SteeringStages`), which data an update is
made of (`Dapo`, then `AgentLoop`). Each was proved about once TLC agreed with its invariant. Left is
a variant of `Checkpoint` for the SFT handler, if that handler grows beyond the two differences
described below.

## Not modelled

The models cover the control logic of the trainer. Most of the repository is something else:
numerical code, model definitions and reward scoring, so the mapped share of all lines is
small. By part:

* Loss and advantage mathematics, model definitions, kernels: real arithmetic without control state.
* The Megatron backend: another checkpoint manager, which this repository does not train with.
* Rollout servers: thin adapters around vLLM and SGLang, whose scheduling is not in the repository. Of
  the asynchronous server only the bound on an answer is modelled, in `AgentLoop`.
* The code sandbox: every request carries its whole program and the server keeps nothing between
  requests, so a retry costs time only; what is left is a table of return codes and scores.
* The SFT handler `checkpoint_handler.py`: the rotation of `Checkpoint` with one group, and a tracker
  that is written beside the old one and renamed into place.
* Sequence-length balancing: pure algorithms over lists of lengths, compared with a reference in
  `tests/utils/test_seqlen_balancing.py`.
* Worker dispatch and `DataProto`: no state between calls; the models use only that a group call
  returns when all ranks have returned.
* Offline and skipped rollouts: look-ups in files another job has written.
* Reward functions, datasets, launch scripts, docs: no state of the program.
* Inside modelled parts: the HDFS upload and the Hugging Face export, which are never read back by a
  resume; the single-turn agent loop, which is one request; media, position ids and the padding of responses;
  reward and KL values, which are reduced to whether a group is kept; the directions of vectors in
  `SequentialCurriculum`. The DAPO driver passes no global step to the actor, so a curriculum that
  follows it would stay in its first stage; the scripts of these curricula use the PPO driver.
