----------------------------- MODULE AlphaStabler -----------------------------
(***************************************************************************)
(* Alpha-Stabler: every data-parallel rank carries its own copy of the     *)
(* controller (verl/utils/alpha_stabler.py), observes its own tokens       *)
(* before an optimizer update, pools energies with all-reduce, and decides *)
(* by itself which layers' gradients to project.  Nothing compares the     *)
(* copies: they stay equal only if every rank enters the same collectives  *)
(* in the same order and applies the same rule to the same pooled values.  *)
(*                                                                         *)
(* Energies are small integers.  A percentage (PSI, EMA, thresholds) is an *)
(* integer out of Scale; the EMA coefficient is BetaNum / BetaDen and      *)
(* divisions round down.                                                   *)
(***************************************************************************)
EXTENDS Integers, FiniteSets

CONSTANTS
  Ranks,          (* data-parallel workers                                  *)
  NumLayers,      (* monitored layers 1..NumLayers, visited in this order   *)
  WarmupSteps,    (* warmup_steps                                           *)
  Interval,       (* monitor_interval                                       *)
  Persistence,    (* persistence                                            *)
  Scale,          (* 100 percent                                            *)
  Release,        (* calibrated release threshold                           *)
  Warning,        (* calibrated warning threshold                           *)
  BetaNum,        (* ema_beta, as a fraction                                *)
  BetaDen,
  Control,        (* control: project gradients, or only monitor            *)
  MicroBatches,   (* micro-batches accumulated per optimizer update         *)
  MaxUpdates,     (* bound: optimizer updates per rank                      *)
  MaxCrashes      (* bound: crashes of the job                              *)

\* AlphaStablerConfig.__post_init__ and the check at the end of calibrate.
ASSUME AlphaAssumption ==
  /\ IsFiniteSet(Ranks) /\ Ranks # {}
  /\ NumLayers \in Nat \ {0}
  /\ Interval \in Nat \ {0}
  /\ WarmupSteps \in Nat /\ WarmupSteps >= Interval
  /\ Persistence \in Nat \ {0}
  /\ Scale \in Nat
  /\ Release \in Nat /\ Warning \in Nat
  /\ 0 < Release /\ Release < Warning /\ Warning < Scale
  /\ BetaNum \in Nat /\ BetaDen \in Nat /\ BetaNum < BetaDen
  /\ Control \in BOOLEAN
  /\ MicroBatches \in Nat \ {0}
  /\ MaxUpdates \in Nat
  /\ MaxCrashes \in Nat

VARIABLES
  ctl,       (* every rank's controller: the contents of its state_dict     *)
  saved,     (* the controllers of the last checkpoint                      *)
  pc,        (* where every rank is                                         *)
  slot,      (* the collective a rank is at: <<layer, number>>              *)
  shift,     (* the shift energies a rank measured for its current layer    *)
  energy,    (* the result of a rank's last all-reduce                      *)
  flags,     (* the flag assignments a rank's hooks used in this update     *)
  batch,     (* micro-batches a rank has run in this update                 *)
  crashes,
  failed     (* a rank raised: the job ends                                 *)

vars == <<ctl, saved, pc, slot, shift, energy, flags, batch, crashes, failed>>

-----------------------------------------------------------------------------
Layers == 1..NumLayers

\* Principal and total energy of the shifts one rank sees; no shift at all is
\* the zero energy.
Shifts == {[principal |-> 0, total |-> 0],
           [principal |-> 0, total |-> 1],
           [principal |-> 1, total |-> 1]}

Energies == [principal : 0..Cardinality(Ranks), total : 0..Cardinality(Ranks)]

Predictors == [ema : 0..Scale, count : 0..MaxUpdates, active : BOOLEAN]

Controllers == [step : 0..MaxUpdates, moments : 0..MaxUpdates, records : 0..MaxUpdates,
                calibrated : BOOLEAN, predictor : [Layers -> Predictors]]

\* The predictor is empty before calibration; nothing reads it until then.
Fresh == [step |-> 0, moments |-> 0, records |-> 0, calibrated |-> FALSE,
          predictor |-> [l \in Layers |-> [ema |-> 0, count |-> 0, active |-> FALSE]]]

Places == {"idle", "calibrate", "reduce", "apply", "forward", "optimizer"}

NoShift == [principal |-> 0, total |-> 0]

TypeOK ==
  /\ ctl \in [Ranks -> Controllers]
  /\ saved \in [Ranks -> Controllers]
  /\ pc \in [Ranks -> Places]
  /\ slot \in [Ranks -> Layers \X (0..(MaxUpdates + 2))]
  /\ shift \in [Ranks -> Shifts]
  /\ energy \in [Ranks -> Energies]
  /\ flags \in [Ranks -> SUBSET [Layers -> BOOLEAN]]
  /\ batch \in [Ranks -> 0..MicroBatches]
  /\ crashes \in 0..MaxCrashes
  /\ failed \in BOOLEAN

Init ==
  /\ ctl = [r \in Ranks |-> Fresh]
  /\ saved = ctl
  /\ pc = [r \in Ranks |-> "idle"]
  /\ slot = [r \in Ranks |-> <<1, 0>>]
  /\ shift = [r \in Ranks |-> NoShift]
  /\ energy = [r \in Ranks |-> NoShift]
  /\ flags = [r \in Ranks |-> {}]
  /\ batch = [r \in Ranks |-> 0]
  /\ crashes = 0
  /\ failed = FALSE

-----------------------------------------------------------------------------
(* One update of one rank: before_update and observe_update.                *)

Checks(step) == step % Interval = 0

NeedsObservation(step) ==
  LET next == step + 1
  IN next <= WarmupSteps \/ Checks(next)

Go(r, place, where) ==
  /\ pc' = [pc EXCEPT ![r] = place]
  /\ slot' = [slot EXCEPT ![r] = where]

Start(r) ==
  /\ ~failed
  /\ pc[r] = "idle"
  /\ ctl[r].step < MaxUpdates
  /\ flags' = [flags EXCEPT ![r] = {}]
  /\ batch' = [batch EXCEPT ![r] = 0]
  /\ UNCHANGED <<saved, energy, crashes>>

\* An update without a monitoring pass only counts.
SkipObservation(r) ==
  /\ Start(r)
  /\ ~NeedsObservation(ctl[r].step)
  /\ ctl' = [ctl EXCEPT ![r].step = @ + 1]
  /\ Go(r, "forward", <<1, 0>>)
  /\ UNCHANGED <<shift, failed>>

\* Mutant: a rank that sees no shift records nothing.
SkipsZeroShifts(step, seen) == Checks(step) /\ seen.total > 0

\* The shift of a monitored update is recorded for every rank, zero or not.
RecordsShift(step, seen) == Checks(step)

WarmUp(r) ==
  LET step == ctl[r].step + 1
  IN /\ Start(r)
     /\ NeedsObservation(ctl[r].step)
     /\ step <= WarmupSteps
     /\ \E seen \in Shifts :
          /\ shift' = [shift EXCEPT ![r] = seen]
          /\ ctl' = [ctl EXCEPT ![r].step = step,
                                ![r].moments = @ + 1,
                                ![r].records = @ + (IF RecordsShift(step, seen) THEN 1 ELSE 0)]
     /\ IF step = WarmupSteps THEN Go(r, "calibrate", <<1, 1>>) ELSE Go(r, "forward", <<1, 0>>)
     /\ UNCHANGED failed

\* Mismatched or non-finite warm-up activations: this rank raises.
WarmUpFails(r) ==
  LET step == ctl[r].step + 1
  IN /\ Start(r)
     /\ NeedsObservation(ctl[r].step)
     /\ step <= WarmupSteps
     /\ ctl' = [ctl EXCEPT ![r].step = step]
     /\ failed' = TRUE
     /\ UNCHANGED <<pc, slot, shift>>

\* The controller refuses to monitor without a calibration.
Monitor(r) ==
  LET step == ctl[r].step + 1
  IN /\ Start(r)
     /\ NeedsObservation(ctl[r].step)
     /\ step > WarmupSteps
     /\ ctl' = [ctl EXCEPT ![r].step = step]
     /\ \E seen \in Shifts : shift' = [shift EXCEPT ![r] = seen]
     /\ failed' = ~ctl[r].calibrated
     /\ IF Checks(step) THEN Go(r, "reduce", <<1, 0>>) ELSE Go(r, "forward", <<1, 0>>)

-----------------------------------------------------------------------------
(* Collectives: all ranks must be at the same one.                          *)

Meet(place) ==
  /\ ~failed
  /\ \A r \in Ranks : pc[r] = place
  /\ \A r, q \in Ranks : slot[r] = slot[q]

\* An energy is 0 or 1, so that the sum over the ranks is a count.
Pooled ==
  [principal |-> Cardinality({r \in Ranks : shift[r].principal = 1}),
   total |-> Cardinality({r \in Ranks : shift[r].total = 1})]

\* Mutant: the all-reduce is missing.
NoReduction == [r \in Ranks |-> shift[r]]

\* distributed_sum: every rank leaves with the same pooled energy.
Reduced == [r \in Ranks |-> Pooled]

Reduce ==
  /\ Meet("reduce")
  /\ energy' = Reduced
  /\ pc' = [r \in Ranks |-> "apply"]
  /\ UNCHANGED <<ctl, saved, slot, shift, flags, batch, crashes, failed>>

\* Per layer, calibrate pools the moments, broadcasts rank 0's basis and pools
\* every recorded shift: 2 + records collectives, counted by each rank itself.
SlotsOf(r) == 2 + ctl[r].records

NextSlot(r) ==
  IF slot[r][2] < SlotsOf(r) THEN <<slot[r][1], slot[r][2] + 1>> ELSE <<slot[r][1] + 1, 1>>

Calibrated(c, median) ==
  [c EXCEPT !.calibrated = TRUE,
            !.moments = 0,
            !.records = 0,
            !.predictor = [l \in Layers |-> [ema |-> median[l], count |-> 0, active |-> FALSE]]]

\* A rank that has been through all its collectives holds the thresholds.  The
\* median lies below the release threshold.
CalibrateStep ==
  /\ Meet("calibrate")
  /\ \E median \in [Layers -> 0..(Release - 1)] :
       ctl' = [r \in Ranks |->
                 IF NextSlot(r)[1] \in Layers THEN ctl[r] ELSE Calibrated(ctl[r], median)]
  /\ pc' = [r \in Ranks |-> IF NextSlot(r)[1] \in Layers THEN "calibrate" ELSE "forward"]
  /\ slot' = [r \in Ranks |-> IF NextSlot(r)[1] \in Layers THEN NextSlot(r) ELSE <<1, 0>>]
  /\ UNCHANGED <<saved, shift, energy, flags, batch, crashes, failed>>

\* No valid shift, or thresholds outside 0 < release < warning < 1: all raise.
CalibrateFails ==
  /\ Meet("calibrate")
  /\ failed' = TRUE
  /\ UNCHANGED <<ctl, saved, pc, slot, shift, energy, flags, batch, crashes>>

-----------------------------------------------------------------------------
(* The predictor of one layer.                                              *)

Valid(e) == e.total > 0

Psi(e) == (Scale * e.principal) \div e.total

\* Mutant: the new value is not weighted by 1 - ema_beta.
BlendUnweighted(ema, psi) == (BetaNum * ema + BetaDen * psi) \div BetaDen

Blend(ema, psi) == (BetaNum * ema + (BetaDen - BetaNum) * psi) \div BetaDen

\* Mutant: control one warning early.
EarlyControl(p, psi) ==
  LET ema == Blend(p.ema, psi)
      count == IF ema > Warning THEN p.count + 1 ELSE 0
  IN [ema |-> ema,
      count |-> count,
      active |-> (p.active \/ count + 1 >= Persistence) /\ ~(ema < Release)]

\* update_predictor
Updated(p, psi) ==
  LET ema == Blend(p.ema, psi)
      count == IF ema > Warning THEN p.count + 1 ELSE 0
  IN [ema |-> ema,
      count |-> count,
      active |-> (p.active \/ count >= Persistence) /\ ~(ema < Release)]

\* Mutant: a release does not end the run of warnings.
KeepsRun(p, e) ==
  IF Valid(e)
    THEN LET u == Updated(p, Psi(e))
         IN [u EXCEPT !.count = IF u.count = 0 THEN p.count ELSE @]
    ELSE [p EXCEPT !.count = 0]

Observed(p, e) == IF Valid(e) THEN Updated(p, Psi(e)) ELSE [p EXCEPT !.count = 0]

\* A rank applies the pooled energy of a layer and measures the next one.
Apply(r) ==
  LET l == slot[r][1]
  IN /\ ~failed
     /\ pc[r] = "apply"
     /\ ctl' = [ctl EXCEPT ![r].predictor[l] = Observed(@, energy[r])]
     /\ IF l < NumLayers
          THEN /\ Go(r, "reduce", <<l + 1, 0>>)
               /\ \E seen \in Shifts : shift' = [shift EXCEPT ![r] = seen]
          ELSE Go(r, "forward", <<1, 0>>) /\ UNCHANGED shift
     /\ UNCHANGED <<saved, energy, flags, batch, crashes, failed>>

-----------------------------------------------------------------------------
(* Gradient accumulation, checkpoints and crashes.                          *)

\* Mutant: the hook is registered for the first micro-batch only.
FirstBatchOnly(r) ==
  [l \in Layers |-> Control /\ batch[r] = 0 /\ ctl[r].calibrated /\ ctl[r].predictor[l].active]

\* The layers whose gradient the hooks of a forward pass will project.
Projected(r) ==
  [l \in Layers |-> Control /\ ctl[r].calibrated /\ ctl[r].predictor[l].active]

Forward(r) ==
  /\ ~failed
  /\ pc[r] = "forward"
  /\ flags' = [flags EXCEPT ![r] = @ \cup {Projected(r)}]
  /\ batch' = [batch EXCEPT ![r] = @ + 1]
  /\ pc' = [pc EXCEPT ![r] = IF batch[r] + 1 = MicroBatches THEN "optimizer" ELSE "forward"]
  /\ UNCHANGED <<ctl, saved, slot, shift, energy, crashes, failed>>

\* The gradients are reduced and the optimizer steps on all ranks together.
OptimizerStep ==
  /\ Meet("optimizer")
  /\ pc' = [r \in Ranks |-> "idle"]
  /\ UNCHANGED <<ctl, saved, slot, shift, energy, flags, batch, crashes, failed>>

AllIdle == \A r \in Ranks : pc[r] = "idle"

\* alpha_stabler_rank_N.pt of every rank, between two updates: which ones depends
\* on save_freq and on the updates of a training step, both left open here.
SaveCheckpoint ==
  /\ ~failed
  /\ AllIdle
  /\ saved' = ctl
  /\ UNCHANGED <<ctl, pc, slot, shift, energy, flags, batch, crashes, failed>>

\* Mutant: only the step and the predictor come back.
ForgetsWarmup(c) == [c EXCEPT !.moments = 0, !.records = 0]

\* load_state_dict: step, bases, predictor, moments and records come back.
Restored(c) == c

CrashAndResume ==
  /\ crashes < MaxCrashes
  /\ crashes' = crashes + 1
  /\ ctl' = [r \in Ranks |-> Restored(saved[r])]
  /\ pc' = [r \in Ranks |-> "idle"]
  /\ slot' = [r \in Ranks |-> <<1, 0>>]
  /\ shift' = [r \in Ranks |-> NoShift]
  /\ energy' = [r \in Ranks |-> NoShift]
  /\ flags' = [r \in Ranks |-> {}]
  /\ batch' = [r \in Ranks |-> 0]
  /\ failed' = FALSE
  /\ UNCHANGED saved

Trained == AllIdle /\ \A r \in Ranks : ctl[r].step = MaxUpdates

Ended == (Trained \/ failed) /\ UNCHANGED vars

RankStep(r) ==
  \/ SkipObservation(r)
  \/ WarmUp(r)
  \/ WarmUpFails(r)
  \/ Monitor(r)
  \/ Apply(r)
  \/ Forward(r)

Work ==
  \/ \E r \in Ranks : RankStep(r)
  \/ Reduce
  \/ CalibrateStep
  \/ CalibrateFails
  \/ OptimizerStep

Next == Work \/ SaveCheckpoint \/ CrashAndResume \/ Ended

Spec == Init /\ [][Next]_vars

\* Ranks keep running; collectives complete when all ranks are in them.
Fairness == WF_vars(Work)

FairSpec == Spec /\ Fairness

-----------------------------------------------------------------------------
(* Properties.                                                              *)

\* Monitored updates since warm-up, the update at step included.
ChecksDone(step) == (step \div Interval) - (WarmupSteps \div Interval)

\* How far a rank is: its update, and the layers of it already applied.
Position(r) ==
  <<ctl[r].step,
    CASE pc[r] = "reduce" -> slot[r][1] - 1
      [] pc[r] = "apply" -> slot[r][1] - 1
      [] pc[r] = "calibrate" -> 0
      [] OTHER -> NumLayers>>

\* Two ranks that have come equally far hold the same controller: the same
\* moving averages, the same counts and the same layers under control, although
\* each keeps its own copy and nothing compares them (observe_update decides
\* from all-reduced energies only).
Agreement ==
  ~failed => \A r, q \in Ranks : Position(r) = Position(q) => ctl[r] = ctl[q]

Collective == {"calibrate", "reduce", "optimizer"}

\* Two ranks that wait in a collective wait in the same one, so that the
\* all-reduce of one is never paired with that of another layer, record or
\* update ("Keep all ranks' record positions aligned, including zero shifts").
Aligned ==
  ~failed => \A r, q \in Ranks :
    pc[r] \in Collective /\ pc[q] \in Collective =>
      pc[r] = pc[q] /\ slot[r] = slot[q] /\ ctl[r].step = ctl[q].step

\* All micro-batches of an update, on all ranks, project the gradients of the
\* same layers: at the optimizer step each rank has used one flag assignment,
\* and the same one ("Flags remain fixed across the entire accumulation").
FlagsFixed ==
  (\A r \in Ranks : pc[r] = "optimizer") =>
    \A r, q \in Ranks : Cardinality(flags[r]) = 1 /\ flags[r] = flags[q]

\* The thresholds are computed from every update of the warm-up, and from every
\* monitored one of them, also when the job crashed and resumed within it; and
\* no update runs past the warm-up without them.
CalibratedOnWarmup ==
  \A r \in Ranks :
    /\ ~failed /\ ~ctl[r].calibrated =>
         /\ ctl[r].moments = ctl[r].step
         /\ ctl[r].records = ctl[r].step \div Interval
         /\ ctl[r].step <= WarmupSteps
    /\ pc[r] = "calibrate" => ctl[r].moments = WarmupSteps

\* A layer is under control only if at least Persistence monitored updates have
\* passed since the warm-up, on every rank and across restarts: no count comes
\* from the warm-up, from an unmonitored update, or twice from the same one.
ControlIsEarned ==
  \A r \in Ranks : \A l \in Layers :
    ctl[r].predictor[l].active => ChecksDone(ctl[r].step) >= Persistence

\* The copies are one controller: read from a rank that no other is ahead of,
\* they do what Hysteresis does, every verdict once.
Ahead(p, q) == p[1] > q[1] \/ (p[1] = q[1] /\ p[2] > q[2])

Leader == CHOOSE r \in Ranks : \A q \in Ranks : ~Ahead(Position(q), Position(r))

Warned(c) == [l \in Layers |-> c.predictor[l].count]

On(c) == {l \in Layers : c.predictor[l].active}

One == INSTANCE Hysteresis WITH
         warned <- Warned(ctl[Leader]),
         on <- On(ctl[Leader]),
         kept <- [warned |-> Warned(saved[Leader]), on |-> On(saved[Leader])]

\* Every behaviour of the job is one of the single controller the
\* documentation describes.
ActsAsOne == One!Spec

\* The training ends, or a rank raises: no rank waits for ever in a collective
\* the others never enter.
Ends == <>[](Trained \/ failed)
=============================================================================
