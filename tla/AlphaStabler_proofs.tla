-------------------------- MODULE AlphaStabler_proofs --------------------------
(***************************************************************************)
(* The copies of the Alpha-Stabler controller agree, and no collective is  *)
(* entered by ranks that mean different ones, for any ranks, layers, warm- *)
(* up, thresholds, energies and crashes.                                   *)
(*                                                                         *)
(* And the ranks go on: what Ends says under fairness, in its two parts    *)
(* that need none.  Somebody can always take a step (NobodyBlocked), and   *)
(* every step leaves fewer to take (WorkRunsOut).                          *)
(***************************************************************************)
EXTENDS AlphaStabler, FiniteSetTheorems, TLAPS

USE AlphaAssumption

-----------------------------------------------------------------------------
(* Integer division.                                                        *)

LEMMA Quotient ==
  ASSUME NEW a \in Nat, NEW b \in Nat \ {0}
  PROVE  a \div b \in Nat /\ a = b * (a \div b) + (a % b) /\ a % b \in 0..(b - 1)
  OBVIOUS

LEMMA QuotientGrows ==
  ASSUME NEW a \in Nat, NEW c \in Nat, NEW b \in Nat \ {0}, a <= c
  PROVE  a \div b <= c \div b
<1> DEFINE p == a \div b
           q == c \div b
<1>1. p \in Nat /\ a = b * p + (a % b) /\ a % b \in 0..(b - 1)
  BY Quotient
<1>2. q \in Nat /\ c = b * q + (c % b) /\ c % b \in 0..(b - 1)
  BY Quotient
<1> HIDE DEF p, q
<1>3. ASSUME p > q
      PROVE  FALSE
  <2>1. p >= q + 1
    BY <1>1, <1>2, <1>3
  <2>2. b * p >= b * (q + 1)
    BY <2>1, <1>1, <1>2
  <2>3. b * (q + 1) = b * q + b
    BY <1>2
  <2> QED
    BY <2>2, <2>3, <1>1, <1>2
<1> QED
  BY <1>1, <1>2, <1>3 DEF p, q

LEMMA NextQuotient ==
  ASSUME NEW a \in Nat, NEW b \in Nat \ {0}
  PROVE  (a + 1) \div b = IF (a + 1) % b = 0 THEN (a \div b) + 1 ELSE a \div b
<1> DEFINE p == a \div b
           q == (a + 1) \div b
<1>1. p \in Nat /\ a = b * p + (a % b) /\ a % b \in 0..(b - 1)
  BY Quotient
<1>2. q \in Nat /\ a + 1 = b * q + ((a + 1) % b) /\ (a + 1) % b \in 0..(b - 1)
  <2>1. a + 1 \in Nat
    OBVIOUS
  <2> QED
    BY <2>1, Quotient
<1>3. p <= q
  BY QuotientGrows
<1> HIDE DEF p, q
<1>4. b * (p + 1) = b * p + b /\ b * (p + 2) = b * p + b + b
  BY <1>1
<1>5. q <= p + 1
  <2>1. ASSUME q >= p + 2
        PROVE  FALSE
    <3>1. b * q >= b * (p + 2)
      BY <1>1, <1>2, <2>1
    <3> QED
      BY <3>1, <1>1, <1>2, <1>4
  <2> QED
    BY <2>1, <1>1, <1>2
<1>6. CASE (a + 1) % b = 0
  <2>1. b * q > b * p
    BY <1>1, <1>2, <1>6
  <2>2. q # p
    BY <2>1, <1>1, <1>2
  <2> QED
    BY <2>2, <1>1, <1>2, <1>3, <1>5, <1>6 DEF p, q
<1>7. CASE (a + 1) % b # 0
  <2>1. b * q < b * (p + 1)
    BY <1>1, <1>2, <1>4, <1>7
  <2>2. q # p + 1
    BY <2>1, <1>1, <1>2
  <2> QED
    BY <2>2, <1>1, <1>2, <1>3, <1>5, <1>7 DEF p, q
<1> QED
  BY <1>6, <1>7

\* The checks up to an update: one more at a check, never fewer.
LEMMA ChecksDoneNext ==
  ASSUME NEW step \in Nat
  PROVE  /\ ChecksDone(step) \in Int
         /\ ChecksDone(step + 1) = ChecksDone(step) + (IF Checks(step + 1) THEN 1 ELSE 0)
         /\ step >= WarmupSteps => ChecksDone(step) >= 0
         /\ step = WarmupSteps => ChecksDone(step) = 0
<1>1. step \div Interval \in Nat /\ WarmupSteps \div Interval \in Nat
  BY Quotient
<1>2. (step + 1) \div Interval
        = IF (step + 1) % Interval = 0 THEN (step \div Interval) + 1 ELSE step \div Interval
  BY NextQuotient
<1>3. step >= WarmupSteps => WarmupSteps \div Interval <= step \div Interval
  BY QuotientGrows
<1> QED
  BY <1>1, <1>2, <1>3 DEF ChecksDone, Checks

-----------------------------------------------------------------------------
(* What a copy is, without bounds and whatever the energies are.            *)

Estimate(p) ==
  /\ p = [ema |-> p.ema, count |-> p.count, active |-> p.active]
  /\ p.ema \in 0..Scale
  /\ p.count \in Nat
  /\ p.active \in BOOLEAN

Energy(e) == e.principal \in Nat /\ e.total \in Nat /\ e.principal <= e.total

Copy(c) ==
  /\ c = [step |-> c.step, moments |-> c.moments, records |-> c.records,
          calibrated |-> c.calibrated, predictor |-> c.predictor]
  /\ c.step \in Nat
  /\ c.moments \in Nat
  /\ c.records \in Nat
  /\ c.calibrated \in BOOLEAN
  /\ c.predictor = [l \in Layers |-> c.predictor[l]]
  /\ \A l \in Layers : Estimate(c.predictor[l])

Fields(c, d) ==
  /\ d.step = c.step
  /\ d.moments = c.moments
  /\ d.records = c.records
  /\ d.calibrated = c.calibrated

LEMMA BlendBounded ==
  ASSUME NEW ema \in 0..Scale, NEW e, Energy(e), Valid(e)
  PROVE  Blend(ema, Psi(e)) \in 0..Scale
<1> DEFINE p == e.principal
           t == e.total
           psi == Psi(e)
           new == BetaDen - BetaNum
           sum == BetaNum * ema + new * psi
           quot == sum \div BetaDen
<1>1. p \in Nat /\ t \in Nat \ {0} /\ p <= t
  BY DEF Energy, Valid
<1>2. psi = (Scale * p) \div t
  BY DEF Psi
<1> HIDE DEF psi, p, t
<1>3. Scale * p \in Nat /\ Scale * p <= Scale * t
  BY <1>1
<1>4. psi \in Nat /\ Scale * p = t * psi + ((Scale * p) % t) /\ (Scale * p) % t \in 0..(t - 1)
  BY <1>1, <1>2, <1>3, Quotient
<1>5. psi <= Scale
  <2> SUFFICES ASSUME psi >= Scale + 1
               PROVE  FALSE
    BY <1>4
  <2>1. t * psi >= t * (Scale + 1)
    BY <1>1, <1>4
  <2>2. t * (Scale + 1) = Scale * t + t
    BY <1>1
  <2>3. t * psi <= Scale * p
    BY <1>1, <1>3, <1>4
  <2> QED
    BY <1>1, <1>3, <1>4, <2>1, <2>2, <2>3
<1>6. new \in Nat /\ BetaNum + new = BetaDen /\ BetaDen \in Nat \ {0}
  OBVIOUS
<1> HIDE DEF new
<1>7. /\ BetaNum * ema \in Nat /\ BetaNum * ema <= BetaNum * Scale
      /\ new * psi \in Nat /\ new * psi <= new * Scale
  BY <1>4, <1>5, <1>6
<1>8. BetaNum * Scale + new * Scale = BetaDen * Scale
  BY <1>6
<1>9. sum \in Nat /\ sum <= BetaDen * Scale
  BY <1>6, <1>7, <1>8
<1> HIDE DEF sum
<1>10. quot \in Nat /\ sum = BetaDen * quot + (sum % BetaDen) /\ sum % BetaDen \in 0..(BetaDen - 1)
  BY <1>6, <1>9, Quotient
<1> HIDE DEF quot
<1>11. quot <= Scale
  <2> SUFFICES ASSUME quot >= Scale + 1
               PROVE  FALSE
    BY <1>10
  <2>1. BetaDen * quot >= BetaDen * (Scale + 1)
    BY <1>6, <1>10
  <2>2. BetaDen * (Scale + 1) = BetaDen * Scale + BetaDen
    BY <1>6
  <2> QED
    BY <1>6, <1>9, <1>10, <2>1, <2>2
<1> QED
  BY <1>10, <1>11 DEF Blend, quot, sum, new, psi

LEMMA ObservedEstimate ==
  ASSUME NEW p, Estimate(p), NEW e, Energy(e)
  PROVE  /\ Estimate(Observed(p, e))
         /\ Observed(p, e).count <= p.count + 1
         /\ Observed(p, e).active => p.active \/ Observed(p, e).count >= Persistence
<1>1. CASE Valid(e)
  <2> DEFINE ema == Blend(p.ema, Psi(e))
             count == IF ema > Warning THEN p.count + 1 ELSE 0
  <2>1. Observed(p, e) = [ema |-> ema, count |-> count,
                          active |-> (p.active \/ count >= Persistence) /\ ~(ema < Release)]
    BY <1>1 DEF Observed, Updated
  <2>2. ema \in 0..Scale
    BY <1>1, BlendBounded DEF Estimate
  <2> HIDE DEF ema
  <2>3. count \in Nat /\ count <= p.count + 1
    BY DEF Estimate
  <2> HIDE DEF count
  <2> QED
    BY <2>1, <2>2, <2>3 DEF Estimate
<1>2. CASE ~Valid(e)
  <2>1. Observed(p, e) = [ema |-> p.ema, count |-> 0, active |-> p.active]
    BY <1>2 DEF Observed, Estimate
  <2> QED
    BY <2>1 DEF Estimate
<1> QED
  BY <1>1, <1>2

\* A layer's verdict changes the predictor of that layer only.
Judged(c, l, e) == [c EXCEPT !.predictor[l] = Observed(@, e)]

LEMMA JudgedCopy ==
  ASSUME NEW c, Copy(c), NEW l \in Layers, NEW e, Energy(e)
  PROVE  /\ Copy(Judged(c, l, e))
         /\ Fields(c, Judged(c, l, e))
         /\ \A k \in Layers : Judged(c, l, e).predictor[k]
                                = IF k = l THEN Observed(c.predictor[l], e) ELSE c.predictor[k]
<1> DEFINE d == Judged(c, l, e)
           p == [c.predictor EXCEPT ![l] = Observed(c.predictor[l], e)]
<1>1. d = [step |-> c.step, moments |-> c.moments, records |-> c.records,
           calibrated |-> c.calibrated, predictor |-> p]
  BY DEF Judged, Copy
<1>2. \A k \in Layers : p[k] = IF k = l THEN Observed(c.predictor[l], e) ELSE c.predictor[k]
  BY DEF Copy
<1>3. p = [k \in Layers |-> p[k]]
  BY DEF Copy
<1>4. \A k \in Layers : Estimate(p[k])
  BY <1>2, ObservedEstimate DEF Copy
<1> HIDE DEF p
<1>5. Fields(c, d) /\ d.predictor = p
  BY <1>1 DEF Fields
<1> HIDE DEF d
<1>6. Copy(d)
  BY <1>1, <1>3, <1>4, <1>5 DEF Copy, Fields
<1> QED
  BY <1>2, <1>5, <1>6 DEF d

\* What before_update and observe_update make of a copy, up to the first
\* collective.
Begun(c) ==
  LET step == c.step + 1
  IN IF step <= WarmupSteps
       THEN [c EXCEPT !.step = step,
                      !.moments = @ + 1,
                      !.records = @ + (IF Checks(step) THEN 1 ELSE 0)]
       ELSE [c EXCEPT !.step = step]

LEMMA BegunCopy ==
  ASSUME NEW c, Copy(c)
  PROVE  /\ Copy(Begun(c))
         /\ Begun(c).step = c.step + 1
         /\ Begun(c).calibrated = c.calibrated
         /\ Begun(c).predictor = c.predictor
         /\ c.step + 1 <= WarmupSteps =>
              /\ Begun(c).moments = c.moments + 1
              /\ Begun(c).records = c.records + (IF Checks(c.step + 1) THEN 1 ELSE 0)
<1>1. CASE c.step + 1 <= WarmupSteps
  <2> DEFINE n == c.records + (IF Checks(c.step + 1) THEN 1 ELSE 0)
  <2>1. n \in Nat
    BY DEF Copy
  <2>2. Begun(c) = [step |-> c.step + 1, moments |-> c.moments + 1, records |-> n,
                    calibrated |-> c.calibrated, predictor |-> c.predictor]
    BY <1>1 DEF Begun, Copy
  <2> HIDE DEF n
  <2>3. Copy(Begun(c))
    BY <2>1, <2>2 DEF Copy
  <2> QED
    BY <2>2, <2>3 DEF n
<1>2. CASE ~(c.step + 1 <= WarmupSteps)
  <2>1. Begun(c) = [step |-> c.step + 1, moments |-> c.moments, records |-> c.records,
                    calibrated |-> c.calibrated, predictor |-> c.predictor]
    BY <1>2 DEF Begun, Copy
  <2> QED
    BY <2>1, <1>2 DEF Copy
<1> QED
  BY <1>1, <1>2

-----------------------------------------------------------------------------
(* Where a rank is, and where it goes next without the others.              *)

AtEnd == <<"optimizer", <<1, 0>>>>

\* The first collective of an update.
FirstStop(step) ==
  IF step = WarmupSteps THEN <<"calibrate", <<1, 1>>>>
  ELSE IF step > WarmupSteps /\ Checks(step) THEN <<"reduce", <<1, 0>>>>
  ELSE AtEnd

\* The collective after a layer's verdict.
AfterLayer(l) == IF l < NumLayers THEN <<"reduce", <<l + 1, 0>>>> ELSE AtEnd

\* The collective a rank comes to next, or waits in.
Stop(c, place, where) ==
  IF place = "idle" THEN FirstStop(c.step + 1)
  ELSE IF place = "apply" THEN AfterLayer(where[1])
  ELSE IF place = "forward" THEN AtEnd
  ELSE <<place, where>>

\* The copy it will hold there.
Then(c, place, where, e) ==
  IF place = "idle" THEN Begun(c)
  ELSE IF place = "apply" THEN Judged(c, where[1], e)
  ELSE c

\* The layers of the update a rank has applied.
Level(place, where) ==
  IF place \in {"reduce", "apply"} THEN where[1] - 1
  ELSE IF place = "calibrate" THEN 0
  ELSE NumLayers

Placed(place, where) ==
  /\ place \in Places
  /\ where \in Layers \X Nat
  /\ place \in {"idle", "forward", "optimizer"} => where = <<1, 0>>
  /\ place \in {"reduce", "apply"} => where = <<where[1], 0>>

\* Two ranks on their way to the same collective with the same copy hold the
\* same copy already if they have come equally far and one of them has arrived
\* or runs forward passes.
LEMMA SameLevel ==
  ASSUME NEW c, NEW d, Copy(c), Copy(d),
         NEW p, NEW q, NEW u, NEW v, Placed(p, u), Placed(q, v),
         NEW e, NEW f,
         Then(c, p, u, e) = Then(d, q, v, f),
         Stop(c, p, u) = Stop(d, q, v),
         c.step = d.step, Level(p, u) = Level(q, v),
         p \notin {"idle", "apply"}
  PROVE  c = d
<1>1. Then(c, p, u, e) = c
  BY DEF Then
<1>2. q # "idle"
  <2> SUFFICES ASSUME q = "idle"
               PROVE  FALSE
    OBVIOUS
  <2>1. c = Begun(d)
    BY <1>1 DEF Then
  <2>2. c.step = d.step + 1
    BY <2>1, BegunCopy
  <2> QED
    BY <2>2 DEF Copy
<1>3. q # "apply"
  <2> SUFFICES ASSUME q = "apply"
               PROVE  FALSE
    OBVIOUS
  <2>1. v[1] \in Layers /\ Level(q, v) = v[1] - 1
    BY DEF Placed, Level
  <2>2. Stop(c, p, u) = AfterLayer(v[1])
    BY DEF Stop
  <2>3. p \in {"calibrate", "reduce", "forward", "optimizer"}
    BY DEF Placed, Places
  <2>4. CASE p = "calibrate"
    BY <2>2, <2>4 DEF Stop, AfterLayer, AtEnd
  <2>5. CASE p = "reduce"
    <3>1. Stop(c, p, u) = <<"reduce", u>> /\ Level(p, u) = u[1] - 1
      BY <2>5 DEF Stop, Level
    <3>2. u = <<v[1] + 1, 0>>
      BY <2>2, <3>1 DEF AfterLayer, AtEnd
    <3> QED
      BY <2>1, <3>1, <3>2 DEF Layers
  <2>6. CASE p \in {"forward", "optimizer"}
    BY <2>1, <2>6 DEF Level, Layers
  <2> QED
    BY <2>3, <2>4, <2>5, <2>6
<1>4. Then(d, q, v, f) = d
  BY <1>2, <1>3 DEF Then
<1> QED
  BY <1>1, <1>4

-----------------------------------------------------------------------------
(* What holds of every rank by itself.                                      *)

Typed ==
  /\ ctl = [r \in Ranks |-> ctl[r]]
  /\ saved = [r \in Ranks |-> saved[r]]
  /\ shift \in [Ranks -> Shifts]
  /\ energy = [r \in Ranks |-> energy[r]]
  /\ pc \in [Ranks -> Places]
  /\ slot \in [Ranks -> Layers \X Nat]
  /\ failed \in BOOLEAN
  /\ \A r \in Ranks : /\ Copy(ctl[r]) /\ Copy(saved[r])
                        /\ Energy(energy[r]) /\ Placed(pc[r], slot[r])

\* Control is earned, and not before the calibration.
Earned(c) ==
  /\ \A l \in Layers : c.predictor[l].active => ChecksDone(c.step) >= Persistence
  /\ ~c.calibrated => \A l \in Layers : c.predictor[l].count = 0 /\ ~c.predictor[l].active

\* A layer whose verdict of this update is still to come.
Owed(place, where, l) == IF place \in {"reduce", "apply"} /\ where[1] <= l THEN 1 ELSE 0

\* Where the warm-up ends, and how far a count of warnings can have come.
Sound(c, place, where) ==
  /\ ~c.calibrated =>
       /\ c.moments = c.step
       /\ c.records = c.step \div Interval
       /\ c.step <= WarmupSteps
       /\ c.step = WarmupSteps => place = "calibrate"
  /\ c.calibrated =>
       /\ c.step >= WarmupSteps
       /\ \A l \in Layers : c.predictor[l].count <= ChecksDone(c.step) - Owed(place, where, l)
  /\ place = "calibrate" => ~c.calibrated /\ c.step = WarmupSteps
  /\ place \in {"reduce", "apply"} => c.calibrated /\ Checks(c.step)

\* How large a copy can be.
Small(c) == c.step <= MaxUpdates /\ c.moments <= c.step /\ c.records <= c.step

Alone ==
  /\ Typed
  /\ \A r \in Ranks :
       /\ Earned(ctl[r]) /\ Earned(saved[r])
       /\ Small(ctl[r]) /\ Small(saved[r])
       /\ Sound(saved[r], "idle", <<1, 0>>)
       /\ ~failed => Sound(ctl[r], pc[r], slot[r])
       /\ pc[r] = "calibrate" => /\ ctl[r].moments = WarmupSteps
                                 /\ slot[r][2] <= 2 + ctl[r].records

LEMMA FreshCopy ==
  Copy(Fresh) /\ Earned(Fresh) /\ Sound(Fresh, "idle", <<1, 0>>) /\ Small(Fresh)
<1>1. Copy(Fresh)
  <2>1. Estimate([ema |-> 0, count |-> 0, active |-> FALSE])
    BY DEF Estimate
  <2> QED
    BY <2>1 DEF Copy, Fresh
<1>2. Fresh.step = 0 /\ ~Fresh.calibrated /\ Fresh.moments = 0 /\ Fresh.records = 0
  BY DEF Fresh
<1>3. \A l \in Layers : Fresh.predictor[l].count = 0 /\ Fresh.predictor[l].active = FALSE
  BY DEF Fresh
<1>4. 0 \div Interval = 0
  OBVIOUS
<1> QED
  BY <1>1, <1>2, <1>3, <1>4 DEF Earned, Sound, Small

\* The energies a rank can hold.
LEMMA Pools ==
  /\ NoShift \in Shifts
  /\ Energy(NoShift)
  /\ shift \in [Ranks -> Shifts] => Energy(Pooled) /\ Pooled \in Energies
<1>1. NoShift \in Shifts /\ Energy(NoShift)
  BY DEF NoShift, Shifts, Energy
<1>2. ASSUME shift \in [Ranks -> Shifts]
      PROVE  Energy(Pooled) /\ Pooled \in Energies
  <2> DEFINE P == {r \in Ranks : shift[r].principal = 1}
             T == {r \in Ranks : shift[r].total = 1}
  <2>1. P \subseteq T
    BY <1>2 DEF Shifts
  <2>2. IsFiniteSet(T) /\ Cardinality(T) <= Cardinality(Ranks)
    BY FS_Subset
  <2>3. IsFiniteSet(P) /\ Cardinality(P) <= Cardinality(T)
    BY <2>1, <2>2, FS_Subset
  <2>4. Cardinality(P) \in Nat /\ Cardinality(T) \in Nat /\ Cardinality(Ranks) \in Nat
    BY <2>2, <2>3, FS_CardinalityType
  <2>5. Pooled = [principal |-> Cardinality(P), total |-> Cardinality(T)]
    BY DEF Pooled
  <2> HIDE DEF P, T
  <2> QED
    BY <2>2, <2>3, <2>4, <2>5 DEF Energy, Energies
<1> QED
  BY <1>1, <1>2

LEMMA AloneInit == Init => Alone
<1> SUFFICES ASSUME Init
             PROVE  Alone
  OBVIOUS
<1>1. \A r \in Ranks : ctl[r] = Fresh /\ saved[r] = Fresh /\ pc[r] = "idle" /\ slot[r] = <<1, 0>>
  BY DEF Init
<1>2. Placed("idle", <<1, 0>>)
  BY DEF Placed, Places, Layers
<1>3. Typed
  <2>1. /\ ctl = [r \in Ranks |-> ctl[r]]
        /\ saved = [r \in Ranks |-> saved[r]]
        /\ energy = [r \in Ranks |-> energy[r]]
        /\ shift \in [Ranks -> Shifts]
        /\ \A r \in Ranks : Energy(energy[r])
    BY Pools DEF Init
  <2>2. pc \in [Ranks -> Places]
    BY DEF Init, Places
  <2>3. <<1, 0>> \in Layers \X Nat
    BY DEF Layers
  <2>4. slot \in [Ranks -> Layers \X Nat] /\ failed \in BOOLEAN
    BY <2>3 DEF Init
  <2> QED
    BY <1>1, <1>2, <2>1, <2>2, <2>4, FreshCopy DEF Typed
<1> QED
  BY <1>1, <1>3, FreshCopy DEF Alone

-----------------------------------------------------------------------------
(* A step of one rank on its way to the next collective.                    *)

StopOf(r) == Stop(ctl[r], pc[r], slot[r])
ThenOf(r) == Then(ctl[r], pc[r], slot[r], energy[r])

Forwarding == <<"forward", <<1, 0>>>>

Advances(r, w) ==
  /\ w \in {StopOf(r), Forwarding}
  /\ w = Forwarding => StopOf(r) = AtEnd
  /\ w = AtEnd => pc[r] = "forward"
  /\ pc[r] \in {"idle", "apply", "forward"}
  /\ pc[r] = "idle" => ctl[r].step < MaxUpdates
  /\ shift' \in [Ranks -> Shifts]
  /\ ctl' = [ctl EXCEPT ![r] = ThenOf(r)]
  /\ pc' = [pc EXCEPT ![r] = w[1]]
  /\ slot' = [slot EXCEPT ![r] = w[2]]
  /\ ~failed /\ failed' = failed
  /\ UNCHANGED <<saved, energy>>

LEMMA StartAdvances ==
  ASSUME Alone, NEW r \in Ranks, SkipObservation(r) \/ WarmUp(r) \/ Monitor(r)
  PROVE  \E w : Advances(r, w)
<1> DEFINE c == ctl[r]
           step == c.step + 1
<1>1. /\ ~failed /\ pc[r] = "idle" /\ Copy(c) /\ c.step < MaxUpdates
      /\ UNCHANGED <<saved, energy>>
  BY DEF Alone, Typed, Start, SkipObservation, WarmUp, Monitor
<1>2. shift' \in [Ranks -> Shifts]
  <2>1. shift' = shift \/ \E seen \in Shifts : shift' = [shift EXCEPT ![r] = seen]
    BY DEF SkipObservation, WarmUp, Monitor
  <2>2. shift \in [Ranks -> Shifts]
    BY DEF Alone, Typed
  <2> QED
    BY <2>1, <2>2
<1>3. StopOf(r) = FirstStop(step) /\ ThenOf(r) = Begun(c)
  BY <1>1 DEF StopOf, ThenOf, Stop, Then
<1>4. step \in Nat /\ step # 0
  BY <1>1 DEF Copy
<1>5. CASE SkipObservation(r)
  <2>1. step > WarmupSteps /\ ~Checks(step)
    BY <1>4, <1>5 DEF SkipObservation, NeedsObservation
  <2>2. FirstStop(step) = AtEnd /\ Begun(c) = [c EXCEPT !.step = step]
    BY <1>4, <2>1 DEF FirstStop, Begun
  <2>3. ctl' = [ctl EXCEPT ![r] = Begun(c)]
    BY <1>5, <2>2 DEF SkipObservation
  <2> QED
    BY <1>1, <1>2, <1>3, <1>5, <2>2, <2>3 DEF SkipObservation, Go, Advances, Forwarding, AtEnd
<1>6. CASE WarmUp(r)
  <2>1. step <= WarmupSteps
    BY <1>6 DEF WarmUp
  <2>2. ctl' = [ctl EXCEPT ![r] = Begun(c)]
    BY <1>6, <2>1 DEF WarmUp, Begun, RecordsShift
  <2>3. CASE step = WarmupSteps
    <3>1. FirstStop(step) = <<"calibrate", <<1, 1>>>>
      BY <2>3 DEF FirstStop
    <3>2. pc' = [pc EXCEPT ![r] = "calibrate"] /\ slot' = [slot EXCEPT ![r] = <<1, 1>>]
      BY <1>6, <2>3 DEF WarmUp, Go
    <3>3. failed' = failed
      BY <1>6 DEF WarmUp
    <3>4. Advances(r, <<"calibrate", <<1, 1>>>>)
      BY <1>1, <1>2, <1>3, <2>2, <3>1, <3>2, <3>3 DEF Advances, Forwarding, AtEnd
    <3> QED
      BY <3>4
  <2>4. CASE step # WarmupSteps
    <3>1. FirstStop(step) = AtEnd
      BY <1>4, <2>1, <2>4 DEF FirstStop
    <3> QED
      BY <1>1, <1>2, <1>3, <1>6, <2>2, <2>4, <3>1 DEF WarmUp, Go, Advances, Forwarding, AtEnd
  <2> QED
    BY <2>3, <2>4
<1>7. CASE Monitor(r)
  <2>1. step > WarmupSteps /\ Checks(step)
    BY <1>4, <1>7 DEF Monitor, NeedsObservation
  <2>2. FirstStop(step) = <<"reduce", <<1, 0>>>> /\ Begun(c) = [c EXCEPT !.step = step]
    BY <1>4, <2>1 DEF FirstStop, Begun
  <2>3. ctl' = [ctl EXCEPT ![r] = Begun(c)]
    BY <1>7, <2>2 DEF Monitor
  <2>4. c.calibrated
    <3> SUFFICES ASSUME ~c.calibrated
                 PROVE  FALSE
      OBVIOUS
    <3>1. Sound(c, "idle", slot[r])
      BY <1>1 DEF Alone
    <3>2. c.step <= WarmupSteps /\ c.step # WarmupSteps
      BY <3>1 DEF Sound
    <3> QED
      BY <1>1, <2>1, <3>2 DEF Copy
  <2>5. failed' = failed
    BY <1>1, <1>7, <2>4 DEF Monitor, Alone, Typed, Copy
  <2> QED
    BY <1>1, <1>2, <1>3, <1>7, <2>1, <2>2, <2>3, <2>5 DEF Monitor, Go, Advances, Forwarding, AtEnd
<1> QED
  BY <1>5, <1>6, <1>7

LEMMA ApplyAdvances ==
  ASSUME Alone, NEW r \in Ranks, Apply(r)
  PROVE  \E w : Advances(r, w)
<1> DEFINE l == slot[r][1]
<1>1. ~failed /\ pc[r] = "apply" /\ UNCHANGED <<saved, energy, failed>>
  BY DEF Apply
<1>2. StopOf(r) = AfterLayer(l) /\ ThenOf(r) = Judged(ctl[r], l, energy[r])
  BY <1>1 DEF StopOf, ThenOf, Stop, Then
<1>3. ctl' = [ctl EXCEPT ![r] = Judged(ctl[r], l, energy[r])]
  BY DEF Apply, Judged
<1>4. shift' \in [Ranks -> Shifts]
  BY DEF Alone, Typed, Apply
<1>5. CASE l < NumLayers
  <2>1. pc' = [pc EXCEPT ![r] = "reduce"] /\ slot' = [slot EXCEPT ![r] = <<l + 1, 0>>]
    BY <1>5 DEF Apply, Go
  <2>2. StopOf(r) = <<"reduce", <<l + 1, 0>>>>
    BY <1>2, <1>5 DEF AfterLayer
  <2>3. Advances(r, <<"reduce", <<l + 1, 0>>>>)
    BY <1>1, <1>2, <1>3, <1>4, <2>1, <2>2 DEF Advances, Forwarding, AtEnd
  <2> QED
    BY <2>3
<1>6. CASE ~(l < NumLayers)
  BY <1>1, <1>2, <1>3, <1>4, <1>6 DEF Apply, Go, Advances, AfterLayer, Forwarding, AtEnd
<1> QED
  BY <1>5, <1>6

LEMMA ForwardAdvances ==
  ASSUME Alone, NEW r \in Ranks, Forward(r)
  PROVE  \E w : Advances(r, w)
<1>1. /\ ~failed /\ pc[r] = "forward" /\ UNCHANGED <<ctl, slot, saved, energy, failed>>
      /\ shift' \in [Ranks -> Shifts]
  BY DEF Forward, Alone, Typed
<1>2. StopOf(r) = AtEnd /\ ThenOf(r) = ctl[r]
  BY <1>1 DEF StopOf, ThenOf, Stop, Then
<1>3. ctl' = [ctl EXCEPT ![r] = ThenOf(r)]
  BY <1>1, <1>2 DEF Alone, Typed
<1>4. slot[r] = <<1, 0>> /\ slot' = [slot EXCEPT ![r] = <<1, 0>>]
  BY <1>1 DEF Alone, Typed, Placed
<1>5. pc' = [pc EXCEPT ![r] = "optimizer"] \/ pc' = [pc EXCEPT ![r] = "forward"]
  BY DEF Forward
<1>6. CASE pc' = [pc EXCEPT ![r] = "optimizer"]
  <2>1. Advances(r, AtEnd)
    BY <1>1, <1>2, <1>3, <1>4, <1>6 DEF Advances, AtEnd, Forwarding
  <2> QED
    BY <2>1
<1>7. CASE pc' = [pc EXCEPT ![r] = "forward"]
  <2>1. Advances(r, Forwarding)
    BY <1>1, <1>2, <1>3, <1>4, <1>7 DEF Advances, AtEnd, Forwarding
  <2> QED
    BY <2>1
<1> QED
  BY <1>5, <1>6, <1>7

\* What a rank is after such a step.
LEMMA Arrived ==
  ASSUME Typed, NEW r \in Ranks, NEW w, Advances(r, w)
  PROVE  /\ ctl'[r] = ThenOf(r) /\ pc'[r] = w[1] /\ slot'[r] = w[2]
         /\ \A q \in Ranks : q # r => ctl'[q] = ctl[q] /\ pc'[q] = pc[q] /\ slot'[q] = slot[q]
         /\ energy' = energy /\ saved' = saved
         /\ Copy(ThenOf(r)) /\ Placed(w[1], w[2])
         /\ w[1] \notin {"idle", "apply"}
         /\ Typed'
<1> USE DEF Typed
<1>1. ctl'[r] = ThenOf(r) /\ pc'[r] = w[1] /\ slot'[r] = w[2]
  BY DEF Advances
<1>2. \A q \in Ranks : q # r => ctl'[q] = ctl[q] /\ pc'[q] = pc[q] /\ slot'[q] = slot[q]
  BY DEF Advances
<1>3. pc[r] \in {"idle", "apply", "forward"} /\ slot[r][1] \in Layers
  BY DEF Advances
<1>4. Copy(ThenOf(r))
  BY <1>3, BegunCopy, JudgedCopy DEF ThenOf, Then
<1>5. StopOf(r) \in {AtEnd, <<"calibrate", <<1, 1>>>>, <<"reduce", <<1, 0>>>>,
                     <<"reduce", <<slot[r][1] + 1, 0>>>>}
  BY <1>3 DEF StopOf, Stop, FirstStop, AfterLayer
<1>6. StopOf(r) = <<"reduce", <<slot[r][1] + 1, 0>>>> =>
        slot[r][1] + 1 \in Layers \/ StopOf(r) = <<"reduce", <<1, 0>>>>
  BY <1>3 DEF StopOf, Stop, FirstStop, AfterLayer, AtEnd, Layers
<1>7. 1 \in Layers
  BY DEF Layers
<1>8. Placed(w[1], w[2]) /\ w[1] \notin {"idle", "apply"}
  <2>1. CASE w = Forwarding
    BY <1>7, <2>1 DEF Forwarding, Placed, Places
  <2>2. CASE w = AtEnd
    BY <1>7, <2>2 DEF AtEnd, Placed, Places
  <2>3. CASE w = <<"calibrate", <<1, 1>>>>
    BY <1>7, <2>3 DEF Placed, Places
  <2>4. CASE w = <<"reduce", <<1, 0>>>>
    BY <1>7, <2>4 DEF Placed, Places
  <2>5. CASE w = <<"reduce", <<slot[r][1] + 1, 0>>>> /\ slot[r][1] + 1 \in Layers
    BY <2>5 DEF Placed, Places
  <2>6. w \in {StopOf(r), Forwarding}
    BY DEF Advances
  <2> QED
    BY <1>5, <1>6, <2>1, <2>2, <2>3, <2>4, <2>5, <2>6
<1>9. energy' = energy /\ saved' = saved /\ failed' = failed /\ shift' \in [Ranks -> Shifts]
  BY DEF Advances
<1>10. ctl' = [q \in Ranks |-> ctl'[q]] /\ pc' \in [Ranks -> Places]
         /\ slot' \in [Ranks -> Layers \X Nat]
  BY <1>8 DEF Advances, Placed
<1>11. \A q \in Ranks : Copy(ctl'[q]) /\ Placed(pc'[q], slot'[q])
  BY <1>1, <1>2, <1>4, <1>8
<1>12. Typed'
  BY <1>9, <1>10, <1>11
<1> HIDE DEF Typed
<1> QED
  BY <1>1, <1>2, <1>4, <1>8, <1>9, <1>12

\* A copy that begins an update.
LEMMA BegunSound ==
  ASSUME NEW c, Copy(c), Earned(c), Sound(c, "idle", <<1, 0>>),
         NEW w, w = FirstStop(c.step + 1) \/ (w = Forwarding /\ FirstStop(c.step + 1) = AtEnd)
  PROVE  /\ Earned(Begun(c))
         /\ Sound(Begun(c), w[1], w[2])
         /\ w[1] = "calibrate" => Begun(c).moments = WarmupSteps
<1> DEFINE d == Begun(c)
           step == c.step + 1
<1>1. c.step \in Nat /\ step \in Nat /\ c.calibrated \in BOOLEAN
  BY DEF Copy
<1>2. /\ d.step = step
      /\ d.calibrated = c.calibrated
      /\ d.predictor = c.predictor
      /\ step <= WarmupSteps => /\ d.moments = c.moments + 1
                                /\ d.records = c.records + (IF Checks(step) THEN 1 ELSE 0)
  BY BegunCopy
<1>3. /\ ChecksDone(c.step) \in Int
      /\ ChecksDone(step) = ChecksDone(c.step) + (IF Checks(step) THEN 1 ELSE 0)
  BY <1>1, ChecksDoneNext
<1>4. step \div Interval = (c.step \div Interval) + (IF Checks(step) THEN 1 ELSE 0)
  <2>1. c.step \div Interval \in Nat
    BY <1>1, Quotient
  <2> QED
    BY <1>1, <2>1, NextQuotient DEF Checks
<1>5. \A l \in Layers : c.predictor[l].count \in Nat /\ c.predictor[l].active \in BOOLEAN
  BY DEF Copy, Estimate
<1> HIDE DEF d
<1>6. CASE ~c.calibrated
  <2>1. /\ c.moments = c.step
        /\ c.records = c.step \div Interval
        /\ step <= WarmupSteps
    BY <1>1, <1>6 DEF Sound
  <2>2. /\ d.moments = step
        /\ d.records = step \div Interval
    BY <1>2, <1>4, <2>1
  <2>3. w[1] \in {"calibrate", "forward", "optimizer"} /\ (w[1] = "calibrate" <=> step = WarmupSteps)
    BY <1>1, <2>1 DEF FirstStop, Forwarding, AtEnd
  <2>4. Earned(d)
    BY <1>2, <1>6 DEF Earned
  <2>5. Sound(d, w[1], w[2])
    BY <1>2, <1>6, <2>1, <2>2, <2>3 DEF Sound
  <2> QED
    BY <2>2, <2>3, <2>4, <2>5 DEF d
<1>7. CASE c.calibrated
  <2>1. c.step >= WarmupSteps /\ \A l \in Layers : c.predictor[l].count <= ChecksDone(c.step)
    BY <1>3, <1>5, <1>7 DEF Sound, Owed
  <2>2. w[1] \in {"reduce", "forward", "optimizer"} /\ (w[1] = "reduce" => Checks(step))
    BY <1>1, <2>1 DEF FirstStop, Forwarding, AtEnd
  <2>3. Earned(d)
    BY <1>2, <1>3, <1>5, <1>7 DEF Earned
  <2>4. \A l \in Layers : d.predictor[l].count <= ChecksDone(step) - Owed(w[1], w[2], l)
    <3> TAKE l \in Layers
    <3>1. Owed(w[1], w[2], l) \in {0, 1} /\ (Owed(w[1], w[2], l) = 1 => Checks(step))
      BY <2>2 DEF Owed
    <3>2. d.predictor[l].count <= ChecksDone(c.step) /\ d.predictor[l].count \in Nat
      BY <1>2, <1>5, <2>1
    <3> QED
      BY <1>3, <3>1, <3>2
  <2>5. Sound(d, w[1], w[2])
    BY <1>1, <1>2, <1>7, <2>1, <2>2, <2>4 DEF Sound
  <2> QED
    BY <2>2, <2>3, <2>5 DEF d
<1> QED
  BY <1>1, <1>6, <1>7

\* A copy that applies a layer's energy.
LEMMA JudgedSound ==
  ASSUME NEW c, Copy(c), Earned(c), NEW l \in Layers, NEW e, Energy(e),
         Sound(c, "apply", <<l, 0>>),
         NEW w, w = AfterLayer(l) \/ (w = Forwarding /\ AfterLayer(l) = AtEnd)
  PROVE  Earned(Judged(c, l, e)) /\ Sound(Judged(c, l, e), w[1], w[2]) /\ w[1] # "calibrate"
<1> DEFINE d == Judged(c, l, e)
<1>1. /\ d.step = c.step
      /\ d.calibrated = c.calibrated
      /\ \A k \in Layers :
           d.predictor[k] = IF k = l THEN Observed(c.predictor[l], e) ELSE c.predictor[k]
  BY JudgedCopy DEF Fields
<1> HIDE DEF d
<1>2. c.calibrated /\ c.step >= WarmupSteps /\ c.step \in Nat
  BY DEF Sound, Copy
<1>3. \A k \in Layers : c.predictor[k].count <= ChecksDone(c.step) - Owed("apply", <<l, 0>>, k)
  BY <1>2 DEF Sound
<1>4. ChecksDone(c.step) \in Int
  BY <1>2, ChecksDoneNext
<1>5. \A k \in Layers : Estimate(c.predictor[k])
  BY DEF Copy
<1>6. w[1] \in {"reduce", "forward", "optimizer"} /\ (w[1] = "reduce" => w[2] = <<l + 1, 0>>)
  BY DEF AfterLayer, Forwarding, AtEnd
<1>7. /\ Estimate(d.predictor[l])
      /\ d.predictor[l].count <= ChecksDone(c.step)
      /\ d.predictor[l].active => ChecksDone(c.step) >= Persistence
  <2>1. d.predictor[l] = Observed(c.predictor[l], e)
    BY <1>1
  <2>2. /\ Estimate(d.predictor[l])
        /\ d.predictor[l].count <= c.predictor[l].count + 1
        /\ d.predictor[l].active => c.predictor[l].active \/ d.predictor[l].count >= Persistence
    BY <1>5, <2>1, ObservedEstimate
  <2>3. Owed("apply", <<l, 0>>, l) = 1
    BY DEF Owed, Layers
  <2>4. c.predictor[l].count <= ChecksDone(c.step) - 1
    BY <1>3, <2>3
  <2>5. c.predictor[l].count \in Nat /\ d.predictor[l].count \in Nat
    BY <1>5, <2>2 DEF Estimate
  <2>6. d.predictor[l].count <= ChecksDone(c.step)
    BY <1>4, <2>2, <2>4, <2>5
  <2>7. c.predictor[l].active => ChecksDone(c.step) >= Persistence
    BY DEF Earned
  <2> QED
    BY <1>4, <2>2, <2>5, <2>6, <2>7
<1>8. Earned(d)
  BY <1>1, <1>2, <1>7 DEF Earned
<1>9. \A k \in Layers : d.predictor[k].count <= ChecksDone(c.step) - Owed(w[1], w[2], k)
  <2> TAKE k \in Layers
  <2>1. CASE k = l
    <3>1. Owed(w[1], w[2], l) = 0
      BY <1>6 DEF Owed, Layers
    <3> QED
      BY <1>4, <1>7, <2>1, <3>1
  <2>2. CASE k # l
    <3>1. d.predictor[k].count <= ChecksDone(c.step) - Owed("apply", <<l, 0>>, k)
      BY <1>1, <1>3, <2>2
    <3>2. Owed(w[1], w[2], k) <= Owed("apply", <<l, 0>>, k)
      BY <1>6, <2>2 DEF Owed, Layers
    <3>3. Owed(w[1], w[2], k) \in {0, 1} /\ Owed("apply", <<l, 0>>, k) \in {0, 1}
      BY DEF Owed
    <3>4. d.predictor[k].count \in Nat
      BY <1>1, <1>5, <2>2 DEF Estimate
    <3> QED
      BY <1>4, <3>1, <3>2, <3>3, <3>4
  <2> QED
    BY <2>1, <2>2
<1>10. Sound(d, w[1], w[2])
  BY <1>1, <1>2, <1>6, <1>9 DEF Sound
<1> QED
  BY <1>6, <1>8, <1>10 DEF d

LEMMA AdvancesAlone ==
  ASSUME Alone, NEW r \in Ranks, NEW w, Advances(r, w)
  PROVE  Alone'
<1>1. Typed /\ ~failed /\ ~failed'
  BY DEF Alone, Advances
<1>2. /\ ctl'[r] = ThenOf(r) /\ pc'[r] = w[1] /\ slot'[r] = w[2]
      /\ \A q \in Ranks : q # r => ctl'[q] = ctl[q] /\ pc'[q] = pc[q] /\ slot'[q] = slot[q]
      /\ saved' = saved
      /\ Typed'
  BY <1>1, Arrived
<1> DEFINE c == ctl[r]
<1>3. /\ Copy(c) /\ Earned(c) /\ Sound(c, pc[r], slot[r]) /\ Placed(pc[r], slot[r])
      /\ Small(c) /\ Energy(energy[r])
  BY <1>1 DEF Alone, Typed
<1>4. w = StopOf(r) \/ (w = Forwarding /\ StopOf(r) = AtEnd)
  BY DEF Advances
<1>5. /\ Earned(ThenOf(r))
      /\ Sound(ThenOf(r), w[1], w[2])
      /\ w[1] = "calibrate" => ThenOf(r).moments = WarmupSteps
  <2>1. CASE pc[r] = "idle"
    <3>1. slot[r] = <<1, 0>>
      BY <1>3, <2>1 DEF Placed
    <3>2. StopOf(r) = FirstStop(c.step + 1) /\ ThenOf(r) = Begun(c)
      BY <2>1 DEF StopOf, ThenOf, Stop, Then
    <3> HIDE DEF c
    <3> QED
      BY <1>3, <1>4, <2>1, <3>1, <3>2, BegunSound
  <2>2. CASE pc[r] = "apply"
    <3> DEFINE l == slot[r][1]
    <3>1. slot[r] = <<l, 0>> /\ l \in Layers
      BY <1>3, <2>2 DEF Placed
    <3>2. StopOf(r) = AfterLayer(l) /\ ThenOf(r) = Judged(c, l, energy[r])
      BY <2>2 DEF StopOf, ThenOf, Stop, Then
    <3>3. Sound(c, "apply", <<l, 0>>)
      BY <1>3, <2>2, <3>1
    <3> HIDE DEF c, l
    <3> QED
      BY <1>3, <1>4, <3>1, <3>2, <3>3, JudgedSound
  <2>3. CASE pc[r] = "forward"
    <3>1. StopOf(r) = AtEnd /\ ThenOf(r) = c
      BY <2>3 DEF StopOf, ThenOf, Stop, Then
    <3>2. w[1] \in {"forward", "optimizer"}
      BY <1>4, <3>1 DEF AtEnd, Forwarding
    <3>3. \A l \in Layers : Owed(w[1], w[2], l) = Owed(pc[r], slot[r], l)
      BY <2>3, <3>2 DEF Owed
    <3>4. Sound(c, w[1], w[2])
      BY <1>3, <2>3, <3>2, <3>3 DEF Sound
    <3> QED
      BY <1>3, <3>1, <3>2, <3>4
  <2> QED
    BY <2>1, <2>2, <2>3 DEF Advances
<1>6. Small(ThenOf(r))
  <2>1. CASE pc[r] = "idle"
    <3>1. ThenOf(r) = Begun(c) /\ c.step < MaxUpdates
      BY <2>1 DEF ThenOf, Then, Advances
    <3>2. Begun(c) = IF c.step + 1 <= WarmupSteps
                       THEN [c EXCEPT !.step = c.step + 1,
                              !.moments = c.moments + 1,
                              !.records = c.records + (IF Checks(c.step + 1) THEN 1 ELSE 0)]
                       ELSE [c EXCEPT !.step = c.step + 1]
      BY DEF Begun
    <3> HIDE DEF c
    <3>3. Copy(c) /\ Small(c)
      BY <1>3
    <3> QED
      BY ONLY AlphaAssumption, <3>1, <3>2, <3>3 DEF Copy, Small
  <2>2. CASE pc[r] = "apply"
    <3>1. ThenOf(r) = Judged(c, slot[r][1], energy[r]) /\ slot[r][1] \in Layers
      BY <1>3, <2>2 DEF ThenOf, Then, Placed
    <3> QED
      BY <1>3, <3>1, JudgedCopy DEF Fields, Small
  <2>3. CASE pc[r] = "forward"
    BY <1>3, <2>3 DEF ThenOf, Then
  <2> QED
    BY <2>1, <2>2, <2>3 DEF Advances
<1>7. w[1] = "calibrate" => w[2][2] <= 2 + ThenOf(r).records
  <2> SUFFICES ASSUME w[1] = "calibrate"
               PROVE  w[2][2] <= 2 + ThenOf(r).records
    OBVIOUS
  <2>1. w = <<"calibrate", <<1, 1>>>>
    BY DEF Advances, Forwarding, StopOf, Stop, FirstStop, AfterLayer, AtEnd
  <2>2. ThenOf(r).records \in Nat
    BY <1>1, Arrived DEF Copy
  <2> QED
    BY <2>1, <2>2
<1>8. \A q \in Ranks : /\ Earned(ctl'[q]) /\ Small(ctl'[q])
                       /\ Sound(ctl'[q], pc'[q], slot'[q])
                       /\ pc'[q] = "calibrate" => /\ ctl'[q].moments = WarmupSteps
                                                  /\ slot'[q][2] <= 2 + ctl'[q].records
  <2> TAKE q \in Ranks
  <2>1. CASE q = r
    BY <1>2, <1>5, <1>6, <1>7, <2>1
  <2>2. CASE q # r
    BY <1>1, <1>2, <2>2 DEF Alone
  <2> QED
    BY <2>1, <2>2
<1> QED
  BY <1>1, <1>2, <1>8 DEF Alone

-----------------------------------------------------------------------------
(* The other steps.                                                         *)

\* A rank that raises in its warm-up.
LEMMA WarmUpFailsAlone ==
  ASSUME Alone, NEW r \in Ranks, WarmUpFails(r)
  PROVE  Alone'
<1> DEFINE c == ctl[r]
           d == [c EXCEPT !.step = c.step + 1]
<1>1. /\ ~failed /\ failed' /\ pc[r] = "idle" /\ c.step + 1 <= WarmupSteps
      /\ ctl' = [ctl EXCEPT ![r] = d]
      /\ failed' = TRUE
      /\ UNCHANGED <<pc, slot, shift, saved, energy>>
      /\ c.step < MaxUpdates
  BY DEF WarmUpFails, Start
<1>2. Typed /\ Copy(c) /\ Earned(c) /\ Sound(c, "idle", slot[r]) /\ Small(c)
  BY <1>1 DEF Alone, Typed
<1>3. ~c.calibrated
  BY <1>1, <1>2 DEF Sound, Copy
<1>4. d = [step |-> c.step + 1, moments |-> c.moments, records |-> c.records,
           calibrated |-> c.calibrated, predictor |-> c.predictor]
  BY <1>2 DEF Copy
<1> HIDE DEF c, d
<1>5. Copy(d)
  BY <1>2, <1>4 DEF Copy
<1>6. Earned(d)
  BY <1>2, <1>3, <1>4 DEF Earned
<1>7. Small(d)
  BY <1>1, <1>2, <1>4 DEF Small, Copy, c
<1>8. \A q \in Ranks : ctl'[q] = IF q = r THEN d ELSE ctl[q]
  BY <1>1, <1>2 DEF Typed
<1>9. Typed'
  BY <1>1, <1>2, <1>5, <1>8 DEF Typed
<1> QED
  BY <1>1, <1>2, <1>6, <1>7, <1>8, <1>9 DEF Alone

LEMMA ReduceAlone ==
  ASSUME Alone, Reduce
  PROVE  Alone'
<1>1. /\ ~failed /\ \A r \in Ranks : pc[r] = "reduce"
      /\ energy' = [r \in Ranks |-> Pooled]
      /\ pc' = [r \in Ranks |-> "apply"]
      /\ UNCHANGED <<ctl, saved, slot, shift, failed>>
  BY DEF Reduce, Meet, Reduced
<1>2. \A r \in Ranks : Placed("apply", slot[r])
  BY <1>1 DEF Alone, Typed, Placed, Places
<1>3. energy' = [r \in Ranks |-> energy'[r]] /\ \A r \in Ranks : Energy(energy'[r])
  BY <1>1, Pools DEF Alone, Typed
<1>4. pc' \in [Ranks -> Places]
  BY <1>1 DEF Places
<1>5. Typed'
  BY <1>1, <1>2, <1>3, <1>4 DEF Alone, Typed
<1>6. \A r \in Ranks : Sound(ctl[r], "apply", slot[r])
  <2> TAKE r \in Ranks
  <2>1. Sound(ctl[r], "reduce", slot[r])
    BY <1>1 DEF Alone
  <2>2. \A l \in Layers : Owed("apply", slot[r], l) = Owed("reduce", slot[r], l)
    BY DEF Owed
  <2> QED
    BY <2>1, <2>2 DEF Sound
<1> QED
  BY <1>1, <1>5, <1>6 DEF Alone

LEMMA CalibratedCopy ==
  ASSUME NEW c, Copy(c), NEW median \in [Layers -> 0..(Release - 1)],
         c.step = WarmupSteps, c.step <= MaxUpdates
  PROVE  /\ Copy(Calibrated(c, median))
         /\ Earned(Calibrated(c, median))
         /\ Sound(Calibrated(c, median), "forward", <<1, 0>>)
         /\ Small(Calibrated(c, median))
<1> DEFINE d == Calibrated(c, median)
           p == [l \in Layers |-> [ema |-> median[l], count |-> 0, active |-> FALSE]]
<1>1. d = [step |-> c.step, moments |-> 0, records |-> 0, calibrated |-> TRUE, predictor |-> p]
  <2>1. d = [c EXCEPT !.calibrated = TRUE, !.moments = 0, !.records = 0, !.predictor = p]
    BY DEF Calibrated
  <2> HIDE DEF d, p
  <2> QED
    BY <2>1 DEF Copy
<1>2. \A l \in Layers : Estimate(p[l]) /\ p[l].count = 0 /\ p[l].active = FALSE
  <2> TAKE l \in Layers
  <2>1. median[l] \in 0..Scale
    OBVIOUS
  <2> QED
    BY <2>1 DEF Estimate
<1>3. p = [l \in Layers |-> p[l]]
  OBVIOUS
<1> HIDE DEF d, p
<1>4. Copy(d)
  BY <1>1, <1>2, <1>3 DEF Copy
<1>5. Earned(d)
  BY <1>1, <1>2 DEF Earned
<1>6. ChecksDone(c.step) = 0
  BY ChecksDoneNext DEF Copy
<1>7. Sound(d, "forward", <<1, 0>>)
  BY <1>1, <1>2, <1>6 DEF Sound, Owed
<1>8. Small(d)
  BY <1>1 DEF Small, Copy
<1> QED
  BY <1>4, <1>5, <1>7, <1>8 DEF d

LEMMA CalibrateStepAlone ==
  ASSUME Alone, CalibrateStep
  PROVE  Alone'
<1>1. /\ ~failed /\ ~failed' /\ \A r \in Ranks : pc[r] = "calibrate"
      /\ UNCHANGED <<saved, shift, energy, failed>>
  BY DEF CalibrateStep, Meet
<1>2. PICK median \in [Layers -> 0..(Release - 1)] :
        ctl' = [r \in Ranks |->
                 IF NextSlot(r)[1] \in Layers THEN ctl[r] ELSE Calibrated(ctl[r], median)]
  BY DEF CalibrateStep
<1>3. /\ pc' = [r \in Ranks |-> IF NextSlot(r)[1] \in Layers THEN "calibrate" ELSE "forward"]
      /\ slot' = [r \in Ranks |-> IF NextSlot(r)[1] \in Layers THEN NextSlot(r) ELSE <<1, 0>>]
  BY DEF CalibrateStep
<1>4. \A r \in Ranks : /\ Copy(ctl[r]) /\ Earned(ctl[r]) /\ Sound(ctl[r], "calibrate", slot[r])
                       /\ slot[r] \in Layers \X Nat
                       /\ slot[r][2] <= 2 + ctl[r].records
                       /\ Small(ctl[r]) /\ ctl[r].step <= MaxUpdates
                       /\ ctl[r].moments = WarmupSteps
                       /\ ctl[r].step = WarmupSteps
  BY <1>1 DEF Alone, Typed, Sound, Small
<1>5. \A r \in Ranks : /\ Copy(ctl'[r]) /\ Earned(ctl'[r]) /\ Small(ctl'[r])
                       /\ Placed(pc'[r], slot'[r])
                       /\ Sound(ctl'[r], pc'[r], slot'[r])
                       /\ pc'[r] = "calibrate" => /\ ctl'[r].moments = WarmupSteps
                                                  /\ slot'[r][2] <= 2 + ctl'[r].records
  <2> TAKE r \in Ranks
  <2>1. CASE NextSlot(r)[1] \in Layers
    <3>1. ctl'[r] = ctl[r] /\ pc'[r] = "calibrate" /\ slot'[r] = NextSlot(r)
      BY <1>2, <1>3, <2>1
    <3>2. NextSlot(r) \in Layers \X Nat /\ NextSlot(r)[2] <= 2 + ctl[r].records
      <4>1. /\ slot[r] = <<slot[r][1], slot[r][2]>> /\ slot[r][1] \in Layers
            /\ slot[r][2] \in Nat /\ ctl[r].records \in Nat
        <5>1. slot[r] \in Layers \X Nat /\ Copy(ctl[r])
          BY <1>4
        <5> QED
          BY <5>1 DEF Copy
      <4>2. CASE slot[r][2] < 2 + ctl[r].records
        <5>1. NextSlot(r) = <<slot[r][1], slot[r][2] + 1>>
          BY <4>2 DEF NextSlot, SlotsOf
        <5> QED
          BY <4>1, <4>2, <5>1
      <4>3. CASE ~(slot[r][2] < 2 + ctl[r].records)
        <5>1. NextSlot(r) = <<slot[r][1] + 1, 1>>
          BY <4>3 DEF NextSlot, SlotsOf
        <5> QED
          BY <2>1, <4>1, <5>1
      <4> QED
        BY <4>2, <4>3
    <3>3. Sound(ctl[r], "calibrate", NextSlot(r))
      <4>1. \A l \in Layers : Owed("calibrate", NextSlot(r), l) = Owed("calibrate", slot[r], l)
        BY DEF Owed
      <4> QED
        BY <1>4, <4>1 DEF Sound
    <3> QED
      BY <1>4, <3>1, <3>2, <3>3 DEF Placed, Places
  <2>2. CASE NextSlot(r)[1] \notin Layers
    <3>1. ctl'[r] = Calibrated(ctl[r], median) /\ pc'[r] = "forward" /\ slot'[r] = <<1, 0>>
      BY <1>2, <1>3, <2>2
    <3>2. Placed("forward", <<1, 0>>)
      BY DEF Placed, Places, Layers
    <3> QED
      BY <1>4, <3>1, <3>2, CalibratedCopy
  <2> QED
    BY <2>1, <2>2
<1>6. pc' \in [Ranks -> Places] /\ slot' \in [Ranks -> Layers \X Nat]
  <2>1. \A r \in Ranks : pc'[r] \in Places /\ slot'[r] \in Layers \X Nat
    BY <1>5 DEF Placed
  <2> QED
    BY <1>3, <2>1
<1>7. ctl' = [r \in Ranks |-> ctl'[r]]
  BY <1>2
<1>8. Typed'
  BY <1>1, <1>5, <1>6, <1>7 DEF Alone, Typed
<1> QED
  BY <1>1, <1>5, <1>8 DEF Alone

LEMMA OptimizerStepAlone ==
  ASSUME Alone, OptimizerStep
  PROVE  Alone'
<1>1. /\ ~failed /\ (\A r \in Ranks : pc[r] = "optimizer")
      /\ pc' = [r \in Ranks |-> "idle"]
      /\ UNCHANGED <<ctl, saved, slot, shift, energy, failed>>
  BY DEF OptimizerStep, Meet
<1>2. \A r \in Ranks : Placed("idle", slot[r])
  BY <1>1 DEF Alone, Typed, Placed, Places
<1>3. pc' \in [Ranks -> Places]
  BY <1>1 DEF Places
<1>4. Typed'
  BY <1>1, <1>2, <1>3 DEF Alone, Typed
<1>5. \A r \in Ranks : Sound(ctl[r], "idle", slot[r])
  <2> TAKE r \in Ranks
  <2>1. Sound(ctl[r], "optimizer", slot[r])
    BY <1>1 DEF Alone
  <2>2. \A l \in Layers : Owed("idle", slot[r], l) = Owed("optimizer", slot[r], l)
    BY DEF Owed
  <2> QED
    BY <2>1, <2>2 DEF Sound
<1> QED
  BY <1>1, <1>4, <1>5 DEF Alone

LEMMA SaveAlone ==
  ASSUME Alone, SaveCheckpoint
  PROVE  Alone'
<1>1. /\ ~failed /\ (\A r \in Ranks : pc[r] = "idle")
      /\ saved' = ctl
      /\ UNCHANGED <<ctl, pc, slot, shift, energy, failed>>
  BY DEF SaveCheckpoint, AllIdle
<1>2. \A r \in Ranks : slot[r] = <<1, 0>>
  BY <1>1 DEF Alone, Typed, Placed
<1>3. Typed'
  BY <1>1 DEF Alone, Typed
<1> QED
  BY <1>1, <1>2, <1>3 DEF Alone

LEMMA ResumeAlone ==
  ASSUME Alone, CrashAndResume
  PROVE  Alone'
<1>1. /\ ctl' = [r \in Ranks |-> saved[r]]
      /\ pc' = [r \in Ranks |-> "idle"]
      /\ slot' = [r \in Ranks |-> <<1, 0>>]
      /\ energy' = [r \in Ranks |-> NoShift]
      /\ shift' = [r \in Ranks |-> NoShift]
      /\ failed' = FALSE /\ saved' = saved
  BY DEF CrashAndResume, Restored
<1>2. Placed("idle", <<1, 0>>)
  BY DEF Placed, Places, Layers
<1>3. \A r \in Ranks : /\ ctl'[r] = saved[r] /\ pc'[r] = "idle" /\ slot'[r] = <<1, 0>>
                       /\ Energy(energy'[r])
  BY <1>1, Pools
<1>4. /\ ctl' = [r \in Ranks |-> ctl'[r]]
      /\ energy' = [r \in Ranks |-> energy'[r]]
      /\ shift' \in [Ranks -> Shifts]
      /\ pc' \in [Ranks -> Places]
      /\ slot' \in [Ranks -> Layers \X Nat]
  BY <1>1, <1>2, Pools DEF Placed
<1>5. Typed'
  BY <1>1, <1>2, <1>3, <1>4 DEF Alone, Typed
<1> QED
  BY <1>1, <1>3, <1>5 DEF Alone

LEMMA SameAlone ==
  ASSUME Alone, UNCHANGED <<ctl, saved, pc, slot, shift, energy>>, failed' \in {failed, TRUE}
  PROVE  Alone'
<1>1. Typed'
  BY DEF Alone, Typed
<1>2. \A r \in Ranks : ~failed' => Sound(ctl'[r], pc'[r], slot'[r])
  BY DEF Alone, Typed
<1> QED
  BY <1>1, <1>2 DEF Alone

LEMMA AloneStep == Alone /\ [Next]_vars => Alone'
<1> SUFFICES ASSUME Alone, [Next]_vars
             PROVE  Alone'
  OBVIOUS
<1>1. ASSUME NEW r \in Ranks, RankStep(r)
      PROVE  Alone'
  <2>1. CASE SkipObservation(r) \/ WarmUp(r) \/ Monitor(r)
    BY <2>1, StartAdvances, AdvancesAlone
  <2>2. CASE WarmUpFails(r)
    BY <2>2, WarmUpFailsAlone
  <2>3. CASE Apply(r)
    BY <2>3, ApplyAdvances, AdvancesAlone
  <2>4. CASE Forward(r)
    BY <2>4, ForwardAdvances, AdvancesAlone
  <2> QED
    BY <1>1, <2>1, <2>2, <2>3, <2>4 DEF RankStep
<1>2. CASE CalibrateFails \/ Ended \/ UNCHANGED vars
  BY <1>2, SameAlone DEF CalibrateFails, Ended, vars
<1> QED
  BY <1>1, <1>2, ReduceAlone, CalibrateStepAlone, OptimizerStepAlone, SaveAlone, ResumeAlone
     DEF Next, Work

\* Thresholds come from the whole warm-up, whatever crashes undo: no update goes
\* past it without them (calibrate, before_update).
THEOREM WarmUpIsWhole == Spec => []CalibratedOnWarmup
<1>1. Alone => CalibratedOnWarmup
  BY DEF Alone, Typed, Copy, Sound, CalibratedOnWarmup
<1> QED
  BY <1>1, AloneInit, AloneStep, PTL DEF Spec

\* A layer under control has had Persistence monitored updates since the warm-up,
\* across restarts and for any verdicts (update_predictor).
THEOREM NoEarlyControl == Spec => []ControlIsEarned
<1>1. Alone => ControlIsEarned
  BY DEF Alone, Earned, ControlIsEarned
<1> QED
  BY <1>1, AloneInit, AloneStep, PTL DEF Spec

-----------------------------------------------------------------------------
(* What holds of the ranks together: all are on their way to the same      *)
(* collective, where they will hold the same copy.                         *)

Together ==
  /\ \A r, q \in Ranks : saved[r] = saved[q] /\ energy[r] = energy[q]
  /\ ~failed => \A r, q \in Ranks :
       /\ ThenOf(r) = ThenOf(q)
       /\ StopOf(r) = StopOf(q)
       /\ ctl[r].step = ctl[q].step /\ Level(pc[r], slot[r]) = Level(pc[q], slot[q])
            => ctl[r] = ctl[q]

\* Ranks that hold the same at the same place are together.
Alike ==
  \A r, q \in Ranks : /\ ctl[r] = ctl[q] /\ saved[r] = saved[q] /\ energy[r] = energy[q]
                      /\ pc[r] = pc[q] /\ slot[r] = slot[q]

LEMMA AlikeTogether == (Alike => Together) /\ (Alike' => Together')
<1>1. Alike => \A r, q \in Ranks : ThenOf(r) = ThenOf(q) /\ StopOf(r) = StopOf(q)
  BY DEF Alike, ThenOf, StopOf
<1>2. Alike' => \A r, q \in Ranks : ThenOf(r)' = ThenOf(q)' /\ StopOf(r)' = StopOf(q)'
  BY DEF Alike, ThenOf, StopOf
<1> QED
  BY <1>1, <1>2 DEF Alike, Together

LEMMA TogetherInit == Init => Together
<1>1. Init => Alike
  BY DEF Init, Alike
<1> QED
  BY <1>1, AlikeTogether

LEMMA AdvancesTogether ==
  ASSUME Alone, Together, NEW r \in Ranks, NEW w, Advances(r, w)
  PROVE  Together'
<1>1. Typed /\ ~failed
  BY DEF Alone, Advances
<1>2. /\ ctl'[r] = ThenOf(r) /\ pc'[r] = w[1] /\ slot'[r] = w[2]
      /\ \A q \in Ranks : q # r => ctl'[q] = ctl[q] /\ pc'[q] = pc[q] /\ slot'[q] = slot[q]
      /\ energy' = energy /\ saved' = saved
      /\ Placed(w[1], w[2])
      /\ w[1] \notin {"idle", "apply"}
      /\ Typed'
  BY <1>1, Arrived
<1>3. ThenOf(r)' = ThenOf(r)
  BY <1>2 DEF ThenOf, Then
<1>4. StopOf(r)' = StopOf(r)
  <2>1. pc[r] \in {"idle", "apply", "forward"}
    BY DEF Advances
  <2>2. \E where : StopOf(r) \in {AtEnd, <<"calibrate", where>>, <<"reduce", where>>}
    BY <2>1 DEF StopOf, Stop, FirstStop, AfterLayer
  <2>3. StopOf(r)' = Stop(ctl'[r], w[1], w[2])
    BY <1>2 DEF StopOf
  <2>4. CASE w = Forwarding
    BY <2>3, <2>4 DEF Advances, Forwarding, Stop
  <2>5. CASE w = StopOf(r)
    BY <2>2, <2>3, <2>5 DEF AtEnd, Stop
  <2> QED
    BY <2>4, <2>5 DEF Advances
<1>5. \A q \in Ranks : ThenOf(q)' = ThenOf(q) /\ StopOf(q)' = StopOf(q)
  <2> TAKE q \in Ranks
  <2>1. CASE q = r
    BY <1>3, <1>4, <2>1
  <2>2. CASE q # r
    BY <1>2, <2>2 DEF ThenOf, StopOf
  <2> QED
    BY <2>1, <2>2
<1>6. \A p, q \in Ranks : ThenOf(p)' = ThenOf(q)' /\ StopOf(p)' = StopOf(q)'
  BY <1>1, <1>5 DEF Together
<1>7. \A q \in Ranks : Copy(ctl'[q]) /\ Placed(pc'[q], slot'[q])
  BY <1>2 DEF Typed
<1>8. ASSUME NEW q \in Ranks, ctl'[q].step = ctl'[r].step,
             Level(pc'[q], slot'[q]) = Level(pc'[r], slot'[r])
      PROVE  ctl'[r] = ctl'[q]
  <2>1. /\ Then(ctl'[r], pc'[r], slot'[r], energy'[r]) = Then(ctl'[q], pc'[q], slot'[q], energy'[q])
        /\ Stop(ctl'[r], pc'[r], slot'[r]) = Stop(ctl'[q], pc'[q], slot'[q])
    BY <1>6 DEF ThenOf, StopOf
  <2>2. pc'[r] \notin {"idle", "apply"}
    BY <1>2
  <2> QED
    BY <1>7, <1>8, <2>1, <2>2, SameLevel
<1>9. \A p, q \in Ranks :
        ctl'[p].step = ctl'[q].step /\ Level(pc'[p], slot'[p]) = Level(pc'[q], slot'[q])
          => ctl'[p] = ctl'[q]
  <2> TAKE p, q \in Ranks
  <2>1. CASE p = r \/ q = r
    BY <1>8, <2>1
  <2>2. CASE p # r /\ q # r
    BY <1>1, <1>2, <2>2 DEF Together
  <2> QED
    BY <2>1, <2>2
<1>10. \A p, q \in Ranks : saved'[p] = saved'[q] /\ energy'[p] = energy'[q]
  BY <1>2 DEF Together
<1> QED
  BY <1>6, <1>9, <1>10 DEF Together

\* In a collective all ranks hold the same.
LEMMA Met ==
  ASSUME Together, NEW place \in {"calibrate", "reduce", "optimizer"}, Meet(place)
  PROVE  \A r, q \in Ranks : ctl[r] = ctl[q] /\ slot[r] = slot[q] /\ pc[r] = place
<1>1. \A r \in Ranks : ThenOf(r) = ctl[r]
  BY DEF Meet, ThenOf, Then
<1> QED
  BY <1>1 DEF Meet, Together

LEMMA CollectiveTogether ==
  ASSUME Alone, Together, Reduce \/ CalibrateStep \/ OptimizerStep
  PROVE  Together'
<1> USE DEF Alike
<1>1. Alike'
  <2>1. CASE Reduce
    <3>1. \A r, q \in Ranks : ctl[r] = ctl[q] /\ slot[r] = slot[q]
      BY <2>1, Met DEF Reduce
    <3> QED
      BY <2>1, <3>1 DEF Reduce, Reduced, Together
  <2>2. CASE OptimizerStep
    <3>1. \A r, q \in Ranks : ctl[r] = ctl[q] /\ slot[r] = slot[q]
      BY <2>2, Met DEF OptimizerStep
    <3> QED
      BY <2>2, <3>1 DEF OptimizerStep, Together
  <2>3. CASE CalibrateStep
    <3>1. \A r, q \in Ranks : ctl[r] = ctl[q] /\ slot[r] = slot[q]
      BY <2>3, Met DEF CalibrateStep
    <3>2. \A r, q \in Ranks : NextSlot(r) = NextSlot(q)
      BY <3>1 DEF NextSlot, SlotsOf
    <3>3. PICK median \in [Layers -> 0..(Release - 1)] :
            ctl' = [r \in Ranks |->
                     IF NextSlot(r)[1] \in Layers THEN ctl[r] ELSE Calibrated(ctl[r], median)]
      BY <2>3 DEF CalibrateStep
    <3>4. \A r, q \in Ranks : ctl'[r] = ctl'[q]
      BY <3>1, <3>2, <3>3
    <3>5. \A r, q \in Ranks : pc'[r] = pc'[q] /\ slot'[r] = slot'[q]
      BY <2>3, <3>2 DEF CalibrateStep
    <3> QED
      BY <2>3, <3>4, <3>5 DEF CalibrateStep, Together
  <2> QED
    BY <2>1, <2>2, <2>3
<1> QED
  BY <1>1, AlikeTogether

LEMMA SaveTogether ==
  ASSUME Alone, Together, SaveCheckpoint
  PROVE  Together'
<1>1. /\ ~failed /\ (\A r \in Ranks : pc[r] = "idle")
      /\ saved' = ctl
      /\ UNCHANGED <<ctl, pc, slot, energy, failed>>
  BY DEF SaveCheckpoint, AllIdle
<1>2. \A r, q \in Ranks : ctl[r] = ctl[q]
  <2> TAKE r, q \in Ranks
  <2>1. Copy(ctl[r]) /\ Copy(ctl[q])
    BY DEF Alone, Typed
  <2>2. Begun(ctl[r]) = Begun(ctl[q])
    BY <1>1 DEF Together, ThenOf, Then
  <2>3. ctl[r].step + 1 = ctl[q].step + 1
    BY <2>1, <2>2, BegunCopy
  <2>4. ctl[r].step = ctl[q].step
    BY <2>1, <2>3 DEF Copy
  <2>5. Level(pc[r], slot[r]) = Level(pc[q], slot[q])
    BY <1>1 DEF Level
  <2> QED
    BY <1>1, <2>4, <2>5 DEF Together
<1>3. \A r \in Ranks : slot[r] = <<1, 0>>
  BY <1>1 DEF Alone, Typed, Placed
<1>4. Alike'
  BY <1>1, <1>2, <1>3 DEF Alike, Together
<1> QED
  BY <1>4, AlikeTogether

LEMMA ResumeTogether ==
  ASSUME Together, CrashAndResume
  PROVE  Together'
<1>1. Alike'
  BY DEF CrashAndResume, Restored, Together, Alike
<1> QED
  BY <1>1, AlikeTogether

LEMMA FailedTogether ==
  ASSUME Together, failed', UNCHANGED <<saved, energy>>
  PROVE  Together'
  BY DEF Together

LEMMA SameTogether ==
  ASSUME Together, UNCHANGED vars
  PROVE  Together'
<1>1. \A r \in Ranks : ThenOf(r)' = ThenOf(r) /\ StopOf(r)' = StopOf(r)
  BY DEF vars, ThenOf, StopOf
<1> QED
  BY <1>1 DEF Together, vars

\* Every step of a rank either fails or advances it.
LEMMA RankAdvances ==
  ASSUME Alone, NEW r \in Ranks, RankStep(r)
  PROVE  WarmUpFails(r) \/ \E w : Advances(r, w)
  BY StartAdvances, ApplyAdvances, ForwardAdvances DEF RankStep

LEMMA TogetherStep == Alone /\ Together /\ [Next]_vars => Together'
<1> SUFFICES ASSUME Alone, Together, [Next]_vars
             PROVE  Together'
  OBVIOUS
<1>1. ASSUME NEW r \in Ranks, RankStep(r)
      PROVE  Together'
  <2>1. CASE WarmUpFails(r)
    BY <2>1, FailedTogether DEF WarmUpFails, Start
  <2>2. CASE ~WarmUpFails(r)
    BY <1>1, <2>2, RankAdvances, AdvancesTogether
  <2> QED
    BY <2>1, <2>2
<1>2. CASE CalibrateFails
  BY <1>2, FailedTogether DEF CalibrateFails
<1>3. CASE Ended \/ UNCHANGED vars
  BY <1>3, SameTogether DEF Ended
<1> QED
  BY <1>1, <1>2, <1>3, CollectiveTogether, SaveTogether, ResumeTogether DEF Next, Work

LEMMA Invariant == Spec => [](Alone /\ Together)
<1>1. Init => Alone /\ Together
  BY AloneInit, TogetherInit
<1>2. Alone /\ Together /\ [Next]_vars => (Alone /\ Together)'
  BY AloneStep, TogetherStep
<1> QED
  BY <1>1, <1>2, PTL DEF Spec

LEMMA PositionIs ==
  ASSUME Alone
  PROVE  \A r \in Ranks : Position(r) = <<ctl[r].step, Level(pc[r], slot[r])>>
<1>1. \A r \in Ranks : pc[r] \in Places
  BY DEF Alone, Typed
<1> QED
  BY <1>1 DEF Position, Level, Places

\* Ranks that have come equally far hold the same controller, for any ranks,
\* layers, energies and crashes (observe_update).
THEOREM CopiesAgree == Spec => []Agreement
<1>1. Alone /\ Together => Agreement
  <2> SUFFICES ASSUME Alone, Together, ~failed,
                      NEW r \in Ranks, NEW q \in Ranks, Position(r) = Position(q)
               PROVE  ctl[r] = ctl[q]
    BY DEF Agreement
  <2>1. ctl[r].step = ctl[q].step /\ Level(pc[r], slot[r]) = Level(pc[q], slot[q])
    BY PositionIs
  <2> QED
    BY <2>1 DEF Together
<1> QED
  BY <1>1, Invariant, PTL

\* Ranks that wait in a collective wait in the same one (distributed_sum,
\* calibrate).
THEOREM CollectivesAligned == Spec => []Aligned
<1>1. Alone /\ Together => Aligned
  <2> SUFFICES ASSUME Together, ~failed, NEW r \in Ranks, NEW q \in Ranks,
                      pc[r] \in Collective, pc[q] \in Collective
               PROVE  pc[r] = pc[q] /\ slot[r] = slot[q] /\ ctl[r].step = ctl[q].step
    BY DEF Aligned
  <2>1. StopOf(r) = <<pc[r], slot[r]>> /\ StopOf(q) = <<pc[q], slot[q]>>
    BY DEF StopOf, Stop, Collective
  <2>2. ThenOf(r) = ctl[r] /\ ThenOf(q) = ctl[q]
    BY DEF ThenOf, Then, Collective
  <2>3. StopOf(r) = StopOf(q) /\ ThenOf(r) = ThenOf(q)
    BY DEF Together
  <2> QED
    BY <2>1, <2>2, <2>3
<1> QED
  BY <1>1, Invariant, PTL

-----------------------------------------------------------------------------
(* The flags of an update.                                                  *)

\* The assignments the forward passes of this update have used.
Used(r) ==
  /\ pc[r] \in {"calibrate", "reduce", "apply"} => flags[r] = {} /\ batch[r] = 0
  /\ pc[r] = "forward" => /\ batch[r] < MicroBatches
                          /\ flags[r] = IF batch[r] = 0 THEN {} ELSE {Projected(r)}
  /\ pc[r] = "optimizer" => flags[r] = {Projected(r)}

Flagged ==
  /\ flags \in [Ranks -> SUBSET [Layers -> BOOLEAN]]
  /\ batch \in [Ranks -> 0..MicroBatches]
  /\ \A r \in Ranks : Used(r)
  /\ failed => \E r \in Ranks : pc[r] # "optimizer"

LEMMA FlaggedInit == Init => Flagged
  BY DEF Init, Flagged, Used

LEMMA ProjectedType ==
  ASSUME Alone, NEW r \in Ranks
  PROVE  Projected(r) \in [Layers -> BOOLEAN]
<1>1. \A l \in Layers : ctl[r].calibrated \in BOOLEAN /\ ctl[r].predictor[l].active \in BOOLEAN
  BY DEF Alone, Typed, Copy, Estimate
<1> QED
  BY <1>1 DEF Projected

\* The flags of the other ranks stay.
LEMMA OthersUsed ==
  ASSUME Flagged, NEW r \in Ranks, Used(r)',
         \A q \in Ranks : q # r => /\ ctl'[q] = ctl[q] /\ pc'[q] = pc[q]
                                   /\ flags'[q] = flags[q] /\ batch'[q] = batch[q]
  PROVE  \A q \in Ranks : Used(q)'
<1> TAKE q \in Ranks
<1>1. CASE q = r
  BY <1>1
<1>2. CASE q # r
  <2>1. Projected(q)' = Projected(q)
    BY <1>2 DEF Projected
  <2> QED
    BY <1>2, <2>1 DEF Flagged, Used
<1> QED
  BY <1>1, <1>2

LEMMA StartFlagged ==
  ASSUME Alone, Flagged, NEW r \in Ranks, Start(r),
         pc'[r] \in {"forward", "calibrate", "reduce", "idle"},
         \A q \in Ranks : q # r => ctl'[q] = ctl[q] /\ pc'[q] = pc[q],
         failed' => pc'[r] = "idle"
  PROVE  Flagged'
<1>1. flags' = [flags EXCEPT ![r] = {}] /\ batch' = [batch EXCEPT ![r] = 0]
  BY DEF Start
<1>2. /\ flags' \in [Ranks -> SUBSET [Layers -> BOOLEAN]]
      /\ batch' \in [Ranks -> 0..MicroBatches]
      /\ flags'[r] = {} /\ batch'[r] = 0
  BY <1>1 DEF Flagged
<1>3. Used(r)'
  BY <1>2 DEF Used
<1>4. \A q \in Ranks : Used(q)'
  BY <1>1, <1>3, OthersUsed DEF Flagged
<1> QED
  BY <1>2, <1>4 DEF Flagged

LEMMA RankFlagged ==
  ASSUME Alone, Flagged, NEW r \in Ranks, RankStep(r)
  PROVE  Flagged'
<1>1. CASE WarmUpFails(r)
  <2>1. Start(r) /\ pc'[r] = "idle" /\ pc' = pc /\ \A q \in Ranks : q # r => ctl'[q] = ctl[q]
    BY <1>1 DEF WarmUpFails, Start, Alone, Typed
  <2> QED
    BY <2>1, StartFlagged
<1>2. CASE SkipObservation(r) \/ WarmUp(r) \/ Monitor(r)
  <2>1. PICK w : Advances(r, w)
    BY <1>2, StartAdvances
  <2>2. Start(r) /\ pc[r] = "idle" /\ ~failed'
    BY <1>2, <2>1 DEF SkipObservation, WarmUp, Monitor, Start, Advances
  <2>3. /\ pc'[r] = w[1]
        /\ \A q \in Ranks : q # r => ctl'[q] = ctl[q] /\ pc'[q] = pc[q]
    BY <2>1, Arrived DEF Alone
  <2>4. w[1] \in {"forward", "calibrate", "reduce"}
    BY <2>1, <2>2 DEF Advances, StopOf, Stop, FirstStop, Forwarding, AtEnd
  <2> QED
    BY <2>2, <2>3, <2>4, StartFlagged
<1>3. CASE Apply(r)
  <2>1. PICK w : Advances(r, w)
    BY <1>3, ApplyAdvances
  <2>2. pc[r] = "apply" /\ UNCHANGED <<flags, batch, failed>> /\ ~failed
    BY <1>3 DEF Apply
  <2>3. /\ pc'[r] = w[1]
        /\ \A q \in Ranks : q # r => ctl'[q] = ctl[q] /\ pc'[q] = pc[q]
    BY <2>1, Arrived DEF Alone
  <2>4. w[1] \in {"forward", "reduce"}
    BY <2>1, <2>2 DEF Advances, StopOf, Stop, AfterLayer, Forwarding, AtEnd
  <2>5. Used(r)'
    BY <2>2, <2>3, <2>4 DEF Flagged, Used
  <2>6. \A q \in Ranks : Used(q)'
    BY <2>2, <2>3, <2>5, OthersUsed
  <2> QED
    BY <2>2, <2>6 DEF Flagged
<1>4. CASE Forward(r)
  <2>1. /\ ~failed /\ pc[r] = "forward"
        /\ flags' = [flags EXCEPT ![r] = flags[r] \cup {Projected(r)}]
        /\ batch' = [batch EXCEPT ![r] = batch[r] + 1]
        /\ pc' = [pc EXCEPT ![r] = IF batch[r] + 1 = MicroBatches THEN "optimizer" ELSE "forward"]
        /\ UNCHANGED <<ctl, failed>>
    BY <1>4 DEF Forward
  <2>2. Projected(r) \in [Layers -> BOOLEAN] /\ Projected(r)' = Projected(r)
    BY <2>1, ProjectedType DEF Projected
  <2>3. batch[r] \in 0..MicroBatches /\ batch[r] < MicroBatches
        /\ flags[r] \in SUBSET {Projected(r)}
    BY <2>1 DEF Flagged, Used
  <2>4. /\ flags' \in [Ranks -> SUBSET [Layers -> BOOLEAN]]
        /\ batch' \in [Ranks -> 0..MicroBatches]
    BY <2>1, <2>2, <2>3 DEF Flagged
  <2>5. /\ flags'[r] = {Projected(r)}
        /\ batch'[r] = batch[r] + 1
        /\ pc'[r] = IF batch[r] + 1 = MicroBatches THEN "optimizer" ELSE "forward"
    BY <2>1, <2>3 DEF Flagged, Alone, Typed
  <2>6. Used(r)'
    BY <2>2, <2>3, <2>5 DEF Used
  <2>7. \A q \in Ranks : Used(q)'
    BY <2>1, <2>6, OthersUsed DEF Flagged, Alone, Typed
  <2> QED
    BY <2>1, <2>4, <2>7 DEF Flagged
<1> QED
  BY <1>1, <1>2, <1>3, <1>4 DEF RankStep

LEMMA FlaggedStep == Alone /\ Flagged /\ [Next]_vars => Flagged'
<1> SUFFICES ASSUME Alone, Flagged, [Next]_vars
             PROVE  Flagged'
  OBVIOUS
<1>1. CASE Reduce
  BY <1>1 DEF Flagged, Used, Reduce, Meet
<1>2. CASE CalibrateStep
  <2>1. \A r \in Ranks : flags[r] = {} /\ batch[r] = 0
    BY <1>2 DEF CalibrateStep, Meet, Flagged, Used
  <2>2. \A r \in Ranks : pc'[r] \in {"calibrate", "forward"}
    BY <1>2 DEF CalibrateStep
  <2> QED
    BY <1>2, <2>1, <2>2 DEF Flagged, Used, CalibrateStep, Meet
<1>3. CASE OptimizerStep
  BY <1>3 DEF Flagged, Used, OptimizerStep, Meet
<1>4. CASE CrashAndResume
  BY <1>4 DEF Flagged, Used, CrashAndResume
<1>5. CASE SaveCheckpoint \/ Ended \/ UNCHANGED vars
  <2>1. UNCHANGED <<ctl, pc, flags, batch, failed>>
    BY <1>5 DEF SaveCheckpoint, Ended, vars
  <2>2. \A r \in Ranks : Projected(r)' = Projected(r)
    BY <2>1 DEF Projected
  <2> QED
    BY <2>1, <2>2 DEF Flagged, Used
<1>6. CASE CalibrateFails
  <2>1. UNCHANGED <<ctl, pc, flags, batch>> /\ \A r \in Ranks : pc[r] = "calibrate"
    BY <1>6 DEF CalibrateFails, Meet
  <2> QED
    BY <2>1 DEF Flagged, Used
<1> QED
  BY <1>1, <1>2, <1>3, <1>4, <1>5, <1>6, RankFlagged DEF Next, Work

\* All micro-batches of an update, on all ranks, project the same layers (the
\* backward hook reads the flag of its own rank at every pass).
THEOREM FlagsStayFixed == Spec => []FlagsFixed
<1>1. Alone /\ Together /\ Flagged => FlagsFixed
  <2> SUFFICES ASSUME Alone, Together, Flagged, \A r \in Ranks : pc[r] = "optimizer",
                      NEW r \in Ranks, NEW q \in Ranks
               PROVE  Cardinality(flags[r]) = 1 /\ flags[r] = flags[q]
    BY DEF FlagsFixed
  <2>1. ~failed
    BY DEF Flagged
  <2>2. ctl[r] = ctl[q]
    BY <2>1 DEF Together, ThenOf, Then
  <2>3. flags[r] = {Projected(r)} /\ flags[q] = {Projected(q)}
    BY DEF Flagged, Used
  <2>4. Projected(r) = Projected(q)
    BY <2>2 DEF Projected
  <2> QED
    BY <2>3, <2>4, FS_Singleton
<1>2. Init => Flagged
  BY FlaggedInit
<1>3. Alone /\ Flagged /\ [Next]_vars => Flagged'
  BY FlaggedStep
<1> QED
  BY <1>1, <1>2, <1>3, Invariant, PTL DEF Spec

-----------------------------------------------------------------------------
(* The leader.                                                              *)

Highest(r) == \A q \in Ranks : ~Ahead(Position(q), Position(r))

\* The job stops in the warm-up only, and a rank leads when it does.
Stopped ==
  failed => /\ \E r \in Ranks : Highest(r)
            /\ \A r \in Ranks : ~ctl[r].calibrated

Inv == Alone /\ Together /\ Flagged /\ Stopped

LEMMA Levels ==
  ASSUME Alone
  PROVE  \A r \in Ranks : Level(pc[r], slot[r]) \in 0..NumLayers /\ ctl[r].step \in Nat
<1> TAKE r \in Ranks
<1>1. Placed(pc[r], slot[r]) /\ Copy(ctl[r])
  BY DEF Alone, Typed
<1> QED
  BY <1>1 DEF Placed, Level, Layers, Copy

LEMMA AheadIs ==
  ASSUME Alone
  PROVE  \A r, q \in Ranks :
           Ahead(Position(q), Position(r)) <=>
             \/ ctl[q].step > ctl[r].step
             \/ /\ ctl[q].step = ctl[r].step
                /\ Level(pc[q], slot[q]) > Level(pc[r], slot[r])
  BY PositionIs DEF Ahead

\* A rank at its collective, or in its forward passes, is ahead or level.
LEMMA ArrivedLeads ==
  ASSUME Alone, Together, ~failed, NEW r \in Ranks, pc[r] \notin {"idle", "apply"}
  PROVE  Highest(r)
<1> SUFFICES ASSUME NEW q \in Ranks
             PROVE  ~Ahead(Position(q), Position(r))
  BY DEF Highest
<1>1. Placed(pc[r], slot[r]) /\ Placed(pc[q], slot[q]) /\ Copy(ctl[r]) /\ Copy(ctl[q])
  BY DEF Alone, Typed
<1>2. ThenOf(r) = ctl[r] /\ ThenOf(q) = ctl[r] /\ StopOf(q) = StopOf(r)
  BY DEF Together, ThenOf, Then
<1>3. CASE pc[q] = "idle"
  <2>1. ctl[r].step = ctl[q].step + 1
    BY <1>1, <1>2, <1>3, BegunCopy DEF ThenOf, Then
  <2> QED
    BY <1>1, <2>1, AheadIs DEF Copy
<1>4. CASE pc[q] = "apply"
  <2>1. slot[q][1] \in Layers /\ Energy(energy[q])
    BY <1>1, <1>4 DEF Placed, Alone, Typed
  <2>2. ctl[r].step = ctl[q].step
    BY <1>1, <1>2, <1>4, <2>1, JudgedCopy DEF ThenOf, Then, Fields
  <2>3. StopOf(r) = AfterLayer(slot[q][1])
    BY <1>2, <1>4 DEF StopOf, Stop
  <2>4. StopOf(r) = IF pc[r] = "forward" THEN AtEnd ELSE <<pc[r], slot[r]>>
    BY DEF StopOf, Stop
  <2>5. Level(pc[q], slot[q]) = slot[q][1] - 1
    BY <1>4 DEF Level
  <2>6. Level(pc[r], slot[r]) >= slot[q][1] - 1
    <3>1. CASE pc[r] = "reduce"
      <4>1. slot[r] = <<slot[q][1] + 1, 0>>
        BY <2>3, <2>4, <3>1 DEF AfterLayer, AtEnd
      <4>2. Level(pc[r], slot[r]) = slot[r][1] - 1
        BY <3>1 DEF Level
      <4> QED
        BY <2>1, <4>1, <4>2 DEF Layers
    <3>2. CASE pc[r] = "calibrate"
      BY <2>3, <2>4, <3>2 DEF AfterLayer, AtEnd
    <3>3. CASE pc[r] \in {"forward", "optimizer"}
      BY <2>1, <3>3 DEF Level, Layers
    <3> QED
      BY <1>1, <3>1, <3>2, <3>3 DEF Placed, Places
  <2> QED
    BY <1>1, <2>1, <2>2, <2>5, <2>6, AheadIs, Levels DEF Copy, Layers
<1>5. CASE pc[q] \notin {"idle", "apply"}
  <2>1. ctl[q] = ctl[r]
    BY <1>2, <1>5 DEF ThenOf, Then
  <2>2. /\ StopOf(r) = IF pc[r] = "forward" THEN AtEnd ELSE <<pc[r], slot[r]>>
        /\ StopOf(q) = IF pc[q] = "forward" THEN AtEnd ELSE <<pc[q], slot[q]>>
    BY <1>5 DEF StopOf, Stop
  <2>3. Level(pc[q], slot[q]) = Level(pc[r], slot[r])
    <3>1. CASE pc[r] \in {"forward", "optimizer"}
      BY <1>2, <2>2, <3>1 DEF AtEnd, Level
    <3>2. CASE pc[r] \notin {"forward", "optimizer"}
      <4>1. pc[q] = pc[r] /\ slot[q] = slot[r]
        BY <1>2, <2>2, <3>2 DEF AtEnd
      <4> QED
        BY <4>1
    <3> QED
      BY <3>1, <3>2
  <2> QED
    BY <1>1, <2>1, <2>3, AheadIs, Levels DEF Copy
<1> QED
  BY <1>3, <1>4, <1>5

\* If none has arrived, all are at the same place with the same copy.
LEMMA NoneArrived ==
  ASSUME Alone, Together, ~failed, \A r \in Ranks : pc[r] \in {"idle", "apply"}
  PROVE  \A r, q \in Ranks : pc[r] = pc[q] /\ slot[r] = slot[q] /\ ctl[r] = ctl[q]
<1> SUFFICES ASSUME NEW r \in Ranks, NEW q \in Ranks
             PROVE  pc[r] = pc[q] /\ slot[r] = slot[q] /\ ctl[r] = ctl[q]
  OBVIOUS
<1>1. /\ Placed(pc[r], slot[r]) /\ Placed(pc[q], slot[q]) /\ Copy(ctl[r]) /\ Copy(ctl[q])
      /\ Sound(ctl[r], pc[r], slot[r]) /\ Sound(ctl[q], pc[q], slot[q])
      /\ Energy(energy[r]) /\ Energy(energy[q])
  BY DEF Alone, Typed
<1>2. ThenOf(r) = ThenOf(q) /\ StopOf(q) = StopOf(r)
  BY DEF Together
<1>3. ASSUME NEW i \in Ranks, NEW a \in Ranks, pc[i] = "idle", pc[a] = "apply",
             ThenOf(i) = ThenOf(a), StopOf(i) = StopOf(a)
      PROVE  FALSE
  <2>1. /\ Placed(pc[a], slot[a]) /\ Copy(ctl[i]) /\ Copy(ctl[a])
        /\ Sound(ctl[a], "apply", slot[a]) /\ Energy(energy[a])
    BY <1>3 DEF Alone, Typed
  <2>2. slot[a][1] \in Layers
    BY <2>1 DEF Placed
  <2>3. ctl[i].step + 1 = ctl[a].step
    BY <1>3, <2>1, <2>2, BegunCopy, JudgedCopy DEF ThenOf, Then, Fields
  <2>4. ctl[a].step >= WarmupSteps /\ Checks(ctl[a].step)
    BY <2>1 DEF Sound, Copy
  <2>5. StopOf(i) = FirstStop(ctl[a].step) /\ StopOf(a) = AfterLayer(slot[a][1])
    BY <1>3, <2>3 DEF StopOf, Stop
  <2>6. FirstStop(ctl[a].step) \in {<<"calibrate", <<1, 1>>>>, <<"reduce", <<1, 0>>>>}
    BY <2>1, <2>4 DEF FirstStop, Copy
  <2>7. AfterLayer(slot[a][1]) \in {AtEnd, <<"reduce", <<slot[a][1] + 1, 0>>>>}
    BY DEF AfterLayer
  <2> QED
    <3>1. slot[a][1] + 1 # 1
      BY <2>2 DEF Layers
    <3>2. FirstStop(ctl[a].step) = AfterLayer(slot[a][1])
      BY <1>3, <2>5
    <3> QED
      BY <2>6, <2>7, <3>1, <3>2 DEF AtEnd
<1>4. CASE pc[r] = "idle" /\ pc[q] = "idle"
  <2>1. ctl[r].step + 1 = ctl[q].step + 1
    BY <1>1, <1>2, <1>4, BegunCopy DEF ThenOf, Then
  <2>2. ctl[r].step = ctl[q].step
    BY <1>1, <2>1 DEF Copy
  <2> QED
    BY <1>1, <1>4, <2>2 DEF Together, Placed, Level
<1>5. CASE pc[r] = "apply" /\ pc[q] = "apply"
  <2>1. /\ slot[r] = <<slot[r][1], 0>> /\ slot[q] = <<slot[q][1], 0>>
        /\ slot[r][1] \in Layers /\ slot[q][1] \in Layers
    BY <1>1, <1>5 DEF Placed
  <2>2. ctl[r].step = ctl[q].step
    BY <1>1, <1>2, <1>5, <2>1, JudgedCopy DEF ThenOf, Then, Fields
  <2>3. AfterLayer(slot[r][1]) = AfterLayer(slot[q][1])
    BY <1>2, <1>5 DEF StopOf, Stop
  <2>4. slot[r][1] = slot[q][1]
    BY <2>1, <2>3 DEF AfterLayer, AtEnd, Layers
  <2>5. Level(pc[r], slot[r]) = Level(pc[q], slot[q])
    BY <1>5, <2>4 DEF Level
  <2> QED
    BY <1>5, <2>1, <2>2, <2>4, <2>5 DEF Together
<1> QED
  BY <1>2, <1>3, <1>4, <1>5

\* There is a leader, and it holds the copy every rank has that has arrived; or
\* the one they all have.
Led ==
  /\ Leader \in Ranks
  /\ ~failed => \A r \in Ranks :
       pc[r] \notin {"idle", "apply"} \/ (\A q \in Ranks : pc[q] \in {"idle", "apply"})
         => ctl[Leader] = ctl[r]

LEMMA LeaderIs == Inv => Led
<1> SUFFICES ASSUME Alone, Together, Stopped
             PROVE  Led
  BY DEF Inv
<1>1. ASSUME ~failed, \A r \in Ranks : pc[r] \in {"idle", "apply"}
      PROVE  \A r \in Ranks : Highest(r)
  <2> SUFFICES ASSUME NEW r \in Ranks, NEW q \in Ranks
               PROVE  ~Ahead(Position(q), Position(r))
    BY DEF Highest
  <2>1. pc[r] = pc[q] /\ slot[r] = slot[q] /\ ctl[r] = ctl[q]
    BY <1>1, NoneArrived
  <2> QED
    BY <2>1, AheadIs, Levels
<1>2. \E r \in Ranks : Highest(r)
  <2>1. CASE failed
    BY <2>1 DEF Stopped
  <2>2. CASE ~failed /\ \A r \in Ranks : pc[r] \in {"idle", "apply"}
    BY <1>1, <2>2
  <2>3. CASE ~failed /\ ~(\A r \in Ranks : pc[r] \in {"idle", "apply"})
    BY <2>3, ArrivedLeads
  <2> QED
    BY <2>1, <2>2, <2>3
<1>3. Leader \in Ranks /\ Highest(Leader)
  BY <1>2 DEF Leader, Highest
<1>4. ASSUME ~failed, NEW r \in Ranks,
             pc[r] \notin {"idle", "apply"} \/ (\A q \in Ranks : pc[q] \in {"idle", "apply"})
      PROVE  ctl[Leader] = ctl[r]
  <2>1. CASE pc[r] \notin {"idle", "apply"}
    <3>1. ~Ahead(Position(r), Position(Leader)) /\ ~Ahead(Position(Leader), Position(r))
      BY <1>3, <1>4, <2>1, ArrivedLeads DEF Highest
    <3>2. /\ ctl[r].step = ctl[Leader].step
          /\ Level(pc[r], slot[r]) = Level(pc[Leader], slot[Leader])
      BY <1>3, <3>1, AheadIs, Levels
    <3> QED
      BY <1>3, <1>4, <3>2 DEF Together
  <2>2. CASE \A q \in Ranks : pc[q] \in {"idle", "apply"}
    BY <1>3, <1>4, <2>2, NoneArrived
  <2> QED
    BY <1>4, <2>1, <2>2
<1> QED
  BY <1>3, <1>4 DEF Led

LEMMA StoppedStep == Inv /\ [Next]_vars => Stopped'
<1> SUFFICES ASSUME Inv, [Next]_vars, failed'
             PROVE  (\E r \in Ranks : Highest(r))' /\ \A r \in Ranks : ~ctl'[r].calibrated
  BY DEF Stopped
<1>1. Alone' /\ Alone /\ Together
  BY AloneStep DEF Inv
<1>2. CASE failed
  <2>1. UNCHANGED <<ctl, pc, slot>>
    <3>1. ~CrashAndResume
      BY DEF CrashAndResume
    <3>2. ~Work
      BY <1>2 DEF Work, RankStep, SkipObservation, WarmUp, WarmUpFails, Monitor, Start, Apply,
                  Forward, Reduce, CalibrateStep, CalibrateFails, OptimizerStep, Meet
    <3> QED
      BY <3>1, <3>2 DEF Next, SaveCheckpoint, Ended, vars
  <2>2. \A r \in Ranks : Position(r)' = Position(r)
    BY <2>1 DEF Position
  <2>3. \A r \in Ranks : Highest(r)' <=> Highest(r)
    BY <2>2 DEF Highest
  <2> QED
    BY <1>2, <2>1, <2>3 DEF Inv, Stopped
<1>3. ASSUME NEW r \in Ranks, WarmUpFails(r)
      PROVE  (\E q \in Ranks : Highest(q))' /\ \A q \in Ranks : ~ctl'[q].calibrated
  <2> DEFINE c == ctl[r]
             d == [c EXCEPT !.step = c.step + 1]
  <2>1. /\ ~failed /\ pc[r] = "idle" /\ c.step + 1 <= WarmupSteps
        /\ ctl' = [ctl EXCEPT ![r] = d]
        /\ UNCHANGED <<pc, slot>>
    BY <1>3 DEF WarmUpFails, Start
  <2>2. Copy(c) /\ Sound(c, "idle", slot[r])
    BY <1>1, <2>1 DEF Alone, Typed
  <2>3. ~c.calibrated
    BY <2>1, <2>2 DEF Sound, Copy
  <2>4. d.step = c.step + 1 /\ d.calibrated = c.calibrated
    BY <2>2 DEF Copy
  <2> HIDE DEF d
  <2>5. \A q \in Ranks : ctl'[q] = IF q = r THEN d ELSE ctl[q]
    BY <1>1, <2>1 DEF Alone, Typed
  <2>6. ASSUME NEW q \in Ranks
        PROVE  ctl[q].step <= c.step + 1 /\ ~ctl[q].calibrated
    <3>1. Copy(ctl[q]) /\ Placed(pc[q], slot[q]) /\ Energy(energy[q])
      BY <1>1 DEF Alone, Typed
    <3>2. ThenOf(q) = Begun(c)
      BY <1>1, <2>1 DEF Together, ThenOf, Then
    <3>3. Begun(c).step = c.step + 1 /\ Begun(c).calibrated = c.calibrated
      BY <2>2, BegunCopy
    <3>4. CASE pc[q] = "idle"
      <4>1. ThenOf(q) = Begun(ctl[q])
        BY <3>4 DEF ThenOf, Then
      <4>2. ThenOf(q).step = ctl[q].step + 1 /\ ThenOf(q).calibrated = ctl[q].calibrated
        BY <3>1, <4>1, BegunCopy
      <4> QED
        BY <2>2, <2>3, <3>1, <3>2, <3>3, <4>2 DEF Copy
    <3>5. CASE pc[q] = "apply"
      <4>1. ThenOf(q) = Judged(ctl[q], slot[q][1], energy[q]) /\ slot[q][1] \in Layers
        BY <3>1, <3>5 DEF ThenOf, Then, Placed
      <4>2. ThenOf(q).step = ctl[q].step /\ ThenOf(q).calibrated = ctl[q].calibrated
        BY <3>1, <4>1, JudgedCopy DEF Fields
      <4> QED
        BY <2>2, <2>3, <3>1, <3>2, <3>3, <4>2 DEF Copy
    <3>6. CASE pc[q] \notin {"idle", "apply"}
      <4>1. ThenOf(q) = ctl[q]
        BY <3>6 DEF ThenOf, Then
      <4> QED
        BY <2>2, <2>3, <3>1, <3>2, <3>3, <4>1 DEF Copy
    <3> QED
      BY <3>4, <3>5, <3>6
  <2>7. \A q \in Ranks : ctl'[q].step <= ctl'[r].step /\ ~ctl'[q].calibrated
    <3> TAKE q \in Ranks
    <3>1. c.step + 1 \in Nat
      BY <2>2 DEF Copy
    <3> QED
      BY <2>3, <2>4, <2>5, <2>6, <3>1
  <2>8. Position(r)' = <<ctl'[r].step, NumLayers>>
    BY <2>1 DEF Position
  <2>9. \A q \in Ranks : ~Ahead(Position(q)', Position(r)')
    <3> TAKE q \in Ranks
    <3>1. Position(q)' = <<ctl'[q].step, Level(pc[q], slot[q])>>
      <4>1. pc[q] \in Places
        BY <1>1 DEF Alone, Typed
      <4> QED
        BY <2>1, <4>1 DEF Position, Level, Places
    <3>2. Level(pc[q], slot[q]) \in 0..NumLayers
      BY <1>1, Levels
    <3>3. ctl'[q].step \in Nat /\ ctl'[r].step \in Nat
      BY <1>1 DEF Alone, Typed, Copy
    <3> QED
      BY <2>7, <2>8, <3>1, <3>2, <3>3 DEF Ahead
  <2> QED
    BY <2>7, <2>9 DEF Highest
<1>4. CASE CalibrateFails
  <2>1. ~failed /\ (\A r \in Ranks : pc[r] = "calibrate") /\ UNCHANGED <<ctl, pc, slot>>
    BY <1>4 DEF CalibrateFails, Meet
  <2>2. PICK r \in Ranks : TRUE
    OBVIOUS
  <2>3. Highest(r)
    BY <1>1, <2>1, ArrivedLeads
  <2>4. \A q \in Ranks : Position(q)' = Position(q)
    BY <2>1 DEF Position
  <2>5. Highest(r)'
    BY <2>3, <2>4 DEF Highest
  <2>6. \A q \in Ranks : ~ctl[q].calibrated
    BY <1>1, <2>1 DEF Alone, Sound
  <2> QED
    BY <2>1, <2>5, <2>6
<1>5. CASE ~failed /\ ~CalibrateFails /\ ~\E r \in Ranks : WarmUpFails(r)
  <2>1. ASSUME NEW r \in Ranks, RankStep(r)
        PROVE  ~failed'
    BY <1>1, <1>5, <2>1, RankAdvances DEF Advances
  <2>2. ~(Reduce \/ CalibrateStep \/ OptimizerStep \/ SaveCheckpoint \/ CrashAndResume \/ Ended
            \/ UNCHANGED vars)
    BY <1>5 DEF Reduce, CalibrateStep, OptimizerStep, SaveCheckpoint, CrashAndResume, Ended, vars
  <2> QED
    BY <1>5, <2>1, <2>2 DEF Next, Work
<1> QED
  BY <1>2, <1>3, <1>4, <1>5

LEMMA InvInit == Init => Inv
<1>1. Init => Stopped
  BY DEF Init, Stopped
<1> QED
  BY <1>1, AloneInit, TogetherInit, FlaggedInit DEF Inv

LEMMA InvStep == Inv /\ [Next]_vars => Inv'
  BY AloneStep, TogetherStep, FlaggedStep, StoppedStep DEF Inv

LEMMA LeaderNext == Inv' => Led'
  BY LeaderIs, PTL

-----------------------------------------------------------------------------
(* The bounds.                                                              *)

Pooling ==
  /\ energy \in [Ranks -> Energies]
  /\ crashes \in 0..MaxCrashes

LEMMA PoolingStep == Alone /\ Pooling /\ [Next]_vars => Pooling'
<1> SUFFICES ASSUME Alone, Pooling, [Next]_vars
             PROVE  Pooling'
  OBVIOUS
<1>1. CASE Reduce
  <2>1. Pooled \in Energies
    BY Pools DEF Alone, Typed
  <2> QED
    BY <1>1, <2>1 DEF Reduce, Reduced, Pooling
<1>2. CASE CrashAndResume
  <2>1. NoShift \in Energies
    BY FS_CardinalityType DEF NoShift, Energies
  <2> QED
    BY <1>2, <2>1 DEF CrashAndResume, Pooling
<1>3. CASE ~Reduce /\ ~CrashAndResume
  <2>1. energy' = energy /\ crashes' = crashes
    BY <1>3 DEF Next, Work, RankStep, SkipObservation, WarmUp, WarmUpFails, Monitor, Start, Apply,
                Forward, CalibrateStep, CalibrateFails, OptimizerStep, SaveCheckpoint, Ended, vars
  <2> QED
    BY <2>1 DEF Pooling
<1> QED
  BY <1>1, <1>2, <1>3

LEMMA ChecksBelow ==
  ASSUME NEW step \in Nat
  PROVE  ChecksDone(step) <= step
<1> DEFINE p == step \div Interval
           w == WarmupSteps \div Interval
<1>1. p \in Nat /\ step = Interval * p + (step % Interval) /\ step % Interval \in 0..(Interval - 1)
  BY Quotient
<1>2. w \in Nat
  BY Quotient
<1>3. ChecksDone(step) = p - w
  BY DEF ChecksDone
<1> HIDE DEF p, w
<1>4. Interval * p >= p
  BY <1>1
<1> QED
  BY <1>1, <1>2, <1>3, <1>4

\* A sound copy has its place in Controllers.
LEMMA Bounded ==
  ASSUME NEW c, Copy(c), Earned(c), Small(c), NEW place, NEW where \in Layers \X Nat,
         ~c.calibrated \/ Sound(c, place, where)
  PROVE  c \in Controllers
<1>1. \A l \in Layers : c.predictor[l].count <= MaxUpdates
  <2> TAKE l \in Layers
  <2>1. c.step \in Nat /\ c.step <= MaxUpdates /\ c.predictor[l].count \in Nat
    BY DEF Copy, Estimate, Small
  <2>2. CASE ~c.calibrated
    BY <2>1, <2>2 DEF Earned
  <2>3. CASE c.calibrated
    <3>1. c.predictor[l].count <= ChecksDone(c.step) - Owed(place, where, l)
      BY <2>3 DEF Sound
    <3>2. Owed(place, where, l) \in 0..1
      BY DEF Owed
    <3>3. ChecksDone(c.step) \in Int /\ ChecksDone(c.step) <= c.step
      BY <2>1, ChecksBelow, ChecksDoneNext
    <3> QED
      BY <2>1, <3>1, <3>2, <3>3
  <2> QED
    BY <2>2, <2>3
<1>2. \A l \in Layers : c.predictor[l] \in Predictors
  <2> TAKE l \in Layers
  <2> DEFINE p == c.predictor[l]
  <2>1. Estimate(p) /\ p.count <= MaxUpdates
    BY <1>1 DEF Copy
  <2> HIDE DEF p
  <2>2. p = [ema |-> p.ema, count |-> p.count, active |-> p.active]
    BY <2>1 DEF Estimate
  <2>3. p.ema \in 0..Scale /\ p.count \in 0..MaxUpdates /\ p.active \in BOOLEAN
    BY <2>1 DEF Estimate
  <2>4. p \in Predictors
    BY <2>2, <2>3 DEF Predictors
  <2> QED
    BY <2>4 DEF p
<1>3. c.predictor \in [Layers -> Predictors]
  BY <1>2 DEF Copy
<1>4. c.step \in 0..MaxUpdates /\ c.moments \in 0..MaxUpdates /\ c.records \in 0..MaxUpdates
  BY DEF Copy, Small
<1> QED
  BY <1>3, <1>4 DEF Copy, Controllers

LEMMA Typing == Inv /\ Pooling => TypeOK
<1> SUFFICES ASSUME Inv, Pooling
             PROVE  TypeOK
  OBVIOUS
<1>1. Alone /\ Typed /\ Flagged
  BY DEF Inv, Alone
<1>2. \A r \in Ranks : ctl[r] \in Controllers
  <2> TAKE r \in Ranks
  <2>1. Copy(ctl[r]) /\ Earned(ctl[r]) /\ Small(ctl[r]) /\ slot[r] \in Layers \X Nat
    BY <1>1 DEF Alone, Typed
  <2>2. ~ctl[r].calibrated \/ Sound(ctl[r], pc[r], slot[r])
    BY <1>1 DEF Inv, Stopped, Alone
  <2> QED
    BY <2>1, <2>2, Bounded
<1>3. \A r \in Ranks : saved[r] \in Controllers
  <2> TAKE r \in Ranks
  <2>1. /\ Copy(saved[r]) /\ Earned(saved[r]) /\ Small(saved[r])
        /\ Sound(saved[r], "idle", <<1, 0>>)
    BY <1>1 DEF Alone, Typed
  <2>2. <<1, 0>> \in Layers \X Nat
    BY DEF Layers
  <2> QED
    BY <2>1, <2>2, Bounded
<1>4. \A r \in Ranks : slot[r] \in Layers \X (0..(MaxUpdates + 2))
  <2> TAKE r \in Ranks
  <2>1. Placed(pc[r], slot[r]) /\ slot[r] \in Layers \X Nat /\ ctl[r] \in Controllers
    BY <1>1, <1>2 DEF Typed
  <2>2. slot[r][2] <= MaxUpdates + 2
    <3>1. CASE pc[r] = "calibrate"
      <4>1. slot[r][2] <= 2 + ctl[r].records /\ ctl[r].records \in 0..MaxUpdates
        BY <1>1, <2>1, <3>1 DEF Alone, Controllers
      <4>2. slot[r][2] \in Nat
        BY <2>1
      <4> QED
        BY <4>1, <4>2
    <3>2. CASE pc[r] # "calibrate"
      <4>1. slot[r][2] = 0
        BY <2>1, <3>2 DEF Placed, Places
      <4> QED
        BY <4>1
    <3> QED
      BY <3>1, <3>2
  <2> QED
    BY <2>1, <2>2
<1>5. ctl \in [Ranks -> Controllers] /\ saved \in [Ranks -> Controllers]
  BY <1>1, <1>2, <1>3 DEF Typed
<1>6. slot \in [Ranks -> Layers \X (0..(MaxUpdates + 2))]
  BY <1>1, <1>4 DEF Typed
<1> QED
  BY <1>1, <1>5, <1>6 DEF TypeOK, Typed, Flagged, Pooling

\* Every variable stays within its type: no step count, moment, record, run of
\* warnings or collective number passes its bound.
THEOREM TypeCorrect == Spec => []TypeOK
<1>1. Init => Pooling
  <2>1. NoShift \in Energies
    BY FS_CardinalityType DEF NoShift, Energies
  <2> QED
    BY <2>1 DEF Init, Pooling
<1>2. Inv => Alone
  BY DEF Inv
<1> QED
  BY <1>1, <1>2, InvInit, InvStep, PoolingStep, Typing, PTL DEF Spec

-----------------------------------------------------------------------------
(* The leader's copy is the controller of Hysteresis.                       *)

\* A verdict on one layer.
Judges(c, d, l) ==
  \/ /\ Warned(d) = [Warned(c) EXCEPT ![l] = @ + 1]
     /\ On(d) = IF Warned(c)[l] + 1 >= Persistence THEN On(c) \cup {l} ELSE On(c)
  \/ Warned(d) = [Warned(c) EXCEPT ![l] = 0] /\ On(d) = On(c)
  \/ Warned(d) = [Warned(c) EXCEPT ![l] = 0] /\ On(d) = On(c) \ {l}

LEMMA Verdict ==
  ASSUME NEW c, Copy(c), NEW l \in Layers, NEW e, Energy(e)
  PROVE  Judges(c, Judged(c, l, e), l)
<1> DEFINE d == Judged(c, l, e)
           p == c.predictor[l]
           u == Observed(p, e)
<1>1. \A k \in Layers : d.predictor[k] = IF k = l THEN u ELSE c.predictor[k]
  BY JudgedCopy
<1>2. Estimate(p)
  BY DEF Copy
<1>3. Warned(d) = [Warned(c) EXCEPT ![l] = u.count]
  BY <1>1 DEF Warned
<1>4. On(d) = IF u.active THEN On(c) \cup {l} ELSE On(c) \ {l}
  BY <1>1 DEF On
<1>5. Warned(c)[l] = p.count /\ (p.active <=> l \in On(c))
  BY DEF Warned, On
<1> HIDE DEF d, p
<1>6. CASE Valid(e)
  <2> DEFINE ema == Blend(p.ema, Psi(e))
             count == IF ema > Warning THEN p.count + 1 ELSE 0
  <2>1. u = [ema |-> ema, count |-> count,
             active |-> (p.active \/ count >= Persistence) /\ ~(ema < Release)]
    BY <1>6 DEF Observed, Updated
  <2>2. ema \in 0..Scale
    BY <1>2, <1>6, BlendBounded DEF Estimate
  <2> HIDE DEF ema, u
  <2>3. CASE ema > Warning
    <3>1. u.count = p.count + 1 /\ (u.active <=> p.active \/ p.count + 1 >= Persistence)
      <4>1. u.count = count /\ u.active = ((p.active \/ count >= Persistence) /\ ~(ema < Release))
        BY <2>1
      <4>2. count = p.count + 1 /\ ~(ema < Release)
        BY <2>2, <2>3
      <4> HIDE DEF count
      <4> QED
        BY <4>1, <4>2, Zenon
    <3>2. On(d) = IF p.count + 1 >= Persistence THEN On(c) \cup {l} ELSE On(c)
      BY <1>4, <1>5, <3>1
    <3> QED
      BY <1>3, <1>5, <3>1, <3>2 DEF d, Judges
  <2>4. CASE ~(ema > Warning)
    <3>1. u.count = 0 /\ (u.active <=> p.active /\ ~(ema < Release))
      <4>1. u.count = count /\ u.active = ((p.active \/ count >= Persistence) /\ ~(ema < Release))
        BY <2>1
      <4>2. count = 0 /\ ~(count >= Persistence)
        BY <2>4
      <4> HIDE DEF count
      <4> QED
        BY <4>1, <4>2, Zenon
    <3>2. On(d) = On(c) \/ On(d) = On(c) \ {l}
      BY <1>4, <1>5, <3>1
    <3> QED
      BY <1>3, <3>1, <3>2 DEF d, Judges
  <2> QED
    BY <2>3, <2>4
<1>7. CASE ~Valid(e)
  <2>1. u.count = 0 /\ u.active = p.active
    BY <1>2, <1>7 DEF Observed, Estimate
  <2>2. On(d) = On(c)
    BY <1>4, <1>5, <2>1
  <2> QED
    BY <1>3, <2>1, <2>2 DEF d, Judges
<1> QED
  BY <1>6, <1>7

\* What a copy shows of itself.
Shows(c, d) == Warned(c) = Warned(d) /\ On(c) = On(d)

LEMMA Uncalibrated ==
  ASSUME NEW c, Copy(c), Earned(c), ~c.calibrated
  PROVE  Warned(c) = [l \in Layers |-> 0] /\ On(c) = {}
  BY DEF Earned, Warned, On

\* The view of the refinement.
Kept == [warned |-> Warned(saved[Leader]), on |-> On(saved[Leader])]
View == <<Warned(ctl[Leader]), On(ctl[Leader]), Kept>>

\* A step that changes neither what the leader shows nor the checkpoint.
LEMMA Stutters ==
  ASSUME Led, Led', Together, saved' = saved, Shows(ctl'[Leader'], ctl[Leader])
  PROVE  [One!Next]_(One!vars)
<1>1. saved'[Leader'] = saved[Leader]
  BY DEF Led, Together
<1>2. UNCHANGED One!vars
  BY <1>1 DEF One!vars, Shows
<1> QED
  BY <1>2

LEMMA AdvancesOne ==
  ASSUME Inv, Inv', Led, Led', NEW r \in Ranks, NEW w, Advances(r, w)
  PROVE  [One!Next]_(One!vars)
<1>1. Alone /\ Together /\ Typed /\ ~failed /\ ~failed'
  BY DEF Inv, Alone, Advances
<1>2. /\ ctl'[r] = ThenOf(r) /\ pc'[r] \notin {"idle", "apply"} /\ saved' = saved
  BY <1>1, Arrived
<1>3. ctl'[Leader'] = ThenOf(r)
  BY <1>1, <1>2 DEF Led
<1>4. Copy(ctl[r]) /\ Placed(pc[r], slot[r]) /\ Energy(energy[r])
  BY <1>1 DEF Typed
<1>5. CASE \E q \in Ranks : pc[q] \notin {"idle", "apply"}
  <2>1. PICK q \in Ranks : pc[q] \notin {"idle", "apply"}
    BY <1>5
  <2>2. ctl[Leader] = ctl[q] /\ ThenOf(q) = ctl[q]
    BY <1>1, <2>1 DEF Led, ThenOf, Then
  <2>3. ThenOf(r) = ctl[Leader]
    BY <1>1, <2>2 DEF Together
  <2> QED
    BY <1>1, <1>2, <1>3, <2>3, Stutters DEF Shows
<1>6. CASE (\A q \in Ranks : pc[q] \in {"idle", "apply"}) /\ pc[r] = "idle"
  <2>1. ctl[Leader] = ctl[r] /\ ThenOf(r) = Begun(ctl[r])
    BY <1>1, <1>6 DEF Led, ThenOf, Then
  <2>2. Begun(ctl[r]).predictor = ctl[r].predictor
    BY <1>4, BegunCopy
  <2>3. Shows(ThenOf(r), ctl[r])
    BY <2>1, <2>2 DEF Shows, Warned, On
  <2> QED
    BY <1>1, <1>2, <1>3, <2>1, <2>3, Stutters
<1>7. CASE (\A q \in Ranks : pc[q] \in {"idle", "apply"}) /\ pc[r] = "apply"
  <2> DEFINE l == slot[r][1]
             c == ctl[Leader]
             d == ctl'[Leader']
  <2>1. c = ctl[r] /\ d = Judged(c, l, energy[r]) /\ l \in Layers
    BY <1>1, <1>3, <1>4, <1>7 DEF Led, ThenOf, Then, Placed
  <2>2. Copy(c)
    BY <1>4, <2>1
  <2>3. saved'[Leader'] = saved[Leader]
    BY <1>1, <1>2 DEF Led, Together
  <2>4. Judges(c, d, l)
    BY <1>4, <2>1, <2>2, Verdict
  <2> HIDE DEF l
  <2>5. One!Above(l) \/ One!Between(l) \/ One!Below(l)
    BY <2>3, <2>4 DEF Judges, One!Above, One!Between, One!Below
  <2> QED
    BY <2>1, <2>5 DEF One!Next
<1> QED
  BY <1>5, <1>6, <1>7

LEMMA CollectiveOne ==
  ASSUME Inv, Inv', Led, Led', Reduce \/ CalibrateStep \/ OptimizerStep
  PROVE  [One!Next]_(One!vars)
<1>1. Alone /\ Together /\ Typed /\ ~failed /\ ~failed' /\ saved' = saved
  BY DEF Inv, Alone, Reduce, CalibrateStep, OptimizerStep, Meet
<1>2. PICK r \in Ranks : TRUE
  OBVIOUS
<1>3. pc[r] \notin {"idle", "apply"}
  BY DEF Reduce, CalibrateStep, OptimizerStep, Meet
<1>4. ctl[Leader] = ctl[r]
  BY <1>1, <1>3 DEF Led
<1>5. ctl'[Leader'] = ctl'[r]
  <2>1. CASE Reduce
    <3>1. \A q \in Ranks : pc'[q] = "apply"
      BY <2>1 DEF Reduce
    <3> QED
      BY <1>1, <3>1 DEF Led
  <2>2. CASE OptimizerStep
    <3>1. \A q \in Ranks : pc'[q] = "idle"
      BY <2>2 DEF OptimizerStep
    <3> QED
      BY <1>1, <3>1 DEF Led
  <2>3. CASE CalibrateStep
    <3>1. pc'[r] \in {"calibrate", "forward"}
      BY <2>3 DEF CalibrateStep
    <3> QED
      BY <1>1, <3>1 DEF Led
  <2> QED
    BY <2>1, <2>2, <2>3
<1>6. Shows(ctl'[r], ctl[r])
  <2>1. CASE Reduce \/ OptimizerStep
    BY <2>1 DEF Reduce, OptimizerStep, Shows
  <2>2. CASE CalibrateStep
    <3>1. Copy(ctl[r]) /\ Earned(ctl[r]) /\ ~ctl[r].calibrated
      BY <1>1, <2>2 DEF CalibrateStep, Meet, Alone, Typed, Sound
    <3>2. Warned(ctl[r]) = [l \in Layers |-> 0] /\ On(ctl[r]) = {}
      BY <3>1, Uncalibrated
    <3>3. PICK median \in [Layers -> 0..(Release - 1)] :
            ctl'[r] = IF NextSlot(r)[1] \in Layers THEN ctl[r] ELSE Calibrated(ctl[r], median)
      BY <2>2 DEF CalibrateStep
    <3>4. CASE ctl'[r] = Calibrated(ctl[r], median)
      <4>1. \A l \in Layers : ctl'[r].predictor[l] = [ema |-> median[l], count |-> 0, active |-> FALSE]
        BY <3>1, <3>4 DEF Calibrated, Copy
      <4> DEFINE d == ctl'[r]
      <4>2. ASSUME NEW l \in Layers
            PROVE  d.predictor[l].count = 0 /\ ~d.predictor[l].active
        <5> DEFINE p == [ema |-> median[l], count |-> 0, active |-> FALSE]
        <5>1. d.predictor[l] = p
          BY <4>1
        <5>2. p.count = 0 /\ ~p.active
          OBVIOUS
        <5> QED
          BY <5>1, <5>2
      <4> HIDE DEF d
      <4>3. Warned(d) = [l \in Layers |-> 0]
        BY <4>2 DEF Warned
      <4>4. On(d) = {}
        BY <4>2 DEF On
      <4>5. Warned(d) = Warned(ctl[r]) /\ On(d) = On(ctl[r])
        BY <3>2, <4>3, <4>4
      <4> QED
        BY <4>5 DEF Shows, d
    <3> QED
      BY <3>3, <3>4 DEF Shows
  <2> QED
    BY <2>1, <2>2
<1> QED
  BY <1>1, <1>4, <1>5, <1>6, Stutters

LEMMA OneStep == Inv /\ Inv' /\ [Next]_vars => [One!Next]_(One!vars)
<1> SUFFICES ASSUME Inv, Inv', [Next]_vars
             PROVE  [One!Next]_(One!vars)
  OBVIOUS
<1>1. Led /\ Led' /\ Alone /\ Together
  BY LeaderIs, LeaderNext DEF Inv
<1>2. ASSUME NEW r \in Ranks, WarmUpFails(r)
      PROVE  [One!Next]_(One!vars)
  <2>1. ~failed /\ pc[r] = "idle" /\ failed' /\ saved' = saved /\ UNCHANGED <<pc, slot>>
    BY <1>2 DEF WarmUpFails, Start
  <2>2. Leader \in Ranks /\ Leader' \in Ranks
    BY <1>1 DEF Led
  <2>3. \A q \in Ranks : ~ctl'[q].calibrated /\ Copy(ctl'[q]) /\ Earned(ctl'[q])
    BY <2>1 DEF Inv, Stopped, Alone, Typed
  <2>4. Copy(ctl[Leader]) /\ Earned(ctl[Leader])
    BY <1>1, <2>2 DEF Alone, Typed
  <2>5. ctl'[Leader].calibrated = ctl[Leader].calibrated
    <3>1. ctl' = [ctl EXCEPT ![r] = [ctl[r] EXCEPT !.step = ctl[r].step + 1]]
      BY <1>2 DEF WarmUpFails
    <3>2. [ctl[r] EXCEPT !.step = ctl[r].step + 1].calibrated = ctl[r].calibrated
      BY <1>1 DEF Alone, Typed, Copy
    <3> QED
      BY <1>1, <2>2, <3>1, <3>2 DEF Alone, Typed
  <2>6. ~ctl[Leader].calibrated
    BY <2>2, <2>3, <2>5
  <2>7. Shows(ctl'[Leader'], ctl[Leader])
    BY <2>2, <2>3, <2>4, <2>6, Uncalibrated DEF Shows
  <2> QED
    BY <1>1, <2>1, <2>7, Stutters
<1>3. CASE CalibrateFails \/ Ended \/ UNCHANGED vars
  <2>1. UNCHANGED <<ctl, pc, slot, saved>>
    BY <1>3 DEF CalibrateFails, Ended, vars
  <2>2. Leader' = Leader
    BY <2>1 DEF Leader, Ahead, Position
  <2> QED
    BY <1>1, <2>1, <2>2, Stutters DEF Shows
<1>4. CASE SaveCheckpoint
  <2>1. /\ ~failed /\ ~failed' /\ saved' = ctl /\ UNCHANGED <<ctl, pc, slot>>
        /\ \A q \in Ranks : pc[q] = "idle"
    BY <1>4 DEF SaveCheckpoint, AllIdle
  <2>2. PICK r \in Ranks : TRUE
    OBVIOUS
  <2>3. ctl[Leader] = ctl[r] /\ ctl'[Leader'] = ctl[r]
    BY <1>1, <2>1 DEF Led
  <2>4. saved'[Leader'] = ctl[Leader]
    BY <2>1, <2>3
  <2>5. One!Save
    BY <2>3, <2>4 DEF One!Save
  <2> QED
    BY <2>5 DEF One!Next
<1>5. CASE CrashAndResume
  <2>1. /\ ~failed' /\ saved' = saved /\ ctl' = [r \in Ranks |-> saved[r]]
        /\ \A q \in Ranks : pc'[q] = "idle"
    BY <1>5 DEF CrashAndResume, Restored
  <2>2. Leader \in Ranks /\ Leader' \in Ranks
    BY <1>1 DEF Led
  <2>3. ctl'[Leader'] = saved[Leader] /\ saved'[Leader'] = saved[Leader]
    BY <1>1, <2>1, <2>2 DEF Together
  <2>4. One!Resume
    BY <2>3 DEF One!Resume
  <2> QED
    BY <2>4 DEF One!Next
<1>6. ASSUME NEW r \in Ranks, RankStep(r), ~WarmUpFails(r)
      PROVE  [One!Next]_(One!vars)
  BY <1>1, <1>6, RankAdvances, AdvancesOne
<1> QED
  BY <1>1, <1>2, <1>3, <1>4, <1>5, <1>6, CollectiveOne DEF Next, Work

\* The copies of all ranks behave as the one controller of the documentation
\* does: every monitored update passes one verdict per layer.
THEOREM CopiesAreOne == Spec => ActsAsOne
<1>1. Init => One!Init
  <2> SUFFICES ASSUME Init
               PROVE  One!Init
    OBVIOUS
  <2>1. Leader \in Ranks
    BY InvInit, LeaderIs DEF Led
  <2>2. ctl[Leader] = Fresh /\ saved[Leader] = Fresh
    BY <2>1 DEF Init
  <2>3. Copy(Fresh) /\ Earned(Fresh) /\ ~Fresh.calibrated
    BY FreshCopy DEF Fresh
  <2>4. Warned(Fresh) = [l \in Layers |-> 0] /\ On(Fresh) = {}
    BY <2>3, Uncalibrated
  <2> QED
    BY <2>2, <2>4 DEF One!Init
<1> QED
  BY <1>1, InvInit, InvStep, OneStep, PTL DEF Spec, ActsAsOne, One!Spec

-----------------------------------------------------------------------------
(* Nobody is blocked.                                                       *)

\* The guards of Work: an update begins, a rank applies a verdict or runs a
\* forward pass, or all ranks meet.
SomebodyCanGoOn ==
  \/ \E r \in Ranks : pc[r] = "idle" /\ ctl[r].step < MaxUpdates
  \/ \E r \in Ranks : pc[r] \in {"apply", "forward"}
  \/ \E place \in Collective : Meet(place)

\* Until the training ends or a rank raises, somebody can take a step: ranks
\* that wait in a collective are never kept waiting by one that skipped it
\* (distributed_sum, calibrate, the optimizer step).
THEOREM NobodyBlocked == Spec => [](Trained \/ failed \/ SomebodyCanGoOn)
<1>1. Alone /\ Together => Trained \/ failed \/ SomebodyCanGoOn
  <2> SUFFICES ASSUME Alone, Together, ~failed, ~SomebodyCanGoOn
               PROVE  Trained
    OBVIOUS
  <2>1. \A r \in Ranks : /\ pc[r] \in Places /\ Copy(ctl[r])
                         /\ ctl[r].step \in Nat /\ ctl[r].step <= MaxUpdates
    BY DEF Alone, Typed, Small, Copy
  <2>2. ASSUME NEW r \in Ranks
        PROVE  (pc[r] = "idle" /\ ctl[r].step = MaxUpdates) \/ pc[r] \in Collective
    <3>1. pc[r] \notin {"apply", "forward"} /\ ~(pc[r] = "idle" /\ ctl[r].step < MaxUpdates)
      BY DEF SomebodyCanGoOn
    <3>2. ctl[r].step < MaxUpdates \/ ctl[r].step = MaxUpdates
      BY <2>1
    <3> QED
      BY <2>1, <3>1, <3>2 DEF Places, Collective
  <2>3. ASSUME NEW r \in Ranks, NEW q \in Ranks, pc[r] = "idle", pc[q] \in Collective
        PROVE  FALSE
    <3>1. ThenOf(r) = Begun(ctl[r]) /\ ThenOf(q) = ctl[q]
      BY <2>3 DEF ThenOf, Then, Collective
    <3>2. ctl[q].step = ctl[r].step + 1
      BY <2>1, <3>1, BegunCopy DEF Together
    <3>3. ctl[r].step = MaxUpdates
      BY <2>2, <2>3 DEF Collective
    <3> QED
      BY <2>1, <3>2, <3>3
  <2>4. ASSUME NEW r \in Ranks, pc[r] \in Collective
        PROVE  FALSE
    <3>1. \A q \in Ranks : pc[q] \in Collective
      BY <2>2, <2>3, <2>4
    <3>2. \A q \in Ranks : StopOf(q) = <<pc[q], slot[q]>>
      BY <3>1 DEF StopOf, Stop, Collective
    <3>3. \A q, p \in Ranks : pc[q] = pc[p] /\ slot[q] = slot[p]
      BY <3>2 DEF Together
    <3>4. Meet(pc[r])
      BY <3>3 DEF Meet
    <3> QED
      BY <2>4, <3>4 DEF SomebodyCanGoOn
  <2> QED
    BY <2>2, <2>4 DEF Trained, AllIdle
<1> QED
  BY <1>1, Invariant, PTL

-----------------------------------------------------------------------------
(* The work of a training runs out.  A rank passes through the units of its *)
(* updates in lexicographic order: the update, the stage of it, the layer,  *)
(* and the collective of the layer or the micro-batch.                      *)

Stage(place) ==
  CASE place \in {"calibrate", "reduce", "apply"} -> 0
    [] place = "forward" -> 1
    [] place = "optimizer" -> 2
    [] place = "idle" -> 3

Number(r) ==
  CASE pc[r] = "calibrate" -> slot[r][2]
    [] pc[r] = "apply" -> 1
    [] pc[r] = "forward" -> batch[r]
    [] OTHER -> 0

Units == ((0..MaxUpdates) \X (0..3)) \X (Layers \X (0..(MaxUpdates + 2 + MicroBatches)))

Later(s, g, l, n, step, stage, layer, number) ==
  \/ s > step
  \/ s = step /\ g > stage
  \/ s = step /\ g = stage /\ l > layer
  \/ s = step /\ g = stage /\ l = layer /\ n > number

LeftOf(r) ==
  {u \in Units : Later(u[1][1], u[1][2], u[2][1], u[2][2],
                       ctl[r].step, Stage(pc[r]), slot[r][1], Number(r))}

\* A rank has left this unit for a later one.
Passes(r) ==
  Later(ctl'[r].step, Stage(pc'[r]), slot'[r][1], Number(r)',
        ctl[r].step, Stage(pc[r]), slot[r][1], Number(r))

Remains(r) ==
  /\ ctl'[r].step = ctl[r].step
  /\ pc'[r] = pc[r]
  /\ slot'[r] = slot[r]
  /\ batch'[r] = batch[r]

\* And who fails does nothing any more.
Left ==
  Cardinality({x \in Ranks \X Units : x[2] \in LeftOf(x[1])}) + (IF failed THEN 0 ELSE 1)

LEMMA StageIs == \A place \in Places : Stage(place) \in 0..3
BY DEF Stage, Places

LEMMA UnitIs ==
  ASSUME NEW r \in Ranks
  PROVE  /\ TypeOK => <<<<ctl[r].step, Stage(pc[r])>>, <<slot[r][1], Number(r)>>>> \in Units
         /\ TypeOK' => <<<<ctl'[r].step, Stage(pc'[r])>>, <<slot'[r][1], Number(r)'>>>> \in Units
<1>1. ASSUME TypeOK
      PROVE  <<<<ctl[r].step, Stage(pc[r])>>, <<slot[r][1], Number(r)>>>> \in Units
  <2>1. ctl[r].step \in 0..MaxUpdates
    BY <1>1 DEF TypeOK, Controllers
  <2>2. Stage(pc[r]) \in 0..3
    BY <1>1, StageIs DEF TypeOK
  <2>3. slot[r][1] \in Layers /\ slot[r][2] \in 0..(MaxUpdates + 2) /\ batch[r] \in 0..MicroBatches
    BY <1>1 DEF TypeOK
  <2>4. Number(r) \in 0..(MaxUpdates + 2 + MicroBatches)
    BY <2>3 DEF Number
  <2> QED
    BY <2>1, <2>2, <2>3, <2>4 DEF Units
<1>2. ASSUME TypeOK'
      PROVE  <<<<ctl'[r].step, Stage(pc'[r])>>, <<slot'[r][1], Number(r)'>>>> \in Units
  <2>1. ctl'[r].step \in 0..MaxUpdates
    BY <1>2 DEF TypeOK, Controllers
  <2>2. Stage(pc'[r]) \in 0..3
    BY <1>2, StageIs DEF TypeOK
  <2>3. slot'[r][1] \in Layers /\ slot'[r][2] \in 0..(MaxUpdates + 2) /\ batch'[r] \in 0..MicroBatches
    BY <1>2 DEF TypeOK
  <2>4. Number(r)' \in 0..(MaxUpdates + 2 + MicroBatches)
    BY <2>3 DEF Number
  <2> QED
    BY <2>1, <2>2, <2>3, <2>4 DEF Units
<1> QED
  BY <1>1, <1>2

LEMMA UnitsAreNumbers ==
  ASSUME NEW u \in Units
  PROVE  u[1][1] \in Nat /\ u[1][2] \in Nat /\ u[2][1] \in Nat /\ u[2][2] \in Nat
BY DEF Units, Layers

LEMMA RankPasses ==
  ASSUME TypeOK, TypeOK', NEW r \in Ranks, Passes(r)
  PROVE  LeftOf(r)' \subseteq LeftOf(r) /\ LeftOf(r)' # LeftOf(r)
<1> DEFINE s == ctl[r].step
           g == Stage(pc[r])
           l == slot[r][1]
           n == Number(r)
           t == ctl'[r].step
           h == Stage(pc'[r])
           k == slot'[r][1]
           m == Number(r)'
           there == <<<<t, h>>, <<k, m>>>>
<1>1. <<<<s, g>>, <<l, n>>>> \in Units /\ there \in Units
  BY UnitIs
<1>2. /\ s \in Nat /\ g \in Nat /\ l \in Nat /\ n \in Nat
      /\ t \in Nat /\ h \in Nat /\ k \in Nat /\ m \in Nat
  BY <1>1 DEF Units, Layers
<1>3. Later(t, h, k, m, s, g, l, n)
  BY DEF Passes
<1>4. LeftOf(r) = {u \in Units : Later(u[1][1], u[1][2], u[2][1], u[2][2], s, g, l, n)}
  BY DEF LeftOf
<1>5. LeftOf(r)' = {u \in Units : Later(u[1][1], u[1][2], u[2][1], u[2][2], t, h, k, m)}
  BY DEF LeftOf
<1> HIDE DEF s, g, l, n, t, h, k, m
<1>6. ASSUME NEW u \in Units, Later(u[1][1], u[1][2], u[2][1], u[2][2], t, h, k, m)
      PROVE  Later(u[1][1], u[1][2], u[2][1], u[2][2], s, g, l, n)
  <2>1. u[1][1] \in Nat /\ u[1][2] \in Nat /\ u[2][1] \in Nat /\ u[2][2] \in Nat
    BY UnitsAreNumbers
  <2> QED
    BY <1>2, <1>3, <1>6, <2>1 DEF Later
<1>7. LeftOf(r)' \subseteq LeftOf(r)
  BY <1>4, <1>5, <1>6
<1>8. there \in LeftOf(r) /\ there \notin LeftOf(r)'
  <2>1. ~Later(t, h, k, m, t, h, k, m)
    BY <1>2 DEF Later
  <2> QED
    BY <1>1, <1>3, <1>4, <1>5, <2>1
<1> QED
  BY <1>7, <1>8

LEMMA RankRemains ==
  ASSUME NEW r \in Ranks, Remains(r)
  PROVE  LeftOf(r)' = LeftOf(r)
<1>1. Number(r)' = Number(r)
  BY DEF Remains, Number
<1> QED
  BY <1>1 DEF Remains, LeftOf

LEMMA LeftFalls ==
  ASSUME TypeOK, TypeOK', ~failed,
         \A r \in Ranks : Passes(r) \/ Remains(r),
         failed' \/ \E r \in Ranks : Passes(r)
  PROVE  Left \in Nat /\ Left' \in Nat /\ Left' < Left
<1> DEFINE All == Ranks \X Units
           S == {x \in All : x[2] \in LeftOf(x[1])}
           T == {x \in All : x[2] \in LeftOf(x[1])'}
<1>1. IsFiniteSet(All)
  <2>1. \A n \in Int : IsFiniteSet(0..n)
    BY FS_Interval
  <2>2. IsFiniteSet(Layers)
    BY FS_Interval DEF Layers
  <2>3. MaxUpdates \in Int /\ 3 \in Int /\ MaxUpdates + 2 + MicroBatches \in Int
    OBVIOUS
  <2>4. /\ IsFiniteSet(0..MaxUpdates) /\ IsFiniteSet(0..3)
        /\ IsFiniteSet(0..(MaxUpdates + 2 + MicroBatches))
    BY <2>1, <2>3, Zenon
  <2>5. /\ IsFiniteSet((0..MaxUpdates) \X (0..3))
        /\ IsFiniteSet(Layers \X (0..(MaxUpdates + 2 + MicroBatches)))
    BY <2>2, <2>4, FS_Product
  <2>6. IsFiniteSet(Units)
    BY <2>5, FS_Product DEF Units
  <2> QED
    BY <2>6, FS_Product
<1>2. \A r \in Ranks : LeftOf(r)' \subseteq LeftOf(r)
  BY RankPasses, RankRemains
<1>3. T \subseteq S
  BY <1>2
<1>4. IsFiniteSet(S)
  BY <1>1, FS_Subset
<1>5. /\ Cardinality(S) \in Nat /\ Cardinality(T) \in Nat
      /\ Cardinality(T) <= Cardinality(S)
      /\ T # S => Cardinality(T) # Cardinality(S)
  BY <1>3, <1>4, FS_Subset, FS_CardinalityType
<1>6. ASSUME NEW r \in Ranks, Passes(r)
      PROVE  T # S
  <2>1. PICK u : u \in LeftOf(r) /\ u \notin LeftOf(r)'
    BY <1>6, RankPasses
  <2>2. u \in Units
    BY <2>1 DEF LeftOf
  <2>3. <<r, u>> \in S /\ <<r, u>> \notin T
    BY <2>1, <2>2
  <2> QED
    BY <2>3
<1>7. /\ Left = Cardinality(S) + 1
      /\ Left' = Cardinality(T) + (IF failed' THEN 0 ELSE 1)
  BY DEF Left
<1> HIDE DEF S, T
<1>8. CASE failed'
  BY <1>5, <1>7, <1>8
<1>9. CASE ~failed'
  BY <1>5, <1>6, <1>7, <1>9
<1> QED
  BY <1>8, <1>9

LEMMA WorkLowersLeft ==
  ASSUME TypeOK, TypeOK', Inv, Work
  PROVE  Left \in Nat /\ Left' \in Nat /\ Left' < Left
<1>1. ~failed
  BY DEF Work, RankStep, SkipObservation, WarmUp, WarmUpFails, Monitor, Start, Apply, Forward,
         Reduce, CalibrateStep, CalibrateFails, OptimizerStep, Meet
<1>2. ASSUME NEW r \in Ranks, RankStep(r)
      PROVE  Passes(r) /\ \A q \in Ranks : q = r \/ Remains(q)
  <2>1. ASSUME SkipObservation(r) \/ WarmUp(r) \/ WarmUpFails(r) \/ Monitor(r)
        PROVE  Passes(r) /\ \A q \in Ranks : q = r \/ Remains(q)
    <3>1. ctl'[r].step = ctl[r].step + 1 /\ ctl[r].step \in Nat
      BY <2>1 DEF SkipObservation, WarmUp, WarmUpFails, Monitor, TypeOK, Controllers
    <3>2. \A q \in Ranks : q # r => ctl'[q] = ctl[q] /\ batch'[q] = batch[q]
      BY <2>1 DEF SkipObservation, WarmUp, WarmUpFails, Monitor, Start, TypeOK
    <3>3. \A q \in Ranks : q # r => pc'[q] = pc[q] /\ slot'[q] = slot[q]
      BY <2>1 DEF SkipObservation, WarmUp, WarmUpFails, Monitor, Go, TypeOK
    <3> QED
      BY <3>1, <3>2, <3>3 DEF Passes, Later, Remains
  <2>2. ASSUME Apply(r)
        PROVE  Passes(r) /\ \A q \in Ranks : q = r \/ Remains(q)
    <3>1. ctl'[r].step = ctl[r].step
      BY <2>2 DEF Apply, TypeOK, Controllers
    <3>2. \A q \in Ranks : q # r => ctl'[q] = ctl[q] /\ batch'[q] = batch[q]
      BY <2>2 DEF Apply, TypeOK
    <3>3. \A q \in Ranks : q # r => pc'[q] = pc[q] /\ slot'[q] = slot[q]
      BY <2>2 DEF Apply, Go, TypeOK
    <3>4. \/ pc'[r] = "reduce" /\ slot'[r] = <<slot[r][1] + 1, 0>>
          \/ pc'[r] = "forward"
      BY <2>2 DEF Apply, Go, TypeOK
    <3>5. pc[r] = "apply" /\ slot[r][1] \in Nat
      <4>1. slot[r][1] \in Layers
        BY DEF TypeOK
      <4> QED
        BY <2>2, <4>1 DEF Apply, Layers
    <3> QED
      BY <3>1, <3>2, <3>3, <3>4, <3>5 DEF Passes, Later, Remains, Stage
  <2>3. ASSUME Forward(r)
        PROVE  Passes(r) /\ \A q \in Ranks : q = r \/ Remains(q)
    <3>1. \A q \in Ranks : q # r => pc'[q] = pc[q] /\ batch'[q] = batch[q]
      BY <2>3 DEF Forward, TypeOK
    <3>2. ctl' = ctl /\ slot' = slot /\ pc[r] = "forward"
      BY <2>3 DEF Forward
    <3>3. batch'[r] = batch[r] + 1 /\ batch[r] \in Nat
      BY <2>3 DEF Forward, TypeOK
    <3>4. pc'[r] \in {"forward", "optimizer"}
      BY <2>3 DEF Forward, TypeOK
    <3>5. CASE pc'[r] = "forward"
      <4>1. Number(r) = batch[r] /\ Number(r)' = batch[r] + 1
        BY <3>2, <3>3, <3>5 DEF Number
      <4>2. Stage(pc'[r]) = Stage(pc[r])
        BY <3>2, <3>5
      <4>3. Passes(r)
        BY <3>2, <3>3, <4>1, <4>2 DEF Passes, Later
      <4> QED
        BY <3>1, <3>2, <4>3 DEF Remains
    <3>6. CASE pc'[r] = "optimizer"
      BY <3>1, <3>2, <3>6 DEF Passes, Later, Remains, Stage
    <3> QED
      BY <3>4, <3>5, <3>6
  <2> QED
    BY <1>2, <2>1, <2>2, <2>3 DEF RankStep
<1>3. CASE Reduce
  <2>1. ASSUME NEW r \in Ranks
        PROVE  Passes(r)
    <3>1. ctl' = ctl /\ slot' = slot /\ pc[r] = "reduce" /\ pc'[r] = "apply"
      BY <1>3 DEF Reduce, Meet
    <3> QED
      BY <3>1 DEF Passes, Later, Stage, Number
  <2> QED
    BY <1>1, <2>1, LeftFalls
<1>4. CASE OptimizerStep
  <2>1. ASSUME NEW r \in Ranks
        PROVE  Passes(r)
    <3>1. ctl' = ctl /\ pc[r] = "optimizer" /\ pc'[r] = "idle"
      BY <1>4 DEF OptimizerStep, Meet
    <3> QED
      BY <3>1 DEF Passes, Later, Stage
  <2> QED
    BY <1>1, <2>1, LeftFalls
<1>5. CASE CalibrateStep
  <2>1. ASSUME NEW r \in Ranks
        PROVE  Passes(r)
    <3>1. ctl'[r].step = ctl[r].step
      <4>1. ctl[r] \in Controllers
        BY DEF TypeOK
      <4>2. \A median : Calibrated(ctl[r], median).step = ctl[r].step
        BY <4>1 DEF Calibrated, Controllers
      <4>3. ctl'[r] = ctl[r] \/ \E median : ctl'[r] = Calibrated(ctl[r], median)
        BY <1>5 DEF CalibrateStep
      <4> QED
        BY <4>2, <4>3
    <3>2. pc[r] = "calibrate" /\ slot[r] \in Layers \X Nat
      BY <1>5 DEF CalibrateStep, Meet, TypeOK
    <3>3. CASE NextSlot(r)[1] \in Layers
      <4>1. pc'[r] = "calibrate" /\ slot'[r] = NextSlot(r)
        BY <1>5, <3>3 DEF CalibrateStep
      <4>2. /\ Number(r) = slot[r][2] /\ Number(r)' = slot'[r][2]
            /\ Stage(pc'[r]) = Stage(pc[r])
        BY <3>2, <4>1 DEF Number
      <4>3. \/ slot'[r] = <<slot[r][1], slot[r][2] + 1>>
            \/ slot'[r] = <<slot[r][1] + 1, 1>>
        BY <4>1 DEF NextSlot
      <4>4. slot[r][1] \in Nat /\ slot[r][2] \in Nat
        BY <3>2 DEF Layers
      <4> QED
        BY <3>1, <4>2, <4>3, <4>4 DEF Passes, Later
    <3>4. CASE NextSlot(r)[1] \notin Layers
      <4>1. pc'[r] = "forward"
        BY <1>5, <3>4 DEF CalibrateStep
      <4> QED
        BY <3>1, <3>2, <4>1 DEF Passes, Later, Stage
    <3> QED
      BY <3>3, <3>4
  <2> QED
    BY <1>1, <2>1, LeftFalls
<1>6. CASE CalibrateFails
  <2>1. failed' /\ \A r \in Ranks : Remains(r)
    BY <1>6 DEF CalibrateFails, Remains
  <2> QED
    BY <1>1, <2>1, LeftFalls
<1>7. CASE \E r \in Ranks : RankStep(r)
  BY <1>1, <1>2, <1>7, LeftFalls
<1> QED
  BY <1>3, <1>4, <1>5, <1>6, <1>7 DEF Work

\* Ranks never go round in circles: every step of one, and every collective,
\* leaves them fewer to take, so a training that does not crash comes to its
\* end after a number of steps that its start determines (observe_update's
\* loop over the layers, calibrate's over the records, the micro-batches).
THEOREM WorkRunsOut ==
  Spec => [][Work => Left \in Nat /\ Left' \in Nat /\ Left' < Left]_vars
<1>1. TypeOK /\ TypeOK' /\ Inv /\ [Next]_vars
      => [Work => Left \in Nat /\ Left' \in Nat /\ Left' < Left]_vars
  BY WorkLowersLeft
<1> QED
  BY <1>1, TypeCorrect, InvInit, InvStep, PTL DEF Spec
=============================================================================
