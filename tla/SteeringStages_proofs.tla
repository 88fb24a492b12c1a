------------------------- MODULE SteeringStages_proofs -------------------------
(***************************************************************************)
(* The stages of the steering curricula for any number of vectors, steps,  *)
(* mini-batches and crashes: rollouts and training inject the same vector, *)
(* a stage hands its rows on, a frozen alpha stays, a closed row strays at *)
(* most once, and updates have a gradient.  Where the rollouts are not     *)
(* told their step, they are one step behind.                              *)
(***************************************************************************)
EXTENDS SteeringStages, FiniteSetTheorems, TLAPS

USE SteeringAssumption

-----------------------------------------------------------------------------
(* Stages.                                                                  *)

\* A stage is a number up to the last one.
LEMMA StageType ==
  /\ LastStage \in Nat
  /\ StageSteps \in Nat \ {0}
  /\ \A s \in Nat : Stage(s) \in 0..LastStage
  <1> DEFINE doublings == {k \in 0..NumVectors : 2^k < NumVectors}
  <1>1. IsFiniteSet(0..NumVectors)
    BY FS_Interval
  <1>2. IsFiniteSet(doublings)
    BY <1>1, FS_Subset
  <1>3. LastStage \in Nat
    BY <1>2, FS_CardinalityType DEF LastStage
  <1>4. StageSteps \in Nat \ {0}
    BY DEF StageSteps
  <1> HIDE DEF doublings
  <1>5. ASSUME NEW s \in Nat PROVE Stage(s) \in 0..LastStage
    <2>1. s \div StageSteps \in Nat
      BY <1>4
    <2> QED
      BY <2>1, <1>3 DEF Stage, Lesser
  <1> QED
    BY <1>3, <1>4, <1>5

\* The next step is of the same stage or of the next; the raw phase is stage 0.
LEMMA StageSuccessor ==
  ASSUME NEW s \in Nat
  PROVE  /\ Stage(s + 1) \in {Stage(s), Stage(s) + 1}
         /\ s < StageSteps => Stage(s) = 0
         /\ Stage(0) = 0
  <1> DEFINE d == StageSteps
             q == s \div d
  <1>1. d \in Nat /\ d > 0 /\ q \in Nat /\ LastStage \in Nat
    BY StageType
  <1>2. s \div d <= (s + 1) \div d /\ (s + 1) \div d <= s \div d + 1
    <2> HIDE DEF d
    <2> QED
      BY <1>1
  <1>3. s < d => s \div d = 0
    <2> HIDE DEF d
    <2> QED
      BY <1>1
  <1>4. 0 \div d = 0
    <2> HIDE DEF d
    <2> QED
      BY <1>1
  <1>5. (s + 1) \div d \in Int
    BY <1>1
  <1> QED
    BY <1>1, <1>2, <1>3, <1>4, <1>5 DEF Stage, Lesser

\* At least one row is in use, and no more than there are.
LEMMA ActiveType ==
  ASSUME NEW k \in Nat
  PROVE  ActiveIn(k) \in 1..NumVectors
  <1>1. 2^k \in Nat /\ 2^k # 0
    <2>1. IsFiniteSet(1..k) /\ Cardinality(1..k) = k
      BY FS_Interval
    <2>2. IsFiniteSet(SUBSET (1..k)) /\ Cardinality(SUBSET (1..k)) = 2^k
      BY <2>1, FS_SUBSET
    <2>3. SUBSET (1..k) # {}
      OBVIOUS
    <2> QED
      BY <2>2, <2>3, FS_CardinalityType, FS_EmptySet
  <1> QED
    BY <1>1 DEF ActiveIn, Lesser

\* Stage 0 uses row 0.
LEMMA ActiveAtFirst == ActiveIn(0) = 1
  <1>1. 2^0 = 1
    OBVIOUS
  <1> QED
    BY <1>1 DEF ActiveIn, Lesser

LEMMA RowSets ==
  ASSUME NEW s \in Nat
  PROVE  /\ Block(s) \subseteq Rows /\ Used(s) \subseteq Rows /\ Trained(s) \subseteq Rows
         /\ 0 \in Rows
         /\ Active(s) \in 1..NumVectors
         /\ Stage(s) # 0 => PrevActive(s) = ActiveIn(Stage(s) - 1) /\ PrevActive(s) \in 1..NumVectors
         /\ Stage(s) = 0 => PrevActive(s) = 0
  <1>1. Stage(s) \in Nat /\ (Stage(s) # 0 => Stage(s) - 1 \in Nat)
    BY StageType
  <1>2. Active(s) \in 1..NumVectors
    BY <1>1, ActiveType DEF Active
  <1>3. /\ Stage(s) # 0 => PrevActive(s) = ActiveIn(Stage(s) - 1) /\ PrevActive(s) \in 1..NumVectors
        /\ Stage(s) = 0 => PrevActive(s) = 0
    BY <1>1, ActiveType DEF PrevActive
  <1>4. 0 \in Rows
    BY DEF Rows
  <1>5. 0..(Active(s) - 1) \subseteq Rows
    BY <1>2 DEF Rows
  <1>6. Block(s) \subseteq Rows
    BY <1>2, <1>3 DEF Block, Rows
  <1> QED
    BY <1>2, <1>3, <1>4, <1>5, <1>6 DEF Used, Trained

-----------------------------------------------------------------------------
(* The hook.                                                                *)

\* What set_current_global_step owes to its step is done.
Settled(h) ==
  /\ config.curriculum = "raw_then_double" /\ h.step >= StageSteps => h.switched
  /\ Doubling /\ ~Raw(h.step) => h.stage >= Stage(h.step)
  /\ config.curriculum = "warmup_expand" /\ h.step > WarmupSteps => h.expanded

\* Rows with a direction keep it.
Keeps(old, new) ==
  \A r \in Rows : old[r].norm > 0 => new[r].norm > 0 /\ new[r].dir = old[r].dir

LEMMA TurnedRow ==
  ASSUME NEW row \in Row
  PROVE  Turned(row) \in Row /\ Turned(row).norm = 1
  BY DEF Turned, Row, Norms

\* The extraction gives row 0 a direction if it has none, and changes alpha once.
LEMMA ExtractedHook ==
  ASSUME NEW h \in Hooks
  PROVE  LET g == Extracted(h)
         IN /\ g \in Hooks /\ g.step = h.step /\ g.stage = h.stage /\ g.expanded = h.expanded
            /\ Keeps(h.rows, g.rows)
            /\ config.curriculum = "raw_then_double" /\ h.step >= StageSteps => g.switched
            /\ g.switched =>
                 \/ h.switched
                 \/ config.curriculum = "raw_then_double" /\ h.step >= StageSteps /\ g.rows[0].norm > 0
            /\ g.alpha = h.alpha
                 \/ (config.curriculum = "raw_then_double" /\ ~h.switched)
  <1> DEFINE g == Extracted(h)
             start == [h.rows EXCEPT ![0] = Turned(h.rows[0])]
             unit == [h.rows EXCEPT ![0] = [norm |-> 1, dir |-> h.rows[0].dir]]
  <1>1. /\ h.step \in 0..TotalSteps /\ h.rows \in [Rows -> Row] /\ h.alpha \in Norms
        /\ h.switched \in BOOLEAN /\ h.stage \in -1..LastStage /\ h.expanded \in BOOLEAN
        /\ 0 \in Rows /\ StageSteps \in Nat /\ h.step \in Nat
    BY StageType, RowSets DEF Hooks
  <1>2. h.rows[0] \in Row /\ h.rows[0].norm \in Norms /\ h.rows[0].dir \in Nat
    BY <1>1 DEF Row
  <1>3. CASE config.curriculum # "raw_then_double" \/ h.switched \/ h.step < StageSteps
    <2>1. g = h
      BY <1>3 DEF Extracted
    <2> QED
      BY <2>1, <1>1, <1>3 DEF Keeps
  <1>4. CASE /\ ~(config.curriculum # "raw_then_double" \/ h.switched \/ h.step < StageSteps)
             /\ h.rows[0].norm = 0
    <2>1. start \in [Rows -> Row] /\ start[0].norm = 1
      BY <1>1, <1>2, TurnedRow
    <2>2. \A r \in Rows : r # 0 => start[r] = h.rows[r]
      BY <1>1
    <2>3. g = [h EXCEPT !.alpha = Scale, !.rows = start, !.switched = TRUE]
      BY <1>4 DEF Extracted, Hooks
    <2> HIDE DEF start, g
    <2>4. g = [step |-> h.step, rows |-> start, alpha |-> Scale, switched |-> TRUE,
               stage |-> h.stage, expanded |-> h.expanded]
      BY <2>3 DEF Hooks
    <2>5. g \in Hooks
      BY <2>4, <2>1, <1>1 DEF Hooks, Norms
    <2>6. Keeps(h.rows, start)
      BY <2>2, <1>4 DEF Keeps
    <2> QED
      BY <2>1, <2>4, <2>5, <2>6, <1>1, <1>4 DEF g
  <1>5. CASE /\ ~(config.curriculum # "raw_then_double" \/ h.switched \/ h.step < StageSteps)
             /\ h.rows[0].norm # 0
    <2>1. unit \in [Rows -> Row] /\ unit[0].norm = 1 /\ unit[0].dir = h.rows[0].dir
      BY <1>1, <1>2 DEF Row, Norms
    <2>2. \A r \in Rows : r # 0 => unit[r] = h.rows[r]
      BY <1>1
    <2>3. g = [h EXCEPT !.alpha = h.rows[0].norm, !.rows = unit, !.switched = TRUE]
      <3>1. [h.rows EXCEPT ![0].norm = 1] = unit
        BY <1>1, <1>2 DEF Row
      <3>2. g = [h EXCEPT !.alpha = h.rows[0].norm,
                          !.rows = [h.rows EXCEPT ![0].norm = 1], !.switched = TRUE]
        BY <1>5 DEF Extracted, Hooks
      <3> QED
        BY <3>1, <3>2
    <2> HIDE DEF unit, g
    <2>4. g = [step |-> h.step, rows |-> unit, alpha |-> h.rows[0].norm, switched |-> TRUE,
               stage |-> h.stage, expanded |-> h.expanded]
      BY <2>3 DEF Hooks
    <2>5. g \in Hooks
      BY <2>4, <2>1, <1>1, <1>2 DEF Hooks
    <2>6. Keeps(h.rows, unit)
      BY <2>1, <2>2 DEF Keeps
    <2> QED
      BY <2>1, <2>4, <2>5, <2>6, <1>1, <1>5 DEF g
  <1> QED
    BY <1>3, <1>4, <1>5

\* Entering a stage gives its rows a direction and touches nothing else.
LEMMA ActivatedHook ==
  ASSUME NEW h \in Hooks
  PROVE  LET g == Activated(h)
         IN /\ g \in Hooks /\ g.step = h.step /\ g.alpha = h.alpha
            /\ g.switched = h.switched /\ g.expanded = h.expanded
            /\ Keeps(h.rows, g.rows)
            /\ Doubling /\ ~Raw(h.step) => g.stage >= Stage(h.step)
            /\ g.stage \in {h.stage, Stage(h.step)}
            /\ Doubling /\ ~Raw(h.step) /\ Stage(h.step) > h.stage =>
                 \A r \in Block(h.step) : g.rows[r].norm > 0
  <1> DEFINE g == Activated(h)
             new == [r \in Rows |-> IF r \in Block(h.step) /\ NeedsActivation(h, r)
                                      THEN Turned(h.rows[r]) ELSE h.rows[r]]
  <1>1. /\ h.step \in 0..TotalSteps /\ h.rows \in [Rows -> Row] /\ h.alpha \in Norms
        /\ h.switched \in BOOLEAN /\ h.stage \in -1..LastStage /\ h.expanded \in BOOLEAN
        /\ Stage(h.step) \in 0..LastStage /\ LastStage \in Nat
    BY StageType DEF Hooks
  <1>2. CASE ~Doubling \/ Raw(h.step) \/ Stage(h.step) <= h.stage
    <2>1. g = h
      BY <1>2 DEF Activated
    <2> QED
      BY <2>1, <1>1, <1>2 DEF Keeps
  <1>3. CASE ~(~Doubling \/ Raw(h.step) \/ Stage(h.step) <= h.stage)
    <2>1. new \in [Rows -> Row]
      BY <1>1, TurnedRow
    <2>2. Keeps(h.rows, new)
      BY <1>1 DEF Keeps, NeedsActivation
    <2>3. \A r \in Block(h.step) : new[r].norm > 0
      <3> SUFFICES ASSUME NEW r \in Block(h.step) PROVE new[r].norm > 0
        OBVIOUS
      <3>1. r \in Rows /\ h.rows[r] \in Row /\ h.rows[r].norm \in Norms
        BY <1>1, RowSets DEF Row
      <3> QED
        BY <3>1, TurnedRow DEF NeedsActivation, Norms
    <2>4. g = [h EXCEPT !.rows = new, !.stage = Stage(h.step)]
      BY <1>3 DEF Activated
    <2> HIDE DEF new, g
    <2>5. g = [step |-> h.step, rows |-> new, alpha |-> h.alpha, switched |-> h.switched,
               stage |-> Stage(h.step), expanded |-> h.expanded]
      BY <2>4 DEF Hooks
    <2>6. g \in Hooks
      BY <2>5, <2>1, <1>1 DEF Hooks
    <2> QED
      BY <2>2, <2>3, <2>5, <2>6, <1>1 DEF g
  <1> QED
    BY <1>2, <1>3

\* The end of the warm-up tells the rows apart; the other curricula have none.
LEMMA ExpandedHook ==
  ASSUME NEW h \in Hooks
  PROVE  LET g == Expanded(h)
         IN /\ g \in Hooks /\ g.step = h.step /\ g.alpha = h.alpha
            /\ g.switched = h.switched /\ g.stage = h.stage
            /\ config.curriculum # "warmup_expand" => g = h
            /\ config.curriculum = "warmup_expand" /\ h.step > WarmupSteps => g.expanded
  <1> DEFINE g == Expanded(h)
             new == [r \in Rows |-> IF r > 0 \/ h.rows[r].norm = 0
                                      THEN Turned(h.rows[r]) ELSE h.rows[r]]
  <1>1. /\ h.step \in 0..TotalSteps /\ h.rows \in [Rows -> Row] /\ h.alpha \in Norms
        /\ h.switched \in BOOLEAN /\ h.stage \in -1..LastStage /\ h.expanded \in BOOLEAN
    BY DEF Hooks
  <1>2. CASE config.curriculum # "warmup_expand" \/ h.step <= WarmupSteps \/ h.expanded
    <2>1. g = h
      BY <1>2 DEF Expanded
    <2> QED
      BY <2>1, <1>1, <1>2
  <1>3. CASE ~(config.curriculum # "warmup_expand" \/ h.step <= WarmupSteps \/ h.expanded)
    <2>1. new \in [Rows -> Row]
      BY <1>1, TurnedRow
    <2>2. g = [h EXCEPT !.rows = new, !.expanded = TRUE]
      BY <1>3 DEF Expanded
    <2> HIDE DEF new, g
    <2>3. g = [step |-> h.step, rows |-> new, alpha |-> h.alpha, switched |-> h.switched,
               stage |-> h.stage, expanded |-> TRUE]
      BY <2>2 DEF Hooks
    <2> QED
      BY <2>1, <2>3, <1>1, <1>3 DEF Hooks, g
  <1> QED
    BY <1>2, <1>3

\* What the worker, the actor and the rollouts do to the hook when a step begins.
LEMMA AtStepHook ==
  ASSUME NEW h \in Hooks, NEW s \in 0..TotalSteps
  PROVE  LET g == AtStep(h, s)
         IN /\ g \in Hooks /\ g.step = s /\ Settled(g)
            /\ g.stage \in {h.stage, Stage(s)}
            /\ g.alpha = h.alpha
                 \/ (config.curriculum = "raw_then_double" /\ ~h.switched)
            /\ h.switched => g.switched
            /\ g.switched => h.switched \/ (s >= StageSteps /\ g.rows[0].norm > 0)
            /\ Doubling => Keeps(h.rows, g.rows)
            /\ Doubling /\ ~Raw(s) /\ Stage(s) > h.stage =>
                 \A r \in Block(s) : g.rows[r].norm > 0
  <1> DEFINE a == [h EXCEPT !.step = s]
             b == Extracted(a)
             c == Activated(b)
             g == Expanded(c)
  <1>1. AtStep(h, s) = g
    BY DEF AtStep
  <1>2. /\ a \in Hooks /\ a.step = s /\ a.rows = h.rows /\ a.alpha = h.alpha
        /\ a.switched = h.switched /\ a.stage = h.stage
    BY DEF Hooks
  <1> HIDE DEF a
  <1>3. /\ b \in Hooks /\ b.step = s /\ b.stage = h.stage
        /\ Keeps(h.rows, b.rows)
        /\ config.curriculum = "raw_then_double" /\ s >= StageSteps => b.switched
        /\ b.switched =>
             \/ h.switched
             \/ config.curriculum = "raw_then_double" /\ s >= StageSteps /\ b.rows[0].norm > 0
        /\ b.alpha = h.alpha \/ (config.curriculum = "raw_then_double" /\ ~h.switched)
    BY <1>2, ExtractedHook
  <1>a. h.switched => b.switched
    BY <1>2 DEF Extracted
  <1> HIDE DEF b
  <1>4. /\ c \in Hooks /\ c.step = s /\ c.alpha = b.alpha /\ c.switched = b.switched
        /\ Keeps(b.rows, c.rows)
        /\ Doubling /\ ~Raw(s) => c.stage >= Stage(s)
        /\ c.stage \in {h.stage, Stage(s)}
        /\ Doubling /\ ~Raw(s) /\ Stage(s) > h.stage => \A r \in Block(s) : c.rows[r].norm > 0
    BY <1>3, ActivatedHook
  <1> HIDE DEF c
  <1>5. /\ g \in Hooks /\ g.step = s /\ g.alpha = c.alpha
        /\ g.switched = c.switched /\ g.stage = c.stage
        /\ config.curriculum # "warmup_expand" => g = c
        /\ config.curriculum = "warmup_expand" /\ s > WarmupSteps => g.expanded
    BY <1>4, ExpandedHook
  <1> HIDE DEF g
  <1>6. Settled(g)
    BY <1>3, <1>4, <1>5 DEF Settled
  <1>7. Doubling => config.curriculum # "warmup_expand"
    BY DEF Doubling
  <1>8. Keeps(h.rows, c.rows)
    BY <1>3, <1>4 DEF Keeps
  <1>9. b.switched => h.switched \/ (s >= StageSteps /\ g.rows[0].norm > 0)
    <2> SUFFICES ASSUME b.switched, ~h.switched
                 PROVE  s >= StageSteps /\ g.rows[0].norm > 0
      OBVIOUS
    <2>1. config.curriculum = "raw_then_double" /\ s >= StageSteps /\ b.rows[0].norm > 0
      BY <1>3
    <2>2. 0 \in Rows
      BY DEF Rows
    <2>3. c.rows[0].norm > 0
      BY <1>4, <2>1, <2>2 DEF Keeps
    <2>4. config.curriculum # "warmup_expand"
      BY <2>1
    <2>5. g = c
      BY <1>5, <2>4
    <2> QED
      BY <2>1, <2>3, <2>5
  <1> QED
    BY <1>1, <1>3, <1>a, <1>4, <1>5, <1>6, <1>7, <1>8, <1>9

\* Setting the step a hook is at already does nothing.
LEMMA AtSameStep ==
  ASSUME NEW h \in Hooks, Settled(h)
  PROVE  AtStep(h, h.step) = h
  <1>1. [h EXCEPT !.step = h.step] = h
    BY DEF Hooks
  <1>2. h.step \in Nat /\ StageSteps \in Nat
    BY StageType DEF Hooks
  <1>3. Extracted(h) = h
    BY <1>2 DEF Extracted, Settled
  <1>4. Activated(h) = h
    BY <1>2, StageType DEF Activated, Settled, Hooks
  <1>5. Expanded(h) = h
    BY <1>2 DEF Expanded, Settled
  <1> QED
    BY <1>1, <1>3, <1>4, <1>5 DEF AtStep

\* The hook of a launch.
LEMMA FreshHook ==
  ASSUME config \in Configs
  PROVE  /\ Fresh \in Hooks /\ Fresh.step = 0 /\ Settled(Fresh) /\ Fresh.stage \in {-1, 0}
         /\ ~Fresh.switched
         /\ Fresh.alpha = IF config.learnable THEN AlphaInit ELSE Scale
         /\ Doubling /\ ~Raw(0) => Fresh.rows[0].norm > 0
  <1> DEFINE rows == [r \in Rows |-> FirstRow]
             first == IF config.learnable THEN AlphaInit ELSE Scale
             built == Built(rows, first)
  <1>1. rows \in [Rows -> Row] /\ first \in Norms
    BY DEF Row, Norms, FirstRow
  <1> HIDE DEF rows, first
  <1>2. /\ built = [step |-> 0, rows |-> rows, alpha |-> first, switched |-> FALSE,
                    stage |-> -1, expanded |-> FALSE]
        /\ built \in Hooks
    BY <1>1, StageType DEF Built, Hooks
  <1>3. built.step = 0 /\ built.alpha = first /\ built.switched = FALSE /\ built.stage = -1
    BY <1>2
  <1>4. Fresh = AtStep(built, 0) /\ 0 \in 0..TotalSteps
    BY DEF Fresh, rows, first
  <1> HIDE DEF built
  <1>5. Stage(0) = 0 /\ StageSteps > 0
    BY StageType, StageSuccessor
  <1>6. /\ Fresh \in Hooks /\ Fresh.step = 0 /\ Settled(Fresh)
        /\ Fresh.stage \in {-1, 0}
        /\ Fresh.switched => FALSE
        /\ Doubling /\ ~Raw(0) => \A r \in Block(0) : Fresh.rows[r].norm > 0
    <2> DEFINE g == AtStep(built, 0)
    <2>1. /\ g \in Hooks /\ g.step = 0 /\ Settled(g)
          /\ g.stage \in {built.stage, Stage(0)}
          /\ g.switched => built.switched \/ (0 >= StageSteps /\ g.rows[0].norm > 0)
          /\ Doubling /\ ~Raw(0) /\ Stage(0) > built.stage => \A r \in Block(0) : g.rows[r].norm > 0
      BY <1>2, <1>4, AtStepHook
    <2> HIDE DEF g
    <2>2. ~(0 >= StageSteps) /\ Stage(0) > built.stage
      BY <1>3, <1>5, StageType
    <2>3. Fresh = g
      BY <1>4 DEF g
    <2> QED
      BY <2>1, <2>2, <2>3, <1>3, <1>5
  <1>7. Fresh.alpha = first
    <2>1. Extracted([built EXCEPT !.step = 0]) = [built EXCEPT !.step = 0]
      BY <1>2, <1>5, StageType DEF Extracted
    <2>2. [built EXCEPT !.step = 0] = built
      BY <1>2, <1>3 DEF Hooks
    <2>3. Activated(built) \in Hooks /\ Activated(built).alpha = first
      BY <1>2, <1>3, ActivatedHook
    <2> QED
      BY <2>1, <2>2, <2>3, <1>4, ExpandedHook DEF AtStep
  <1>8. 0 \in Block(0)
    BY <1>5, RowSets, ActiveAtFirst DEF Block, Active
  <1> QED
    BY <1>6, <1>7, <1>8 DEF first

-----------------------------------------------------------------------------
(* Rows in use have a direction.                                            *)

\* Every row that step s combines has a direction.
Filled(rows, s) == Doubling /\ ~Raw(s) => \A r \in 0..(Active(s) - 1) : rows[r].norm > 0

\* What a launch knows of the stages it has entered.
Entered(h, s) ==
  /\ h.stage <= Stage(s)
  /\ Doubling /\ h.switched => h.rows[0].norm > 0

\* Taking the hook to the step the rows are fit for leaves them fit.
LEMMA FilledSame ==
  ASSUME NEW h \in Hooks, NEW s \in 0..TotalSteps, Filled(h.rows, s), Entered(h, s)
  PROVE  Filled(AtStep(h, s).rows, s) /\ Entered(AtStep(h, s), s)
  <1> DEFINE g == AtStep(h, s)
  <1>1. /\ g \in Hooks /\ g.stage \in {h.stage, Stage(s)}
        /\ g.switched => h.switched \/ (s >= StageSteps /\ g.rows[0].norm > 0)
        /\ Doubling => Keeps(h.rows, g.rows)
    BY AtStepHook
  <1> HIDE DEF g
  <1>2. s \in Nat /\ Stage(s) \in Nat /\ 0 \in Rows /\ 0..(Active(s) - 1) \subseteq Rows
    BY StageType, RowSets DEF Rows
  <1>3. Filled(g.rows, s)
    BY <1>1, <1>2 DEF Filled, Keeps
  <1>4. Entered(g, s)
    BY <1>1, <1>2 DEF Entered, Keeps
  <1> QED
    BY <1>3, <1>4 DEF g

\* Taking it to the next step makes them fit for that: a stage adds the rows
\* that the one before lacks.
LEMMA FilledNext ==
  ASSUME NEW h \in Hooks, NEW s \in Nat, s + 1 \in 0..TotalSteps,
         Filled(h.rows, s), Entered(h, s)
  PROVE  Filled(AtStep(h, s + 1).rows, s + 1) /\ Entered(AtStep(h, s + 1), s + 1)
  <1> DEFINE t == s + 1
             g == AtStep(h, t)
  <1>1. /\ g \in Hooks /\ g.step = t /\ Settled(g) /\ g.stage \in {h.stage, Stage(t)}
        /\ g.switched => h.switched \/ (t >= StageSteps /\ g.rows[0].norm > 0)
        /\ Doubling => Keeps(h.rows, g.rows)
        /\ Doubling /\ ~Raw(t) /\ Stage(t) > h.stage => \A r \in Block(t) : g.rows[r].norm > 0
    BY AtStepHook
  <1> HIDE DEF g
  <1>2. /\ t \in Nat /\ Stage(s) \in Nat /\ Stage(t) \in {Stage(s), Stage(s) + 1}
        /\ s < StageSteps => Stage(s) = 0
        /\ StageSteps \in Nat /\ h.stage \in Int
    BY StageType, StageSuccessor DEF Hooks
  <1>3. 0 \in Rows /\ Active(t) \in 1..NumVectors /\ 0..(Active(t) - 1) \subseteq Rows
    BY <1>2, RowSets DEF Rows
  <1> HIDE DEF t
  <1>4. Entered(g, t)
    BY <1>1, <1>2, <1>3 DEF Entered, Keeps
  <1>5. ASSUME Doubling, ~Raw(t), NEW r \in 0..(Active(t) - 1)
        PROVE  g.rows[r].norm > 0
    <2>1. r \in Rows
      BY <1>3
    <2>2. CASE ~Raw(s) /\ Stage(t) = Stage(s)
      <3>1. h.rows[r].norm > 0
        BY <2>2, <1>5 DEF Filled, Active
      <3> QED
        BY <3>1, <2>1, <1>1, <1>5 DEF Keeps
    <2>3. CASE ~Raw(s) /\ Stage(t) = Stage(s) + 1
      <3>1. Stage(t) > h.stage /\ Stage(t) # 0 /\ Stage(t) - 1 = Stage(s)
        BY <2>3, <1>2 DEF Entered
      <3>2. PrevActive(t) = Active(s) /\ PrevActive(t) \in Int
        BY <3>1, <1>2, RowSets DEF Active
      <3>3. CASE r < PrevActive(t)
        <4>1. h.rows[r].norm > 0
          BY <2>3, <3>2, <3>3, <1>5 DEF Filled
        <4> QED
          BY <4>1, <2>1, <1>1, <1>5 DEF Keeps
      <3>4. CASE r >= PrevActive(t)
        <4>1. r \in Block(t)
          BY <3>2, <3>4, <1>3 DEF Block
        <4> QED
          BY <4>1, <3>1, <1>1, <1>5
      <3> QED
        BY <3>2, <3>3, <3>4, <1>3
    <2>4. CASE Raw(s)
      <3>1. config.curriculum = "raw_then_double" /\ Stage(s) = 0 /\ t >= StageSteps
        BY <2>4, <1>2, <1>5 DEF Raw
      <3>2. g.switched
        BY <3>1, <1>1 DEF Settled
      <3>3. g.rows[0].norm > 0
        BY <3>2, <1>4, <1>5 DEF Entered
      <3>4. CASE Stage(t) = 0
        <4>1. r = 0
          BY <3>4, ActiveAtFirst, <1>3 DEF Active
        <4> QED
          BY <4>1, <3>3
      <3>5. CASE Stage(t) = 1
        <4>1. Stage(t) > h.stage
          BY <3>1, <3>5, <1>2 DEF Entered
        <4>2. PrevActive(t) = 1
          BY <3>5, ActiveAtFirst DEF PrevActive
        <4>3. r = 0 \/ r \in Block(t)
          BY <4>2, <1>3 DEF Block
        <4> QED
          BY <4>1, <4>3, <3>3, <1>1, <1>5
      <3> QED
        BY <3>1, <3>4, <3>5, <1>2
    <2> QED
      BY <2>2, <2>3, <2>4, <1>2
  <1>6. Filled(g.rows, t)
    BY <1>5 DEF Filled
  <1> QED
    BY <1>4, <1>6 DEF g, t

\* An optimizer step leaves no row without the direction it had.
LEMMA SteppedHook ==
  ASSUME NEW h \in Hooks, NEW n \in 1..MaxNorm
  PROVE  /\ SteppedRows(h, n) \in [Rows -> Row]
         /\ \A r \in Rows : h.rows[r].norm > 0 => SteppedRows(h, n)[r].norm > 0
         /\ SteppedAlpha(h, n) \in Norms
         /\ AlphaFrozen(h.step) \/ ~config.learnable => SteppedAlpha(h, n) = h.alpha
  <1>1. h.rows \in [Rows -> Row] /\ h.alpha \in Norms /\ n \in Norms
    BY DEF Hooks, Norms
  <1>2. ASSUME NEW r \in Rows
        PROVE  /\ SteppedRows(h, n)[r] \in Row
               /\ h.rows[r].norm > 0 => SteppedRows(h, n)[r].norm > 0
    <2>1. h.rows[r] \in Row /\ h.rows[r].dir + 1 \in Nat
      BY <1>1 DEF Row
    <2>2. Turned(h.rows[r]) \in Row /\ Turned(h.rows[r]).norm = 1
      BY <2>1, TurnedRow
    <2>3. [norm |-> n, dir |-> h.rows[r].dir + 1] \in Row
      BY <2>1, <1>1 DEF Row
    <2>4. SteppedRows(h, n)[r] \in {h.rows[r], Turned(h.rows[r]),
                                   [norm |-> n, dir |-> h.rows[r].dir + 1]}
      BY DEF SteppedRows
    <2> QED
      BY <2>1, <2>2, <2>3, <2>4
  <1>3. SteppedRows(h, n) \in [Rows -> Row]
    BY <1>2 DEF SteppedRows
  <1>4. /\ SteppedAlpha(h, n) \in Norms
        /\ AlphaFrozen(h.step) \/ ~config.learnable => SteppedAlpha(h, n) = h.alpha
    BY <1>1 DEF SteppedAlpha
  <1> QED
    BY <1>2, <1>3, <1>4

-----------------------------------------------------------------------------
(* The inductive invariant.                                                 *)

AlphaStart == IF config.learnable THEN AlphaInit ELSE Scale

\* What holds with any way of generating rollouts.
Always ==
  /\ TypeOK
  /\ Settled(hook)
  /\ pc \in {"logprob", "update"} => batch < MiniBatches
  /\ ~config.learnable /\ config.curriculum # "raw_then_double" => hook.alpha = Scale
  /\ config.curriculum = "alpha_then_basis" /\ WarmupSteps = 0 =>
       hook.alpha = AlphaStart /\ saved.alpha = AlphaStart

\* What holds if the rollouts are told their step: the hook is at the step of
\* the driver and vLLM has its rows, which are fit for the step, and so are those
\* of the checkpoint for the step it would resume at.
Together ==
  ~config.async =>
    /\ Filled(hook.rows, step) /\ Entered(hook, step)
    /\ Filled(saved.rows, saved.step)
    /\ pc \in {"logprob", "update"} =>
         hook.step = step /\ Filled(sent.rows, sent.step)
    /\ pc = "logprob" \/ (pc = "update" /\ batch = 0) => sent = Payload(hook)

\* What vLLM is sent is well typed.
LEMMA PayloadType ==
  ASSUME NEW h \in Hooks
  PROVE  /\ Payload(h) \in [step : 0..TotalSteps, rows : [Rows -> Row], alpha : Norms]
         /\ Payload(h).step = h.step /\ Payload(h).rows = h.rows
         /\ Payload(h).alpha = IF config.learnable THEN h.alpha ELSE Scale
  BY DEF Payload, Hooks, Norms

\* A hook that set_current_global_step has moved keeps the alpha that is due.
LEMMA AlphaKept ==
  ASSUME Always, NEW s \in 0..TotalSteps
  PROVE  /\ AtStep(hook, s) \in Hooks /\ Settled(AtStep(hook, s)) /\ AtStep(hook, s).step = s
         /\ ~config.learnable /\ config.curriculum # "raw_then_double" =>
              AtStep(hook, s).alpha = Scale
         /\ config.curriculum = "alpha_then_basis" /\ WarmupSteps = 0 =>
              AtStep(hook, s).alpha = AlphaStart
  <1>1. hook \in Hooks
    BY DEF Always, TypeOK
  <1> QED
    BY <1>1, AtStepHook DEF Always

LEMMA StagesInit == Init => Always /\ Together
  <1> SUFFICES ASSUME Init PROVE Always /\ Together
    OBVIOUS
  <1>1. /\ config \in Configs /\ pc = "start" /\ step = 0 /\ batch = 0 /\ hook = Fresh
        /\ momentum = {} /\ sent = Payload(Fresh) /\ history = NoHistory /\ crashes = 0
        /\ saved = [rows |-> Fresh.rows, alpha |-> Fresh.alpha, momentum |-> {},
                    step |-> 0, history |-> NoHistory]
    BY DEF Init
  <1>2. /\ Fresh \in Hooks /\ Fresh.step = 0 /\ Settled(Fresh) /\ Fresh.stage \in {-1, 0}
        /\ ~Fresh.switched
        /\ Fresh.alpha = AlphaStart
        /\ Doubling /\ ~Raw(0) => Fresh.rows[0].norm > 0
    BY <1>1, FreshHook DEF AlphaStart
  <1>3. NoHistory \in Histories
    BY DEF NoHistory, Histories
  <1>4. saved \in Checkpoints /\ saved.rows = Fresh.rows /\ saved.alpha = Fresh.alpha /\ saved.step = 0
    BY <1>1, <1>2, <1>3 DEF Checkpoints, Hooks
  <1>5. TypeOK
    BY <1>1, <1>2, <1>3, <1>4, PayloadType DEF TypeOK
  <1>6. Always
    BY <1>1, <1>2, <1>4, <1>5 DEF Always, AlphaStart
  <1>7. Active(0) = 1 /\ Stage(0) = 0
    BY StageSuccessor, ActiveAtFirst DEF Active
  <1>8. Filled(Fresh.rows, 0) /\ Entered(Fresh, 0)
    BY <1>2, <1>7 DEF Filled, Entered
  <1> QED
    BY <1>1, <1>4, <1>6, <1>8 DEF Together

\* Generates keeps the hook fit for its step, and vLLM gets what it has then.
LEMMA GeneratesKeeps ==
  ASSUME Always, NEW s \in 0..TotalSteps, Generates(s), config' = config
  PROVE  /\ hook' \in Hooks /\ Settled(hook')
         /\ sent' = Payload(hook')
         /\ sent' \in [step : 0..TotalSteps, rows : [Rows -> Row], alpha : Norms]
         /\ ~config.learnable /\ config.curriculum # "raw_then_double" => hook'.alpha = Scale
         /\ config.curriculum = "alpha_then_basis" /\ WarmupSteps = 0 => hook'.alpha = AlphaStart
         /\ ~config.async => hook' = AtStep(hook, s)
  <1>1. hook' = hook \/ hook' = AtStep(hook, s)
    BY DEF Generates
  <1>2. /\ hook' \in Hooks /\ Settled(hook')
        /\ ~config.learnable /\ config.curriculum # "raw_then_double" => hook'.alpha = Scale
        /\ config.curriculum = "alpha_then_basis" /\ WarmupSteps = 0 => hook'.alpha = AlphaStart
    BY <1>1, AlphaKept DEF Always, TypeOK
  <1>3. sent' = Payload(hook')
    BY DEF Generates, Payload
  <1> QED
    BY <1>2, <1>3, PayloadType DEF Generates

\* The operators on hooks, in the next state.
LEMMA Primed ==
  ASSUME config' = config
  PROVE  /\ Filled(hook.rows, step)' <=> Filled(hook'.rows, step')
         /\ Filled(saved.rows, saved.step)' <=> Filled(saved'.rows, saved'.step)
         /\ Filled(sent.rows, sent.step)' <=> Filled(sent'.rows, sent'.step)
         /\ Entered(hook, step)' <=> Entered(hook', step')
         /\ Settled(hook)' <=> Settled(hook')
         /\ Payload(hook)' = Payload(hook')
  <1>1. /\ Filled(hook.rows, step)' <=> Filled(hook'.rows, step')
        /\ Filled(saved.rows, saved.step)' <=> Filled(saved'.rows, saved'.step)
        /\ Filled(sent.rows, sent.step)' <=> Filled(sent'.rows, sent'.step)
    BY DEF Filled, Doubling, Raw
  <1>2. Entered(hook, step)' <=> Entered(hook', step')
    BY DEF Entered, Doubling
  <1>3. Settled(hook)' <=> Settled(hook')
    BY DEF Settled, Doubling, Raw
  <1>4. Payload(hook)' = Payload(hook')
    BY DEF Payload
  <1> QED
    BY <1>1, <1>2, <1>3, <1>4

\* What alpha a hook has while the curriculum never changes it.
AlphaDue(alpha) ==
  config.curriculum = "alpha_then_basis" /\ WarmupSteps = 0 => alpha = AlphaStart

\* Each action keeps what holds with any way of generating rollouts.
LEMMA AlwaysNext ==
  ASSUME Always, [Next]_vars
  PROVE  Always' /\ config' = config
  <1> USE DEF AlphaDue
  <1>1. /\ config \in Configs /\ step \in 0..TotalSteps /\ batch \in 0..MiniBatches
        /\ hook \in Hooks /\ momentum \subseteq Rows
        /\ sent \in [step : 0..TotalSteps, rows : [Rows -> Row], alpha : Norms]
        /\ saved \in Checkpoints /\ history \in Histories /\ crashes \in 0..MaxCrashes
        /\ pc \in {"start", "rollout", "logprob", "update", "validate", "failed"}
        /\ Settled(hook)
        /\ pc \in {"logprob", "update"} => batch < MiniBatches
        /\ ~config.learnable /\ config.curriculum # "raw_then_double" => hook.alpha = Scale
        /\ AlphaDue(hook.alpha) /\ AlphaDue(saved.alpha)
        /\ TotalSteps \in Nat /\ MiniBatches \in Nat \ {0} /\ MaxCrashes \in Nat
    BY DEF Always, TypeOK
  <1>2. CASE ValidateFirst
    <2>1. Generates(step) /\ pc' = "rollout" /\ UNCHANGED <<config, step, batch, momentum, saved, history, crashes>>
      BY <1>2 DEF ValidateFirst
    <2> QED
      BY <1>1, <2>1, GeneratesKeeps, Primed DEF Always, TypeOK, AlphaStart
  <1>3. CASE StartTraining
    BY <1>1, <1>3, Primed DEF StartTraining, Always, TypeOK, AlphaStart
  <1>4. CASE Rollout
    <2>1. /\ step < TotalSteps /\ step' = step + 1 /\ batch' = 0 /\ Generates(step + 1)
          /\ pc' \in {"update", "logprob"}
          /\ UNCHANGED <<config, momentum, saved, history, crashes>>
      BY <1>4 DEF Rollout
    <2>2. step + 1 \in 0..TotalSteps
      BY <1>1, <2>1
    <2> QED
      BY <1>1, <2>1, <2>2, GeneratesKeeps, Primed DEF Always, TypeOK, AlphaStart
  <1>5. CASE OldLogProb
    <2>1. /\ pc = "logprob" /\ hook' = AtStep(hook, step) /\ pc' = "update"
          /\ UNCHANGED <<config, step, batch, momentum, sent, saved, history, crashes>>
      BY <1>5 DEF OldLogProb, PassedStep
    <2> QED
      BY <1>1, <2>1, AlphaKept, Primed DEF Always, TypeOK, AlphaStart
  <1>6. CASE Update
    <2>1. /\ pc = "update" /\ batch' = batch + 1
          /\ pc' = IF batch + 1 = MiniBatches THEN "validate" ELSE "update"
          /\ UNCHANGED <<config, step, sent, saved, crashes>>
      BY <1>6 DEF Update, NextBatch
    <2>2. PICK n \in 1..MaxNorm :
            hook' = [hook EXCEPT !.rows = SteppedRows(hook, n), !.alpha = SteppedAlpha(hook, n)]
      BY <1>6 DEF Update
    <2>3. /\ SteppedRows(hook, n) \in [Rows -> Row] /\ SteppedAlpha(hook, n) \in Norms
          /\ AlphaFrozen(hook.step) \/ ~config.learnable => SteppedAlpha(hook, n) = hook.alpha
      BY <1>1, SteppedHook
    <2>4. /\ hook' \in Hooks /\ hook'.step = hook.step /\ hook'.alpha = SteppedAlpha(hook, n)
          /\ hook'.switched = hook.switched /\ hook'.stage = hook.stage
          /\ hook'.expanded = hook.expanded
      BY <1>1, <2>2, <2>3 DEF Hooks
    <2>5. Settled(hook')
      BY <1>1, <2>4 DEF Settled
    <2>6. ~config.learnable /\ config.curriculum # "raw_then_double" => hook'.alpha = Scale
      BY <1>1, <2>3, <2>4
    <2>7. hook.step \in Nat /\ WarmupSteps \in Nat
      BY <1>1 DEF Hooks
    <2>8. AlphaDue(hook'.alpha)
      BY <1>1, <2>3, <2>4, <2>7 DEF AlphaFrozen
    <2>9. momentum' \subseteq Rows
      <3>1. Trained(hook.step) \subseteq Rows
        BY <2>7, RowSets
      <3> QED
        BY <1>1, <1>6, <3>1 DEF Update, MomentumLeft
    <2>10. history' \in Histories
      BY <1>1, <1>6 DEF Update, Histories
    <2>11. batch' \in 0..MiniBatches /\ (pc' = "update" => batch' < MiniBatches)
      BY <1>1, <2>1
    <2>12. Settled(hook)'
      BY <2>1, <2>5, Primed
    <2>13. TypeOK'
      BY <1>1, <2>1, <2>4, <2>9, <2>10, <2>11 DEF TypeOK
    <2> QED
      BY <1>1, <2>1, <2>6, <2>8, <2>11, <2>12, <2>13 DEF Always, AlphaStart
  <1>7. CASE SkippedUpdate
    <2>1. /\ pc = "update" /\ batch' = batch + 1
          /\ pc' = IF batch + 1 = MiniBatches THEN "validate" ELSE "update"
          /\ UNCHANGED <<config, step, hook, momentum, sent, saved, history, crashes>>
      BY <1>7 DEF SkippedUpdate, NextBatch
    <2>2. batch' \in 0..MiniBatches /\ (pc' = "update" => batch' < MiniBatches)
      BY <1>1, <2>1
    <2> QED
      BY <1>1, <2>1, <2>2, Primed DEF Always, TypeOK, AlphaStart
  <1>8. CASE FinishStep
    <2>1. /\ pc = "validate" /\ pc' = "rollout"
          /\ UNCHANGED <<config, step, batch, momentum, history, crashes>>
      BY <1>8 DEF FinishStep
    <2>2. Generates(step) \/ UNCHANGED <<hook, sent>>
      BY <1>8 DEF FinishStep
    <2>3. /\ hook' \in Hooks /\ Settled(hook')
          /\ sent' \in [step : 0..TotalSteps, rows : [Rows -> Row], alpha : Norms]
          /\ ~config.learnable /\ config.curriculum # "raw_then_double" => hook'.alpha = Scale
          /\ AlphaDue(hook'.alpha)
      BY <1>1, <2>1, <2>2, GeneratesKeeps
    <2>4. \/ saved' = saved
          \/ saved' = [rows |-> hook'.rows, alpha |-> hook'.alpha, momentum |-> momentum,
                       step |-> step, history |-> history]
      BY <1>8 DEF FinishStep
    <2>5. saved' \in Checkpoints /\ AlphaDue(saved'.alpha)
      BY <1>1, <2>3, <2>4 DEF Checkpoints, Hooks
    <2> QED
      BY <1>1, <2>1, <2>3, <2>5, Primed DEF Always, TypeOK, AlphaStart
  <1>9. CASE CrashAndResume
    <2>1. /\ crashes < MaxCrashes /\ crashes' = crashes + 1
          /\ hook' = [Fresh EXCEPT !.rows = saved.rows,
                                   !.alpha = IF config.learnable THEN saved.alpha ELSE Fresh.alpha]
          /\ sent' = Payload(hook') /\ momentum' = saved.momentum /\ history' = saved.history
          /\ step' = saved.step /\ batch' = 0 /\ pc' = "start" /\ UNCHANGED <<config, saved>>
      BY <1>9 DEF CrashAndResume, Payload
    <2>2. /\ Fresh \in Hooks /\ Fresh.step = 0 /\ Settled(Fresh)
          /\ Fresh.alpha = AlphaStart
      BY <1>1, FreshHook DEF AlphaStart
    <2>3. /\ saved.rows \in [Rows -> Row] /\ saved.alpha \in Norms /\ saved.momentum \subseteq Rows
          /\ saved.step \in 0..TotalSteps /\ saved.history \in Histories
      BY <1>1 DEF Checkpoints
    <2>4. /\ hook' \in Hooks /\ hook'.step = 0
          /\ hook'.alpha = IF config.learnable THEN saved.alpha ELSE Scale
          /\ hook'.switched = Fresh.switched /\ hook'.stage = Fresh.stage
          /\ hook'.expanded = Fresh.expanded
      BY <2>1, <2>2, <2>3 DEF Hooks, AlphaStart
    <2>5. Settled(hook')
      BY <2>2, <2>4 DEF Settled
    <2>6. AlphaDue(hook'.alpha)
      BY <1>1, <2>4 DEF AlphaStart
    <2>7. crashes' \in 0..MaxCrashes
      BY <1>1, <2>1
    <2>8. TypeOK'
      BY <1>1, <2>1, <2>3, <2>4, <2>7, PayloadType DEF TypeOK
    <2>9. Settled(hook)'
      BY <2>1, <2>5, Primed
    <2> QED
      BY <1>1, <2>1, <2>4, <2>6, <2>8, <2>9 DEF Always, AlphaStart
  <1>10. CASE UpdateRaises
    <2>1. pc' = "failed" /\ UNCHANGED <<config, step, batch, hook, momentum, sent, saved, history, crashes>>
      BY <1>10 DEF UpdateRaises
    <2> QED
      BY <1>1, <2>1, Primed DEF Always, TypeOK, AlphaStart
  <1>11. CASE Ended \/ UNCHANGED vars
    <2>1. UNCHANGED <<config, pc, step, batch, hook, momentum, sent, saved, history, crashes>>
      BY <1>11 DEF Ended, vars
    <2> QED
      BY <1>1, <2>1, Primed DEF Always, TypeOK, AlphaStart
  <1> QED
    BY <1>2, <1>3, <1>4, <1>5, <1>6, <1>7, <1>8, <1>9, <1>10, <1>11 DEF Next

\* Each action keeps rollouts and training together, if rollouts know the step.
LEMMA TogetherNext ==
  ASSUME Always, Together, [Next]_vars
  PROVE  Together'
  <1>1. /\ step \in 0..TotalSteps /\ batch \in 0..MiniBatches /\ hook \in Hooks
        /\ Settled(hook) /\ config \in Configs /\ TotalSteps \in Nat /\ MiniBatches \in Nat
    BY DEF Always, TypeOK
  <1>2. config' = config
    BY AlwaysNext
  <1> SUFFICES ASSUME ~config.async
               PROVE  /\ Filled(hook'.rows, step') /\ Entered(hook', step')
                      /\ Filled(saved'.rows, saved'.step)
                      /\ pc' \in {"logprob", "update"} =>
                           hook'.step = step' /\ Filled(sent'.rows, sent'.step)
                      /\ pc' = "logprob" \/ (pc' = "update" /\ batch' = 0) =>
                           sent' = Payload(hook')
    BY <1>2, Primed DEF Together
  <1>3. /\ Filled(hook.rows, step) /\ Entered(hook, step)
        /\ Filled(saved.rows, saved.step)
        /\ pc \in {"logprob", "update"} =>
             hook.step = step /\ Filled(sent.rows, sent.step)
        /\ pc = "logprob" \/ (pc = "update" /\ batch = 0) => sent = Payload(hook)
    BY DEF Together
  <1>4. CASE ValidateFirst
    <2>1. pc' = "rollout" /\ Generates(step) /\ step' = step /\ saved' = saved
      BY <1>4 DEF ValidateFirst
    <2>2. hook' = AtStep(hook, step)
      BY <1>1, <1>2, <2>1, GeneratesKeeps
    <2> QED
      BY <1>1, <1>3, <2>1, <2>2, FilledSame
  <1>5. CASE StartTraining
    BY <1>3, <1>5 DEF StartTraining
  <1>6. CASE Rollout
    <2>1. /\ step < TotalSteps /\ step' = step + 1 /\ batch' = 0 /\ Generates(step + 1)
          /\ saved' = saved
      BY <1>6 DEF Rollout
    <2>2. step + 1 \in 0..TotalSteps /\ step \in Nat
      BY <1>1, <2>1
    <2>3. hook' = AtStep(hook, step + 1) /\ sent' = Payload(hook') /\ hook' \in Hooks
      BY <1>1, <1>2, <2>1, <2>2, GeneratesKeeps
    <2>4. Filled(hook'.rows, step + 1) /\ Entered(hook', step + 1)
      BY <1>1, <1>3, <2>2, <2>3, FilledNext
    <2>5. hook'.step = step + 1
      BY <1>1, <2>2, <2>3, AtStepHook
    <2>6. sent'.rows = hook'.rows /\ sent'.step = hook'.step
      BY <2>3, PayloadType
    <2> QED
      BY <1>3, <2>1, <2>3, <2>4, <2>5, <2>6
  <1>7. CASE OldLogProb
    <2>1. /\ pc = "logprob" /\ hook' = AtStep(hook, step)
          /\ UNCHANGED <<step, batch, sent, saved>>
      BY <1>7 DEF OldLogProb, PassedStep
    <2>2. hook' = hook
      BY <1>1, <1>3, <2>1, AtSameStep
    <2> QED
      BY <1>3, <2>1, <2>2
  <1>8. CASE Update
    <2>1. /\ pc = "update" /\ batch' = batch + 1 /\ UNCHANGED <<step, sent, saved>>
          /\ pc' \in {"validate", "update"}
      BY <1>8 DEF Update, NextBatch
    <2>2. PICK n \in 1..MaxNorm :
            hook' = [hook EXCEPT !.rows = SteppedRows(hook, n), !.alpha = SteppedAlpha(hook, n)]
      BY <1>8 DEF Update
    <2>3. /\ hook'.step = hook.step /\ hook'.rows = SteppedRows(hook, n)
          /\ hook'.stage = hook.stage /\ hook'.switched = hook.switched
      BY <1>1, <2>2 DEF Hooks
    <2>4. \A r \in Rows : hook.rows[r].norm > 0 => hook'.rows[r].norm > 0
      BY <1>1, <2>3, SteppedHook
    <2>5. 0 \in Rows /\ 0..(Active(step) - 1) \subseteq Rows
      <3>1. Active(step) \in 1..NumVectors /\ 0 \in Rows
        BY <1>1, RowSets
      <3> QED
        BY <3>1 DEF Rows
    <2>6. Filled(hook'.rows, step)
      BY <1>3, <2>4, <2>5 DEF Filled
    <2>7. Entered(hook', step)
      BY <1>3, <2>3, <2>4, <2>5 DEF Entered
    <2>8. batch' # 0
      BY <1>1, <2>1
    <2> QED
      BY <1>3, <2>1, <2>3, <2>6, <2>7, <2>8
  <1>9. CASE SkippedUpdate
    <2>1. /\ pc = "update" /\ batch' = batch + 1 /\ pc' \in {"validate", "update"}
          /\ UNCHANGED <<step, hook, sent, saved>>
      BY <1>9 DEF SkippedUpdate, NextBatch
    <2>2. batch' # 0
      BY <1>1, <2>1
    <2> QED
      BY <1>3, <2>1, <2>2
  <1>10. CASE FinishStep
    <2>1. pc' = "rollout" /\ step' = step /\ (Generates(step) \/ hook' = hook)
      BY <1>10 DEF FinishStep
    <2>2. Filled(hook'.rows, step) /\ Entered(hook', step)
      <3>1. CASE Generates(step)
        <4>1. hook' = AtStep(hook, step)
          BY <1>1, <1>2, <3>1, GeneratesKeeps
        <4> QED
          BY <1>1, <1>3, <4>1, FilledSame
      <3> QED
        BY <2>1, <3>1, <1>3
    <2>3. \/ saved' = saved
          \/ saved' = [rows |-> hook'.rows, alpha |-> hook'.alpha, momentum |-> momentum,
                       step |-> step, history |-> history]
      BY <1>10 DEF FinishStep
    <2>4. Filled(saved'.rows, saved'.step)
      BY <1>3, <2>2, <2>3
    <2> QED
      BY <2>1, <2>2, <2>4
  <1>11. CASE CrashAndResume
    <2>1. /\ hook' = [Fresh EXCEPT !.rows = saved.rows,
                                   !.alpha = IF config.learnable THEN saved.alpha ELSE Fresh.alpha]
          /\ step' = saved.step /\ pc' = "start" /\ saved' = saved
      BY <1>11 DEF CrashAndResume
    <2>2. Fresh \in Hooks /\ ~Fresh.switched /\ Fresh.stage \in {-1, 0}
      BY <1>1, FreshHook
    <2>3. /\ hook'.rows = saved.rows /\ hook'.stage = Fresh.stage
          /\ hook'.switched = Fresh.switched
      BY <2>1, <2>2 DEF Hooks
    <2>4. saved.step \in Nat
      BY DEF Always, TypeOK, Checkpoints
    <2>5. Stage(saved.step) \in Nat
      BY <2>4, StageType
    <2>6. Entered(hook', saved.step)
      BY <2>2, <2>3, <2>5 DEF Entered
    <2> QED
      BY <1>3, <2>1, <2>3, <2>6
  <1>12. CASE UpdateRaises
    <2>1. pc' = "failed" /\ UNCHANGED <<step, hook, saved>>
      BY <1>12 DEF UpdateRaises
    <2> QED
      BY <1>3, <2>1
  <1>13. CASE Ended \/ UNCHANGED vars
    <2>1. UNCHANGED <<config, pc, step, batch, hook, momentum, sent, saved, history, crashes>>
      BY <1>13 DEF Ended, vars
    <2> QED
      BY <1>3, <2>1
  <1> QED
    BY <1>4, <1>5, <1>6, <1>7, <1>8, <1>9, <1>10, <1>11, <1>12, <1>13 DEF Next

-----------------------------------------------------------------------------
(* What momentum may still move.                                            *)

\* A later stage uses no fewer rows.
LEMMA ActiveGrows ==
  ASSUME NEW k \in Nat
  PROVE  ActiveIn(k) <= ActiveIn(k + 1)
  <1> DEFINE j == k + 1
  <1>1. j \in Nat /\ 1..k \subseteq 1..j
    OBVIOUS
  <1> HIDE DEF j
  <1>2. /\ IsFiniteSet(SUBSET (1..k)) /\ Cardinality(SUBSET (1..k)) = 2^k
        /\ IsFiniteSet(SUBSET (1..j)) /\ Cardinality(SUBSET (1..j)) = 2^j
    <2>1. IsFiniteSet(1..k) /\ Cardinality(1..k) = k
      BY FS_Interval
    <2>2. IsFiniteSet(1..j) /\ Cardinality(1..j) = j
      BY <1>1, FS_Interval
    <2> QED
      BY <2>1, <2>2, FS_SUBSET
  <1>3. SUBSET (1..k) \in SUBSET (SUBSET (1..j))
    BY <1>1
  <1>4. Cardinality(SUBSET (1..k)) <= Cardinality(SUBSET (1..j))
    BY <1>2, <1>3, FS_Subset
  <1>5. 2^k <= 2^j /\ 2^k \in Nat /\ 2^j \in Nat
    BY <1>2, <1>4, FS_CardinalityType
  <1>6. ActiveIn(k) <= ActiveIn(j)
    BY <1>5 DEF ActiveIn, Lesser
  <1> QED
    BY <1>6 DEF j

LEMMA BlocksGrow ==
  ASSUME NEW s \in Nat
  PROVE  /\ Active(s) \in Nat /\ Active(s + 1) \in Nat
         /\ PrevActive(s) \in Nat /\ PrevActive(s + 1) \in Nat
         /\ Active(s) <= Active(s + 1) /\ PrevActive(s) <= PrevActive(s + 1)
         /\ Active(s) >= 1 /\ NumVectors >= Active(s)
  <1> DEFINE t == s + 1
  <1>1. /\ t \in Nat /\ Stage(s) \in Nat /\ Stage(t) \in Nat
        /\ Stage(t) \in {Stage(s), Stage(s) + 1}
    BY StageType, StageSuccessor
  <1> HIDE DEF t
  <1>2. Active(s) \in 1..NumVectors /\ Active(t) \in 1..NumVectors
    BY <1>1, RowSets
  <1>3. /\ PrevActive(s) = IF Stage(s) = 0 THEN 0 ELSE ActiveIn(Stage(s) - 1)
        /\ PrevActive(t) = IF Stage(t) = 0 THEN 0 ELSE ActiveIn(Stage(t) - 1)
        /\ PrevActive(s) \in 0..NumVectors /\ PrevActive(t) \in 0..NumVectors
    BY <1>1, RowSets DEF PrevActive
  <1>4. Active(s) <= Active(t) /\ PrevActive(s) <= PrevActive(t)
    <2>1. CASE Stage(t) = Stage(s)
      BY <1>2, <1>3, <2>1 DEF Active
    <2>2. CASE Stage(t) = Stage(s) + 1
      <3>1. Active(s) <= Active(t)
        BY <1>1, <2>2, ActiveGrows DEF Active
      <3>2. PrevActive(t) = ActiveIn(Stage(s))
        BY <1>1, <1>3, <2>2
      <3>3. CASE Stage(s) = 0
        BY <1>3, <3>1, <3>3
      <3>4. CASE Stage(s) # 0
        <4>1. Stage(s) - 1 \in Nat /\ (Stage(s) - 1) + 1 = Stage(s)
          BY <1>1, <3>4
        <4>2. ActiveIn(Stage(s) - 1) <= ActiveIn((Stage(s) - 1) + 1)
          BY <4>1, ActiveGrows
        <4> QED
          BY <1>3, <3>1, <3>2, <3>4, <4>1, <4>2
      <3> QED
        BY <3>3, <3>4
    <2> QED
      BY <1>1, <2>1, <2>2
  <1>5. /\ Active(s) \in Nat /\ Active(t) \in Nat /\ PrevActive(s) \in Nat
        /\ PrevActive(t) \in Nat /\ Active(s) >= 1 /\ NumVectors >= Active(s)
    BY <1>2, <1>3
  <1> QED
    BY <1>4, <1>5 DEF t

\* How far rows, momentum and strays have come at step s.  With doubling blocks,
\* a row has a direction or momentum only in the blocks opened so far, and a
\* row that strayed did so behind every row that still has momentum.
Trail(rows, mom, strays, s) ==
  /\ Doubling =>
       /\ \A r \in Rows : rows[r].norm > 0 => r < Active(s)
       /\ \A r \in mom : r < Active(s)
       /\ \A r \in Rows : strays[r] <= 1
       /\ \A r \in Rows : strays[r] > 0 => r < PrevActive(s) /\ \A q \in mom : r < q
  /\ ~Doubling => \A r \in Rows : strays[r] = 0
  /\ FirstPhase(s) => mom \subseteq {0} /\ \A r \in Rows : rows[r].norm > 0 => r = 0

\* The rows set_current_global_step gives a direction are those of the step.
LEMMA AtStepRows ==
  ASSUME NEW h \in Hooks, NEW s \in 0..TotalSteps
  PROVE  /\ Doubling => \A r \in Rows : AtStep(h, s).rows[r].norm > 0 =>
                          h.rows[r].norm > 0 \/ r < Active(s)
         /\ config.curriculum = "alpha_then_basis" => AtStep(h, s).rows = h.rows
         /\ h.rows[0].norm > 0 => AtStep(h, s).rows[0].norm > 0
         /\ AtStep(h, s).expanded =>
              h.expanded \/ (s > WarmupSteps /\ AtStep(h, s).rows[0].norm > 0)
  <1> DEFINE a == [h EXCEPT !.step = s]
             b == Extracted(a)
             c == Activated(b)
             g == Expanded(c)
  <1>1. AtStep(h, s) = g
    BY DEF AtStep
  <1>2. /\ a \in Hooks /\ a.step = s /\ a.rows = h.rows /\ a.expanded = h.expanded
        /\ 0 \in Rows /\ s \in Nat
    BY RowSets DEF Hooks
  <1> HIDE DEF a
  <1>3. b \in Hooks /\ b.step = s /\ b.expanded = h.expanded /\ Keeps(h.rows, b.rows)
    BY <1>2, ExtractedHook
  <1>4. /\ \A r \in Rows : r # 0 => b.rows[r] = h.rows[r]
        /\ config.curriculum # "raw_then_double" => b = a
    <2>1. a.rows \in [Rows -> Row]
      BY <1>2 DEF Hooks
    <2> QED
      BY <1>2, <2>1 DEF Extracted, Hooks
  <1> HIDE DEF b
  <1>5. c \in Hooks /\ c.step = s /\ c.expanded = b.expanded /\ Keeps(b.rows, c.rows)
    BY <1>3, ActivatedHook
  <1>6. /\ \A r \in Rows : r \notin Block(s) => c.rows[r] = b.rows[r]
        /\ ~Doubling => c = b
    <2>1. b.rows \in [Rows -> Row]
      BY <1>3 DEF Hooks
    <2> QED
      BY <1>3, <2>1 DEF Activated, Hooks
  <1> HIDE DEF c
  <1>7. /\ config.curriculum # "warmup_expand" => g = c
        /\ c.rows[0].norm > 0 => g.rows[0].norm > 0
        /\ g.expanded => c.expanded \/ (s > WarmupSteps /\ g.rows[0].norm > 0)
    <2> DEFINE new == [r \in Rows |-> IF r > 0 \/ c.rows[r].norm = 0
                                        THEN Turned(c.rows[r]) ELSE c.rows[r]]
    <2>1. c.rows \in [Rows -> Row] /\ c.rows[0] \in Row /\ c.rows[0].norm \in Norms
      BY <1>2, <1>5 DEF Hooks, Row
    <2>2. new[0].norm > 0
      BY <1>2, <2>1, TurnedRow DEF Norms
    <2>3. g = c \/ g = [c EXCEPT !.rows = new, !.expanded = TRUE]
      BY DEF Expanded
    <2> HIDE DEF new
    <2>4. g = c \/ g.rows = new
      BY <1>5, <2>3 DEF Hooks
    <2>5. /\ config.curriculum # "warmup_expand" => g = c
          /\ g = c \/ s > WarmupSteps
      BY <1>2, <1>5 DEF Expanded
    <2> HIDE DEF g
    <2> QED
      BY <2>2, <2>4, <2>5
  <1> HIDE DEF g
  <1>8. Active(s) \in Nat /\ Active(s) >= 1 /\ (\A r \in Block(s) : r < Active(s))
    BY <1>2, BlocksGrow DEF Block
  <1>9. Doubling => \A r \in Rows : g.rows[r].norm > 0 => h.rows[r].norm > 0 \/ r < Active(s)
    <2>1. Doubling => g = c
      BY <1>7 DEF Doubling
    <2> QED
      BY <2>1, <1>4, <1>6, <1>8
  <1>10. config.curriculum = "alpha_then_basis" => g.rows = h.rows
    <2>1. config.curriculum = "alpha_then_basis" => ~Doubling
      BY DEF Doubling
    <2> QED
      BY <2>1, <1>2, <1>4, <1>6, <1>7
  <1>11. h.rows[0].norm > 0 => g.rows[0].norm > 0
    BY <1>2, <1>3, <1>5, <1>7 DEF Keeps
  <1> QED
    BY <1>1, <1>3, <1>5, <1>7, <1>9, <1>10, <1>11

\* Setting a step leaves the trail where it is ...
LEMMA TrailAt ==
  ASSUME NEW h \in Hooks, NEW s \in 0..TotalSteps, NEW mom, NEW strays,
         Trail(h.rows, mom, strays, s)
  PROVE  Trail(AtStep(h, s).rows, mom, strays, s)
  <1>1. FirstPhase(s) => config.curriculum = "alpha_then_basis"
    BY DEF FirstPhase
  <1> QED
    BY <1>1, AtStepRows DEF Trail

\* ... and so does going on to the next one.
LEMMA TrailNext ==
  ASSUME NEW s \in Nat, NEW rows, NEW mom \in SUBSET Rows, NEW strays,
         Trail(rows, mom, strays, s)
  PROVE  Trail(rows, mom, strays, s + 1)
  <1>1. FirstPhase(s + 1) => FirstPhase(s)
    BY DEF FirstPhase
  <1>2. /\ Active(s) \in Nat /\ Active(s + 1) \in Nat
        /\ PrevActive(s) \in Nat /\ PrevActive(s + 1) \in Nat
        /\ Active(s) <= Active(s + 1) /\ PrevActive(s) <= PrevActive(s + 1)
    BY BlocksGrow
  <1>3. Rows \subseteq Int
    BY DEF Rows
  <1>4. \A r \in Rows : (r < Active(s) => r < Active(s + 1)) /\ (r < PrevActive(s) => r < PrevActive(s + 1))
    BY <1>2, <1>3
  <1> QED
    BY <1>1, <1>4 DEF Trail

\* The rows an optimizer step leaves, the momentum and what strays.
SteppedMomentum(h) == MomentumLeft(h.step)

SteppedStrays(h, new) ==
  [r \in Rows |-> IF r \notin Trained(h.step) /\ new[r] # h.rows[r]
                    THEN history[r] + 1 ELSE history[r]]

\* A row outside the block moves only if it or a row before it has momentum, and
\* no row outside the block keeps any.
LEMMA TrailStepped ==
  ASSUME NEW h \in Hooks, NEW n \in 1..MaxNorm,
         momentum \subseteq Rows, history \in Histories, config \in Configs,
         Trail(h.rows, momentum, history, h.step)
  PROVE  LET new == SteppedRows(h, n)
         IN Trail(new, SteppedMomentum(h), SteppedStrays(h, new), h.step)
  <1> DEFINE s == h.step
             new == SteppedRows(h, n)
             mom == SteppedMomentum(h)
             strays == SteppedStrays(h, new)
  <1>1. /\ s \in Nat /\ h.rows \in [Rows -> Row]
        /\ \A r \in Rows : r \in Int /\ r >= 0 /\ h.rows[r].norm \in Int
        /\ history \in [Rows -> Nat] /\ 0 \in Rows
    <2>1. s \in Nat /\ h.rows \in [Rows -> Row]
      BY DEF Hooks
    <2>2. \A r \in Rows : r \in Int /\ r >= 0
      BY DEF Rows
    <2>3. \A r \in Rows : h.rows[r].norm \in Int
      BY <2>1 DEF Row, Norms
    <2>4. history \in [Rows -> Nat]
      BY DEF Histories
    <2>5. 0 \in Rows
      BY DEF Rows
    <2> QED
      BY <2>1, <2>2, <2>3, <2>4, <2>5
  <1>2. /\ Active(s) \in Nat /\ PrevActive(s) \in Nat
        /\ Trained(s) \subseteq Rows
    BY <1>1, BlocksGrow, RowSets
  <1>3. mom \subseteq Trained(s)
    BY DEF SteppedMomentum, MomentumLeft
  <1>4. \A r \in Rows : strays[r] = IF r \notin Trained(s) /\ new[r] # h.rows[r]
                                      THEN history[r] + 1 ELSE history[r]
    BY DEF SteppedStrays
  <1>5. Moved(h) \subseteq Trained(s) \cup momentum
    BY DEF Moved
  <1>6. ASSUME ~WarmingUp(s), NEW r \in Rows, new[r] # h.rows[r]
        PROVE  r \in Moved(h) \/ (h.rows[r].norm > 0 /\ \E q \in Moved(h) : q < r)
    BY <1>6 DEF SteppedRows, Turns
  <1> HIDE DEF s, new, mom, strays
  <1>7. CASE Doubling
    <2>1. /\ \A r \in Rows : h.rows[r].norm > 0 => r < Active(s)
          /\ \A r \in momentum : r < Active(s)
          /\ \A r \in Rows : history[r] <= 1
          /\ \A r \in Rows : history[r] > 0 =>
               r < PrevActive(s) /\ \A q \in momentum : r < q
      BY <1>7 DEF Trail, s
    <2>2. Trained(s) = Block(s) /\ ~WarmingUp(s) /\ ~FirstPhase(s)
      BY <1>7 DEF Trained, Doubling, WarmingUp, FirstPhase
    <2>3. \A r \in Rows : r \in Block(s) <=> PrevActive(s) <= r /\ r < Active(s)
      BY <1>1, <1>2 DEF Block
    <2>4. \A r \in Moved(h) : r \in Rows /\ r < Active(s)
      BY <1>2, <1>5, <2>1, <2>2, <2>3
    <2>5. \A r \in Rows : new[r].norm > 0 => r < Active(s)
      BY <1>6, <2>1, <2>2, <2>4
    <2>6. \A r \in mom : r < Active(s)
      BY <1>2, <1>3, <2>2, <2>3
    <2>7. ASSUME NEW r \in Rows, r \notin Trained(s), new[r] # h.rows[r]
          PROVE  r < PrevActive(s) /\ history[r] = 0
      <3>1. r < PrevActive(s)
        BY <1>6, <2>1, <2>2, <2>3, <2>4, <2>7, <1>1, <1>2
      <3>2. PICK q \in Moved(h) : q <= r
        BY <1>6, <2>2, <2>7, <1>1, <2>4
      <3>3. q \in momentum
        BY <3>1, <3>2, <1>1, <1>2, <1>5, <2>2, <2>3, <2>4
      <3>4. ~(history[r] > 0)
        BY <3>2, <3>3, <2>1, <2>4, <1>1
      <3> QED
        BY <3>1, <3>4, <1>1
    <2>8. ASSUME NEW r \in Rows
          PROVE  /\ strays[r] <= 1
                 /\ strays[r] > 0 => r < PrevActive(s) /\ \A q \in mom : r < q
      <3>1. \A q \in mom : q \in Rows /\ PrevActive(s) <= q
        BY <1>2, <1>3, <2>2, <2>3
      <3>2. r < PrevActive(s) => \A q \in mom : r < q
        BY <3>1, <1>1, <1>2
      <3>3. CASE r \notin Trained(s) /\ new[r] # h.rows[r]
        <4>1. strays[r] = 1 /\ r < PrevActive(s)
          BY <3>3, <1>4, <2>7
        <4> QED
          BY <4>1, <3>2
      <3>4. CASE ~(r \notin Trained(s) /\ new[r] # h.rows[r])
        <4>1. strays[r] = history[r]
          BY <3>4, <1>4
        <4> QED
          BY <4>1, <3>2, <2>1
      <3> QED
        BY <3>3, <3>4
    <2> QED
      BY <1>7, <2>2, <2>5, <2>6, <2>8 DEF Trail, s, new, mom, strays
  <1>8. CASE ~Doubling
    <2>1. /\ \A r \in Rows : history[r] = 0
          /\ FirstPhase(s) => momentum \subseteq {0} /\ \A r \in Rows : h.rows[r].norm > 0 => r = 0
      BY <1>8 DEF Trail, s
    <2>2. CASE FirstPhase(s)
      <3>1. Trained(s) = {0} /\ ~WarmingUp(s)
        BY <1>8, <2>2 DEF Trained, WarmingUp, FirstPhase
      <3>2. Moved(h) \subseteq {0}
        BY <1>5, <2>1, <2>2, <3>1
      <3>3. \A r \in Rows : new[r] # h.rows[r] => r = 0
        BY <1>6, <2>1, <2>2, <3>1, <3>2
      <3>4. \A r \in Rows : strays[r] = 0
        BY <1>4, <2>1, <3>1, <3>3
      <3>5. \A r \in Rows : new[r].norm > 0 => r = 0
        BY <2>1, <2>2, <3>3
      <3> QED
        BY <1>3, <1>8, <3>1, <3>4, <3>5 DEF Trail, s, new, mom, strays
    <2>3. CASE ~FirstPhase(s)
      <3>1. Trained(s) = Rows
        BY <1>8, <2>3 DEF Trained
      <3>2. \A r \in Rows : strays[r] = 0
        BY <1>4, <2>1, <3>1
      <3> QED
        BY <1>8, <2>3, <3>2 DEF Trail, s, new, mom, strays
    <2> QED
      BY <2>2, <2>3
  <1> QED
    BY <1>7, <1>8

\* What holds of moves if the rollouts are told their step, for the running job
\* and for the one that would resume from the checkpoint.
Traced ==
  ~config.async =>
    /\ Trail(hook.rows, momentum, history, step)
    /\ Trail(saved.rows, saved.momentum, saved.history, saved.step)

LEMMA FreshRows ==
  ASSUME config \in Configs
  PROVE  /\ Trail(Fresh.rows, {}, NoHistory, 0)
         /\ config.curriculum \in Seeding => Fresh.rows[0].norm > 0 \/ Raw(0)
  <1> DEFINE rows == [r \in Rows |-> FirstRow]
             first == IF config.learnable THEN AlphaInit ELSE Scale
             built == Built(rows, first)
  <1>1. rows \in [Rows -> Row] /\ first \in Norms
    BY DEF Row, Norms, FirstRow
  <1>2. \A r \in Rows : rows[r].norm > 0 <=> config.curriculum = "warmup_expand"
    BY DEF FirstRow, WarmingUp
  <1> HIDE DEF rows, first
  <1>3. built = [step |-> 0, rows |-> rows, alpha |-> first, switched |-> FALSE,
                 stage |-> -1, expanded |-> FALSE]
    BY DEF Built
  <1>4. built \in Hooks /\ built.rows = rows
    BY <1>1, <1>3, StageType DEF Hooks
  <1>5. Fresh = AtStep(built, 0) /\ 0 \in 0..TotalSteps
    BY DEF Fresh, rows, first
  <1> HIDE DEF built
  <1>6. \A r \in Rows : NoHistory[r] = 0
    BY DEF NoHistory
  <1>7. Trail(built.rows, {}, NoHistory, 0)
    BY <1>2, <1>4, <1>6 DEF Trail, Doubling, FirstPhase
  <1>8. Trail(AtStep(built, 0).rows, {}, NoHistory, 0)
    BY <1>4, <1>5, <1>7, TrailAt
  <1>9. config.curriculum = "warmup_expand" => Fresh.rows[0].norm > 0
    <2>1. 0 \in Rows
      BY DEF Rows
    <2> QED
      BY <1>2, <1>4, <1>5, <2>1, AtStepRows
  <1>10. config.curriculum = "raw_then_double" => Raw(0)
    BY StageType DEF Raw
  <1>11. config.curriculum = "progressive_double" => Fresh.rows[0].norm > 0
    BY FreshHook DEF Doubling, Raw
  <1> QED
    BY <1>5, <1>8, <1>9, <1>10, <1>11 DEF Seeding

LEMMA TracedInit == Init => Traced
  <1> SUFFICES ASSUME Init PROVE Traced
    OBVIOUS
  <1>1. /\ config \in Configs /\ step = 0 /\ hook = Fresh /\ momentum = {} /\ history = NoHistory
        /\ saved = [rows |-> Fresh.rows, alpha |-> Fresh.alpha, momentum |-> {},
                    step |-> 0, history |-> NoHistory]
    BY DEF Init
  <1>2. saved.rows = Fresh.rows /\ saved.momentum = {} /\ saved.step = 0 /\ saved.history = NoHistory
    BY <1>1
  <1> QED
    BY <1>1, <1>2, FreshRows DEF Traced

\* Moving the hook to a step of the running launch or to the next one.
LEMMA TracedAt ==
  ASSUME Always, Traced, ~config.async, NEW s \in 0..TotalSteps,
         s = step \/ s = step + 1
  PROVE  Trail(AtStep(hook, s).rows, momentum, history, s)
  <1>1. hook \in Hooks /\ momentum \in SUBSET Rows /\ step \in Nat
    BY DEF Always, TypeOK
  <1>2. Trail(hook.rows, momentum, history, s)
    BY <1>1, TrailNext DEF Traced
  <1> QED
    BY <1>1, <1>2, TrailAt

LEMMA TracedNext ==
  ASSUME Always, Together, Traced, [Next]_vars
  PROVE  Traced'
  <1>1. /\ step \in 0..TotalSteps /\ hook \in Hooks /\ Settled(hook) /\ config \in Configs
        /\ momentum \subseteq Rows /\ history \in Histories /\ TotalSteps \in Nat
    BY DEF Always, TypeOK
  <1>2. config' = config
    BY AlwaysNext
  <1> SUFFICES ASSUME ~config.async
               PROVE  /\ Trail(hook'.rows, momentum', history', step')
                      /\ Trail(saved'.rows, saved'.momentum, saved'.history, saved'.step)
    BY <1>2 DEF Traced, Trail, Doubling, FirstPhase
  <1>3. /\ Trail(hook.rows, momentum, history, step)
        /\ Trail(saved.rows, saved.momentum, saved.history, saved.step)
    BY DEF Traced
  <1>4. CASE ValidateFirst \/ OldLogProb
    <2>1. hook' = AtStep(hook, step) /\ UNCHANGED <<step, momentum, history, saved>>
      BY <1>4 DEF ValidateFirst, OldLogProb, Generates, PassedStep
    <2> QED
      BY <1>1, <1>3, <2>1, TracedAt
  <1>5. CASE Rollout
    <2>1. /\ step < TotalSteps /\ step' = step + 1 /\ hook' = AtStep(hook, step + 1)
          /\ UNCHANGED <<momentum, history, saved>>
      BY <1>5 DEF Rollout, Generates
    <2>2. step + 1 \in 0..TotalSteps
      BY <1>1, <2>1
    <2> QED
      BY <1>1, <1>3, <2>1, <2>2, TracedAt
  <1>6. CASE Update
    <2>1. pc = "update" /\ UNCHANGED <<step, saved>>
      BY <1>6 DEF Update
    <2>2. PICK n \in 1..MaxNorm :
            hook' = [hook EXCEPT !.rows = SteppedRows(hook, n), !.alpha = SteppedAlpha(hook, n)]
      BY <1>6 DEF Update
    <2>3. hook'.rows = SteppedRows(hook, n)
      BY <1>1, <2>2 DEF Hooks
    <2>4. hook.step = step
      BY <2>1 DEF Together
    <2>5. momentum' = SteppedMomentum(hook) /\ history' = SteppedStrays(hook, hook'.rows)
      BY <1>6 DEF Update, SteppedMomentum, SteppedStrays
    <2>6. Trail(hook'.rows, momentum', history', step')
      BY <1>1, <1>3, <2>1, <2>3, <2>4, <2>5, TrailStepped
    <2> QED
      BY <1>3, <2>1, <2>6
  <1>7. CASE FinishStep
    <2>1. /\ hook' = hook \/ hook' = AtStep(hook, step)
          /\ UNCHANGED <<step, momentum, history>>
          /\ \/ saved' = saved
             \/ saved' = [rows |-> hook'.rows, alpha |-> hook'.alpha, momentum |-> momentum,
                          step |-> step, history |-> history]
      BY <1>7 DEF FinishStep, Generates
    <2>2. Trail(hook'.rows, momentum, history, step)
      BY <1>1, <1>3, <2>1, TracedAt
    <2> QED
      BY <1>3, <2>1, <2>2
  <1>8. CASE CrashAndResume
    <2>1. /\ hook' = [Fresh EXCEPT !.rows = saved.rows,
                                   !.alpha = IF config.learnable THEN saved.alpha ELSE Fresh.alpha]
          /\ momentum' = saved.momentum /\ history' = saved.history
          /\ step' = saved.step /\ saved' = saved
      BY <1>8 DEF CrashAndResume
    <2>2. hook'.rows = saved.rows
      BY <1>1, <2>1, FreshHook DEF Hooks
    <2> QED
      BY <1>3, <2>1, <2>2
  <1>9. CASE StartTraining \/ SkippedUpdate \/ UpdateRaises \/ Ended \/ UNCHANGED vars
    <2>1. UNCHANGED <<step, hook, momentum, history, saved>>
      BY <1>9 DEF StartTraining, SkippedUpdate, UpdateRaises, Ended, vars
    <2> QED
      BY <1>3, <2>1
  <1> QED
    BY <1>4, <1>5, <1>6, <1>7, <1>8, <1>9 DEF Next

LEMMA TracedAlways == Spec => [](Always /\ Together /\ Traced)
  <1>1. Always /\ Together /\ Traced /\ [Next]_vars => (Always /\ Together /\ Traced)'
    BY AlwaysNext, TogetherNext, TracedNext
  <1> QED
    BY <1>1, StagesInit, TracedInit, PTL DEF Spec

-----------------------------------------------------------------------------
(* Where a gradient comes from.                                             *)

\* A combination in which row 0 has a direction depends on the parameters.
LEMMA GradientOf ==
  ASSUME NEW h \in Hooks, config.curriculum \in Seeding, h.rows[0].norm > 0
  PROVE  HasGradient(h)
  <1> DEFINE on == {r \in Used(h.step) : h.rows[r].norm > 0}
             pairs == {<<r, h.rows[r].dir>> : r \in on}
  <1>1. 0 \in Used(h.step)
    <2>1. h.step \in Nat
      BY DEF Hooks
    <2>2. 0 \in Rows /\ Active(h.step) \in 1..NumVectors
      BY <2>1, RowSets
    <2> QED
      BY <2>2 DEF Used, FirstPhase, Seeding
  <1>2. 0 \in on
    BY <1>1
  <1>3. <<0, h.rows[0].dir>> \in pairs
    BY <1>2
  <1>4. Injected(h) = [seed |-> Seed(h.step),
                       scale |-> IF Raw(h.step) THEN h.rows[0].norm ELSE h.alpha,
                       rows |-> pairs]
    BY <1>2 DEF Injected, Vector
  <1> HIDE DEF pairs
  <1>5. Injected(h).rows # {}
    BY <1>3, <1>4
  <1> QED
    BY <1>5 DEF HasGradient, NoVector

\* A hook has a row 0 to combine, or injects it as it is, and has one for good
\* once the raw phase is over.
Rooted(h) ==
  /\ h.rows[0].norm > 0 \/ Raw(h.step)
  /\ config.curriculum = "raw_then_double" /\ h.switched => h.rows[0].norm > 0

\* The same of the running job and of one that would resume from the checkpoint,
\* and no job has failed.
Training ==
  config.curriculum \in Seeding =>
    /\ pc # "failed"
    /\ Rooted(hook)
    /\ saved.rows[0].norm > 0 \/ config.curriculum = "raw_then_double"

LEMMA RootedGradient ==
  ASSUME NEW h \in Hooks, config.curriculum \in Seeding, Rooted(h)
  PROVE  HasGradient(h)
  <1>1. CASE Raw(h.step)
    BY <1>1 DEF HasGradient
  <1>2. CASE h.rows[0].norm > 0
    BY <1>2, GradientOf
  <1> QED
    BY <1>1, <1>2 DEF Rooted

\* Going to any step keeps the root: if it ends the raw phase, that gives row 0 a
\* direction.
LEMMA RootedAt ==
  ASSUME NEW h \in Hooks, NEW s \in 0..TotalSteps, config.curriculum \in Seeding, Rooted(h)
  PROVE  Rooted(AtStep(h, s))
  <1> DEFINE g == AtStep(h, s)
  <1>1. /\ g.step = s /\ Settled(g)
        /\ g.switched => h.switched \/ (s >= StageSteps /\ g.rows[0].norm > 0)
    BY AtStepHook
  <1>2. h.rows[0].norm > 0 => g.rows[0].norm > 0
    BY AtStepRows
  <1>3. Raw(h.step) => config.curriculum = "raw_then_double"
    BY DEF Raw
  <1>4. s \in Nat /\ StageSteps \in Nat
    BY StageType
  <1> HIDE DEF g
  <1>5. config.curriculum = "raw_then_double" /\ g.switched => g.rows[0].norm > 0
    BY <1>1, <1>2 DEF Rooted
  <1>6. config.curriculum = "raw_then_double" /\ ~Raw(s) => g.switched
    BY <1>1, <1>4 DEF Raw, Settled
  <1>7. g.rows[0].norm > 0 \/ Raw(s)
    BY <1>2, <1>3, <1>5, <1>6 DEF Rooted
  <1> QED
    BY <1>1, <1>5, <1>7 DEF Rooted, g

LEMMA TrainingInit == Init => Training
  <1> SUFFICES ASSUME Init, config.curriculum \in Seeding PROVE Training
    BY DEF Training
  <1>1. /\ config \in Configs /\ pc = "start" /\ hook = Fresh
        /\ saved = [rows |-> Fresh.rows, alpha |-> Fresh.alpha, momentum |-> {},
                    step |-> 0, history |-> NoHistory]
    BY DEF Init
  <1>2. /\ Fresh.rows[0].norm > 0 \/ Raw(0)
        /\ Fresh.step = 0 /\ ~Fresh.switched
    BY <1>1, FreshRows, FreshHook
  <1>3. saved.rows = Fresh.rows
    BY <1>1
  <1>4. Raw(0) => config.curriculum = "raw_then_double"
    BY DEF Raw
  <1> QED
    BY <1>1, <1>2, <1>3, <1>4 DEF Training, Rooted

LEMMA TrainingNext ==
  ASSUME Always, Training, [Next]_vars
  PROVE  Training'
  <1>1. /\ step \in 0..TotalSteps /\ hook \in Hooks /\ config \in Configs /\ TotalSteps \in Nat
    BY DEF Always, TypeOK
  <1>2. config' = config
    BY AlwaysNext
  <1> SUFFICES ASSUME config.curriculum \in Seeding
               PROVE  /\ pc' # "failed"
                      /\ Rooted(hook')
                      /\ saved'.rows[0].norm > 0 \/ config.curriculum = "raw_then_double"
    BY <1>2 DEF Training, Rooted, Raw
  <1>3. /\ pc # "failed" /\ Rooted(hook)
        /\ saved.rows[0].norm > 0 \/ config.curriculum = "raw_then_double"
    BY DEF Training
  <1>4. \A s \in 0..TotalSteps : Rooted(AtStep(hook, s))
    BY <1>1, <1>3, RootedAt
  <1>5. ASSUME NEW s \in 0..TotalSteps, Generates(s) PROVE Rooted(hook')
    BY <1>3, <1>4, <1>5 DEF Generates
  <1>6. CASE ValidateFirst
    BY <1>1, <1>3, <1>5, <1>6 DEF ValidateFirst
  <1>7. CASE Rollout
    <2>1. step + 1 \in 0..TotalSteps
      BY <1>1, <1>7 DEF Rollout
    <2> QED
      BY <1>3, <1>5, <1>7, <2>1 DEF Rollout
  <1>8. CASE OldLogProb
    BY <1>1, <1>3, <1>4, <1>8 DEF OldLogProb, PassedStep
  <1>9. CASE Update
    <2>1. PICK n \in 1..MaxNorm :
            hook' = [hook EXCEPT !.rows = SteppedRows(hook, n), !.alpha = SteppedAlpha(hook, n)]
      BY <1>9 DEF Update
    <2>2. /\ hook'.rows = SteppedRows(hook, n) /\ hook'.step = hook.step
          /\ hook'.switched = hook.switched
      BY <1>1, <2>1 DEF Hooks
    <2>3. 0 \in Rows
      BY DEF Rows
    <2>4. hook.rows[0].norm > 0 => hook'.rows[0].norm > 0
      BY <1>1, <2>2, <2>3, SteppedHook
    <2>5. pc' # "failed" /\ saved' = saved
      BY <1>9 DEF Update, NextBatch
    <2> QED
      BY <1>3, <2>2, <2>4, <2>5 DEF Rooted
  <1>10. CASE UpdateRaises
    BY <1>1, <1>3, <1>10, RootedGradient DEF UpdateRaises
  <1>11. CASE FinishStep
    <2>1. pc' = "rollout" /\ (Generates(step) \/ hook' = hook)
      BY <1>11 DEF FinishStep
    <2>2. Rooted(hook')
      BY <1>1, <1>3, <1>5, <2>1
    <2>3. \/ saved' = saved
          \/ saved' = [rows |-> hook'.rows, alpha |-> hook'.alpha, momentum |-> momentum,
                       step |-> step, history |-> history]
      BY <1>11 DEF FinishStep
    <2>4. Raw(hook'.step) => config.curriculum = "raw_then_double"
      BY DEF Raw
    <2>5. saved'.rows[0].norm > 0 \/ config.curriculum = "raw_then_double"
      BY <1>3, <2>2, <2>3, <2>4 DEF Rooted
    <2> QED
      BY <2>1, <2>2, <2>5
  <1>12. CASE CrashAndResume
    <2>1. /\ hook' = [Fresh EXCEPT !.rows = saved.rows,
                                   !.alpha = IF config.learnable THEN saved.alpha ELSE Fresh.alpha]
          /\ pc' = "start" /\ saved' = saved
      BY <1>12 DEF CrashAndResume
    <2>2. Fresh \in Hooks /\ Fresh.step = 0 /\ ~Fresh.switched
      BY <1>1, FreshHook
    <2>3. hook'.rows = saved.rows /\ hook'.step = 0 /\ hook'.switched = Fresh.switched
      BY <2>1, <2>2 DEF Hooks
    <2>4. config.curriculum = "raw_then_double" => Raw(0)
      BY StageType DEF Raw
    <2> QED
      BY <1>3, <2>1, <2>2, <2>3, <2>4 DEF Rooted
  <1>13. CASE StartTraining \/ SkippedUpdate
    BY <1>3, <1>13 DEF StartTraining, SkippedUpdate, NextBatch
  <1>14. CASE Ended \/ UNCHANGED vars
    BY <1>3, <1>14 DEF Ended, vars
  <1> QED
    BY <1>6, <1>7, <1>8, <1>9, <1>10, <1>11, <1>12, <1>13, <1>14 DEF Next

-----------------------------------------------------------------------------
(* The theorems.                                                            *)

\* Both invariants hold in every state.
LEMMA StagesInvariant == Spec => [](Always /\ Together)
  <1>1. Always /\ Together /\ [Next]_vars => (Always /\ Together)'
    BY AlwaysNext, TogetherNext
  <1> QED
    BY <1>1, StagesInit, PTL DEF Spec

\* Every reachable state is well typed: norms and alpha keep their bounds, stages
\* never pass the last one.
THEOREM TypeCorrect == Spec => []TypeOK
  <1>1. Always => TypeOK
    BY DEF Always
  <1> QED
    BY <1>1, StagesInvariant, PTL

\* When the rollouts are told their step, they inject the very vector the first
\* update of the step starts from, for every curriculum, stage and restart
\* (steer_coeffs.py, set_current_global_step).
THEOREM VectorShared ==
  ASSUME AsyncModes = {FALSE}
  PROVE  Spec => []SameVector
  <1>1. Always /\ Together => SameVector
    <2> SUFFICES ASSUME Always, Together, pc = "update", batch = 0,
                        config.learnable \/ config.curriculum # "raw_then_double"
                 PROVE  Rollouts = Injected(hook)
      BY DEF SameVector
    <2>1. ~config.async /\ hook \in Hooks
      BY DEF Always, TypeOK, Configs
    <2>2. sent = Payload(hook)
      BY <2>1 DEF Together
    <2>3. sent.step = hook.step /\ sent.rows = hook.rows /\ sent.alpha = hook.alpha
      BY <2>1, <2>2, PayloadType DEF Always
    <2> QED
      BY <2>3 DEF Rollouts, Injected
  <1> QED
    BY <1>1, StagesInvariant, PTL

\* Every row a rollout combines from stage 1 on has a direction, for any number of
\* vectors, stages and restarts (_activate_new_basis_block).
THEOREM RowsActive ==
  ASSUME AsyncModes = {FALSE}
  PROVE  Spec => []AllActive
  <1>1. Always /\ Together => AllActive
    <2> SUFFICES ASSUME Always, Together, pc = "update", Doubling, ~Raw(sent.step),
                        NEW r \in Used(sent.step)
                 PROVE  sent.rows[r].norm > 0
      BY DEF AllActive
    <2>1. ~config.async
      BY DEF Always, TypeOK, Configs
    <2>2. Filled(sent.rows, sent.step)
      BY <2>1 DEF Together
    <2>3. r \in 0..(Active(sent.step) - 1)
      BY DEF Used, Doubling, FirstPhase
    <2> QED
      BY <2>2, <2>3 DEF Filled
  <1> QED
    BY <1>1, StagesInvariant, PTL

\* Once the curriculum has fixed alpha, no step of the launch changes it, with
\* agent loops too (maybe_freeze_alpha, _rtd_extract_alpha_and_normalize).
THEOREM AlphaStays == Spec => AlphaFixed
  <1>1. Always /\ [Next]_vars =>
          (AlphaFrozen(hook.step) /\ AlphaFrozen(hook'.step) => hook'.alpha = hook.alpha)
    <2> SUFFICES ASSUME Always, [Next]_vars, AlphaFrozen(hook.step), AlphaFrozen(hook'.step)
                 PROVE  hook'.alpha = hook.alpha
      OBVIOUS
    <2>1. /\ hook \in Hooks /\ Settled(hook) /\ config \in Configs /\ step \in 0..TotalSteps
          /\ hook.step \in Nat /\ TotalSteps \in Nat
      BY DEF Always, TypeOK, Hooks
    <2>2. config.curriculum = "raw_then_double" => hook.switched
      <3>1. config.curriculum = "raw_then_double" => Stage(hook.step) >= 1
        BY DEF AlphaFrozen
      <3>2. hook.step < StageSteps => Stage(hook.step) = 0
        BY <2>1, StageSuccessor
      <3>3. StageSteps \in Nat
        BY StageType
      <3>4. config.curriculum = "raw_then_double" => hook.step >= StageSteps
        BY <2>1, <3>1, <3>2, <3>3
      <3> QED
        BY <2>1, <3>4 DEF Settled
    <2>3. \A s \in 0..TotalSteps : AtStep(hook, s).alpha = hook.alpha
      BY <2>1, <2>2, AtStepHook
    <2>4. CASE ValidateFirst
      BY <2>1, <2>3, <2>4 DEF ValidateFirst, Generates
    <2>5. CASE StartTraining
      BY <2>5 DEF StartTraining
    <2>6. CASE Rollout
      <3>1. step + 1 \in 0..TotalSteps
        BY <2>1, <2>6 DEF Rollout
      <3> QED
        BY <2>3, <2>6, <3>1 DEF Rollout, Generates
    <2>7. CASE OldLogProb
      BY <2>1, <2>3, <2>7 DEF OldLogProb, PassedStep
    <2>8. CASE Update
      <3>1. PICK n \in 1..MaxNorm :
              hook' = [hook EXCEPT !.rows = SteppedRows(hook, n), !.alpha = SteppedAlpha(hook, n)]
        BY <2>8 DEF Update
      <3>2. hook'.alpha = SteppedAlpha(hook, n)
        BY <2>1, <3>1 DEF Hooks
      <3> QED
        BY <2>1, <3>2, SteppedHook
    <2>9. CASE SkippedUpdate \/ UpdateRaises
      BY <2>9 DEF SkippedUpdate, UpdateRaises
    <2>10. CASE FinishStep
      BY <2>1, <2>3, <2>10 DEF FinishStep, Generates
    <2>11. CASE CrashAndResume
      <3>1. hook' = [Fresh EXCEPT !.rows = saved.rows,
                                  !.alpha = IF config.learnable THEN saved.alpha ELSE Fresh.alpha]
        BY <2>11 DEF CrashAndResume
      <3>2. Fresh \in Hooks /\ Fresh.step = 0 /\ Fresh.alpha = AlphaStart
        BY <2>1, FreshHook DEF AlphaStart
      <3>3. hook'.step = 0 /\ hook'.alpha = IF config.learnable THEN saved.alpha ELSE Scale
        BY <3>1, <3>2 DEF Hooks, AlphaStart
      <3>4. Stage(0) = 0
        BY StageSuccessor
      <3>5. config.curriculum = "alpha_then_basis" /\ WarmupSteps = 0
        BY <3>3, <3>4 DEF AlphaFrozen
      <3>6. hook.alpha = AlphaStart /\ saved.alpha = AlphaStart
        BY <3>5 DEF Always
      <3> QED
        BY <3>3, <3>6 DEF AlphaStart
    <2>12. CASE Ended \/ UNCHANGED vars
      BY <2>12 DEF Ended, vars
    <2> QED
      BY <2>4, <2>5, <2>6, <2>7, <2>8, <2>9, <2>10, <2>11, <2>12 DEF Next
  <1> QED
    BY <1>1, StagesInvariant, PTL DEF Spec, AlphaFixed

\* Entering a stage, for the first time or again after a restart, keeps the
\* direction of every row that has one (_activate_new_basis_block).
THEOREM DirectionsKept == Spec => EntryKeepsDirections
  <1>1. Always /\ [Next]_vars =>
          (Doubling /\ pc' # "start" /\ pc # "update" =>
             \A r \in Rows : hook.rows[r].norm > 0 => hook'.rows[r].dir = hook.rows[r].dir)
    <2> SUFFICES ASSUME Always, [Next]_vars, Doubling, pc' # "start", pc # "update",
                        NEW r \in Rows, hook.rows[r].norm > 0
                 PROVE  hook'.rows[r].dir = hook.rows[r].dir
      OBVIOUS
    <2>1. hook \in Hooks /\ step \in 0..TotalSteps /\ TotalSteps \in Nat
      BY DEF Always, TypeOK
    <2>2. \A s \in 0..TotalSteps : AtStep(hook, s).rows[r].dir = hook.rows[r].dir
      BY <2>1, AtStepHook DEF Keeps
    <2>3. CASE ValidateFirst
      BY <2>1, <2>2, <2>3 DEF ValidateFirst, Generates
    <2>4. CASE StartTraining
      BY <2>4 DEF StartTraining
    <2>5. CASE Rollout
      <3>1. step + 1 \in 0..TotalSteps
        BY <2>1, <2>5 DEF Rollout
      <3> QED
        BY <2>2, <2>5, <3>1 DEF Rollout, Generates
    <2>6. CASE OldLogProb
      BY <2>1, <2>2, <2>6 DEF OldLogProb, PassedStep
    <2>7. CASE FinishStep
      BY <2>1, <2>2, <2>7 DEF FinishStep, Generates
    <2>8. CASE Ended \/ UNCHANGED vars
      BY <2>8 DEF Ended, vars
    <2> QED
      BY <2>3, <2>4, <2>5, <2>6, <2>7, <2>8 DEF Next, Update, SkippedUpdate, UpdateRaises, CrashAndResume
  <1> QED
    BY <1>1, StagesInvariant, PTL DEF Spec, EntryKeepsDirections

\* What momentum is left carries a row away at most once after its block is closed,
\* for any number of stages, skipped updates and restarts
\* (_reset_frozen_basis_optimizer_state).
THEOREM StraysAtMostOnce ==
  ASSUME AsyncModes = {FALSE}
  PROVE  Spec => []StraysOnce
  <1>1. Always /\ Together /\ Traced => StraysOnce
    <2> SUFFICES ASSUME Always, Traced, NEW r \in Rows
                 PROVE  history[r] <= 1
      BY DEF StraysOnce
    <2>1. ~config.async
      BY DEF Always, TypeOK, Configs
    <2> QED
      BY <2>1 DEF Traced, Trail
  <1> QED
    BY <1>1, TracedAlways, PTL

\* In the curricula that give row 0 a direction first, or inject it as it is, every
\* update has a gradient, for any number of stages, skipped updates and restarts,
\* with agent loops too (orthogonalize_trainable_vector_hooks, sample_vector,
\* _rtd_extract_alpha_and_normalize, _activate_new_basis_block).
THEOREM SeedsAlwaysTrain == Spec => []SeedsTrain
  <1>1. Always /\ Training /\ [Next]_vars => Training'
    BY TrainingNext
  <1>2. Training => SeedsTrain
    BY DEF Training, SeedsTrain
  <1> QED
    BY <1>1, <1>2, TrainingInit, StagesInvariant, PTL DEF Spec

-----------------------------------------------------------------------------
(* With agent loops.                                                        *)

\* Where hook and vLLM are when only the log probabilities bring the step.
Lagging ==
  config.async =>
    /\ config.bypass => hook.step = 0 /\ sent.step = 0 /\ pc # "logprob"
    /\ ~config.bypass =>
         /\ pc = "start" => hook.step = 0
         /\ pc = "rollout" => hook.step \in {0, step}
         /\ pc \in {"update", "validate"} => hook.step = step
         /\ pc \in {"logprob", "update"} => sent.step \in {0, step - 1}

LEMMA LaggingNext ==
  ASSUME Always, Lagging, [Next]_vars
  PROVE  Lagging'
  <1>1. /\ hook \in Hooks /\ step \in 0..TotalSteps /\ TotalSteps \in Nat
        /\ config \in Configs /\ config' = config
    BY AlwaysNext DEF Always, TypeOK
  <1> SUFFICES ASSUME config.async PROVE Lagging'
    BY <1>1 DEF Lagging
  <1>2. ASSUME NEW s, Generates(s)
        PROVE  hook' = hook /\ sent'.step = hook.step
    BY <1>1, <1>2, PayloadType DEF Generates
  <1>3. CASE ValidateFirst
    BY <1>1, <1>2, <1>3 DEF ValidateFirst, Lagging
  <1>4. CASE StartTraining
    BY <1>1, <1>4 DEF StartTraining, Lagging
  <1>5. CASE Rollout
    <2>1. /\ pc = "rollout" /\ step' = step + 1 /\ Generates(step + 1)
          /\ pc' = IF config.bypass THEN "update" ELSE "logprob"
      BY <1>5 DEF Rollout
    <2>2. hook' = hook /\ sent'.step = hook.step
      BY <1>2, <2>1
    <2>3. step = step' - 1
      BY <1>1, <2>1
    <2> QED
      BY <1>1, <2>1, <2>2, <2>3 DEF Lagging
  <1>6. CASE OldLogProb
    <2>1. /\ hook' = AtStep(hook, step) /\ pc = "logprob" /\ pc' = "update"
          /\ UNCHANGED <<step, sent>>
      BY <1>6 DEF OldLogProb, PassedStep
    <2>2. hook'.step = step
      BY <1>1, <2>1, AtStepHook
    <2> QED
      BY <1>1, <2>1, <2>2 DEF Lagging
  <1>7. CASE Update \/ SkippedUpdate
    <2>1. hook'.step = hook.step
      <3>1. CASE Update
        <4>1. PICK n \in 1..MaxNorm :
                hook' = [hook EXCEPT !.rows = SteppedRows(hook, n), !.alpha = SteppedAlpha(hook, n)]
          BY <3>1 DEF Update
        <4> QED
          BY <1>1, <4>1 DEF Hooks
      <3>2. CASE SkippedUpdate
        BY <3>2 DEF SkippedUpdate
      <3> QED
        BY <1>7, <3>1, <3>2
    <2>2. pc = "update" /\ pc' \in {"update", "validate"} /\ UNCHANGED <<step, sent>>
      BY <1>7 DEF Update, SkippedUpdate, NextBatch
    <2> QED
      BY <1>1, <2>1, <2>2 DEF Lagging
  <1>8. CASE FinishStep
    <2>1. pc = "validate" /\ pc' = "rollout" /\ step' = step
      BY <1>8 DEF FinishStep
    <2>2. hook' = hook /\ sent'.step \in {sent.step, hook.step}
      BY <1>2, <1>8 DEF FinishStep
    <2> QED
      BY <1>1, <2>1, <2>2 DEF Lagging
  <1>9. CASE CrashAndResume
    <2>1. /\ hook' = [Fresh EXCEPT !.rows = saved.rows,
                                   !.alpha = IF config.learnable THEN saved.alpha ELSE @]
          /\ sent' = Payload(hook') /\ pc' = "start"
      BY <1>9 DEF CrashAndResume
    <2>2. hook'.step = 0
      BY <1>1, <2>1, FreshHook DEF Hooks
    <2>3. sent'.step = 0
      BY <2>1, <2>2 DEF Payload
    <2> QED
      BY <1>1, <2>1, <2>2, <2>3 DEF Lagging
  <1>10. CASE UpdateRaises
    BY <1>1, <1>10 DEF UpdateRaises, Lagging
  <1>11. CASE Ended \/ UNCHANGED vars
    BY <1>11 DEF Ended, vars, Lagging
  <1> QED
    BY <1>3, <1>4, <1>5, <1>6, <1>7, <1>8, <1>9, <1>10, <1>11 DEF Next

\* With agent loops the rollouts of a step are never steered for that step, as its
\* updates are, but for the one before it or, after a resume, for step 0.  If the
\* old log probabilities are bypassed too, nothing brings a step to hook or vLLM:
\* both stay at step 0, and no curriculum leaves its first stage
\* (generate_sequences, rollout_mode, compute_log_prob, update_actor).
THEOREM AgentLoopsLag ==
  Spec => [](config.async /\ pc = "update" =>
               IF config.bypass THEN hook.step = 0 /\ sent.step = 0
                                ELSE hook.step = step /\ sent.step \in {0, step - 1})
  <1>1. Init => Lagging
    <2> SUFFICES ASSUME Init PROVE Lagging
      OBVIOUS
    <2>1. hook = Fresh /\ sent = Payload(Fresh) /\ pc = "start" /\ config \in Configs
      BY DEF Init
    <2>2. Fresh.step = 0 /\ Payload(Fresh).step = 0
      BY <2>1, FreshHook DEF Payload
    <2> QED
      BY <2>1, <2>2 DEF Lagging
  <1>2. Always /\ Lagging /\ [Next]_vars => Lagging'
    BY LaggingNext
  <1>3. Lagging => (config.async /\ pc = "update" =>
                      IF config.bypass THEN hook.step = 0 /\ sent.step = 0
                                       ELSE hook.step = step /\ sent.step \in {0, step - 1})
    BY DEF Lagging
  <1> QED
    BY <1>1, <1>2, <1>3, StagesInvariant, PTL DEF Spec
=============================================================================
