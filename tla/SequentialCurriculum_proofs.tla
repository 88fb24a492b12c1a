---------------------- MODULE SequentialCurriculum_proofs ----------------------
(***************************************************************************)
(* The sequential curriculum keeps its promises for any number of layers,  *)
(* vectors, mini-batches and steps: layers stay synchronized, switch only  *)
(* together and when all are ready, finished vectors stay put, and each    *)
(* has one validation.  And they say how it ends: a step raises only after *)
(* the last vector, and then the first one does.                           *)
(***************************************************************************)
EXTENDS SequentialCurriculum, TLAPS

USE CurriculumAssumption

HookType ==
  [active : 0..NumVectors, evalIdx : Int, steps : Nat, reached : BOOLEAN, done : BOOLEAN,
   target : Int, norm : [Rows -> Nat], momentum : SUBSET Rows]

\* What holds of every layer by itself.
\*  - the curriculum is done when the active index is past the last row, which
\*    a layer only gets to when its last vector has reached the target;
\*  - the target is the norm vector 0 has;
\*  - a vector reaches its target after MinSteps steps at the earliest;
\*  - no row before the active one has momentum.
HookOK(h) ==
  /\ h \in HookType
  /\ h.done <=> h.active = NumVectors
  /\ h.done => h.reached
  /\ h.active > 0 => h.target = h.norm[0]
  /\ h.reached => h.steps >= MinSteps
  /\ \A v \in h.momentum : h.done \/ v >= h.active

\* An optimizer step changes the norms and the momentum of a layer only, keeps
\* what HookOK says and leaves the finished vectors where they are.
LEMMA SteppedHook ==
  ASSUME NEW h, HookOK(h), ~IndexError(h), NEW by \in Int
  PROVE  /\ ~h.done
         /\ HookOK(Stepped(h, by))
         /\ \A f \in {"active", "evalIdx", "steps", "reached", "done", "target"} :
              Stepped(h, by)[f] = h[f]
         /\ \A v \in Rows : v < h.active => Stepped(h, by).norm[v] = h.norm[v]
  <1> DEFINE g == Stepped(h, by)
             new == [v \in Rows |-> IF v \in Trained(h) \cup h.momentum
                                      THEN Clamp(h.norm[v] + by) ELSE h.norm[v]]
             left == (h.momentum \cup Trained(h)) \ Frozen(h)
  <1>1. ~h.done
    BY DEF HookOK, HookType, IndexError, Rows
  <1>2. g = [h EXCEPT !.norm = new, !.momentum = left]
    BY DEF Stepped
  <1>3. new \in [Rows -> Nat]
    BY DEF Clamp, HookOK, HookType
  <1>4. h.active \in Rows /\ left \in SUBSET {h.active}
    BY <1>1 DEF HookOK, HookType, Trained, Frozen, Rows
  <1>5. \A v \in Rows : v < h.active => new[v] = h.norm[v]
    BY <1>1 DEF HookOK, HookType, Trained, Rows
  <1> HIDE DEF new, left
  <1> HIDE DEF g
  <1>a. g = [active |-> h.active, evalIdx |-> h.evalIdx, steps |-> h.steps,
             reached |-> h.reached, done |-> h.done, target |-> h.target,
             norm |-> new, momentum |-> left]
    BY <1>2 DEF HookOK, HookType
  <1>6. /\ g \in HookType
        /\ g.active = h.active /\ g.evalIdx = h.evalIdx /\ g.steps = h.steps
        /\ g.reached = h.reached /\ g.done = h.done /\ g.target = h.target
        /\ g.norm = new /\ g.momentum = left
    BY <1>a, <1>3, <1>4 DEF HookOK, HookType
  <1>7. g.active > 0 => g.target = g.norm[0]
    BY <1>5, <1>6 DEF HookOK, HookType, Rows
  <1>8. HookOK(g)
    BY <1>4, <1>6, <1>7 DEF HookOK, HookType, Rows
  <1> QED
    BY <1>1, <1>5, <1>6, <1>8 DEF g

\* When a layer goes on to its next vector.
Moves(h, force) == IF h.active = 0 THEN h.steps + 1 >= RawSteps ELSE force

\* A switch goes to the next vector, keeps every norm up to the one just finished
\* and, unless it was the last, starts counting steps again.
LEMMA SwitchedHook ==
  ASSUME NEW h \in HookType, h.active < NumVectors, ~h.done,
         h.target = h.norm[0],
         h.active + 1 = NumVectors => h.reached /\ h.steps >= MinSteps,
         \A v \in h.momentum : v >= h.active
  PROVE  /\ HookOK(Switched(h))
         /\ Switched(h).active = h.active + 1
         /\ Switched(h).evalIdx = h.active
         /\ Switched(h).steps = IF h.active + 1 = NumVectors THEN h.steps ELSE 0
         /\ \A v \in Rows : v <= h.active => Switched(h).norm[v] = h.norm[v]
  <1> DEFINE g == Switched(h)
             next == h.active + 1
             new == [h.norm EXCEPT ![next] = InitNorm]
  <1>1. /\ h.active \in Rows /\ 0 \in Rows /\ h.active \in Int
        /\ next \in 0..NumVectors /\ next > 0
        /\ h.done = FALSE
    BY DEF HookType, Rows
  <1>2. CASE next \notin Rows
    <2>1. next = NumVectors
      BY <1>1, <1>2 DEF Rows
    <2>2. g = [h EXCEPT !.evalIdx = h.active, !.active = next, !.done = TRUE]
      BY <1>2 DEF Switched
    <2> HIDE DEF next, g
    <2>3. g = [active |-> next, evalIdx |-> h.active, steps |-> h.steps, reached |-> h.reached,
               done |-> TRUE, target |-> h.target, norm |-> h.norm, momentum |-> h.momentum]
      BY <2>2 DEF HookType
    <2>4. g \in HookType
      BY <2>3, <1>1 DEF HookType
    <2>5. HookOK(g)
      BY <2>3, <2>4, <2>1 DEF HookOK, next
    <2> QED
      BY <2>3, <2>5, <2>1 DEF g, next
  <1>3. CASE next \in Rows
    <2>1. next # NumVectors
      BY <1>3 DEF Rows
    <2>2. g = [h EXCEPT !.evalIdx = h.active, !.active = next, !.norm = new,
                        !.steps = 0, !.reached = FALSE, !.momentum = {}]
      BY <1>3 DEF Switched, MomentumAfterSwitch, HookType
    <2>3. /\ new \in [Rows -> Nat]
          /\ \A v \in Rows : v <= h.active => new[v] = h.norm[v]
      BY <1>1, <1>3 DEF HookType, Rows
    <2> HIDE DEF next, g, new
    <2>4. g = [active |-> next, evalIdx |-> h.active, steps |-> 0, reached |-> FALSE,
               done |-> h.done, target |-> h.target, norm |-> new, momentum |-> {}]
      BY <2>2 DEF HookType
    <2>5. g \in HookType
      BY <2>3, <2>4, <1>1 DEF HookType
    <2>6. new[0] = h.norm[0]
      BY <2>3, <1>1 DEF Rows
    <2>7. HookOK(g)
      BY <2>4, <2>5, <2>6, <2>1, <1>1 DEF HookOK
    <2> QED
      BY <2>3, <2>4, <2>7, <2>1 DEF g, next
  <1> QED
    BY <1>2, <1>3

\* A layer after its part of the curriculum has run: it keeps what HookOK says,
\* and the layer alone decides nothing but whether vector 0 is over.
LEMMA AdvancedHook ==
  ASSUME NEW h, HookOK(h), ~h.done, NEW force \in BOOLEAN,
         force => h.active = 0 \/ h.reached
  PROVE  LET g == Advanced(h, force)
         IN /\ HookOK(g)
            /\ g.active = IF Moves(h, force) THEN h.active + 1 ELSE h.active
            /\ g.evalIdx = h.active
            /\ g.steps = IF Moves(h, force) /\ h.active + 1 # NumVectors
                           THEN 0 ELSE h.steps + 1
            /\ \A v \in Rows : v <= h.active => g.norm[v] = h.norm[v]
  <1> DEFINE c == Counted(h)
             now == c.reached \/ ReachedTarget(c)
             r == [c EXCEPT !.reached = now]
             t == [c EXCEPT !.target = c.norm[0]]
             g == Advanced(h, force)
  <1>1. /\ h \in HookType /\ h.active \in Rows /\ h.active \in 0..NumVectors
        /\ h.active < NumVectors /\ h.steps \in Nat /\ h.done = FALSE
        /\ 0 \in Rows /\ h.active \in Int
    BY DEF HookOK, HookType, Rows
  <1>2. c = [active |-> h.active, evalIdx |-> h.active, steps |-> h.steps + 1,
             reached |-> h.reached, done |-> h.done, target |-> h.target,
             norm |-> h.norm, momentum |-> h.momentum]
    <2>1. c = [h EXCEPT !.steps = h.steps + 1, !.evalIdx = h.active]
      BY <1>1 DEF Counted, HookType
    <2> HIDE DEF c
    <2> QED
      BY <2>1, <1>1 DEF HookType
  <1>3. /\ \A v \in h.momentum : v >= h.active
        /\ h.reached => h.steps + 1 >= MinSteps
        /\ h.active > 0 => h.target = h.norm[0]
        /\ h.norm \in [Rows -> Nat] /\ h.momentum \in SUBSET Rows
        /\ h.target \in Int /\ h.reached \in BOOLEAN
    BY <1>1 DEF HookOK, HookType
  <1> HIDE DEF c
  <1>c. c \in HookType
    BY <1>1, <1>2, <1>3 DEF HookType
  <1>d. /\ c.active = h.active /\ c.evalIdx = h.active /\ c.steps = h.steps + 1
        /\ c.reached = h.reached /\ c.done = h.done /\ c.target = h.target
        /\ c.norm = h.norm /\ c.momentum = h.momentum
    BY <1>2
  <1>4. CASE h.active = 0
    <2>1. g = IF c.steps >= RawSteps THEN Switched(t) ELSE c
      BY <1>1, <1>4 DEF Advanced, c
    <2>2. t = [active |-> h.active, evalIdx |-> h.active, steps |-> h.steps + 1,
               reached |-> h.reached, done |-> h.done, target |-> h.norm[0],
               norm |-> h.norm, momentum |-> h.momentum]
      BY <1>c, <1>d DEF HookType
    <2> HIDE DEF t, g
    <2>3. CASE Moves(h, force)
      <3>1. g = Switched(t)
        BY <2>1, <1>2, <2>3, <1>4 DEF Moves
      <3>2. h.norm[0] \in Int
        BY <1>1, <1>3
      <3>3. t \in HookType
        BY <2>2, <1>1, <1>3, <3>2 DEF HookType
      <3>4. /\ t.active < NumVectors /\ ~t.done /\ t.target = t.norm[0]
            /\ t.active + 1 # NumVectors
            /\ \A v \in t.momentum : v >= t.active
        BY <2>2, <1>1, <1>3, <1>4
      <3>5. /\ HookOK(g) /\ g.active = t.active + 1 /\ g.evalIdx = t.active
            /\ g.steps = 0
            /\ \A v \in Rows : v <= t.active => g.norm[v] = t.norm[v]
        BY <3>1, <3>3, <3>4, SwitchedHook
      <3> QED
        BY <3>5, <2>2, <2>3, <3>4, <1>1 DEF g
    <2>4. CASE ~Moves(h, force)
      <3>1. g = c
        BY <2>1, <1>2, <2>4, <1>4 DEF Moves
      <3>2. c \in HookType
        BY <1>2, <1>1, <1>3 DEF HookType
      <3>3. HookOK(c)
        BY <3>2, <1>2, <1>1, <1>3, <1>4 DEF HookOK
      <3> QED
        BY <3>1, <3>3, <1>2, <2>4 DEF g
    <2> QED
      BY <2>3, <2>4
  <1>5. CASE h.active # 0
    <2>1. g = IF force THEN Switched(r) ELSE r
      BY <1>1, <1>5 DEF Advanced, c
    <2>2. now \in BOOLEAN /\ (h.reached => now) /\ (now => h.steps + 1 >= MinSteps)
      BY <1>2, <1>3 DEF ReachedTarget
    <2> HIDE DEF now
    <2>3. r = [active |-> h.active, evalIdx |-> h.active, steps |-> h.steps + 1,
               reached |-> now, done |-> h.done, target |-> h.target,
               norm |-> h.norm, momentum |-> h.momentum]
      BY <1>c, <1>d DEF HookType
    <2>4. h.active > 0 /\ h.target = h.norm[0] /\ Moves(h, force) = force
      BY <1>1, <1>3, <1>5 DEF Moves
    <2> HIDE DEF r, g
    <2>5. r \in HookType
      BY <2>3, <1>1, <1>3, <2>2 DEF HookType
    <2>6. CASE force
      <3>1. g = Switched(r)
        BY <2>1, <2>6
      <3>2. /\ r.active < NumVectors /\ ~r.done /\ r.target = r.norm[0]
            /\ r.reached /\ r.steps >= MinSteps
            /\ \A v \in r.momentum : v >= r.active
        BY <2>3, <2>2, <2>4, <2>6, <1>1, <1>3, <1>5
      <3>3. /\ HookOK(g) /\ g.active = r.active + 1 /\ g.evalIdx = r.active
            /\ g.steps = IF r.active + 1 = NumVectors THEN r.steps ELSE 0
            /\ \A v \in Rows : v <= r.active => g.norm[v] = r.norm[v]
        BY <3>1, <3>2, <2>5, SwitchedHook
      <3> QED
        BY <3>3, <2>3, <2>4, <2>6, <1>1 DEF g
    <2>7. CASE ~force
      <3>1. g = r
        BY <2>1, <2>7
      <3>2. HookOK(r)
        BY <2>5, <2>3, <2>2, <2>4, <1>1, <1>3 DEF HookOK
      <3> QED
        BY <3>1, <3>2, <2>3, <2>4, <2>7 DEF g
    <2> QED
      BY <2>6, <2>7
  <1> QED
    BY <1>4, <1>5

-----------------------------------------------------------------------------
SavedType == [Layers -> [norm : [Rows -> Nat], momentum : SUBSET Rows]]

\* The validations of finished steps have caught up with the active vector; in
\* a step, the switch it has seen is still to be judged.  A step sees one
\* switch: the steps of the vector it switched to are fewer than the
\* mini-batches it has done, and no layer reaches its target that soon.
Judging ==
  /\ pc = "rollout" => \A l \in Layers : evals = hook[l].active
  /\ pc \in {"update", "validate"} =>
       \A l \in Layers : hook[l].active = IF switched THEN evals + 1 ELSE evals
  /\ pc = "update" =>
       /\ batch < MiniBatches
       /\ switched =>
            \A l \in Layers :
              hook[l].active > 0 /\ (hook[l].done \/ hook[l].steps < batch)

CurriculumInv ==
  /\ hook \in [Layers -> HookType] /\ \A l \in Layers : HookOK(hook[l])
  /\ saved \in SavedType
  /\ batch \in Nat /\ evals \in Nat /\ switched \in BOOLEAN
  /\ Synchronized
  /\ Judging

\* What an optimizer step hands to the curriculum.
Passed(hooks) ==
  /\ hooks \in [Layers -> HookType]
  /\ \A l \in Layers :
       /\ HookOK(hooks[l]) /\ ~hooks[l].done
       /\ hooks[l].active = hook[l].active /\ hooks[l].evalIdx = hook[l].evalIdx
       /\ hooks[l].steps = hook[l].steps /\ hooks[l].reached = hook[l].reached
       /\ hooks[l].done = hook[l].done
       /\ \A v \in Rows : v < hook[l].active => hooks[l].norm[v] = hook[l].norm[v]

\* The layers an optimizer step hands over, and those of a skipped one, are fit
\* for the curriculum: a finished one raises before.
LEMMA StepsPass ==
  ASSUME CurriculumInv, \A l \in Layers : ~IndexError(hook[l]),
         NEW by \in [Layers -> {-1, 0, 1}]
  PROVE  /\ Passed([l \in Layers |-> Stepped(hook[l], by[l])])
         /\ Passed(hook)
  <1> DEFINE hooks == [l \in Layers |-> Stepped(hook[l], by[l])]
  <1>1. ASSUME NEW l \in Layers
        PROVE  /\ ~hook[l].done /\ HookOK(hook[l]) /\ HookOK(Stepped(hook[l], by[l]))
               /\ \A f \in {"active", "evalIdx", "steps", "reached", "done", "target"} :
                    Stepped(hook[l], by[l])[f] = hook[l][f]
               /\ \A v \in Rows : v < hook[l].active =>
                    Stepped(hook[l], by[l]).norm[v] = hook[l].norm[v]
    <2>1. HookOK(hook[l]) /\ ~IndexError(hook[l]) /\ by[l] \in Int
      BY DEF CurriculumInv
    <2> QED
      BY <2>1, SteppedHook
  <1>2. Passed(hook)
    BY <1>1 DEF Passed, CurriculumInv
  <1>3. \A l \in Layers : hooks[l] = Stepped(hook[l], by[l])
    OBVIOUS
  <1>4. hooks \in [Layers -> HookType]
    BY <1>1 DEF HookOK
  <1> HIDE DEF hooks
  <1>5. ASSUME NEW l \in Layers
        PROVE  /\ hooks[l].active = hook[l].active /\ hooks[l].evalIdx = hook[l].evalIdx
               /\ hooks[l].steps = hook[l].steps /\ hooks[l].reached = hook[l].reached
               /\ hooks[l].done = hook[l].done
    BY <1>1, <1>3
  <1>6. Passed(hooks)
    BY <1>1, <1>3, <1>4, <1>5 DEF Passed
  <1> QED
    BY <1>2, <1>6 DEF hooks

\* No layer is forced on before it has reached its target.
LEMMA ForceNeedsAll ==
  ASSUME NEW hooks, Passed(hooks), ForceSwitch(hooks), NEW l \in Layers
  PROVE  hooks[l].reached /\ hooks[l].active # 0 /\ hooks[l].steps >= MinSteps
  <1>1. HookOK(hooks[l]) /\ ~hooks[l].done /\ hooks[l].active # 0
    BY DEF Passed, ForceSwitch
  <1>2. hooks[l].active > 0 /\ hooks[l].norm[0] \in Nat
    BY <1>1 DEF HookOK, HookType, Rows
  <1>3. hooks[l].target # NoTarget
    BY <1>1, <1>2 DEF HookOK, NoTarget
  <1> QED
    BY <1>1, <1>3 DEF ForceSwitch, HookOK

\* What the rollouts are given: the vector in training, or, until the next vector
\* has had its first step, the one before.
Lag(h) ==
  \/ h.evalIdx = Injected(h)
  \/ h.steps = 0 /\ h.evalIdx = h.active - 1

\* The index of a vector in training is its own; so is that of a vector just left.
LEMMA LagFacts ==
  ASSUME NEW h, NEW i \in Rows, h.evalIdx = i,
         \/ h.active = i
         \/ h.active = i + 1 /\ (h.steps = 0 \/ i + 1 = NumVectors)
  PROVE  Lag(h)
  <1>1. i \in Int /\ i + 1 - 1 = i
    BY DEF Rows
  <1>2. CASE h.active = i
    BY <1>2 DEF Lag, Injected
  <1>3. CASE h.active = i + 1 /\ h.steps = 0
    BY <1>1, <1>3 DEF Lag
  <1>4. CASE h.active = i + 1 /\ i + 1 = NumVectors
    <2>1. h.active \notin Rows /\ NumVectors - 1 = i
      BY <1>1, <1>4 DEF Rows
    <2> QED
      BY <2>1 DEF Lag, Injected
  <1> QED
    BY <1>2, <1>3, <1>4

\* The curriculum's part of a mini-batch keeps the invariant, moves no finished
\* vector, and switches only when all layers are ready.
LEMMA AdvanceKeeps ==
  ASSUME CurriculumInv, pc = "update", NEW hooks, Passed(hooks), Advance(hooks)
  PROVE  /\ CurriculumInv'
         /\ \A l \in Layers : \A v \in Rows :
              v < hook[l].active => hook'[l].norm[v] = hook[l].norm[v]
         /\ \A l \in Layers :
              hook[l].active > 0 /\ hook'[l].active > hook[l].active =>
                \A k \in Layers : hook[k].reached /\ hook[k].steps >= MinSteps
         /\ batch' = batch + 1 /\ \A l \in Layers : Lag(hook'[l])
  <1> DEFINE force == ForceSwitch(hooks)
             moves(l) == Moves(hooks[l], force)
  <1>1. force \in BOOLEAN
    BY DEF ForceSwitch
  <1>2. force => \A l \in Layers : hooks[l].reached /\ hooks[l].active # 0
                                     /\ hooks[l].steps >= MinSteps
    BY ForceNeedsAll
  <1>3. \A l \in Layers : hook'[l] = Advanced(hooks[l], force)
    BY DEF Advance
  <1> HIDE DEF force
  <1>4. ASSUME NEW l \in Layers
        PROVE  /\ HookOK(hook'[l])
               /\ hook'[l].active = IF moves(l) THEN hook[l].active + 1 ELSE hook[l].active
               /\ hook'[l].evalIdx = hook[l].active
               /\ hook'[l].steps = IF moves(l) /\ hook[l].active + 1 # NumVectors
                                     THEN 0 ELSE hook[l].steps + 1
               /\ \A v \in Rows : v <= hook[l].active => hook'[l].norm[v] = hooks[l].norm[v]
    <2>1. HookOK(hooks[l]) /\ ~hooks[l].done /\ (force => hooks[l].active = 0 \/ hooks[l].reached)
      BY <1>2 DEF Passed
    <2>2. hooks[l].active = hook[l].active /\ hooks[l].steps = hook[l].steps
      BY DEF Passed
    <2> QED
      BY <2>1, <2>2, <1>1, <1>3, AdvancedHook
  <1>5. hook' \in [Layers -> HookType]
    BY <1>4 DEF Advance, HookOK
  <1>6. ASSUME NEW l \in Layers
        PROVE  /\ hook[l].active \in 0..NumVectors /\ hook[l].steps \in Nat
               /\ moves(l) = (IF hook[l].active = 0 THEN hook[l].steps + 1 >= RawSteps ELSE force)
    BY DEF Passed, CurriculumInv, HookType, Moves
  <1>7. \A l, k \in Layers : /\ hook[l].active = hook[k].active
                             /\ hook[l].steps = hook[k].steps
                             /\ moves(l) <=> moves(k)
    BY <1>6 DEF CurriculumInv, Synchronized
  <1> HIDE DEF moves
  <1>8. \A l \in Layers : hook'[l].active \in Int /\ (hook'[l].done <=> hook'[l].active = NumVectors)
                          /\ hook'[l].done \in BOOLEAN
    BY <1>4 DEF HookOK, HookType
  <1>9. Synchronized'
    <2> SUFFICES ASSUME NEW l \in Layers, NEW k \in Layers
                 PROVE  /\ hook'[l].active = hook'[k].active
                        /\ hook'[l].steps = hook'[k].steps
                        /\ hook'[l].evalIdx = hook'[k].evalIdx
                        /\ hook'[l].done = hook'[k].done
      BY DEF Synchronized
    <2>1. /\ hook'[l].active = hook'[k].active
          /\ hook'[l].steps = hook'[k].steps
          /\ hook'[l].evalIdx = hook'[k].evalIdx
      BY <1>4, <1>7
    <2> QED
      BY <2>1, <1>8
  <1>10. /\ switched' = (switched \/ \E l \in Layers : moves(l))
         /\ batch' = batch + 1 /\ evals' = evals /\ saved' = saved
         /\ pc' = IF batch + 1 = MiniBatches THEN "validate" ELSE "update"
    <2>1. \A l \in Layers : hooks[l].active = hook[l].active
      BY DEF Passed
    <2>2. \A l \in Layers : hook'[l].active # hooks[l].active <=> moves(l)
      BY <2>1, <1>4, <1>6
    <2> QED
      BY <2>2 DEF Advance, SwitchSeen
  <1>11. switched => \A l \in Layers : ~moves(l) /\ hook[l].steps < batch
    <2> SUFFICES ASSUME switched, NEW l \in Layers
                 PROVE  ~moves(l) /\ hook[l].steps < batch
      OBVIOUS
    <2>1. /\ hook[l].active > 0 /\ hook[l].steps < batch /\ batch < MiniBatches
          /\ hooks[l].steps = hook[l].steps
      BY DEF CurriculumInv, Judging, Passed
    <2>2. ~force
      BY <2>1, <1>2, <1>6 DEF CurriculumInv
    <2> QED
      BY <2>1, <2>2, <1>6
  <1>12. Judging'
    <2>1. \A l \in Layers : hook[l].active = IF switched THEN evals + 1 ELSE evals
      BY DEF CurriculumInv, Judging
    <2>2. ASSUME NEW l \in Layers
          PROVE  hook'[l].active = IF switched' THEN evals' + 1 ELSE evals'
      <3>1. (\E k \in Layers : moves(k)) <=> moves(l)
        BY <1>7
      <3> QED
        BY <3>1, <2>1, <1>4, <1>10, <1>11
    <2>3. pc' = "update" => batch' < MiniBatches
      BY <1>10 DEF CurriculumInv, Judging
    <2>4. ASSUME switched', NEW l \in Layers
          PROVE  hook'[l].active > 0 /\ (hook'[l].done \/ hook'[l].steps < batch')
      <3>1. CASE moves(l)
        BY <3>1, <1>4, <1>6, <1>8, <1>10 DEF CurriculumInv
      <3>2. CASE ~moves(l)
        <4>1. switched
          BY <3>2, <2>4, <1>7, <1>10
        <4>2. hook[l].active > 0 /\ hook[l].steps < batch
          BY <4>1, <1>11 DEF CurriculumInv, Judging
        <4> QED
          BY <4>2, <3>2, <1>4, <1>6, <1>10 DEF CurriculumInv
      <3> QED
        BY <3>1, <3>2
    <2>5. pc' # "rollout"
      BY <1>10
    <2> QED
      BY <2>2, <2>3, <2>4, <2>5 DEF Judging
  <1>13. CurriculumInv'
    BY <1>4, <1>5, <1>9, <1>10, <1>12 DEF CurriculumInv
  <1>14. ASSUME NEW l \in Layers, NEW v \in Rows, v < hook[l].active
         PROVE  hook'[l].norm[v] = hook[l].norm[v]
    BY <1>4, <1>6, <1>14 DEF Passed, Rows
  <1>15. ASSUME NEW l \in Layers, hook[l].active > 0, hook'[l].active > hook[l].active
         PROVE  \A k \in Layers : hook[k].reached /\ hook[k].steps >= MinSteps
    <2>1. force
      BY <1>15, <1>4, <1>6 DEF moves
    <2> QED
      BY <2>1, <1>2 DEF Passed
  <1>16. ASSUME NEW l \in Layers
         PROVE  Lag(hook'[l])
    <2>a. /\ HookOK(hooks[l]) /\ ~hooks[l].done /\ hooks[l].active = hook[l].active
          /\ hooks[l] \in HookType
      BY DEF Passed
    <2>b. hook[l].active \in 0..NumVectors /\ hook[l].active # NumVectors
      BY <2>a, <1>6 DEF HookOK
    <2>1. hook[l].active \in Rows
      BY <2>b DEF Rows
    <2>2. hook'[l].evalIdx = hook[l].active
      BY <1>4
    <2>3. \/ hook'[l].active = hook[l].active
          \/ /\ hook'[l].active = hook[l].active + 1
             /\ hook'[l].steps = 0 \/ hook[l].active + 1 = NumVectors
      BY <1>4
    <2> QED
      BY <2>1, <2>2, <2>3, LagFacts
  <1> QED
    BY <1>10, <1>13, <1>14, <1>15, <1>16

-----------------------------------------------------------------------------
\* A hook built around saved parameters starts at vector 0.
LEMMA FreshHook ==
  ASSUME NEW p \in [norm : [Rows -> Nat], momentum : SUBSET Rows]
  PROVE  /\ HookOK(Built(p)) /\ Built(p).active = 0 /\ Built(p).steps = 0
         /\ Built(p).evalIdx = 0 /\ Built(p).done = FALSE
  <1>1. Built(p) \in HookType
    BY DEF Built, HookType, Rows, NoTarget
  <1> QED
    BY <1>1 DEF Built, HookOK, HookType, Rows

\* So do the hooks of all layers, after a launch.
LEMMA FreshHooks ==
  ASSUME NEW kept \in SavedType
  PROVE  LET built == [l \in Layers |-> Built(kept[l])]
         IN /\ built \in [Layers -> HookType]
            /\ \A l \in Layers : /\ HookOK(built[l]) /\ built[l].active = 0
                                 /\ built[l].steps = 0 /\ built[l].evalIdx = 0
                                 /\ built[l].done = FALSE
  <1> DEFINE built == [l \in Layers |-> Built(kept[l])]
  <1>1. \A l \in Layers : /\ built[l] = Built(kept[l])
                          /\ HookOK(built[l]) /\ built[l].active = 0
                          /\ built[l].steps = 0 /\ built[l].evalIdx = 0
                          /\ built[l].done = FALSE
    BY FreshHook DEF SavedType
  <1> QED
    BY <1>1 DEF HookOK

\* The first launch starts within the invariant.
LEMMA InvInit == Init => CurriculumInv
  <1> SUFFICES ASSUME Init PROVE CurriculumInv
    OBVIOUS
  <1> DEFINE zeros == [l \in Layers |-> Zeros]
  <1>1. zeros \in SavedType
    BY DEF SavedType, Zeros
  <1>2. hook = [l \in Layers |-> Built(zeros[l])] /\ saved = zeros
    BY DEF Init
  <1> HIDE DEF zeros
  <1>3. /\ hook \in [Layers -> HookType]
        /\ \A l \in Layers : /\ HookOK(hook[l]) /\ hook[l].active = 0
                             /\ hook[l].steps = 0 /\ hook[l].evalIdx = 0
                             /\ hook[l].done = FALSE
    BY <1>1, <1>2, FreshHooks
  <1> QED
    BY <1>1, <1>2, <1>3 DEF Init, CurriculumInv, Synchronized, Judging

\* The finished vectors and the switches of one step.
StepFacts ==
  /\ \A l \in Layers : \A v \in Rows :
       v < hook[l].active /\ hook'[l].active > 0 => hook'[l].norm[v] = hook[l].norm[v]
  /\ \A l \in Layers :
       hook[l].active > 0 /\ hook'[l].active > hook[l].active =>
         \A k \in Layers : hook[k].reached /\ hook[k].steps >= MinSteps

\* Every step keeps it, and does to the vectors what StepFacts says.
LEMMA InvNext ==
  ASSUME CurriculumInv, [Next]_vars
  PROVE  CurriculumInv' /\ StepFacts
  <1>0. \A l \in Layers : hook[l].active \in 0..NumVectors
    BY DEF CurriculumInv, HookType
  <1>1. CASE Rollout
    <2>1. /\ hook' = hook /\ saved' = saved /\ evals' = evals /\ batch' = 0
          /\ switched' = FALSE /\ pc' = "update" /\ pc = "rollout"
      BY <1>1 DEF Rollout
    <2>2. Judging'
      BY <2>1 DEF CurriculumInv, Judging
    <2>3. Synchronized' /\ StepFacts
      BY <2>1, <1>0 DEF CurriculumInv, Synchronized, StepFacts
    <2> QED
      BY <2>1, <2>2, <2>3 DEF CurriculumInv
  <1>2. CASE Update
    <2>1. PICK by \in [Layers -> {-1, 0, 1}] :
            Advance([l \in Layers |-> Stepped(hook[l], by[l])])
      BY <1>2 DEF Update
    <2>2. pc = "update" /\ Passed([l \in Layers |-> Stepped(hook[l], by[l])])
      BY <1>2, StepsPass DEF Update, Updatable
    <2> QED
      BY <2>1, <2>2, AdvanceKeeps DEF StepFacts
  <1>3. CASE SkippedUpdate
    <2>1. [l \in Layers |-> 0] \in [Layers -> {-1, 0, 1}]
      OBVIOUS
    <2>2. pc = "update" /\ Passed(hook)
      BY <1>3, <2>1, StepsPass DEF SkippedUpdate, Updatable
    <2> QED
      BY <2>2, <1>3, AdvanceKeeps DEF SkippedUpdate, StepFacts
  <1>4. CASE UpdateRaises
    BY <1>4, <1>0 DEF UpdateRaises, CurriculumInv, Synchronized, Judging, StepFacts
  <1>5. CASE Validate
    <2>1. Kept \in SavedType
      BY DEF Kept, SavedType, CurriculumInv, HookType
    <2> QED
      BY <1>5, <2>1, <1>0 DEF Validate, CurriculumInv, Synchronized, Judging, StepFacts
  <1>6. CASE CrashAndResume
    <2>1. /\ hook' \in [Layers -> HookType]
          /\ \A l \in Layers : /\ HookOK(hook'[l]) /\ hook'[l].active = 0
                               /\ hook'[l].steps = 0 /\ hook'[l].evalIdx = 0
                               /\ hook'[l].done = FALSE
      BY <1>6, FreshHooks DEF CrashAndResume, CurriculumInv
    <2>2. Synchronized' /\ Judging'
      BY <2>1, <1>6 DEF CrashAndResume, Synchronized, Judging
    <2>3. StepFacts
      BY <2>1, <1>0 DEF StepFacts
    <2>4. batch' = 0 /\ evals' = 0 /\ switched' = FALSE /\ saved' = saved
      BY <1>6 DEF CrashAndResume
    <2> QED
      BY <2>1, <2>2, <2>3, <2>4 DEF CurriculumInv
  <1>7. CASE Ended \/ UNCHANGED vars
    BY <1>7, <1>0 DEF Ended, vars, CurriculumInv, Synchronized, Judging, StepFacts
  <1> QED
    BY <1>1, <1>2, <1>3, <1>4, <1>5, <1>6, <1>7 DEF Next

\* The inductive invariant holds of every reachable state.
THEOREM InvAlways == Spec => []CurriculumInv
  <1> QED
    BY InvInit, InvNext, PTL DEF Spec

\* The rollouts of the step before its first mini-batch.
LagInv ==
  /\ \A l \in Layers : Lag(hook[l])
  /\ pc = "update" /\ batch = 0 => \A l \in Layers : sampled[l] = hook[l].evalIdx

\* A step refreshes the index to evaluate in its first mini-batch, so what lags
\* behind a switch is gone before the next rollouts but those right after it.
LEMMA LagNext ==
  ASSUME CurriculumInv, LagInv, [Next]_vars
  PROVE  LagInv'
  <1>1. CASE Rollout
    BY <1>1 DEF Rollout, LagInv
  <1>2. CASE Update
    <2>1. PICK by \in [Layers -> {-1, 0, 1}] :
            Advance([l \in Layers |-> Stepped(hook[l], by[l])])
      BY <1>2 DEF Update
    <2>2. pc = "update" /\ Passed([l \in Layers |-> Stepped(hook[l], by[l])])
      BY <1>2, StepsPass DEF Update, Updatable
    <2> QED
      BY <2>1, <2>2, AdvanceKeeps DEF LagInv, CurriculumInv
  <1>3. CASE SkippedUpdate
    <2>1. [l \in Layers |-> 0] \in [Layers -> {-1, 0, 1}]
      OBVIOUS
    <2>2. pc = "update" /\ Passed(hook)
      BY <1>3, <2>1, StepsPass DEF SkippedUpdate, Updatable
    <2> QED
      BY <2>2, <1>3, AdvanceKeeps DEF SkippedUpdate, LagInv, CurriculumInv
  <1>4. CASE UpdateRaises \/ Validate
    BY <1>4 DEF UpdateRaises, Validate, LagInv
  <1>5. CASE CrashAndResume
    <2>1. \A l \in Layers : hook'[l].active = 0 /\ hook'[l].evalIdx = 0
      BY <1>5, FreshHooks DEF CrashAndResume, CurriculumInv
    <2>2. 0 \in Rows
      BY DEF Rows
    <2>3. \A l \in Layers : Lag(hook'[l])
      BY <2>1, <2>2, LagFacts
    <2> QED
      BY <2>3, <1>5 DEF CrashAndResume, LagInv
  <1>6. CASE Ended \/ UNCHANGED vars
    BY <1>6 DEF Ended, vars, LagInv
  <1> QED
    BY <1>1, <1>2, <1>3, <1>4, <1>5, <1>6 DEF Next

\* The rollouts never use a vector older than the one before the active one, and
\* that only in the step after a switch in the last mini-batch (seq_eval_payload,
\* advance_sequential_state).
THEOREM RolloutsLag == Spec => []RolloutsLagOneStep
  <1>1. Init => LagInv
    <2> SUFFICES ASSUME Init PROVE LagInv
      OBVIOUS
    <2>1. \A l \in Layers : hook[l].active = 0 /\ hook[l].evalIdx = 0
      BY DEF Init, Built
    <2>2. 0 \in Rows
      BY DEF Rows
    <2>3. \A l \in Layers : Lag(hook[l])
      BY <2>1, <2>2, LagFacts
    <2> QED
      BY <2>3 DEF Init, LagInv
  <1>2. CurriculumInv /\ LagInv /\ [Next]_vars => LagInv'
    BY LagNext
  <1>3. LagInv => RolloutsLagOneStep
    BY DEF LagInv, Lag, RolloutsLagOneStep
  <1> QED
    BY <1>1, <1>2, <1>3, InvAlways, PTL DEF Spec

\* Every layer trains the same vector and has spent the same number of optimizer
\* steps on it, whatever the norms of their vectors do
\* (_advance_trainable_vector_sequential).
THEOREM LayersSynchronized == Spec => []Synchronized
  <1>1. CurriculumInv => Synchronized
    BY DEF CurriculumInv
  <1> QED
    BY <1>1, InvAlways, PTL

\* The target of the later vectors stays the norm of vector 0: no later step
\* moves it (project_gradients_to_tangent, _reset_frozen_basis_optimizer_state).
THEOREM TargetStaysV0 == Spec => []TargetIsV0
  <1>1. CurriculumInv => TargetIsV0
    BY DEF CurriculumInv, HookOK, TargetIsV0
  <1> QED
    BY <1>1, InvAlways, PTL

\* However the switches fall among the mini-batches, each finished vector has
\* had one validation between two training steps (fit, the switch-driven test).
THEOREM OneValidationEach == Spec => []OneEvalPerVector
  <1>1. CurriculumInv => OneEvalPerVector
    BY DEF CurriculumInv, Judging, OneEvalPerVector
  <1> QED
    BY <1>1, InvAlways, PTL

\* No step moves a vector the curriculum has passed (project_gradients_to_tangent
\* and the reset of the optimizer's state).
THEOREM PassedVectorsStay == Spec => FinishedStay
  <1>1. CurriculumInv /\ [Next]_vars =>
          [\A l \in Layers : \A v \in Rows :
             v < hook[l].active /\ hook'[l].active > 0 => hook'[l].norm[v] = hook[l].norm[v]]_vars
    BY InvNext DEF StepFacts
  <1> QED
    BY <1>1, InvAlways, PTL DEF Spec, FinishedStay

\* A later vector is left only when every layer has trained its own long enough
\* and to its target (_advance_trainable_vector_sequential).
THEOREM SwitchesTogether == Spec => SwitchTogether
  <1>1. CurriculumInv /\ [Next]_vars =>
          [\A l \in Layers :
             hook[l].active > 0 /\ hook'[l].active > hook[l].active =>
               \A k \in Layers : hook[k].reached /\ hook[k].steps >= MinSteps]_vars
    BY InvNext DEF StepFacts
  <1> QED
    BY <1>1, InvAlways, PTL DEF Spec, SwitchTogether

-----------------------------------------------------------------------------
(* Types.                                                                   *)

\* The hooks of a layer that has done at most n optimizer steps.
HooksAfter(n) ==
  [active : 0..NumVectors, evalIdx : Rows, steps : 0..n, reached : BOOLEAN, done : BOOLEAN,
   target : Norms \cup {NoTarget}, norm : [Rows -> Norms], momentum : SUBSET Rows]

LEMMA SteppedType ==
  ASSUME NEW n \in Nat, NEW h \in HooksAfter(n), h.active \in Rows, NEW by \in Int
  PROVE  Stepped(h, by) \in HooksAfter(n)
  <1> DEFINE new == [v \in Rows |-> IF v \in Trained(h) \cup h.momentum
                                      THEN Clamp(h.norm[v] + by) ELSE h.norm[v]]
             left == (h.momentum \cup Trained(h)) \ Frozen(h)
             g == Stepped(h, by)
  <1>1. new \in [Rows -> Norms]
    <2>1. ASSUME NEW v \in Rows PROVE h.norm[v] \in Norms /\ Clamp(h.norm[v] + by) \in Norms
      <3>1. h.norm[v] \in Norms /\ h.norm[v] + by \in Int
        BY DEF HooksAfter, Norms
      <3> QED
        BY <3>1 DEF Clamp, Norms
    <2> QED
      BY <2>1
  <1>2. left \in SUBSET Rows
    BY DEF HooksAfter, Trained, Frozen
  <1>3. g = [h EXCEPT !.norm = new, !.momentum = left]
    BY DEF Stepped
  <1> HIDE DEF new, left, g
  <1>4. g \in HooksAfter(n)
    BY <1>1, <1>2, <1>3 DEF HooksAfter
  <1> QED
    BY <1>4 DEF g

LEMMA SwitchedType ==
  ASSUME NEW n \in Nat, NEW h \in HooksAfter(n), h.active \in Rows
  PROVE  Switched(h) \in HooksAfter(n)
  <1> DEFINE next == h.active + 1
             new == [h.norm EXCEPT ![next] = InitNorm]
             g == Switched(h)
  <1>1. next \in 0..NumVectors /\ 0 \in 0..n
    BY DEF Rows
  <1>2. CASE next \notin Rows
    <2>1. g = [h EXCEPT !.evalIdx = h.active, !.active = next, !.done = TRUE]
      BY <1>2 DEF Switched
    <2> HIDE DEF next, g
    <2>2. g \in HooksAfter(n)
      BY <1>1, <2>1 DEF HooksAfter
    <2> QED
      BY <2>2 DEF g
  <1>3. CASE next \in Rows
    <2>1. new \in [Rows -> Norms]
      BY DEF HooksAfter, Norms
    <2>2. g = [h EXCEPT !.evalIdx = h.active, !.active = next, !.norm = new,
                        !.steps = 0, !.reached = FALSE, !.momentum = {}]
      BY <1>3 DEF Switched, MomentumAfterSwitch, HooksAfter
    <2> HIDE DEF next, g, new
    <2>3. g \in HooksAfter(n)
      BY <1>1, <2>1, <2>2 DEF HooksAfter
    <2> QED
      BY <2>3 DEF g
  <1> QED
    BY <1>2, <1>3

LEMMA AdvancedType ==
  ASSUME NEW n \in Nat, NEW h \in HooksAfter(n), h.active \in Rows, ~h.done,
         NEW force \in BOOLEAN
  PROVE  Advanced(h, force) \in HooksAfter(n + 1)
  <1> DEFINE m == n + 1
             c == Counted(h)
             now == c.reached \/ ReachedTarget(c)
             r == [c EXCEPT !.reached = now]
             t == [c EXCEPT !.target = c.norm[0]]
  <1>1. m \in Nat /\ h.steps + 1 \in 0..m /\ 0 \in Rows
    BY DEF HooksAfter, Rows
  <1>2. Advanced(h, force) =
          IF h.active = 0 THEN IF c.steps >= RawSteps THEN Switched(t) ELSE c
                          ELSE IF force THEN Switched(r) ELSE r
    BY DEF Advanced
  <1>3. c = [h EXCEPT !.steps = h.steps + 1, !.evalIdx = h.active]
    BY DEF Counted, HooksAfter
  <1> HIDE DEF m, c
  <1>4. c \in HooksAfter(m) /\ c.active = h.active
    BY <1>1, <1>3 DEF HooksAfter
  <1>5. now \in BOOLEAN
    BY <1>4 DEF HooksAfter, ReachedTarget
  <1>6. c.norm[0] \in Norms
    BY <1>1, <1>4 DEF HooksAfter
  <1> HIDE DEF now
  <1>7. r \in HooksAfter(m) /\ r.active = h.active
    BY <1>4, <1>5 DEF HooksAfter
  <1>8. t \in HooksAfter(m) /\ t.active = h.active
    BY <1>4, <1>6 DEF HooksAfter
  <1> HIDE DEF r, t
  <1>9. Switched(t) \in HooksAfter(m) /\ Switched(r) \in HooksAfter(m)
    BY <1>1, <1>7, <1>8, SwitchedType
  <1> QED
    BY <1>2, <1>4, <1>7, <1>9 DEF m

\* Optimizer steps of the launch so far.
Spent == IF pc = "rollout" THEN step * MiniBatches ELSE (step - 1) * MiniBatches + batch

TypeInv ==
  /\ hook \in [Layers -> HooksAfter(Spent)]
  /\ saved \in [Layers -> Parameters]
  /\ pc \in {"rollout", "update", "validate", "failed"}
  /\ step \in 0..MaxSteps
  /\ pc # "rollout" => step # 0
  /\ batch \in 0..MiniBatches
  /\ pc = "validate" => batch = MiniBatches
  /\ sampled \in [Layers -> Rows]
  /\ switched \in BOOLEAN
  /\ judged \subseteq Rows
  /\ evals \in 0..(IF pc = "rollout" THEN step ELSE step - 1)
  /\ crashes \in 0..MaxCrashes

LEMMA BuiltType ==
  ASSUME NEW p \in Parameters, NEW n \in Nat
  PROVE  Built(p) \in HooksAfter(n)
  <1>1. 0 \in 0..NumVectors /\ 0 \in Rows /\ 0 \in 0..n
    BY DEF Rows
  <1> QED
    BY <1>1 DEF Built, HooksAfter, Parameters

LEMMA ZerosType == Zeros \in Parameters /\ 0 \in Rows
  <1>1. 0 \in Norms /\ 0 \in Rows
    BY DEF Norms, Rows
  <1> QED
    BY <1>1 DEF Zeros, Parameters

LEMMA TypeInit == Init => TypeInv
  <1> SUFFICES ASSUME Init PROVE TypeInv
    OBVIOUS
  <1>1. Spent = 0
    BY DEF Init, Spent
  <1>2. hook \in [Layers -> HooksAfter(Spent)]
    BY <1>1, ZerosType, BuiltType DEF Init
  <1>3. 0 \in 0..MaxSteps /\ 0 \in 0..MiniBatches /\ 0 \in 0..MaxCrashes
    OBVIOUS
  <1>4. saved \in [Layers -> Parameters] /\ sampled \in [Layers -> Rows]
    BY ZerosType DEF Init
  <1>5. evals \in 0..(IF pc = "rollout" THEN step ELSE step - 1)
    BY DEF Init
  <1> QED
    BY <1>2, <1>3, <1>4, <1>5 DEF Init, TypeInv

LEMMA AdvanceType ==
  ASSUME TypeInv, CurriculumInv, pc = "update", NEW hooks \in [Layers -> HooksAfter(Spent)],
         \A l \in Layers : hooks[l].active \in Rows /\ ~hooks[l].done, Advance(hooks)
  PROVE  TypeInv'
  <1>1. /\ batch \in Nat /\ batch < MiniBatches /\ step \in Nat /\ step >= 1
        /\ MiniBatches \in Nat /\ MaxSteps \in Nat
    BY DEF TypeInv, CurriculumInv, Judging
  <1>2. Spent \in Nat /\ Spent' = Spent + 1
    <2>1. Spent = (step - 1) * MiniBatches + batch /\ (step - 1) * MiniBatches \in Nat
      BY <1>1 DEF Spent
    <2>2. Spent' = (step - 1) * MiniBatches + (batch + 1)
      BY DEF Spent, Advance
    <2> QED
      BY ONLY <1>1, <2>1, <2>2
  <1>3. \A l \in Layers : Advanced(hooks[l], ForceSwitch(hooks)) \in HooksAfter(Spent + 1)
    BY <1>2, AdvancedType DEF ForceSwitch
  <1>4. hook' \in [Layers -> HooksAfter(Spent)]'
    <2>1. hook' \in [Layers -> HooksAfter(Spent + 1)]
      BY <1>3 DEF Advance
    <2>2. HooksAfter(Spent)' = HooksAfter(Spent + 1)
      BY <1>2 DEF HooksAfter, Rows, Norms, NoTarget
    <2> QED
      BY <2>1, <2>2
  <1>5. batch' \in 0..MiniBatches /\ (pc' = "validate" => batch' = MiniBatches)
    BY <1>1 DEF Advance
  <1>6. switched' \in BOOLEAN
    BY DEF Advance, SwitchSeen, TypeInv
  <1>7. pc' \in {"update", "validate"} /\ UNCHANGED <<saved, step, sampled, judged, evals, crashes>>
    BY DEF Advance
  <1> QED
    BY <1>1, <1>4, <1>5, <1>6, <1>7 DEF TypeInv

LEMMA TypeNext ==
  ASSUME TypeInv, CurriculumInv, [Next]_vars
  PROVE  TypeInv'
  <1>1. /\ step \in Nat /\ step <= MaxSteps /\ MiniBatches \in Nat /\ MaxSteps \in Nat
        /\ MiniBatches >= 1 /\ batch \in 0..MiniBatches
    BY DEF TypeInv
  <1>2. CASE Rollout
    <2>1. /\ pc = "rollout" /\ step < MaxSteps /\ step' = step + 1 /\ batch' = 0 /\ pc' = "update"
          /\ switched' = FALSE /\ sampled' = [l \in Layers |-> hook[l].evalIdx]
          /\ UNCHANGED <<hook, saved, judged, evals, crashes>>
      BY <1>2 DEF Rollout
    <2>2. Spent' = Spent
      <3>1. Spent = step * MiniBatches /\ Spent' = ((step + 1) - 1) * MiniBatches + 0
        BY <2>1 DEF Spent
      <3>2. (step + 1) - 1 = step /\ step * MiniBatches \in Nat
        BY <1>1
      <3> QED
        BY <3>1, <3>2
    <2>3. sampled' \in [Layers -> Rows]
      BY <2>1 DEF TypeInv, HooksAfter
    <2>4. step' \in 0..MaxSteps /\ step' # 0 /\ step' - 1 = step /\ 0 \in 0..MiniBatches
      BY <1>1, <2>1
    <2>5. hook' \in [Layers -> HooksAfter(Spent)]'
      BY <2>1, <2>2 DEF TypeInv, HooksAfter, Rows, Norms, NoTarget
    <2> QED
      BY <2>1, <2>3, <2>4, <2>5 DEF TypeInv
  <1>3. CASE Update \/ SkippedUpdate
    <2> Updatable
      BY <1>3 DEF Update, SkippedUpdate
    <2>1. \A l \in Layers : HookOK(hook[l]) /\ ~IndexError(hook[l]) /\ hook[l] \in HookType
      BY <1>3 DEF CurriculumInv, Updatable
    <2>2. \A l \in Layers : hook[l].active \in Rows /\ ~hook[l].done
      BY <2>1 DEF HookOK, HookType, IndexError, Rows
    <2>3. pc = "update" /\ hook \in [Layers -> HooksAfter(Spent)] /\ Spent \in Nat
      <3>1. step - 1 \in Nat /\ batch \in Nat
        BY <1>1, <1>3 DEF Updatable, TypeInv
      <3>2. (step - 1) * MiniBatches \in Nat
        BY <1>1, <3>1
      <3> QED
        BY <1>3, <3>1, <3>2 DEF Updatable, TypeInv, Spent
    <2>4. CASE SkippedUpdate
      BY <2>2, <2>3, <2>4, AdvanceType DEF SkippedUpdate
    <2>5. CASE Update
      <3>1. PICK by \in [Layers -> {-1, 0, 1}] :
              Advance([l \in Layers |-> Stepped(hook[l], by[l])])
        BY <2>5 DEF Update
      <3> DEFINE hooks == [l \in Layers |-> Stepped(hook[l], by[l])]
      <3>2. ASSUME NEW l \in Layers
            PROVE  hooks[l] \in HooksAfter(Spent) /\ hooks[l].active \in Rows /\ ~hooks[l].done
        <4>1. by[l] \in Int /\ hooks[l] = Stepped(hook[l], by[l])
          OBVIOUS
        <4>2. Stepped(hook[l], by[l]) \in HooksAfter(Spent)
          BY <2>2, <2>3, <4>1, SteppedType
        <4>3. /\ Stepped(hook[l], by[l]).active = hook[l].active
              /\ Stepped(hook[l], by[l]).done = hook[l].done
          BY <2>1, <4>1, SteppedHook
        <4> QED
          BY <2>2, <4>1, <4>2, <4>3
      <3>3. hooks \in [Layers -> HooksAfter(Spent)]
        BY <3>2
      <3>4. Advance(hooks)
        BY <3>1
      <3> HIDE DEF hooks
      <3> QED
        BY <2>3, <3>2, <3>3, <3>4, AdvanceType
    <2> QED
      BY <1>3, <2>4, <2>5
  <1>4. CASE UpdateRaises
    <2>1. /\ pc = "update" /\ pc' = "failed"
          /\ UNCHANGED <<hook, saved, step, batch, sampled, switched, judged, evals, crashes>>
      BY <1>4 DEF UpdateRaises
    <2>2. Spent' = Spent
      BY <2>1 DEF Spent
    <2>3. hook' \in [Layers -> HooksAfter(Spent)]'
      BY <2>1, <2>2 DEF TypeInv, HooksAfter, Rows, Norms, NoTarget
    <2> QED
      BY <2>1, <2>3 DEF TypeInv
  <1>5. CASE Validate
    <2>1. /\ pc = "validate" /\ pc' = "rollout"
          /\ judged' = IF switched THEN judged \cup {hook[l].evalIdx : l \in Layers} ELSE judged
          /\ evals' = IF switched THEN evals + 1 ELSE evals
          /\ saved' = Kept
          /\ UNCHANGED <<hook, step, batch, sampled, switched, crashes>>
      BY <1>5 DEF Validate
    <2>2. batch = MiniBatches /\ step # 0
      BY <2>1 DEF TypeInv
    <2>3. Spent' = Spent
      <3>1. Spent = (step - 1) * MiniBatches + MiniBatches /\ Spent' = step * MiniBatches
        BY <2>1, <2>2 DEF Spent
      <3>2. \A k \in Nat, m \in Nat : (k - 1) * m + m = k * m
        OBVIOUS
      <3> QED
        BY <1>1, <3>1, <3>2
    <2>4. hook' \in [Layers -> HooksAfter(Spent)]'
      BY <2>1, <2>3 DEF TypeInv, HooksAfter, Rows, Norms, NoTarget
    <2>5. saved' \in [Layers -> Parameters]
      BY <2>1 DEF Kept, Parameters, TypeInv, HooksAfter
    <2>6. judged' \subseteq Rows
      BY <2>1 DEF TypeInv, HooksAfter
    <2>7. evals' \in 0..step
      BY <1>1, <2>1, <2>2 DEF TypeInv
    <2> QED
      BY <2>1, <2>4, <2>5, <2>6, <2>7 DEF TypeInv
  <1>6. CASE CrashAndResume
    <2>1. /\ crashes < MaxCrashes /\ crashes' = crashes + 1
          /\ hook' = [l \in Layers |-> Built(saved[l])]
          /\ pc' = "rollout" /\ step' = 0 /\ batch' = 0 /\ sampled' = [l \in Layers |-> 0]
          /\ switched' = FALSE /\ judged' = {} /\ evals' = 0 /\ UNCHANGED saved
      BY <1>6 DEF CrashAndResume
    <2>2. Spent' = 0
      BY <1>1, <2>1 DEF Spent
    <2>3. hook' \in [Layers -> HooksAfter(0)]
      BY <2>1, BuiltType DEF TypeInv
    <2>4. hook' \in [Layers -> HooksAfter(Spent)]'
      BY <2>2, <2>3 DEF HooksAfter, Rows, Norms, NoTarget
    <2>5. crashes' \in 0..MaxCrashes /\ sampled' \in [Layers -> Rows]
      BY <2>1, ZerosType DEF TypeInv
    <2>6. 0 \in 0..MaxSteps /\ 0 \in 0..MiniBatches
      BY <1>1
    <2>7. evals' \in 0..(IF pc' = "rollout" THEN step' ELSE step' - 1)
      BY <2>1
    <2> QED
      BY <2>1, <2>4, <2>5, <2>6, <2>7 DEF TypeInv
  <1>7. CASE Ended \/ UNCHANGED vars
    <2>1. UNCHANGED <<hook, saved, pc, step, batch, sampled, switched, judged, evals, crashes>>
      BY <1>7 DEF Ended, vars
    <2>2. hook' \in [Layers -> HooksAfter(Spent)]'
      BY <2>1 DEF TypeInv, Spent, HooksAfter, Rows, Norms, NoTarget
    <2> QED
      BY <2>1, <2>2 DEF TypeInv
  <1> QED
    BY <1>2, <1>3, <1>4, <1>5, <1>6, <1>7 DEF Next

\* Every reachable state is well typed: norms stay in their range, indices on the
\* basis, and no vector counts more steps than the launch has done.
THEOREM TypeCorrect == Spec => []TypeOK
  <1>1. TypeInv => TypeOK
    <2> SUFFICES ASSUME TypeInv PROVE TypeOK
      OBVIOUS
    <2>1. /\ step \in Nat /\ step <= MaxSteps /\ MiniBatches \in Nat /\ MaxSteps \in Nat
          /\ batch \in 0..MiniBatches /\ (pc # "rollout" => step >= 1)
      BY DEF TypeInv
    <2>2. \A k \in Nat, n \in Nat, m \in Nat : k <= n => k * m <= n * m
      OBVIOUS
    <2>3. step * MiniBatches <= MaxSteps * MiniBatches /\ step * MiniBatches \in Nat
      BY <2>1, <2>2
    <2>4. Spent <= step * MiniBatches /\ Spent \in Nat
      <3>1. CASE pc = "rollout"
        BY <2>3, <3>1 DEF Spent
      <3>2. CASE pc # "rollout"
        <4>1. Spent = (step - 1) * MiniBatches + batch
          BY <3>2 DEF Spent
        <4>2. \A k \in Nat, m \in Nat : (k - 1) * m + m = k * m
          OBVIOUS
        <4>3. (step - 1) * MiniBatches + MiniBatches = step * MiniBatches
          BY <2>1, <4>2
        <4>4. (step - 1) * MiniBatches \in Nat
          BY <2>1, <3>2
        <4> QED
          BY <2>1, <4>1, <4>3, <4>4
      <3> QED
        BY <3>1, <3>2
    <2>5. MaxSteps * MiniBatches \in Nat
      BY <2>1
    <2>6. 0..Spent \subseteq 0..(MaxSteps * MiniBatches)
      BY <2>3, <2>4, <2>5
    <2>7. hook \in [Layers -> Hooks]
      BY <2>6 DEF TypeInv, HooksAfter, Hooks
    <2>8. evals \in 0..MaxSteps
      BY <2>1 DEF TypeInv
    <2> QED
      BY <2>7, <2>8 DEF TypeInv, TypeOK
  <1>2. CurriculumInv /\ TypeInv /\ [Next]_vars => TypeInv'
    BY TypeNext
  <1> QED
    BY <1>1, <1>2, TypeInit, InvAlways, PTL DEF Spec

-----------------------------------------------------------------------------
(* The end of the curriculum.                                               *)

FailedDone == pc = "failed" => \A l \in Layers : hook[l].done

\* Only what comes after the last vector makes a step raise.
LEMMA OutOfBounds ==
  ASSUME CurriculumInv
  PROVE  \A l \in Layers : IndexError(hook[l]) <=> hook[l].done
  <1> SUFFICES ASSUME NEW l \in Layers
               PROVE  IndexError(hook[l]) <=> hook[l].done
    OBVIOUS
  <1>1. HookOK(hook[l]) /\ hook[l].active \in 0..NumVectors /\ NumVectors \in Nat
    BY DEF CurriculumInv, HookOK, HookType
  <1> QED
    BY <1>1 DEF HookOK, IndexError, Rows

LEMMA FailedNext ==
  ASSUME CurriculumInv, FailedDone, [Next]_vars
  PROVE  FailedDone'
  <1>1. CASE UpdateRaises
    <2>1. \E l \in Layers : hook[l].done
      BY <1>1, OutOfBounds DEF UpdateRaises
    <2>2. \A l \in Layers : hook[l].done
      BY <2>1 DEF CurriculumInv, Synchronized
    <2> QED
      BY <1>1, <2>2 DEF UpdateRaises, FailedDone
  <1>2. CASE Rollout \/ Validate \/ CrashAndResume
    BY <1>2 DEF Rollout, Validate, CrashAndResume, FailedDone
  <1>3. CASE Update \/ SkippedUpdate
    <2>1. pc' \in {"update", "validate"}
      BY <1>3 DEF Update, SkippedUpdate, Advance
    <2> QED
      BY <2>1 DEF FailedDone
  <1>4. CASE Ended \/ UNCHANGED vars
    BY <1>4 DEF Ended, vars, FailedDone
  <1> QED
    BY <1>1, <1>2, <1>3, <1>4 DEF Next

\* A step raises only when every layer has finished its last vector, and then the
\* first optimizer step does, whatever the norms are: no update is made of a
\* finished curriculum (project_gradients_to_tangent; sample_vector would have
\* injected the last vector).
THEOREM CompletionRaises ==
  Spec => /\ [](pc = "failed" => \A l \in Layers : hook[l].done)
          /\ [][pc = "update" /\ (\E l \in Layers : hook[l].done) =>
                  pc' = "failed" \/ crashes' > crashes]_vars
  <1>1. Init => FailedDone
    BY DEF Init, FailedDone
  <1>2. CurriculumInv /\ FailedDone /\ [Next]_vars => FailedDone'
    BY FailedNext
  <1>3. FailedDone => (pc = "failed" => \A l \in Layers : hook[l].done)
    BY DEF FailedDone
  <1>4. TypeOK /\ CurriculumInv /\ [Next]_vars =>
          [pc = "update" /\ (\E l \in Layers : hook[l].done) =>
             pc' = "failed" \/ crashes' > crashes]_vars
    <2> SUFFICES ASSUME TypeOK, CurriculumInv, Next,
                        pc = "update", \E l \in Layers : hook[l].done
                 PROVE  pc' = "failed" \/ crashes' > crashes \/ UNCHANGED vars
      BY DEF vars
    <2>1. ~Updatable
      BY OutOfBounds DEF Updatable
    <2>2. CASE UpdateRaises
      BY <2>2 DEF UpdateRaises
    <2>3. CASE CrashAndResume
      BY <2>3 DEF CrashAndResume, TypeOK
    <2>4. ~Rollout /\ ~Validate /\ ~Update /\ ~SkippedUpdate /\ ~Ended
      BY <2>1 DEF Rollout, Validate, Update, SkippedUpdate, Ended
    <2> QED
      BY <2>2, <2>3, <2>4 DEF Next
  <1> QED
    BY <1>1, <1>2, <1>3, <1>4, InvAlways, TypeCorrect, PTL DEF Spec
=============================================================================
