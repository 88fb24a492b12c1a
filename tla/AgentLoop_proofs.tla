--------------------------- MODULE AgentLoop_proofs ---------------------------
(***************************************************************************)
(* Conversations of any number, length and number of turns, over any       *)
(* servers: what is cut apart at the end fits together, and without a      *)
(* simulated user no request lacks room after a prompt within its limit.   *)
(* Both follow conversation by conversation; servers and tools play no     *)
(* part.                                                                   *)
(*                                                                         *)
(* The rest is shared.  Instances are counted against the calls that hold  *)
(* one (Tasks); a conversation stays with its server because the map keeps *)
(* entries of earlier calls before those of the running one, of which      *)
(* there are never more than it has places (Sessions).                     *)
(*                                                                         *)
(* And the worker goes on: what Ends says under fairness, in its two parts *)
(* that need none.  Every conversation can take a step until it has ended  *)
(* (NobodyBlocked), and every step leaves fewer to take (WorkRunsOut).     *)
(***************************************************************************)
EXTENDS AgentLoop, SequenceTheorems, FiniteSetTheorems, TLAPS

USE AgentLoopAssumption

-----------------------------------------------------------------------------
(* Slices.                                                                  *)

\* The m elements of old from the one after position k on.
Slice(new, old, k, m) ==
  /\ Len(new) = m
  /\ \A j \in 1..m : new[j] = old[k + j]

\* seq[:n]
LEMMA FrontSlice ==
  ASSUME NEW S, NEW seq \in Seq(S), NEW n \in Nat
  PROVE  Front(seq, n) \in Seq(S) /\ Slice(Front(seq, n), seq, 0, Lesser(n, Len(seq)))
  <1> DEFINE m == Lesser(n, Len(seq))
  <1>1. m \in 0..Len(seq)
    BY LenProperties DEF Lesser
  <1> HIDE DEF m
  <1>2. \A j \in 1..m : seq[j] \in S
    BY <1>1, ElementOfSeq, LenProperties
  <1>3. /\ SubSeq(seq, 1, m) \in Seq(S)
        /\ Len(SubSeq(seq, 1, m)) = IF 1 <= m THEN m - 1 + 1 ELSE 0
        /\ \A j \in 1..(m - 1 + 1) : SubSeq(seq, 1, m)[j] = seq[1 + j - 1]
    BY <1>1, <1>2, SubSeqProperties
  <1>4. \A j \in 1..m : SubSeq(seq, 1, m)[j] = seq[j]
    BY <1>1, <1>3
  <1>5. Len(SubSeq(seq, 1, m)) = m
    BY <1>1, <1>3
  <1>6. Front(seq, n) = SubSeq(seq, 1, m)
    BY DEF Front, m
  <1>7. \A j \in 1..m : 0 + j = j
    BY <1>1
  <1> QED
    BY <1>3, <1>4, <1>5, <1>6, <1>7 DEF m, Slice

\* seq[-n:], for an n that is not 0
LEMMA BackSlice ==
  ASSUME NEW S, NEW seq \in Seq(S), NEW n \in 1..Len(seq)
  PROVE  Back(seq, n) \in Seq(S) /\ Slice(Back(seq, n), seq, Len(seq) - n, n)
  <1>1. Len(seq) \in Nat /\ n \in Nat /\ n # 0 /\ n <= Len(seq)
    BY LenProperties
  <1>2. CASE n = Len(seq)
    <2>1. Back(seq, n) = seq
      BY <1>1, <1>2 DEF Back
    <2>2. \A j \in 1..n : Len(seq) - n + j = j
      BY <1>1, <1>2
    <2> QED
      BY <1>2, <2>1, <2>2 DEF Slice
  <1>3. CASE n # Len(seq)
    <2> DEFINE first == Len(seq) - n + 1
    <2>1. Back(seq, n) = SubSeq(seq, first, Len(seq)) /\ first \in 1..Len(seq)
      BY <1>1, <1>3 DEF Back
    <2>2. \A j \in first..Len(seq) : seq[j] \in S
      BY <1>1, <2>1, ElementOfSeq
    <2>3. /\ SubSeq(seq, first, Len(seq)) \in Seq(S)
          /\ Len(SubSeq(seq, first, Len(seq))) =
               IF first <= Len(seq) THEN Len(seq) - first + 1 ELSE 0
          /\ \A j \in 1..(Len(seq) - first + 1) :
               SubSeq(seq, first, Len(seq))[j] = seq[first + j - 1]
      <3> HIDE DEF first
      <3> QED
        BY <1>1, <2>1, <2>2, SubSeqProperties
    <2>4. \A j \in 1..n : j \in 1..(Len(seq) - first + 1) /\ first + j - 1 = Len(seq) - n + j
      BY <1>1
    <2>5. Len(SubSeq(seq, first, Len(seq))) = n
      BY <1>1, <2>1, <2>3
    <2> HIDE DEF first
    <2> QED
      BY <2>1, <2>3, <2>4, <2>5 DEF Slice
  <1> QED
    BY <1>2, <1>3

\* A run of tokens of one kind.
LEMMA TokenRun ==
  ASSUME NEW S, NEW kind \in S, NEW n \in Nat
  PROVE  /\ Tokens(kind, n) \in Seq(S)
         /\ Len(Tokens(kind, n)) = n
         /\ \A j \in 1..n : Tokens(kind, n)[j] = kind
  BY DEF Tokens

\* A list with n more tokens of a kind.
Longer(new, old, kind, n) ==
  /\ Len(new) = Len(old) + n
  /\ \A j \in 1..Len(old) : new[j] = old[j]
  /\ \A j \in (Len(old) + 1)..(Len(old) + n) : new[j] = kind

LEMMA Appended ==
  ASSUME NEW S, NEW seq \in Seq(S), NEW kind \in S, NEW n \in Nat
  PROVE  /\ seq \o Tokens(kind, n) \in Seq(S)
         /\ Longer(seq \o Tokens(kind, n), seq, kind, n)
  <1>1. Len(seq) \in Nat
    BY LenProperties
  <1>2. Tokens(kind, n) \in Seq(S) /\ Len(Tokens(kind, n)) = n
        /\ \A j \in 1..n : Tokens(kind, n)[j] = kind
    BY TokenRun
  <1> DEFINE run == Tokens(kind, n)
             longer == seq \o run
  <1> HIDE DEF run
  <1>3. /\ longer \in Seq(S)
        /\ Len(longer) = Len(seq) + Len(run)
        /\ \A j \in 1..(Len(seq) + Len(run)) :
             longer[j] = IF j <= Len(seq) THEN seq[j] ELSE run[j - Len(seq)]
    BY <1>2, ConcatProperties DEF run
  <1> HIDE DEF longer
  <1>4. Len(run) = n /\ \A j \in 1..n : run[j] = kind
    BY <1>2 DEF run
  <1>5. \A j \in 1..Len(seq) : longer[j] = seq[j]
    BY <1>1, <1>3, <1>4
  <1>6. \A j \in (Len(seq) + 1)..(Len(seq) + n) : longer[j] = kind
    <2> SUFFICES ASSUME NEW j \in (Len(seq) + 1)..(Len(seq) + n) PROVE longer[j] = kind
      OBVIOUS
    <2>1. /\ j \in 1..(Len(seq) + Len(run)) /\ ~(j <= Len(seq))
          /\ j - Len(seq) \in 1..n
      BY <1>1, <1>4
    <2> QED
      BY <1>3, <1>4, <2>1
  <1> QED
    BY <1>3, <1>4, <1>5, <1>6 DEF longer, run, Longer

-----------------------------------------------------------------------------
(* The lists of a conversation.                                             *)

\* The tokens before the response.
Start(d) == Len(d.ids) - Len(d.mask)

\* The mask tells the model's tokens of the response from the observed ones, and
\* the probabilities are those of the response.
Lists(d) ==
  /\ d.ids \in Seq(Kinds) /\ d.mask \in Seq({0, 1}) /\ d.logProbs \in Seq(Kinds)
  /\ Start(d) \in Nat
  /\ \A j \in 1..Start(d) : d.ids[j] = "prompt"
  /\ \A j \in 1..Len(d.mask) :
       d.mask[j] = IF d.ids[Start(d) + j] = "answer" THEN 1 ELSE 0
  /\ Len(d.mask) > 0 => d.ids[Start(d) + 1] = "answer"
  /\ options.logProbs =>
       /\ Len(d.logProbs) = Len(d.mask)
       /\ \A j \in 1..Len(d.mask) : d.logProbs[j] = d.ids[Start(d) + j]
  /\ ~options.logProbs => d.logProbs = <<>>

\* More tokens keep the lists together, if the response starts with an answer.
LEMMA ExtendedLists ==
  ASSUME options \in Options,
         NEW d \in AgentData, Lists(d),
         NEW kind \in {"answer", "observation"}, NEW n \in Nat \ {0},
         Len(d.mask) = 0 => kind = "answer"
  PROVE  LET e == Extended(d, kind, n)
         IN /\ e \in AgentData /\ Lists(e)
            /\ Len(e.mask) = Len(d.mask) + n
            /\ Start(e) = Start(d)
            /\ e.state = d.state /\ e.calls = d.calls
            /\ e.userTurns = d.userTurns /\ e.assistantTurns = d.assistantTurns
            /\ e.server = d.server
  <1> DEFINE e == Extended(d, kind, n)
             ids == d.ids \o Tokens(kind, n)
             bit == IF kind = "answer" THEN 1 ELSE 0
             mask == d.mask \o Tokens(bit, n)
             probs == ExtendedProbs(d, kind, n)
  <1>1. /\ d.ids \in Seq(Kinds) /\ d.mask \in Seq({0, 1}) /\ d.logProbs \in Seq(Kinds)
        /\ Len(d.ids) \in Nat /\ Len(d.mask) \in Nat /\ Len(d.logProbs) \in Nat
        /\ Start(d) \in Nat
        /\ kind \in Kinds /\ bit \in {0, 1} /\ n \in Nat
    BY LenProperties DEF Lists, Kinds
  <1> HIDE DEF bit
  <1>2. Start(d) \in Nat /\ Len(d.ids) = Start(d) + Len(d.mask)
    BY <1>1 DEF Start
  <1>a. ids \in Seq(Kinds) /\ Longer(ids, d.ids, kind, n)
    BY <1>1, Appended
  <1>b. mask \in Seq({0, 1}) /\ Longer(mask, d.mask, bit, n)
    <2> DEFINE Bits == {0, 1}
    <2>1. d.mask \in Seq(Bits) /\ bit \in Bits
      BY <1>1
    <2> HIDE DEF Bits
    <2>2. mask \in Seq(Bits) /\ Longer(mask, d.mask, bit, n)
      BY <1>1, <2>1, Appended
    <2> QED
      BY <2>2 DEF Bits
  <1> HIDE DEF ids, mask
  <1>3. /\ ids \in Seq(Kinds) /\ Len(ids) = Len(d.ids) + n
        /\ \A j \in 1..Len(d.ids) : ids[j] = d.ids[j]
        /\ \A j \in (Len(d.ids) + 1)..(Len(d.ids) + n) : ids[j] = kind
    BY <1>a DEF Longer
  <1>4. /\ mask \in Seq({0, 1}) /\ Len(mask) = Len(d.mask) + n
        /\ \A j \in 1..Len(d.mask) : mask[j] = d.mask[j]
        /\ \A j \in (Len(d.mask) + 1)..(Len(d.mask) + n) : mask[j] = bit
    BY <1>b DEF Longer
  <1>5. /\ probs \in Seq(Kinds)
        /\ options.logProbs =>
             /\ Len(probs) = Len(mask)
             /\ \A j \in 1..Len(d.mask) : probs[j] = d.logProbs[j]
             /\ \A j \in (Len(d.mask) + 1)..(Len(d.mask) + n) : probs[j] = kind
        /\ ~options.logProbs => probs = <<>>
    <2>1. CASE options.logProbs
      <3>1. Len(d.logProbs) = Len(d.mask)
        BY <2>1 DEF Lists
      <3>2. kind # "answer" => d.logProbs # <<>>
        BY <1>1, <3>1
      <3>3. probs = d.logProbs \o Tokens(kind, n)
        BY <2>1, <3>2 DEF ExtendedProbs
      <3>4. probs \in Seq(Kinds) /\ Longer(probs, d.logProbs, kind, n)
        BY <1>1, <3>3, Appended
      <3> HIDE DEF probs
      <3> QED
        BY <2>1, <3>1, <3>4, <1>4 DEF Longer
    <2>2. CASE ~options.logProbs
      <3>1. d.logProbs = <<>>
        BY <2>2 DEF Lists
      <3> QED
        BY <2>2, <3>1, <1>1 DEF ExtendedProbs
    <2> QED
      BY <2>1, <2>2
  <1>6. e = [d EXCEPT !.ids = ids, !.mask = mask, !.logProbs = probs]
    BY DEF Extended, AgentData, ids, mask, bit
  <1> HIDE DEF probs, e
  <1>7. /\ e.ids = ids /\ e.mask = mask /\ e.logProbs = probs
        /\ e.state = d.state /\ e.calls = d.calls
        /\ e.userTurns = d.userTurns /\ e.assistantTurns = d.assistantTurns
        /\ e.server = d.server /\ e \in AgentData
    BY <1>3, <1>4, <1>5, <1>6 DEF AgentData
  <1>8. Start(e) = Start(d) /\ Len(mask) \in Nat /\ n \in Nat
    <2>1. Start(e) = Len(ids) - Len(mask)
      BY <1>7 DEF Start
    <2>2. Len(ids) = Start(d) + Len(d.mask) + n /\ Len(mask) = Len(d.mask) + n
      BY <1>1, <1>2, <1>3, <1>4
    <2> QED
      BY <1>1, <1>2, <2>1, <2>2
  <1>9. \A j \in 1..Start(d) : ids[j] = "prompt"
    <2> SUFFICES ASSUME NEW j \in 1..Start(d) PROVE ids[j] = "prompt"
      OBVIOUS
    <2>1. j \in 1..Len(d.ids)
      BY <1>1, <1>2
    <2>2. d.ids[j] = "prompt"
      BY DEF Lists
    <2> QED
      BY <1>3, <2>1, <2>2
  <1>10. \A j \in 1..Len(d.mask) : ids[Start(d) + j] = d.ids[Start(d) + j]
    <2> SUFFICES ASSUME NEW j \in 1..Len(d.mask)
                 PROVE  ids[Start(d) + j] = d.ids[Start(d) + j]
      OBVIOUS
    <2>a. Start(d) \in Nat /\ Len(d.mask) \in Nat /\ Len(d.ids) = Start(d) + Len(d.mask)
      BY <1>1, <1>2
    <2>1. Start(d) + j \in 1..Len(d.ids)
      BY ONLY <2>a, j \in 1..Len(d.mask)
    <2> QED
      BY <1>3, <2>1
  <1>11. \A j \in (Len(d.mask) + 1)..(Len(d.mask) + n) : ids[Start(d) + j] = kind
    <2> SUFFICES ASSUME NEW j \in (Len(d.mask) + 1)..(Len(d.mask) + n)
                 PROVE  ids[Start(d) + j] = kind
      OBVIOUS
    <2>a. /\ Start(d) \in Nat /\ Len(d.mask) \in Nat /\ n \in Nat
          /\ Len(d.ids) = Start(d) + Len(d.mask)
      BY <1>1, <1>2
    <2>1. Start(d) + j \in (Len(d.ids) + 1)..(Len(d.ids) + n)
      BY ONLY <2>a, j \in (Len(d.mask) + 1)..(Len(d.mask) + n)
    <2> QED
      BY <1>3, <2>1
  <1>12. \A j \in 1..Len(mask) : j \in 1..Len(d.mask) \/ j \in (Len(d.mask) + 1)..(Len(d.mask) + n)
    BY <1>1, <1>4, <1>8
  <1>13. \A j \in 1..Len(mask) : mask[j] = IF ids[Start(d) + j] = "answer" THEN 1 ELSE 0
    <2> SUFFICES ASSUME NEW j \in 1..Len(mask)
                 PROVE  mask[j] = IF ids[Start(d) + j] = "answer" THEN 1 ELSE 0
      OBVIOUS
    <2>1. CASE j \in 1..Len(d.mask)
      <3>1. d.mask[j] = IF d.ids[Start(d) + j] = "answer" THEN 1 ELSE 0
        BY <2>1 DEF Lists
      <3> QED
        BY <2>1, <3>1, <1>4, <1>10
    <2>2. CASE j \in (Len(d.mask) + 1)..(Len(d.mask) + n)
      BY <2>2, <1>4, <1>11 DEF bit
    <2> QED
      BY <2>1, <2>2, <1>12
  <1>14. ids[Start(d) + 1] = "answer"
    <2>1. CASE Len(d.mask) = 0
      <3>1. 1 \in (Len(d.mask) + 1)..(Len(d.mask) + n)
        BY <2>1, <1>8
      <3> QED
        BY <2>1, <3>1, <1>11
    <2>2. CASE Len(d.mask) # 0
      <3>1. 1 \in 1..Len(d.mask) /\ Len(d.mask) > 0
        BY <2>2, <1>1
      <3> QED
        BY <3>1, <1>10 DEF Lists
    <2> QED
      BY <2>1, <2>2
  <1>15. options.logProbs => \A j \in 1..Len(mask) : probs[j] = ids[Start(d) + j]
    <2> SUFFICES ASSUME options.logProbs, NEW j \in 1..Len(mask)
                 PROVE  probs[j] = ids[Start(d) + j]
      OBVIOUS
    <2>1. CASE j \in 1..Len(d.mask)
      <3>1. d.logProbs[j] = d.ids[Start(d) + j]
        BY <2>1 DEF Lists
      <3> QED
        BY <2>1, <3>1, <1>5, <1>10
    <2>2. CASE j \in (Len(d.mask) + 1)..(Len(d.mask) + n)
      BY <2>2, <1>5, <1>11
    <2> QED
      BY <2>1, <2>2, <1>12
  <1>16. Lists(e)
    BY <1>1, <1>3, <1>4, <1>5, <1>7, <1>8, <1>9, <1>13, <1>14, <1>15 DEF Lists
  <1> QED
    BY <1>4, <1>7, <1>8, <1>16 DEF e

\* The prompt is cut off where the mask begins.
LEMMA PromptIs ==
  ASSUME NEW d, Lists(d)
  PROVE  /\ PromptIds(d) \in Seq(Kinds) /\ Len(PromptIds(d)) = Start(d)
         /\ \A j \in 1..Start(d) : PromptIds(d)[j] = d.ids[j]
  <1> DEFINE start == Start(d)
  <1>1. PromptIds(d) = Front(d.ids, start)
    BY DEF PromptIds, Start
  <1>a. d.ids \in Seq(Kinds) /\ d.mask \in Seq({0, 1}) /\ start \in Nat
    BY DEF Lists
  <1>b. Len(d.ids) \in Nat /\ Len(d.mask) \in Nat
    BY <1>a, LenProperties
  <1>c. start = Len(d.ids) - Len(d.mask)
    BY DEF Start
  <1>2. start \in Nat /\ start <= Len(d.ids)
    <2>1. \A a, b \in Nat : a - b <= a
      OBVIOUS
    <2> QED
      BY <1>a, <1>b, <1>c, <2>1
  <1> HIDE DEF start
  <1>3. Lesser(start, Len(d.ids)) = start
    BY <1>2, <1>b DEF Lesser
  <1>4. PromptIds(d) \in Seq(Kinds) /\ Slice(PromptIds(d), d.ids, 0, start)
    BY <1>1, <1>2, <1>3, <1>a, FrontSlice
  <1>5. \A j \in 1..start : 0 + j = j
    BY <1>2
  <1> QED
    BY <1>4, <1>5 DEF Slice, start

\* What run cuts the lists into.
LEMMA CutLists ==
  ASSUME options \in Options,
         NEW d \in AgentData, Lists(d), Start(d) >= 1, Len(d.mask) > 0
  PROVE  /\ PromptIds(d) # <<>>
         /\ \A j \in DOMAIN PromptIds(d) : PromptIds(d)[j] = "prompt"
         /\ Len(ResponseIds(d)) \in 1..ResponseLength /\ ResponseIds(d)[1] = "answer"
         /\ Len(ResponseMask(d)) = Len(ResponseIds(d))
         /\ \A j \in DOMAIN ResponseIds(d) :
              ResponseMask(d)[j] = IF ResponseIds(d)[j] = "answer" THEN 1 ELSE 0
         /\ ResponseLogProbs(d) = IF options.logProbs THEN ResponseIds(d) ELSE <<>>
  <1> DEFINE start == Start(d)
             size == Len(d.mask)
             kept == Lesser(ResponseLength, size)
             rest == Back(d.ids, size)
  <1>1. /\ d.ids \in Seq(Kinds) /\ d.mask \in Seq({0, 1}) /\ d.logProbs \in Seq(Kinds)
        /\ start \in Nat \ {0} /\ start \in Nat /\ size \in Nat \ {0}
        /\ Len(d.ids) = start + size /\ Len(d.ids) \in Nat
        /\ kept \in 1..ResponseLength /\ kept \in 1..size /\ ResponseLength \in Nat \ {0}
    BY LenProperties DEF Lists, Start, Lesser
  <1>2. /\ \A j \in 1..start : d.ids[j] = "prompt"
        /\ \A j \in 1..size : d.mask[j] = IF d.ids[start + j] = "answer" THEN 1 ELSE 0
        /\ d.ids[start + 1] = "answer"
        /\ options.logProbs =>
             /\ Len(d.logProbs) = size
             /\ \A j \in 1..size : d.logProbs[j] = d.ids[start + j]
        /\ ~options.logProbs => d.logProbs = <<>>
    BY DEF Lists
  <1>3. /\ PromptIds(d) \in Seq(Kinds) /\ Len(PromptIds(d)) = start
        /\ \A j \in 1..start : PromptIds(d)[j] = d.ids[j]
    BY PromptIs
  <1>4. /\ rest \in Seq(Kinds) /\ Len(rest) = size
        /\ \A j \in 1..size : rest[j] = d.ids[start + j]
    <2>1. size \in 1..Len(d.ids) /\ Len(d.ids) - size = start
      BY <1>1
    <2> HIDE DEF start, size
    <2>2. rest \in Seq(Kinds) /\ Slice(rest, d.ids, start, size)
      BY <1>1, <2>1, BackSlice
    <2> QED
      BY <2>2 DEF Slice
  <1>5. /\ ResponseIds(d) \in Seq(Kinds) /\ Len(ResponseIds(d)) = kept
        /\ \A j \in 1..kept : ResponseIds(d)[j] = d.ids[start + j]
    <2>1. ResponseIds(d) = Front(rest, ResponseLength)
      BY DEF ResponseIds
    <2> HIDE DEF rest
    <2>2. Lesser(ResponseLength, Len(rest)) = kept
      BY <1>4
    <2> HIDE DEF kept, start, size
    <2>3. ResponseIds(d) \in Seq(Kinds) /\ Slice(ResponseIds(d), rest, 0, kept)
      BY <1>1, <1>4, <2>1, <2>2, FrontSlice
    <2>4. \A j \in 1..kept : 0 + j = j /\ j \in 1..size
      BY <1>1
    <2> QED
      BY <1>4, <2>3, <2>4 DEF Slice
  <1>6. /\ Len(ResponseMask(d)) = kept
        /\ \A j \in 1..kept : ResponseMask(d)[j] = d.mask[j]
    <2>1. ResponseMask(d) = Front(d.mask, ResponseLength)
      BY DEF ResponseMask
    <2> DEFINE Bits == {0, 1}
    <2>a. d.mask \in Seq(Bits) /\ ResponseLength \in Nat
      BY <1>1
    <2> HIDE DEF Bits
    <2>b. Slice(Front(d.mask, ResponseLength), d.mask, 0, Lesser(ResponseLength, Len(d.mask)))
      BY ONLY <2>a, FrontSlice
    <2>2. Slice(ResponseMask(d), d.mask, 0, kept)
      BY <2>1, <2>b
    <2> HIDE DEF kept, size
    <2>3. \A j \in 1..kept : 0 + j = j
      BY <1>1
    <2> QED
      BY <2>2, <2>3 DEF Slice
  <1>7. options.logProbs => ResponseLogProbs(d) = ResponseIds(d)
    <2> SUFFICES ASSUME options.logProbs PROVE ResponseLogProbs(d) = ResponseIds(d)
      OBVIOUS
    <2>1. ResponseLogProbs(d) = Front(d.logProbs, ResponseLength) /\ Len(d.logProbs) = size
      BY <1>2 DEF ResponseLogProbs
    <2>a. d.logProbs \in Seq(Kinds) /\ ResponseLength \in Nat
      BY <1>1
    <2>b. /\ Front(d.logProbs, ResponseLength) \in Seq(Kinds)
          /\ Slice(Front(d.logProbs, ResponseLength), d.logProbs, 0,
                   Lesser(ResponseLength, Len(d.logProbs)))
      BY ONLY <2>a, FrontSlice
    <2>2. ResponseLogProbs(d) \in Seq(Kinds) /\ Slice(ResponseLogProbs(d), d.logProbs, 0, kept)
      BY <2>1, <2>b
    <2> HIDE DEF kept, start, size
    <2>3. \A j \in 1..kept : 0 + j = j /\ j \in 1..size
      BY <1>1
    <2>4. \A j \in 1..kept : ResponseLogProbs(d)[j] = d.logProbs[j]
      BY <2>2, <2>3 DEF Slice
    <2>5. \A j \in 1..kept : ResponseLogProbs(d)[j] = ResponseIds(d)[j]
      BY <1>2, <1>5, <2>3, <2>4
    <2>6. Len(ResponseLogProbs(d)) = kept
      BY <2>2 DEF Slice
    <2> QED
      BY <1>5, <2>2, <2>5, <2>6, SeqEqual
  <1>8. ~options.logProbs => ResponseLogProbs(d) = <<>>
    <2> SUFFICES ASSUME ~options.logProbs PROVE ResponseLogProbs(d) = <<>>
      OBVIOUS
    <2>1. d.logProbs = <<>> /\ Len(d.logProbs) = 0
      BY <1>2
    <2>2. ResponseLogProbs(d) = SubSeq(<<>>, 1, 0)
      BY <1>1, <2>1 DEF ResponseLogProbs, Front, Lesser
    <2> QED
      BY <2>2, SubSeqEmpty
  <1> HIDE DEF kept, start, size, rest
  <1>9. DOMAIN PromptIds(d) = 1..start /\ DOMAIN ResponseIds(d) = 1..kept
    BY <1>3, <1>5, LenProperties
  <1>10. \A j \in 1..kept :
           ResponseMask(d)[j] = IF ResponseIds(d)[j] = "answer" THEN 1 ELSE 0
    <2> SUFFICES ASSUME NEW j \in 1..kept
                 PROVE  ResponseMask(d)[j] = IF ResponseIds(d)[j] = "answer" THEN 1 ELSE 0
      OBVIOUS
    <2>1. j \in 1..size
      BY <1>1
    <2>2. d.mask[j] = IF d.ids[start + j] = "answer" THEN 1 ELSE 0
      BY <1>2, <2>1
    <2> QED
      BY <1>5, <1>6, <2>2
  <1>11. ResponseIds(d)[1] = "answer"
    BY <1>1, <1>2, <1>5
  <1>12. \A j \in 1..start : PromptIds(d)[j] = "prompt"
    BY <1>2, <1>3
  <1>13. PromptIds(d) # <<>>
    BY <1>1, <1>3
  <1> QED
    BY <1>1, <1>3, <1>5, <1>6, <1>7, <1>8, <1>9, <1>10, <1>11, <1>12, <1>13

-----------------------------------------------------------------------------
(* A conversation.                                                          *)

\* While tools alone add to a conversation, the response is short of its limit
\* whenever a request goes out.
Conversation(d) ==
  /\ d \in AgentData
  /\ Lists(d)
  /\ d.state = "pending" => Len(d.ids) = 0 /\ d.logProbs = <<>> /\ d.calls = <<>>
  /\ d.state \notin {"pending", "failed"} => Start(d) >= 1
  /\ d.state \in {"tools", "interacting", "terminated"} => Len(d.mask) > 0
  /\ d.state = "interacting" => options.interactive
  /\ d.state \in {"generating", "waiting"} /\ ~options.interactive =>
       Len(d.mask) < ResponseLength

Conversations == options \in Options /\ data \in [Slots -> AgentData] /\ \A i \in Slots : Conversation(data[i])

\* A new one.
LEMMA NewConversation == Conversation(New)
  <1>1. New \in AgentData
    BY DEF New, AgentData, States
  <1>2. Len(New.ids) = 0 /\ Len(New.mask) = 0 /\ New.logProbs = <<>> /\ New.calls = <<>> /\ New.state = "pending"
    BY DEF New
  <1>3. Start(New) = 0
    BY <1>2 DEF Start
  <1>4. New.ids \in Seq(Kinds) /\ New.mask \in Seq({0, 1}) /\ New.logProbs \in Seq(Kinds)
    BY <1>1 DEF AgentData
  <1>5. Lists(New)
    BY <1>2, <1>3, <1>4 DEF Lists
  <1> QED
    BY <1>1, <1>2, <1>5 DEF Conversation

\* Only the lists, the state and their limits matter.
LEMMA SameLists ==
  ASSUME NEW d, NEW e, Lists(d),
         e.ids = d.ids, e.mask = d.mask, e.logProbs = d.logProbs
  PROVE  Lists(e) /\ Start(e) = Start(d)
  <1>1. Start(e) = Start(d)
    BY DEF Start
  <1> QED
    BY <1>1 DEF Lists

\* Conversations, in the next state.
LEMMA OneMoves ==
  ASSUME Conversations, UNCHANGED options,
         NEW i \in Slots, NEW e, Conversation(e), data' = [data EXCEPT ![i] = e]
  PROVE  Conversations'
  <1>1. data' \in [Slots -> AgentData]
    BY DEF Conversations, Conversation
  <1>2. \A j \in Slots : Conversation(data'[j])
    BY DEF Conversations
  <1>3. \A j \in Slots : Conversation(data[j])' <=> Conversation(data'[j])
    BY DEF Conversation, Lists
  <1> QED
    BY <1>1, <1>2, <1>3 DEF Conversations

\* A task of a tool call touches neither the lists nor, unless it raises, the state.
LEMMA CallsMove ==
  ASSUME Conversations, NEW i \in Slots, NEW k \in DOMAIN data[i].calls,
         NEW to \in CallStates
  PROVE  /\ Conversation([data[i] EXCEPT !.calls[k] = to])
         /\ Conversation([data[i] EXCEPT !.calls[k] = to, !.state = "failed"])
  <1> DEFINE d == data[i]
             calls == [d.calls EXCEPT ![k] = to]
             e == [d EXCEPT !.calls = calls]
             f == [d EXCEPT !.calls = calls, !.state = "failed"]
  <1>1. Conversation(d) /\ d \in AgentData
    BY DEF Conversations
  <1>2. d.calls \in Seq(CallStates) /\ k \in 1..Len(d.calls)
    BY <1>1, LenProperties DEF AgentData
  <1>3. calls \in Seq(CallStates)
    BY <1>2, ExceptSeq
  <1>4. [data[i] EXCEPT !.calls[k] = to] = e /\ [data[i] EXCEPT !.calls[k] = to, !.state = "failed"] = f
    BY <1>1 DEF AgentData
  <1> HIDE DEF calls, d
  <1>5. /\ e \in AgentData /\ e.ids = d.ids /\ e.mask = d.mask /\ e.logProbs = d.logProbs
        /\ e.state = d.state
    BY <1>1, <1>3 DEF AgentData
  <1>6. /\ f \in AgentData /\ f.ids = d.ids /\ f.mask = d.mask /\ f.logProbs = d.logProbs
        /\ f.state = "failed"
    BY <1>1, <1>3 DEF AgentData, States
  <1> HIDE DEF e, f
  <1>7. d.state # "pending"
    BY <1>1, <1>2, EmptySeq DEF Conversation
  <1>8. Lists(d)
    BY <1>1 DEF Conversation
  <1>a. Lists(e) /\ Start(e) = Start(d)
    BY <1>5, <1>8, SameLists
  <1>b. Lists(f) /\ Start(f) = Start(d)
    BY <1>6, <1>8, SameLists
  <1>9. Conversation(e)
    BY <1>1, <1>5, <1>7, <1>a DEF Conversation
  <1>10. Conversation(f)
    BY <1>1, <1>6, <1>7, <1>b DEF Conversation
  <1> QED
    BY <1>4, <1>9, <1>10 DEF e, f

\* What a step of a conversation leaves.
LEMMA StepKeeps ==
  ASSUME Conversations, UNCHANGED options, NEW i \in Slots, Step(i)
  PROVE  Conversations'
  <1> DEFINE d == data[i]
  <1>1. /\ data \in [Slots -> AgentData] /\ options \in Options
        /\ d \in AgentData /\ Conversation(d) /\ Lists(d)
        /\ d.mask \in Seq({0, 1}) /\ Len(d.mask) \in Nat
        /\ Len(d.ids) \in Nat /\ Start(d) \in Nat
        /\ ResponseLength \in Nat /\ PromptLength \in Nat /\ MaxPrompt \in Nat
    BY LenProperties DEF Conversations, Conversation, Lists
  <1>2. CASE Pending(i)
    <2>1. PICK n \in 1..MaxPrompt :
            data' = [data EXCEPT ![i].ids = Tokens("prompt", n), ![i].state = "generating"]
      BY <1>2 DEF Pending
    <2> DEFINE ids == Tokens("prompt", n)
               e == [d EXCEPT !.ids = ids, !.state = "generating"]
    <2>2. ids \in Seq(Kinds) /\ Len(ids) = n /\ \A j \in 1..n : ids[j] = "prompt"
      <3>1. "prompt" \in Kinds /\ n \in Nat
        BY DEF Kinds
      <3> QED
        BY <3>1, TokenRun
    <2>3. d.state = "pending" /\ d.logProbs = <<>> /\ Len(d.ids) = 0 /\ Len(d.mask) = 0
      <3>1. d.state = "pending"
        BY <1>2 DEF Pending
      <3>2. d.logProbs = <<>> /\ Len(d.ids) = 0
        BY <1>1, <3>1 DEF Conversation
      <3> QED
        BY <1>1, <3>1, <3>2 DEF Start
    <2>4. data' = [data EXCEPT ![i] = e]
      BY <1>1, <2>1
    <2> HIDE DEF ids, d
    <2>5. /\ e \in AgentData /\ e.ids = ids /\ e.mask = d.mask /\ e.logProbs = <<>>
          /\ e.state = "generating"
      BY <1>1, <2>2, <2>3 DEF AgentData, States
    <2> HIDE DEF e
    <2>6. Start(e) = n /\ n \in Nat \ {0}
      BY <2>2, <2>3, <2>5 DEF Start
    <2>7. Lists(e)
      <3>1. e.mask \in Seq({0, 1}) /\ <<>> \in Seq(Kinds) /\ Len(<<>>) = 0
        BY <1>1, <2>5
      <3>2. Len(e.mask) = 0 /\ Len(e.logProbs) = 0
        BY <2>3, <2>5, <3>1
      <3>3. \A j \in 1..Len(e.mask) : FALSE
        BY <3>2
      <3> QED
        BY <2>2, <2>5, <2>6, <3>1, <3>2, <3>3 DEF Lists
    <2>8. Conversation(e)
      BY <2>3, <2>5, <2>6, <2>7 DEF Conversation
    <2> QED
      BY <2>4, <2>8, OneMoves
  <1>3. CASE Send(i)
    <2>1. PICK s \in Servers : data' = [data EXCEPT ![i].state = "waiting", ![i].server = s]
      BY <1>3 DEF Send
    <2> DEFINE e == [d EXCEPT !.state = "waiting", !.server = s]
    <2>2. data' = [data EXCEPT ![i] = e] /\ d.state = "generating"
      BY <1>1, <1>3, <2>1 DEF Send
    <2> HIDE DEF d
    <2>3. /\ e \in AgentData /\ e.ids = d.ids /\ e.mask = d.mask /\ e.logProbs = d.logProbs
          /\ e.state = "waiting"
      BY <1>1 DEF AgentData, States
    <2> HIDE DEF e
    <2>4. Lists(e) /\ Start(e) = Start(d)
      BY <1>1, <2>3, SameLists
    <2>5. Conversation(e)
      BY <1>1, <2>2, <2>3, <2>4 DEF Conversation
    <2> QED
      BY <2>2, <2>5, OneMoves
  <1>4. CASE StartRaises(i) \/ Refused(i) \/ Raises(i)
    <2> DEFINE e == [d EXCEPT !.state = "failed"]
    <2>1. data' = [data EXCEPT ![i] = e]
      BY <1>1, <1>4 DEF StartRaises, Refused, Raises
    <2> HIDE DEF d
    <2>2. /\ e \in AgentData /\ e.ids = d.ids /\ e.mask = d.mask /\ e.logProbs = d.logProbs
          /\ e.state = "failed"
      BY <1>1 DEF AgentData, States
    <2> HIDE DEF e
    <2>3. Lists(e) /\ Start(e) = Start(d)
      BY <1>1, <2>2, SameLists
    <2>4. Conversation(e)
      BY <1>1, <2>1, <2>2, <2>3 DEF Conversation
    <2> QED
      BY <2>1, <2>4, OneMoves
  <1>5. CASE Answer(i)
    <2>1. d.state = "waiting" /\ Start(d) >= 1
      BY <1>1, <1>5 DEF Answer, Conversation
    <2>2. PICK n \in 1..Room(d), found \in 0..MaxFound :
            LET longer == [Extended(d, "answer", n) EXCEPT !.assistantTurns = @ + 1]
                next == AfterAnswer(longer, found)
            IN data' = [data EXCEPT ![i] =
                          [longer EXCEPT !.state = next,
                                         !.calls = IF next = "tools" THEN StartedCalls(found) ELSE <<>>]]
      BY <1>5 DEF Answer
    <2> DEFINE x == Extended(d, "answer", n)
               longer == [x EXCEPT !.assistantTurns = @ + 1]
               next == AfterAnswer(longer, found)
               calls == IF next = "tools" THEN StartedCalls(found) ELSE <<>>
               e == [longer EXCEPT !.state = next, !.calls = calls]
    <2>3. data' = [data EXCEPT ![i] = e]
      BY <2>2
    <2>4. n \in Nat \ {0} /\ found \in Nat /\ MaxFound \in Nat
      <3>1. Room(d) \in Int
        BY <1>1 DEF Room
      <3> QED
        BY <3>1
    <2>5. /\ x \in AgentData /\ Lists(x) /\ Len(x.mask) = Len(d.mask) + n
          /\ Start(x) = Start(d)
      BY <1>1, <2>4, ExtendedLists
    <2>6. /\ next \in {"terminated", "tools", "interacting"}
          /\ next = "interacting" => options.interactive
      BY DEF AfterAnswer
    <2>7. calls \in Seq(CallStates)
      <3> HIDE DEF next
      <3>1. found \in Nat /\ MaxParallelCalls \in Nat
        BY <2>4
      <3>2. Lesser(found, MaxParallelCalls) \in Nat
        BY <3>1 DEF Lesser
      <3>3. StartedCalls(found) \in Seq(CallStates)
        BY <3>2 DEF StartedCalls, CallStates
      <3>4. <<>> \in Seq(CallStates)
        OBVIOUS
      <3> QED
        BY <3>3, <3>4
    <2> HIDE DEF x, next, calls, d
    <2>8. /\ longer \in AgentData /\ longer.ids = x.ids /\ longer.mask = x.mask
          /\ longer.logProbs = x.logProbs
      <3>1. x.assistantTurns + 1 \in Nat
        BY <2>5 DEF AgentData
      <3> QED
        BY <2>5, <3>1 DEF AgentData
    <2> HIDE DEF longer
    <2>9. /\ e \in AgentData /\ e.ids = x.ids /\ e.mask = x.mask /\ e.logProbs = x.logProbs
          /\ e.state = next
      BY <2>6, <2>7, <2>8 DEF AgentData, States
    <2> HIDE DEF e
    <2>10. Lists(e) /\ Start(e) = Start(x)
      BY <2>5, <2>9, SameLists
    <2>11. Len(e.mask) > 0
      BY <1>1, <2>4, <2>5, <2>9
    <2>12. Conversation(e)
      BY <2>1, <2>5, <2>6, <2>9, <2>10, <2>11 DEF Conversation
    <2> QED
      BY <2>3, <2>12, OneMoves
  <1>6. CASE EndTools(i)
    <2>1. d.state = "tools" /\ Start(d) >= 1 /\ Len(d.mask) > 0
      BY <1>1, <1>6 DEF EndTools, Conversation
    <2>2. PICK n \in 1..MaxObservation :
            data' = [data EXCEPT ![i] =
                       IF Fits(d, n)
                         THEN [Extended(d, "observation", n) EXCEPT
                                 !.state = "generating", !.userTurns = @ + 1, !.calls = <<>>]
                         ELSE [d EXCEPT !.state = "terminated", !.calls = <<>>]]
      BY <1>6 DEF EndTools
    <2>3. n \in Nat \ {0} /\ <<>> \in Seq(CallStates)
      OBVIOUS
    <2>4. CASE Fits(d, n)
      <3> DEFINE x == Extended(d, "observation", n)
                 e == [x EXCEPT !.state = "generating", !.userTurns = @ + 1, !.calls = <<>>]
      <3>1. data' = [data EXCEPT ![i] = e]
        BY <2>2, <2>4
      <3>2. /\ x \in AgentData /\ Lists(x) /\ Len(x.mask) = Len(d.mask) + n
            /\ Start(x) = Start(d)
        BY <1>1, <2>1, <2>3, ExtendedLists
      <3>3. Len(x.mask) < ResponseLength
        BY <1>1, <2>3, <2>4, <3>2 DEF Fits
      <3> HIDE DEF x, d
      <3>4. /\ e \in AgentData /\ e.ids = x.ids /\ e.mask = x.mask /\ e.logProbs = x.logProbs
            /\ e.state = "generating"
        <4>1. x.userTurns + 1 \in Nat
          BY <3>2 DEF AgentData
        <4> QED
          BY <2>3, <3>2, <4>1 DEF AgentData, States
      <3> HIDE DEF e
      <3>5. Lists(e) /\ Start(e) = Start(x)
        BY <3>2, <3>4, SameLists
      <3>6. Conversation(e)
        BY <2>1, <3>2, <3>3, <3>4, <3>5 DEF Conversation
      <3> QED
        BY <3>1, <3>6, OneMoves
    <2>5. CASE ~Fits(d, n)
      <3> DEFINE e == [d EXCEPT !.state = "terminated", !.calls = <<>>]
      <3>1. data' = [data EXCEPT ![i] = e]
        BY <2>2, <2>5
      <3> HIDE DEF d
      <3>2. /\ e \in AgentData /\ e.ids = d.ids /\ e.mask = d.mask /\ e.logProbs = d.logProbs
            /\ e.state = "terminated"
        BY <1>1, <2>3 DEF AgentData, States
      <3> HIDE DEF e
      <3>3. Lists(e) /\ Start(e) = Start(d)
        BY <1>1, <3>2, SameLists
      <3>4. Conversation(e)
        BY <2>1, <3>2, <3>3 DEF Conversation
      <3> QED
        BY <3>1, <3>4, OneMoves
    <2> QED
      BY <2>4, <2>5
  <1>7. CASE Interact(i)
    <2>1. d.state = "interacting" /\ Start(d) >= 1 /\ Len(d.mask) > 0 /\ options.interactive
      BY <1>1, <1>7 DEF Interact, Conversation
    <2>2. PICK n \in 1..MaxObservation, next \in {"generating", "terminated"} :
            data' = [data EXCEPT ![i] = [Extended(d, "observation", n) EXCEPT
                                           !.state = next, !.userTurns = @ + 1]]
      BY <1>7 DEF Interact
    <2> DEFINE x == Extended(d, "observation", n)
               e == [x EXCEPT !.state = next, !.userTurns = @ + 1]
    <2>3. data' = [data EXCEPT ![i] = e] /\ n \in Nat \ {0}
      BY <2>2
    <2>a. d \in AgentData /\ Lists(d) /\ Len(d.mask) # 0
      BY <1>1, <2>1
    <2> HIDE DEF d
    <2>4. /\ x \in AgentData /\ Lists(x) /\ Len(x.mask) = Len(d.mask) + n
          /\ Start(x) = Start(d)
      BY <1>1, <2>3, <2>a, ExtendedLists
    <2> HIDE DEF x
    <2>5. /\ e \in AgentData /\ e.ids = x.ids /\ e.mask = x.mask /\ e.logProbs = x.logProbs
          /\ e.state = next
      <3>1. x.userTurns + 1 \in Nat
        BY <2>4 DEF AgentData
      <3> QED
        BY <2>4, <3>1 DEF AgentData, States
    <2> HIDE DEF e
    <2>6. Lists(e) /\ Start(e) = Start(x)
      BY <2>4, <2>5, SameLists
    <2>7. Len(e.mask) > 0
      BY <1>1, <2>3, <2>4, <2>5
    <2>8. Conversation(e)
      BY <2>1, <2>4, <2>5, <2>6, <2>7 DEF Conversation
    <2> QED
      BY <2>3, <2>8, OneMoves
  <1> QED
    BY <1>2, <1>3, <1>4, <1>5, <1>6, <1>7 DEF Step

-----------------------------------------------------------------------------
(* The theorems.                                                            *)

LEMMA ConversationsNext ==
  ASSUME Conversations, [Next]_vars
  PROVE  Conversations'
  <1>1. CASE \E i \in Slots : Step(i)
    <2>1. PICK i \in Slots : Step(i)
      BY <1>1
    <2>2. UNCHANGED options
      BY <2>1 DEF Step, StartRaises, Pending, Send, Refused, Answer, EndTools, Interact, Raises
    <2> QED
      BY <2>1, <2>2, StepKeeps
  <1>2. CASE \E i \in Slots, k \in 1..MaxParallelCalls : CallStep(i, k)
    <2>1. PICK i \in Slots, k \in 1..MaxParallelCalls : CallStep(i, k)
      BY <1>2
    <2>2. /\ UNCHANGED options /\ k \in DOMAIN data[i].calls
          /\ \/ \E to \in CallStates : data' = [data EXCEPT ![i].calls[k] = to]
             \/ data' = [data EXCEPT ![i].calls[k] = "lost", ![i].state = "failed"]
      BY <2>1 DEF CallStep, Create, CreateRaises, Execute, ExecuteRaises, Release,
                  ReleaseRaises, CallMoves, CallStates
    <2>3. data \in [Slots -> AgentData]
      BY DEF Conversations
    <2>4. CASE \E to \in CallStates : data' = [data EXCEPT ![i].calls[k] = to]
      <3>1. PICK to \in CallStates : data' = [data EXCEPT ![i].calls[k] = to]
        BY <2>4
      <3> DEFINE e == [data[i] EXCEPT !.calls[k] = to]
      <3>2. data' = [data EXCEPT ![i] = e]
        BY <2>3, <3>1
      <3>3. Conversation(e)
        BY <2>2, CallsMove
      <3> HIDE DEF e
      <3> QED
        BY <2>2, <3>2, <3>3, OneMoves
    <2>5. CASE data' = [data EXCEPT ![i].calls[k] = "lost", ![i].state = "failed"]
      <3> DEFINE e == [data[i] EXCEPT !.calls[k] = "lost", !.state = "failed"]
      <3>1. data' = [data EXCEPT ![i] = e]
        BY <2>3, <2>5
      <3>2. Conversation(e)
        <4>1. "lost" \in CallStates
          BY DEF CallStates
        <4> QED
          BY <2>2, <4>1, CallsMove
      <3> HIDE DEF e
      <3> QED
        BY <2>2, <3>1, <3>2, OneMoves
    <2> QED
      BY <2>2, <2>4, <2>5
  <1>3. CASE NextBatch
    <2>1. UNCHANGED options /\ data' = [i \in Slots |-> New]
      BY <1>3 DEF NextBatch
    <2>2. Conversation(New) /\ New \in AgentData
      BY NewConversation DEF Conversation
    <2>3. \A j \in Slots : Conversation(data[j])' <=> Conversation(data'[j])
      BY <2>1 DEF Conversation, Lists
    <2>4. data' \in [Slots -> AgentData] /\ \A j \in Slots : data'[j] = New
      BY <2>1, <2>2
    <2> QED
      BY <2>1, <2>2, <2>3, <2>4 DEF Conversations
  <1>4. CASE Ended \/ UNCHANGED vars
    <2>1. UNCHANGED <<options, data>>
      BY <1>4 DEF Ended, vars
    <2>2. \A j \in Slots : Conversation(data[j])' <=> Conversation(data[j])
      BY <2>1 DEF Conversation, Lists, Start
    <2> QED
      BY <2>1, <2>2 DEF Conversations
  <1> QED
    BY <1>1, <1>2, <1>3, <1>4 DEF Next

LEMMA ConversationsAlways == Spec => []Conversations
  <1>1. Init => Conversations
    <2> SUFFICES ASSUME Init PROVE Conversations
      OBVIOUS
    <2>1. Conversation(New) /\ New \in AgentData
      BY NewConversation DEF Conversation
    <2> QED
      BY <2>1 DEF Init, Conversations
  <1>2. Conversations /\ [Next]_vars => Conversations'
    BY ConversationsNext
  <1> QED
    BY <1>1, <1>2, PTL DEF Spec

\* What a finished conversation hands to the trainer fits together, for any lengths,
\* number of turns, tools and interleaving (ToolAgentLoop.run).
THEOREM OutputsFit == Spec => []OutputsAligned
  <1>1. Conversations => OutputsAligned
    <2> SUFFICES ASSUME Conversations, NEW i \in Slots, data[i].state = "terminated"
                 PROVE  LET d == data[i] IN
                        /\ PromptIds(d) # <<>>
                        /\ \A j \in DOMAIN PromptIds(d) : PromptIds(d)[j] = "prompt"
                        /\ Len(ResponseIds(d)) \in 1..ResponseLength /\ ResponseIds(d)[1] = "answer"
                        /\ Len(ResponseMask(d)) = Len(ResponseIds(d))
                        /\ \A j \in DOMAIN ResponseIds(d) :
                             ResponseMask(d)[j] = IF ResponseIds(d)[j] = "answer" THEN 1 ELSE 0
                        /\ ResponseLogProbs(d) = IF options.logProbs THEN ResponseIds(d) ELSE <<>>
      BY DEF OutputsAligned
    <2> DEFINE d == data[i]
    <2>1. /\ options \in Options /\ d \in AgentData /\ Lists(d) /\ Start(d) >= 1
          /\ Len(d.mask) > 0
      BY DEF Conversations, Conversation
    <2> HIDE DEF d
    <2> QED
      BY <2>1, CutLists DEF d
  <1> QED
    BY <1>1, ConversationsAlways, PTL

\* Without a simulated user no request lacks room if the prompt keeps to its limit,
\* for any limits, answers and observations: the response is then short of its own
\* limit when a request goes out (_handle_processing_tools_state).  The premise is
\* needed: nothing in the code bounds a prompt.
THEOREM RequestsHaveRoom == Spec => []RoomLeft
  <1>1. Conversations => RoomLeft
    <2> SUFFICES ASSUME Conversations, ~options.interactive, NEW i \in Slots,
                        data[i].state = "waiting", Len(PromptIds(data[i])) <= PromptLength
                 PROVE  Room(data[i]) >= 1
      BY DEF RoomLeft
    <2> DEFINE d == data[i]
    <2>1. /\ d.ids \in Seq(Kinds) /\ d.mask \in Seq({0, 1}) /\ Lists(d)
          /\ Start(d) \in Nat /\ Len(d.mask) < ResponseLength
      BY DEF Conversations, Conversation, Lists
    <2>a. Start(d) <= PromptLength
      BY <2>1, PromptIs
    <2>2. Len(d.ids) \in Nat /\ Len(d.mask) \in Nat
      BY <2>1, LenProperties
    <2> HIDE DEF d
    <2>b. Len(d.ids) = Start(d) + Len(d.mask)
      BY <2>2 DEF Start
    <2>c. PromptLength \in Nat /\ ResponseLength \in Nat
      OBVIOUS
    <2>3. Room(d) >= 1
      BY ONLY <2>1, <2>2, <2>a, <2>b, <2>c DEF Room
    <2> QED
      BY <2>3 DEF d
  <1> QED
    BY <1>1, ConversationsAlways, PTL

-----------------------------------------------------------------------------
(* What a step of a conversation does to the rest of its record.            *)

StepMoves(i) ==
  /\ UNCHANGED <<options, batch, instances>>
  /\ \A j \in Slots \ {i} : data'[j] = data[j]
  /\ data[i].state # "failed"
  /\ \/ /\ data'[i].calls = data[i].calls
        /\ data[i].state \notin {"tools", "failed"} \/ data'[i].state = "failed"
     \/ /\ data[i].state = "waiting"
        /\ data'[i].state = "tools" \/ data'[i].calls = <<>>
        /\ Len(data'[i].calls) <= MaxParallelCalls
        /\ \A k \in DOMAIN data'[i].calls : data'[i].calls[k] = "creating"
     \/ /\ AllAnswered(data[i])
        /\ data'[i].calls = <<>>
  /\ \/ Send(i)
     \/ UNCHANGED <<requests, cache>> /\ data'[i].server = data[i].server

LEMMA StepMovesOne ==
  ASSUME Conversations, NEW i \in Slots, Step(i)
  PROVE  StepMoves(i)
  <1> DEFINE d == data[i]
  <1>1. data \in [Slots -> AgentData] /\ d \in AgentData
    BY DEF Conversations
  <1>2. CASE Pending(i) \/ StartRaises(i) \/ Refused(i) \/ Raises(i)
    <2>1. PICK e : /\ data' = [data EXCEPT ![i] = e]
                   /\ e.calls = d.calls /\ e.server = d.server
                   /\ d.state \notin {"tools", "failed"} \/ e.state = "failed"
                   /\ d.state # "failed"
      <3>1. CASE Pending(i)
        <4>1. PICK n \in 1..MaxPrompt :
                data' = [data EXCEPT ![i].ids = Tokens("prompt", n), ![i].state = "generating"]
          BY <3>1 DEF Pending
        <4> DEFINE e == [d EXCEPT !.ids = Tokens("prompt", n), !.state = "generating"]
        <4>2. data' = [data EXCEPT ![i] = e] /\ d.state = "pending"
          BY <1>1, <3>1, <4>1 DEF Pending
        <4>3. e.calls = d.calls /\ e.server = d.server
          BY <1>1 DEF AgentData
        <4> QED
          BY <4>2, <4>3
      <3>2. CASE StartRaises(i) \/ Refused(i) \/ Raises(i)
        <4> DEFINE e == [d EXCEPT !.state = "failed"]
        <4>1. data' = [data EXCEPT ![i] = e] /\ d.state # "failed"
          BY <1>1, <3>2 DEF StartRaises, Refused, Raises
        <4>2. e.calls = d.calls /\ e.server = d.server /\ e.state = "failed"
          BY <1>1 DEF AgentData
        <4> QED
          BY <4>1, <4>2
      <3> QED
        BY <1>2, <3>1, <3>2
    <2>2. UNCHANGED <<options, batch, instances, requests, cache>>
      BY <1>2 DEF Pending, StartRaises, Refused, Raises
    <2> QED
      BY <1>1, <2>1, <2>2 DEF StepMoves
  <1>3. CASE Send(i)
    <2>1. PICK s \in Servers : data' = [data EXCEPT ![i].state = "waiting", ![i].server = s]
      BY <1>3 DEF Send
    <2> DEFINE e == [d EXCEPT !.state = "waiting", !.server = s]
    <2>2. data' = [data EXCEPT ![i] = e] /\ d.state = "generating"
      BY <1>1, <1>3, <2>1 DEF Send
    <2>3. e.calls = d.calls
      BY <1>1 DEF AgentData
    <2> HIDE DEF e
    <2>4. UNCHANGED <<options, batch, instances>>
      BY <1>3 DEF Send
    <2>5. data'[i] = e /\ \A j \in Slots \ {i} : data'[j] = data[j]
      BY <1>1, <2>2
    <2>6. data'[i].calls = data[i].calls /\ data[i].state \notin {"tools", "failed"}
      BY <2>2, <2>3, <2>5
    <2>7. Send(i) \/ (UNCHANGED <<requests, cache>> /\ data'[i].server = data[i].server)
      BY <1>3
    <2>8. data[i].state # "failed"
      BY <2>6
    <2> QED
      BY ONLY <2>4, <2>5, <2>6, <2>7, <2>8 DEF StepMoves
  <1>4. CASE Answer(i)
    <2>1. PICK n \in 1..Room(d), found \in 0..MaxFound :
            LET longer == [Extended(d, "answer", n) EXCEPT !.assistantTurns = @ + 1]
                next == AfterAnswer(longer, found)
            IN data' = [data EXCEPT ![i] =
                          [longer EXCEPT !.state = next,
                                         !.calls = IF next = "tools" THEN StartedCalls(found) ELSE <<>>]]
      BY <1>4 DEF Answer
    <2> DEFINE longer == [Extended(d, "answer", n) EXCEPT !.assistantTurns = @ + 1]
               next == AfterAnswer(longer, found)
               calls == IF next = "tools" THEN StartedCalls(found) ELSE <<>>
               e == [longer EXCEPT !.state = next, !.calls = calls]
    <2>2. data' = [data EXCEPT ![i] = e] /\ d.state = "waiting"
      BY <1>4, <2>1 DEF Answer
    <2>3. /\ next = "tools" \/ calls = <<>>
          /\ Len(calls) <= MaxParallelCalls
          /\ \A k \in DOMAIN calls : calls[k] = "creating"
      <3> HIDE DEF next
      <3>1. found \in Nat /\ MaxParallelCalls \in Nat
        OBVIOUS
      <3>2. /\ Len(StartedCalls(found)) <= MaxParallelCalls
            /\ \A k \in DOMAIN StartedCalls(found) : StartedCalls(found)[k] = "creating"
        BY <3>1 DEF StartedCalls, Lesser
      <3> QED
        BY <3>1, <3>2
    <2> HIDE DEF next, calls
    <2>4. e.calls = calls /\ e.state = next /\ e.server = d.server
      BY <1>1 DEF Extended, AgentData
    <2> HIDE DEF e
    <2>5. UNCHANGED <<options, batch, instances, requests, cache>>
      BY <1>4 DEF Answer
    <2> QED
      BY <1>1, <2>2, <2>3, <2>4, <2>5 DEF StepMoves
  <1>5. CASE EndTools(i)
    <2>1. PICK n \in 1..MaxObservation :
            data' = [data EXCEPT ![i] =
                       IF Fits(d, n)
                         THEN [Extended(d, "observation", n) EXCEPT
                                 !.state = "generating", !.userTurns = @ + 1, !.calls = <<>>]
                         ELSE [d EXCEPT !.state = "terminated", !.calls = <<>>]]
      BY <1>5 DEF EndTools
    <2> DEFINE e == [Extended(d, "observation", n) EXCEPT
                       !.state = "generating", !.userTurns = @ + 1, !.calls = <<>>]
               f == [d EXCEPT !.state = "terminated", !.calls = <<>>]
    <2>2. data' = [data EXCEPT ![i] = e] \/ data' = [data EXCEPT ![i] = f]
      BY <2>1
    <2>3. e.calls = <<>> /\ e.server = d.server /\ f.calls = <<>> /\ f.server = d.server
      BY <1>1 DEF Extended, AgentData
    <2> HIDE DEF e, f
    <2>4. /\ UNCHANGED <<options, batch, instances, requests, cache>>
          /\ d.state = "tools" /\ AllAnswered(d)
      BY <1>5 DEF EndTools
    <2> QED
      BY <1>1, <2>2, <2>3, <2>4 DEF StepMoves
  <1>6. CASE Interact(i)
    <2>1. PICK n \in 1..MaxObservation, next \in {"generating", "terminated"} :
            data' = [data EXCEPT ![i] = [Extended(d, "observation", n) EXCEPT
                                           !.state = next, !.userTurns = @ + 1]]
      BY <1>6 DEF Interact
    <2> DEFINE e == [Extended(d, "observation", n) EXCEPT !.state = next, !.userTurns = @ + 1]
    <2>2. data' = [data EXCEPT ![i] = e] /\ d.state = "interacting"
      BY <1>6, <2>1 DEF Interact
    <2>3. e.calls = d.calls /\ e.server = d.server
      BY <1>1 DEF Extended, AgentData
    <2> HIDE DEF e
    <2>4. UNCHANGED <<options, batch, instances, requests, cache>>
      BY <1>6 DEF Interact
    <2> QED
      BY <1>1, <2>2, <2>3, <2>4 DEF StepMoves
  <1> QED
    BY <1>2, <1>3, <1>4, <1>5, <1>6 DEF Step

-----------------------------------------------------------------------------
(* Tool instances.                                                          *)

InCall == {"executing", "releasing"}

\* The tool calls that hold an instance.
Live == {p \in Slots \X (1..MaxParallelCalls) :
           p[2] \in DOMAIN data[p[1]].calls /\ data[p[1]].calls[p[2]] \in InCall}

\* Only a failed conversation may have left an instance behind.
Tasks ==
  /\ \A i \in Slots : Len(data[i].calls) <= MaxParallelCalls
  /\ \A i \in Slots : data[i].state \notin {"tools", "failed"} => data[i].calls = <<>>
  /\ instances \in Nat
  /\ Cardinality(Live) <= instances
  /\ (\A i \in Slots : data[i].state # "failed") => instances = Cardinality(Live)

LEMMA LiveIsFinite == IsFiniteSet(Live) /\ Cardinality(Live) \in Nat
  <1>1. IsFiniteSet(1..BatchSize) /\ IsFiniteSet(1..MaxParallelCalls)
    BY FS_Interval
  <1>2. IsFiniteSet(Slots \X (1..MaxParallelCalls))
    BY <1>1, FS_Product DEF Slots
  <1>3. Live \in SUBSET (Slots \X (1..MaxParallelCalls))
    BY DEF Live
  <1>4. IsFiniteSet(Live)
    BY <1>2, <1>3, FS_Subset
  <1> QED
    BY <1>4, FS_CardinalityType

\* The calls of one conversation change from old to new.
LEMMA TasksStep ==
  ASSUME Conversations, Tasks, NEW i \in Slots, StepMoves(i)
  PROVE  Tasks'
  <1>1. data[i].calls \in Seq(CallStates) /\ DOMAIN data[i].calls = 1..Len(data[i].calls)
    BY LenProperties DEF Conversations, AgentData
  <1>2. Live' = Live
    <2> SUFFICES ASSUME NEW p \in Slots \X (1..MaxParallelCalls)
                 PROVE  (p \in Live)' <=> p \in Live
      BY DEF Live
    <2> DEFINE old == data[p[1]].calls
               new == data'[p[1]].calls
    <2>1. /\ (p \in Live)' <=> p[2] \in DOMAIN new /\ new[p[2]] \in InCall
          /\ p \in Live <=> p[2] \in DOMAIN old /\ old[p[2]] \in InCall
      BY DEF Live
    <2>2. CASE p[1] # i
      BY <2>1, <2>2 DEF StepMoves
    <2>3. CASE p[1] = i /\ new = old
      BY <2>1, <2>3
    <2>4. CASE p[1] = i /\ new # old
      <3>1. ~(p[2] \in DOMAIN old /\ old[p[2]] \in InCall)
        <4>1. CASE AllAnswered(data[i])
          BY <2>4, <4>1 DEF AllAnswered, InCall
        <4>2. CASE data[i].state = "waiting"
          BY <1>1, <2>4, <4>2 DEF Tasks
        <4> QED
          BY <2>4, <4>1, <4>2 DEF StepMoves
      <3>2. ~(p[2] \in DOMAIN new /\ new[p[2]] \in InCall)
        <4>1. CASE new = <<>>
          BY <4>1
        <4>2. CASE \A k \in DOMAIN new : new[k] = "creating"
          BY <4>2 DEF InCall
        <4> QED
          BY <2>4, <4>1, <4>2 DEF StepMoves
      <3> QED
        BY <2>1, <3>1, <3>2
    <2> QED
      BY <2>2, <2>3, <2>4
  <1> QED
    BY <1>2 DEF StepMoves, Tasks

\* One task of a tool call moves.
TaskMoves(i, k, to) ==
  /\ \A j \in Slots \ {i} : data'[j] = data[j]
  /\ data'[i].calls = [data[i].calls EXCEPT ![k] = to]
  /\ data'[i].ids = data[i].ids
  /\ data'[i].state \in {data[i].state, "failed"}
  /\ \/ data[i].calls[k] = "creating" /\ to = "executing" /\ instances' = instances + 1
     \/ data[i].calls[k] = "creating" /\ to = "answered" /\ instances' = instances
     \/ data[i].calls[k] = "executing" /\ to = "releasing" /\ instances' = instances
     \/ data[i].calls[k] = "releasing" /\ to = "answered" /\ instances' = instances - 1
     \/ /\ data[i].calls[k] = "releasing" /\ to = "lost" /\ instances' = instances
        /\ data'[i].state = "failed"

LEMMA TaskMovesOne ==
  ASSUME Conversations, NEW i \in Slots, NEW k \in 1..MaxParallelCalls, CallStep(i, k)
  PROVE  k \in DOMAIN data[i].calls /\ \E to \in CallStates : TaskMoves(i, k, to)
  <1> DEFINE old == data[i].calls
             new == data'[i].calls
  <1>1. /\ data \in [Slots -> AgentData] /\ data[i] \in AgentData
        /\ old \in Seq(CallStates) /\ DOMAIN old = 1..Len(old) /\ Len(old) \in Nat
    BY LenProperties DEF Conversations, AgentData
  <1>2. k \in DOMAIN old
    BY DEF CallStep, Create, CreateRaises, Execute, ExecuteRaises, Release,
           ReleaseRaises, CallMoves
  <1>3. CASE ReleaseRaises(i, k)
    <2> DEFINE e == [data[i] EXCEPT !.calls[k] = "lost", !.state = "failed"]
    <2>1. data' = [data EXCEPT ![i] = e]
      BY <1>1, <1>3 DEF ReleaseRaises
    <2>2. e.calls = [old EXCEPT ![k] = "lost"] /\ e.state = "failed" /\ e.ids = data[i].ids
      BY <1>1 DEF AgentData
    <2> HIDE DEF e
    <2>3. data'[i] = e /\ \A j \in Slots \ {i} : data'[j] = data[j]
      BY <1>1, <2>1
    <2>4. old[k] = "releasing" /\ UNCHANGED instances /\ "lost" \in CallStates
      BY <1>3 DEF ReleaseRaises, CallStates
    <2> QED
      BY <1>2, <2>2, <2>3, <2>4 DEF TaskMoves
  <1>4. ASSUME NEW to \in CallStates, data' = [data EXCEPT ![i].calls[k] = to]
        PROVE  /\ \A j \in Slots \ {i} : data'[j] = data[j]
               /\ new = [old EXCEPT ![k] = to]
               /\ data'[i].ids = data[i].ids
               /\ data'[i].state = data[i].state
    <2> DEFINE e == [data[i] EXCEPT !.calls[k] = to]
    <2>1. data' = [data EXCEPT ![i] = e]
      BY <1>1, <1>4
    <2>2. e.calls = [old EXCEPT ![k] = to] /\ e.state = data[i].state /\ e.ids = data[i].ids
      BY <1>1 DEF AgentData
    <2> HIDE DEF e
    <2>3. data'[i] = e /\ \A j \in Slots \ {i} : data'[j] = data[j]
      BY <1>1, <2>1
    <2> QED
      BY <2>2, <2>3
  <1>5. CASE Create(i, k)
    <2>1. /\ data' = [data EXCEPT ![i].calls[k] = "executing"]
          /\ old[k] = "creating" /\ instances' = instances + 1
          /\ "executing" \in CallStates
      BY <1>5 DEF Create, CallMoves, CallStates
    <2> QED
      BY <1>2, <1>4, <2>1 DEF TaskMoves
  <1>6. CASE CreateRaises(i, k)
    <2>1. /\ data' = [data EXCEPT ![i].calls[k] = "answered"]
          /\ old[k] = "creating" /\ instances' = instances
          /\ "answered" \in CallStates
      BY <1>6 DEF CreateRaises, CallMoves, CallStates
    <2> QED
      BY <1>2, <1>4, <2>1 DEF TaskMoves
  <1>7. CASE Execute(i, k) \/ ExecuteRaises(i, k)
    <2>1. /\ data' = [data EXCEPT ![i].calls[k] = "releasing"]
          /\ old[k] = "executing" /\ instances' = instances
          /\ "releasing" \in CallStates
      BY <1>7 DEF Execute, ExecuteRaises, CallMoves, CallStates
    <2> QED
      BY <1>2, <1>4, <2>1 DEF TaskMoves
  <1>8. CASE Release(i, k)
    <2>1. /\ data' = [data EXCEPT ![i].calls[k] = "answered"]
          /\ old[k] = "releasing" /\ instances' = instances - 1
          /\ "answered" \in CallStates
      BY <1>8 DEF Release, CallMoves, CallStates
    <2> QED
      BY <1>2, <1>4, <2>1 DEF TaskMoves
  <1> QED
    BY <1>3, <1>5, <1>6, <1>7, <1>8 DEF CallStep

LEMMA TasksCall ==
  ASSUME Conversations, Tasks, NEW i \in Slots, NEW k \in 1..MaxParallelCalls, CallStep(i, k)
  PROVE  Tasks'
  <1> DEFINE old == data[i].calls
             new == data'[i].calls
             p == <<i, k>>
  <1>1. /\ data \in [Slots -> AgentData] /\ data[i] \in AgentData
        /\ old \in Seq(CallStates) /\ DOMAIN old = 1..Len(old) /\ Len(old) \in Nat
    BY LenProperties DEF Conversations, AgentData
  <1>2. k \in DOMAIN old /\ old # <<>>
    <2>1. k \in DOMAIN old
      BY TaskMovesOne
    <2> QED
      BY <2>1, <1>1
  <1>3. data[i].state \in {"tools", "failed"}
    BY <1>2 DEF Tasks
  <1>a. PICK to \in CallStates : TaskMoves(i, k, to)
    BY TaskMovesOne
  <1>4. /\ \A j \in Slots \ {i} : data'[j] = data[j]
        /\ new = [old EXCEPT ![k] = to]
        /\ data'[i].state \in {data[i].state, "failed"}
        /\ \/ old[k] = "creating" /\ to = "executing" /\ instances' = instances + 1
           \/ old[k] = "creating" /\ to = "answered" /\ instances' = instances
           \/ old[k] = "executing" /\ to = "releasing" /\ instances' = instances
           \/ old[k] = "releasing" /\ to = "answered" /\ instances' = instances - 1
           \/ /\ old[k] = "releasing" /\ to = "lost" /\ instances' = instances
              /\ data'[i].state = "failed"
    BY <1>a DEF TaskMoves
  <1> HIDE DEF old, new
  <1>5. /\ new \in Seq(CallStates) /\ Len(new) = Len(old) /\ DOMAIN new = DOMAIN old
        /\ new[k] = to /\ \A j \in DOMAIN old \ {k} : new[j] = old[j]
    <2>1. new \in Seq(CallStates) /\ Len(new) = Len(old)
      BY <1>1, <1>2, <1>4, ExceptSeq
    <2> QED
      BY <2>1, <1>1, <1>2, <1>4
  <1>6. \A q \in Slots \X (1..MaxParallelCalls) : q # p => (q \in Live' <=> q \in Live)
    <2> SUFFICES ASSUME NEW q \in Slots \X (1..MaxParallelCalls), q # p
                 PROVE  q \in Live' <=> q \in Live
      OBVIOUS
    <2>1. CASE q[1] # i
      BY <2>1, <1>4 DEF Live
    <2>2. CASE q[1] = i
      <3>1. q[2] # k
        BY <2>2
      <3>2. q \in Live' <=> q[2] \in DOMAIN new /\ new[q[2]] \in InCall
        BY <2>2 DEF Live, new
      <3>3. q \in Live <=> q[2] \in DOMAIN old /\ old[q[2]] \in InCall
        BY <2>2 DEF Live, old
      <3> QED
        BY <3>1, <3>2, <3>3, <1>5
    <2> QED
      BY <2>1, <2>2
  <1>7. p \in Live <=> old[k] \in InCall
    BY <1>2 DEF Live, old
  <1>8. p \in Live' <=> to \in InCall
    BY <1>2, <1>5 DEF Live, new
  <1>9. Live' = IF to \in InCall THEN Live \cup {p} ELSE Live \ {p}
    BY <1>6, <1>8 DEF Live
  <1>10. /\ Cardinality(Live \cup {p}) = IF p \in Live THEN Cardinality(Live) ELSE Cardinality(Live) + 1
         /\ Cardinality(Live \ {p}) = IF p \in Live THEN Cardinality(Live) - 1 ELSE Cardinality(Live)
         /\ Cardinality(Live) \in Nat
         /\ Cardinality(Live \ {p}) \in Nat
    BY LiveIsFinite, FS_AddElement, FS_RemoveElement, FS_CardinalityType
  <1>11. /\ instances \in Nat /\ Cardinality(Live) <= instances
         /\ (\A j \in Slots : data[j].state # "failed") => instances = Cardinality(Live)
    BY DEF Tasks
  <1>12. /\ instances' \in Nat /\ Cardinality(Live') <= instances'
         /\ instances = Cardinality(Live) /\ to # "lost" => instances' = Cardinality(Live')
    <2>1. CASE old[k] = "creating" /\ to = "executing" /\ instances' = instances + 1
      BY <2>1, <1>7, <1>9, <1>10, <1>11 DEF InCall
    <2>2. CASE old[k] = "creating" /\ to = "answered" /\ instances' = instances
      BY <2>2, <1>7, <1>9, <1>10, <1>11 DEF InCall
    <2>3. CASE old[k] = "executing" /\ to = "releasing" /\ instances' = instances
      BY <2>3, <1>7, <1>9, <1>10, <1>11 DEF InCall
    <2>4. CASE old[k] = "releasing" /\ to = "answered" /\ instances' = instances - 1
      BY <2>4, <1>7, <1>9, <1>10, <1>11 DEF InCall
    <2>5. CASE old[k] = "releasing" /\ to = "lost" /\ instances' = instances
      BY <2>5, <1>7, <1>9, <1>10, <1>11 DEF InCall
    <2> QED
      BY <1>4, <2>1, <2>2, <2>3, <2>4, <2>5
  <1>13. (\A j \in Slots : data'[j].state # "failed") => instances' = Cardinality(Live')
    BY <1>3, <1>4, <1>11, <1>12
  <1>14. \A j \in Slots : Len(data'[j].calls) <= MaxParallelCalls
    BY <1>4, <1>5 DEF Tasks, old, new
  <1>15. \A j \in Slots : data'[j].state \notin {"tools", "failed"} => data'[j].calls = <<>>
    BY <1>3, <1>4 DEF Tasks
  <1> QED
    BY <1>12, <1>13, <1>14, <1>15 DEF Tasks

-----------------------------------------------------------------------------
(* Which server a conversation asks.                                        *)

Entries == [id : (1..NumBatches) \X Slots, server : Servers]

\* The map: one entry per conversation, those of earlier calls of the worker first.
MapOK(c) ==
  /\ c \in Seq(Entries) /\ Len(c) <= CacheSize
  /\ \A j, k \in 1..Len(c) : c[j].id = c[k].id => j = k
  /\ \A j \in 1..Len(c) : c[j].id[1] <= batch
  /\ \A j, k \in 1..Len(c) : j < k /\ c[j].id[1] = batch => c[k].id[1] = batch

Holds(c, e) == \E j \in 1..Len(c) : c[j] = e

Entry(i, s) == [id |-> <<batch, i>>, server |-> s]

\* The conversations of the running call that have asked are all in the map.
Sessions ==
  /\ batch \in 1..NumBatches
  /\ requests \in [Servers -> Nat]
  /\ MapOK(cache)
  /\ \A i \in Slots, s \in Servers : Holds(cache, Entry(i, s)) <=> data[i].server = s

\* A look-up keeps all entries.
LEMMA LookUpKeeps ==
  ASSUME MapOK(cache), batch \in 1..NumBatches, NEW k \in 1..Len(cache), cache[k].id[1] = batch
  PROVE  MapOK(Touched(k)) /\ \A e : Holds(Touched(k), e) <=> Holds(cache, e)
  <1> DEFINE n == Len(cache)
             front == SubSeq(cache, 1, k - 1)
             back == SubSeq(cache, k + 1, n)
             rest == Append(back, cache[k])
             new == front \o rest
             At(j) == IF j < k THEN j ELSE IF j < n THEN j + 1 ELSE k
  <1>1. n \in Nat /\ k \in 1..n /\ \A j \in 1..n : cache[j] \in Entries
    BY LenProperties, ElementOfSeq DEF MapOK
  <1> HIDE DEF n
  <1>2. /\ front \in Seq(Entries) /\ Len(front) = k - 1
        /\ \A j \in 1..(k - 1) : front[j] = cache[j]
    <2>1. /\ front \in Seq(Entries)
          /\ Len(front) = IF 1 <= k - 1 THEN k - 1 - 1 + 1 ELSE 0
          /\ \A j \in 1..(k - 1 - 1 + 1) : front[j] = cache[1 + j - 1]
      BY <1>1, SubSeqProperties
    <2>2. Len(front) = k - 1
      BY <1>1, <2>1
    <2>3. \A j \in 1..(k - 1) : j \in 1..(k - 1 - 1 + 1) /\ 1 + j - 1 = j
      BY <1>1
    <2> HIDE DEF front
    <2> QED
      BY <2>1, <2>2, <2>3
  <1>3. /\ back \in Seq(Entries) /\ Len(back) = n - k
        /\ \A j \in 1..(n - k) : back[j] = cache[k + j]
    <2>1. /\ back \in Seq(Entries)
          /\ Len(back) = IF k + 1 <= n THEN n - (k + 1) + 1 ELSE 0
          /\ \A j \in 1..(n - (k + 1) + 1) : back[j] = cache[(k + 1) + j - 1]
      BY <1>1, SubSeqProperties
    <2>2. Len(back) = n - k
      BY <1>1, <2>1
    <2>3. \A j \in 1..(n - k) : j \in 1..(n - (k + 1) + 1) /\ (k + 1) + j - 1 = k + j
      BY <1>1
    <2> HIDE DEF back
    <2> QED
      BY <2>1, <2>2, <2>3
  <1> HIDE DEF front, back
  <1>4. /\ rest \in Seq(Entries) /\ Len(rest) = n - k + 1
        /\ \A j \in 1..(n - k) : rest[j] = cache[k + j]
        /\ rest[n - k + 1] = cache[k]
    BY <1>1, <1>3, AppendProperties
  <1> HIDE DEF rest
  <1>5. new \in Seq(Entries) /\ Len(new) = n
    <2>1. new \in Seq(Entries) /\ Len(new) = Len(front) + Len(rest)
      BY <1>2, <1>4, ConcatProperties
    <2> HIDE DEF new
    <2> QED
      BY <1>1, <1>2, <1>4, <2>1
  <1>6. \A j \in 1..n : At(j) \in 1..n /\ new[j] = cache[At(j)]
    <2> SUFFICES ASSUME NEW j \in 1..n
                 PROVE  At(j) \in 1..n /\ new[j] = cache[At(j)]
      OBVIOUS
    <2>1. new[j] = IF j <= Len(front) THEN front[j] ELSE rest[j - Len(front)]
      <3>1. j \in 1..(Len(front) + Len(rest))
        BY <1>1, <1>2, <1>4
      <3>2. \A l \in 1..(Len(front) + Len(rest)) :
              (front \o rest)[l] = IF l <= Len(front) THEN front[l] ELSE rest[l - Len(front)]
        <4>1. front \in Seq(Entries) /\ rest \in Seq(Entries)
          BY <1>2, <1>4
        <4> QED
          BY ONLY <4>1, ConcatProperties
      <3> QED
        BY <3>1, <3>2
    <2>2. CASE j < k
      <3>1. j \in 1..(k - 1) /\ j <= Len(front) /\ At(j) = j
        BY <1>1, <1>2, <2>2
      <3> QED
        BY <3>1, <2>1, <1>2
    <2>3. CASE ~(j < k) /\ j < n
      <3>1. /\ j - (k - 1) \in 1..(n - k) /\ ~(j <= Len(front)) /\ At(j) = j + 1
            /\ k + (j - (k - 1)) = j + 1 /\ j + 1 \in 1..n
        BY <1>1, <1>2, <2>3
      <3> QED
        BY <3>1, <2>1, <1>2, <1>4
    <2>4. CASE ~(j < k) /\ ~(j < n)
      <3>1. j = n /\ j - (k - 1) = n - k + 1 /\ ~(j <= Len(front)) /\ At(j) = k
        BY <1>1, <1>2, <2>4
      <3> QED
        BY <3>1, <2>1, <1>1, <1>2, <1>4
    <2> QED
      BY <2>2, <2>3, <2>4
  <1>7. \A j, l \in 1..n : At(j) = At(l) => j = l
    BY <1>1
  <1>8. \A l \in 1..n : \E j \in 1..n : At(j) = l
    <2> SUFFICES ASSUME NEW l \in 1..n PROVE \E j \in 1..n : At(j) = l
      OBVIOUS
    <2>1. CASE l < k
      BY <1>1, <2>1
    <2>2. CASE l = k
      <3>1. At(n) = l /\ n \in 1..n
        BY <1>1, <2>2
      <3> QED
        BY <3>1
    <2>3. CASE l > k
      <3>1. At(l - 1) = l /\ l - 1 \in 1..n
        BY <1>1, <2>3
      <3> QED
        BY <3>1
    <2> QED
      BY <1>1, <2>1, <2>2, <2>3
  <1>9. \A j, l \in 1..n : j < l => At(j) < At(l) \/ At(l) = k
    BY <1>1
  <1> HIDE DEF At, new
  <1>10. Len(cache) = n
    BY DEF n
  <1>11. MapOK(new)
    <2>1. \A j, l \in 1..n : new[j].id = new[l].id => j = l
      BY <1>6, <1>7, <1>10 DEF MapOK
    <2>2. \A j \in 1..n : new[j].id[1] <= batch
      BY <1>6, <1>10 DEF MapOK
    <2>3. \A j, l \in 1..n : j < l /\ new[j].id[1] = batch => new[l].id[1] = batch
      <3> SUFFICES ASSUME NEW j \in 1..n, NEW l \in 1..n, j < l, new[j].id[1] = batch
                   PROVE  new[l].id[1] = batch
        OBVIOUS
      <3>1. CASE At(l) = k
        BY <3>1, <1>6
      <3>2. CASE At(j) < At(l)
        <4>1. /\ At(j) \in 1..n /\ cache[At(j)].id[1] = batch
              /\ At(l) \in 1..n /\ new[l] = cache[At(l)]
          BY <1>6
        <4>2. \A a, b \in 1..n : a < b /\ cache[a].id[1] = batch => cache[b].id[1] = batch
          BY <1>10 DEF MapOK
        <4> QED
          BY <3>2, <4>1, <4>2
      <3> QED
        BY <3>1, <3>2, <1>9
    <2> QED
      BY <1>5, <1>10, <2>1, <2>2, <2>3 DEF MapOK
  <1>12. \A e : Holds(new, e) <=> Holds(cache, e)
    BY <1>5, <1>6, <1>8, <1>10 DEF Holds
  <1>13. Touched(k) = new
    BY DEF Touched, new, rest, front, back, n
  <1> QED
    BY <1>11, <1>12, <1>13

\* A full map has an entry of an earlier call, and that one makes room: the running
\* call has fewer conversations than the map has places.
LEMMA OldestIsOlder ==
  ASSUME MapOK(cache), NEW i \in Slots, ~Cached(Id(i)), Len(cache) = CacheSize
  PROVE  Len(cache) >= 1 /\ cache[1].id[1] # batch
  <1> DEFINE n == Len(cache)
  <1>1. /\ n \in Nat /\ n >= 1 /\ n = CacheSize /\ BatchSize \in Nat
        /\ DOMAIN cache = 1..n /\ \A j \in 1..n : cache[j] \in Entries
    BY LenProperties, ElementOfSeq DEF MapOK
  <1> SUFFICES ASSUME cache[1].id[1] = batch PROVE FALSE
    BY <1>1
  <1>2. \A j \in 1..n : cache[j].id[1] = batch
    <2> SUFFICES ASSUME NEW j \in 1..n PROVE cache[j].id[1] = batch
      OBVIOUS
    <2>1. 1 \in 1..n /\ (j = 1 \/ 1 < j)
      BY <1>1
    <2> QED
      BY <2>1 DEF MapOK
  <1> DEFINE Slot == [j \in 1..n |-> cache[j].id[2]]
             Others == Slots \ {i}
  <1>3. \A j \in 1..n : /\ cache[j].id = <<batch, cache[j].id[2]>>
                        /\ cache[j].id[2] \in Slots /\ cache[j].id[2] # i
    <2> SUFFICES ASSUME NEW j \in 1..n
                 PROVE  /\ cache[j].id = <<batch, cache[j].id[2]>>
                        /\ cache[j].id[2] \in Slots /\ cache[j].id[2] # i
      OBVIOUS
    <2>1. cache[j].id \in (1..NumBatches) \X Slots /\ cache[j].id[1] = batch
      BY <1>1, <1>2 DEF Entries
    <2>2. cache[j].id = <<batch, cache[j].id[2]>> /\ cache[j].id[2] \in Slots
      BY <2>1
    <2>3. cache[j].id # <<batch, i>>
      BY <1>1 DEF Cached, Id
    <2> QED
      BY <2>2, <2>3
  <1>4. \A j, l \in 1..n : Slot[j] = Slot[l] => j = l
    <2>1. \A j, l \in 1..n : cache[j].id = cache[l].id => j = l
      BY DEF MapOK
    <2> HIDE DEF n
    <2>2. \A j, l \in 1..n : Slot[j] = Slot[l] => cache[j].id = cache[l].id
      BY <1>3
    <2> QED
      BY <2>1, <2>2
  <1>5. Slot \in [1..n -> Others]
    BY <1>3
  <1>6. IsFiniteSet(1..n) /\ Cardinality(1..n) = n
    BY <1>1, FS_Interval
  <1>7. IsFiniteSet(Slots) /\ Cardinality(Slots) = BatchSize
    BY <1>1, FS_Interval DEF Slots
  <1>8. IsFiniteSet(Others) /\ Cardinality(Others) = BatchSize - 1
    BY <1>7, FS_RemoveElement
  <1>9. Cardinality(Others) < Cardinality(1..n)
    BY <1>1, <1>6, <1>8
  <1> HIDE DEF Slot, Others
  <1>10. \E j, l \in 1..n : j # l /\ Slot[j] = Slot[l]
    <2> HIDE DEF n
    <2> QED
      BY <1>5, <1>6, <1>8, <1>9, FS_PigeonHole
  <1> QED
    BY <1>4, <1>10

\* A new entry drops none of the running call.
LEMMA InsertKeeps ==
  ASSUME MapOK(cache), batch \in 1..NumBatches,
         NEW i \in Slots, NEW s \in Servers, ~Cached(Id(i))
  PROVE  /\ MapOK(Append(WithRoom, Entry(i, s)))
         /\ \A j \in Slots, t \in Servers :
              Holds(Append(WithRoom, Entry(i, s)), Entry(j, t)) <=>
                Holds(cache, Entry(j, t)) \/ (j = i /\ t = s)
  <1> DEFINE n == Len(cache)
             room == WithRoom
             entry == Entry(i, s)
             new == Append(room, entry)
  <1>1. /\ n \in Nat /\ n <= CacheSize /\ CacheSize \in Nat /\ CacheSize >= 1
        /\ DOMAIN cache = 1..n /\ \A j \in 1..n : cache[j] \in Entries
        /\ cache \in Seq(Entries)
    BY LenProperties, ElementOfSeq DEF MapOK
  <1>2. entry \in Entries /\ entry.id = <<batch, i>> /\ entry.id[1] = batch
    BY DEF Entry, Entries
  <1>3. PICK off \in {0, 1} :
          /\ room \in Seq(Entries) /\ Len(room) = n - off /\ n - off < CacheSize /\ n - off \in Nat
          /\ \A j \in 1..(n - off) : room[j] = cache[j + off]
          /\ off = 1 => n >= 1 /\ cache[1].id[1] # batch
    <2>1. CASE n < CacheSize
      <3>1. room = cache
        BY <2>1 DEF WithRoom
      <3>2. /\ n - 0 = n /\ \A j \in 1..n : j + 0 = j
        BY <1>1
      <3>3. /\ room \in Seq(Entries) /\ Len(room) = n - 0 /\ n - 0 < CacheSize /\ n - 0 \in Nat
            /\ \A j \in 1..(n - 0) : room[j] = cache[j + 0]
        BY <1>1, <2>1, <3>1, <3>2
      <3> QED
        BY <3>3
    <2>2. CASE ~(n < CacheSize)
      <3>1. n = CacheSize /\ n >= 1
        <4> HIDE DEF n
        <4> QED
          BY <1>1, <2>2
      <3>2. room = Tail(cache) /\ cache # <<>>
        BY <2>2, <3>1 DEF WithRoom
      <3>3. /\ room \in Seq(Entries) /\ Len(room) = n - 1
            /\ \A j \in 1..Len(room) : room[j] = cache[j + 1]
        BY <1>1, <3>2, HeadTailProperties
      <3>4. cache[1].id[1] # batch
        BY <3>1, OldestIsOlder
      <3>5. n - 1 < CacheSize /\ n - 1 \in Nat
        BY <1>1, <3>1
      <3> HIDE DEF room
      <3> QED
        BY <3>1, <3>3, <3>4, <3>5
    <2> QED
      BY <2>1, <2>2
  <1> DEFINE m == n - off
  <1>4. /\ \A j \in 1..m : j + off \in 1..n
        /\ \A l \in 1..n : (off = 1 /\ l = 1) \/ (l - off \in 1..m /\ (l - off) + off = l)
        /\ m + 1 <= CacheSize /\ m \in Nat
    BY <1>1, <1>3
  <1>5. /\ new \in Seq(Entries) /\ Len(new) = m + 1
        /\ \A j \in 1..m : new[j] = cache[j + off]
        /\ new[m + 1] = entry
    <2> HIDE DEF room, entry
    <2>1. /\ new \in Seq(Entries) /\ Len(new) = Len(room) + 1
          /\ \A j \in 1..Len(room) : new[j] = room[j]
          /\ new[Len(room) + 1] = entry
      BY <1>2, <1>3, AppendProperties
    <2> HIDE DEF new
    <2> QED
      BY <1>3, <2>1
  <1>6. \A j \in 1..n : cache[j].id # entry.id
    BY <1>1, <1>2 DEF Cached, Id
  <1> HIDE DEF new, room, entry
  <1>7. \A j \in 1..(m + 1) : j \in 1..m \/ j = m + 1
    BY <1>4
  <1>a. n = Len(cache)
    OBVIOUS
  <1> HIDE DEF m, n
  <1>8. MapOK(new)
    <2>1. \A j, l \in 1..(m + 1) : new[j].id = new[l].id => j = l
      <3> SUFFICES ASSUME NEW j \in 1..(m + 1), NEW l \in 1..(m + 1), new[j].id = new[l].id
                   PROVE  j = l
        OBVIOUS
      <3>1. CASE j \in 1..m /\ l \in 1..m
        <4>1. cache[j + off].id = cache[l + off].id
          BY <3>1, <1>5
        <4>2. j + off = l + off
          BY <3>1, <4>1, <1>4, <1>a DEF MapOK
        <4> QED
          BY <3>1, <4>2, <1>4
      <3>2. CASE j = m + 1 /\ l \in 1..m
        <4>1. new[l].id # entry.id
          BY <3>2, <1>4, <1>5, <1>6
        <4> QED
          BY <3>2, <4>1, <1>5
      <3>3. CASE j \in 1..m /\ l = m + 1
        <4>1. new[j].id # entry.id
          BY <3>3, <1>4, <1>5, <1>6
        <4> QED
          BY <3>3, <4>1, <1>5
      <3> QED
        BY <3>1, <3>2, <3>3, <1>7
    <2>2. \A j \in 1..(m + 1) : new[j].id[1] <= batch
      <3> SUFFICES ASSUME NEW j \in 1..(m + 1) PROVE new[j].id[1] <= batch
        OBVIOUS
      <3>1. CASE j \in 1..m
        BY <3>1, <1>4, <1>5, <1>a DEF MapOK
      <3>2. CASE j = m + 1
        BY <3>2, <1>2, <1>5
      <3> QED
        BY <3>1, <3>2, <1>7
    <2>3. \A j, l \in 1..(m + 1) : j < l /\ new[j].id[1] = batch => new[l].id[1] = batch
      <3> SUFFICES ASSUME NEW j \in 1..(m + 1), NEW l \in 1..(m + 1), j < l,
                          new[j].id[1] = batch
                   PROVE  new[l].id[1] = batch
        OBVIOUS
      <3>1. CASE l = m + 1
        BY <3>1, <1>2, <1>5
      <3>2. CASE l \in 1..m
        <4>1. j \in 1..m /\ j + off < l + off
          BY <3>2, <1>4
        <4>2. cache[j + off].id[1] = batch
          BY <4>1, <1>5
        <4>3. cache[l + off].id[1] = batch
          BY <3>2, <4>1, <4>2, <1>4, <1>a DEF MapOK
        <4> QED
          BY <3>2, <4>3, <1>5
      <3> QED
        BY <3>1, <3>2, <1>7
    <2> QED
      BY <1>4, <1>5, <2>1, <2>2, <2>3 DEF MapOK
  <1>9. ASSUME NEW j \in Slots, NEW t \in Servers
        PROVE  Holds(new, Entry(j, t)) <=> Holds(cache, Entry(j, t)) \/ (j = i /\ t = s)
    <2> DEFINE e == Entry(j, t)
    <2>1. e.id[1] = batch /\ (e = entry <=> j = i /\ t = s)
      BY DEF Entry, entry
    <2> HIDE DEF e
    <2>2. ASSUME Holds(new, e), e # entry PROVE Holds(cache, e)
      <3>1. PICK l \in 1..(m + 1) : new[l] = e
        BY <2>2, <1>5 DEF Holds
      <3>2. l \in 1..m
        BY <2>2, <3>1, <1>5, <1>7
      <3> QED
        BY <3>1, <3>2, <1>4, <1>5, <1>a DEF Holds
    <2>3. ASSUME Holds(cache, e) PROVE Holds(new, e)
      <3>1. PICK l \in 1..n : cache[l] = e
        BY <2>3, <1>a DEF Holds
      <3>2. ~(off = 1 /\ l = 1)
        BY <2>1, <3>1, <1>3
      <3>3. l - off \in 1..m /\ (l - off) + off = l
        BY <3>2, <1>4
      <3>4. new[l - off] = e /\ l - off \in 1..(m + 1)
        <4>1. new[l - off] = cache[(l - off) + off]
          BY <3>3, <1>5
        <4>2. l - off \in 1..(m + 1)
          BY <3>3, <1>4
        <4> QED
          BY <3>1, <3>3, <4>1, <4>2
      <3> QED
        BY <3>4, <1>5 DEF Holds
    <2>4. Holds(new, entry)
      <3>1. m + 1 \in 1..(m + 1)
        BY <1>4
      <3> QED
        BY <3>1, <1>5 DEF Holds
    <2> QED
      BY <2>1, <2>2, <2>3, <2>4 DEF e
  <1> QED
    BY <1>8, <1>9 DEF new, room, entry

\* A conversation that has asked is not answered by another server.
SameServers == \A i \in Slots : data[i].server # NoServer => data'[i].server = data[i].server

\* Map and conversations stay as they are.
LEMMA SessionsRest ==
  ASSUME Sessions, UNCHANGED <<batch, requests, cache>>,
         \A i \in Slots : data'[i].server = data[i].server
  PROVE  Sessions' /\ SameServers
  <1>1. MapOK(cache)' <=> MapOK(cache)
    BY DEF MapOK
  <1>2. \A i \in Slots, s \in Servers : Holds(cache, Entry(i, s))' <=> Holds(cache, Entry(i, s))
    BY DEF Holds, Entry
  <1> QED
    BY <1>1, <1>2 DEF Sessions, SameServers

\* A request: the server is looked up, or chosen and remembered.
LEMMA SessionsSend ==
  ASSUME Conversations, Sessions, NEW i \in Slots, Send(i)
  PROVE  Sessions' /\ SameServers
  <1>1. /\ data \in [Slots -> AgentData] /\ data[i].server \in Servers \cup {NoServer}
        /\ batch \in 1..NumBatches /\ batch' = batch /\ MapOK(cache)
    BY DEF Conversations, AgentData, Send, Sessions
  <1>2. PICK s \in Servers : /\ ChooseServer(i, s)
                             /\ data' = [data EXCEPT ![i].state = "waiting", ![i].server = s]
    BY DEF Send
  <1> DEFINE e == [data[i] EXCEPT !.state = "waiting", !.server = s]
  <1>3. data' = [data EXCEPT ![i] = e]
    BY <1>1, <1>2
  <1>4. e.server = s
    BY <1>1 DEF AgentData
  <1> HIDE DEF e
  <1>5. data'[i].server = s /\ \A j \in Slots \ {i} : data'[j].server = data[j].server
    BY <1>1, <1>3, <1>4
  <1> DEFINE Chosen(c, r) ==
               /\ MapOK(c) /\ r \in [Servers -> Nat]
               /\ \A j \in Slots, t \in Servers :
                    Holds(c, Entry(j, t)) <=> Holds(cache, Entry(j, t)) \/ (j = i /\ t = s)
               /\ data[i].server \in {s, NoServer}
  <1>6. Chosen(cache', requests')
    <2>1. ASSUME NEW k \in DOMAIN cache, cache[k] = Entry(i, s), cache' = Touched(k),
                 UNCHANGED requests
          PROVE  Chosen(cache', requests')
      <3>1. k \in 1..Len(cache) /\ cache[k].id[1] = batch
        BY <1>1, <2>1, LenProperties DEF MapOK, Entry
      <3>2. MapOK(cache') /\ \A x : Holds(cache', x) <=> Holds(cache, x)
        BY <1>1, <2>1, <3>1, LookUpKeeps
      <3>3. Holds(cache, Entry(i, s))
        BY <2>1, <3>1 DEF Holds
      <3>4. data[i].server = s
        BY <3>3 DEF Sessions
      <3> QED
        BY <2>1, <3>2, <3>3, <3>4 DEF Sessions
    <2>2. ASSUME ~Cached(Id(i)), cache' = Append(WithRoom, Entry(i, s)),
                 requests' = [requests EXCEPT ![s] = @ + 1]
          PROVE  Chosen(cache', requests')
      <3>1. /\ MapOK(cache')
            /\ \A j \in Slots, t \in Servers :
                 Holds(cache', Entry(j, t)) <=> Holds(cache, Entry(j, t)) \/ (j = i /\ t = s)
        BY <1>1, <2>2, InsertKeeps
      <3>2. \A t \in Servers : ~Holds(cache, Entry(i, t))
        <4>1. DOMAIN cache = 1..Len(cache)
          BY <1>1, LenProperties DEF MapOK
        <4>2. \A j \in 1..Len(cache) : cache[j].id # <<batch, i>>
          BY <2>2, <4>1 DEF Cached, Id
        <4>3. \A t \in Servers : Entry(i, t).id = <<batch, i>>
          BY DEF Entry
        <4> QED
          BY <4>2, <4>3 DEF Holds
      <3>3. data[i].server = NoServer
        BY <1>1, <3>2 DEF Sessions
      <3>4. requests' \in [Servers -> Nat]
        BY <2>2 DEF Sessions
      <3> QED
        BY <3>1, <3>3, <3>4
    <2> QED
      BY <1>2, <2>1, <2>2 DEF ChooseServer, Entry, Id
  <1>7. MapOK(cache)' <=> MapOK(cache')
    BY <1>1 DEF MapOK
  <1>8. \A j \in Slots, t \in Servers : Holds(cache, Entry(j, t))' <=> Holds(cache', Entry(j, t))
    BY <1>1 DEF Holds, Entry
  <1>9. \A j \in Slots, t \in Servers : Holds(cache, Entry(j, t))' <=> data'[j].server = t
    <2> SUFFICES ASSUME NEW j \in Slots, NEW t \in Servers
                 PROVE  Holds(cache, Entry(j, t))' <=> data'[j].server = t
      OBVIOUS
    <2>1. Holds(cache, Entry(j, t))' <=> Holds(cache, Entry(j, t)) \/ (j = i /\ t = s)
      BY <1>6, <1>8
    <2>2. Holds(cache, Entry(j, t)) <=> data[j].server = t
      BY DEF Sessions
    <2>3. CASE j = i
      <3>1. data[i].server = t => t = s
        BY <1>6
      <3> QED
        BY <2>1, <2>2, <2>3, <3>1, <1>5
    <2>4. CASE j # i
      BY <2>1, <2>2, <2>4, <1>5
    <2> QED
      BY <2>3, <2>4
  <1>10. SameServers
    BY <1>5, <1>6 DEF SameServers
  <1> QED
    BY <1>1, <1>6, <1>7, <1>9, <1>10 DEF Sessions

\* A task of a tool call touches no server.
LEMMA CallKeepsServers ==
  ASSUME Conversations, NEW i \in Slots, NEW k \in 1..MaxParallelCalls, CallStep(i, k)
  PROVE  /\ UNCHANGED <<options, batch, requests, cache>>
         /\ \A j \in Slots : data'[j].server = data[j].server
  <1>1. data \in [Slots -> AgentData] /\ data[i] \in AgentData
    BY DEF Conversations
  <1>2. /\ UNCHANGED <<options, batch, requests, cache>>
        /\ \/ \E to \in CallStates : data' = [data EXCEPT ![i].calls[k] = to]
           \/ data' = [data EXCEPT ![i].calls[k] = "lost", ![i].state = "failed"]
    BY DEF CallStep, Create, CreateRaises, Execute, ExecuteRaises, Release,
           ReleaseRaises, CallMoves, CallStates
  <1>3. ASSUME NEW to \in CallStates, data' = [data EXCEPT ![i].calls[k] = to]
        PROVE  \A j \in Slots : data'[j].server = data[j].server
    <2> DEFINE e == [data[i] EXCEPT !.calls[k] = to]
    <2>1. data' = [data EXCEPT ![i] = e]
      BY <1>1, <1>3
    <2>2. e.server = data[i].server
      BY <1>1 DEF AgentData
    <2> HIDE DEF e
    <2> QED
      BY <1>1, <2>1, <2>2
  <1>4. ASSUME data' = [data EXCEPT ![i].calls[k] = "lost", ![i].state = "failed"]
        PROVE  \A j \in Slots : data'[j].server = data[j].server
    <2> DEFINE e == [data[i] EXCEPT !.calls[k] = "lost", !.state = "failed"]
    <2>1. data' = [data EXCEPT ![i] = e]
      BY <1>1, <1>4
    <2>2. e.server = data[i].server
      BY <1>1 DEF AgentData
    <2> HIDE DEF e
    <2> QED
      BY <1>1, <2>1, <2>2
  <1> QED
    BY <1>2, <1>3, <1>4

-----------------------------------------------------------------------------
(* One worker, all its conversations.                                       *)

Worker == Conversations /\ Tasks /\ Sessions

LEMMA WorkerNext ==
  ASSUME Worker, [Next]_vars
  PROVE  Worker' /\ (batch' = batch => SameServers)
  <1>1. Conversations'
    BY ConversationsNext DEF Worker
  <1>2. CASE \E i \in Slots : Step(i)
    <2>1. PICK i \in Slots : Step(i)
      BY <1>2
    <2>2. StepMoves(i)
      BY <2>1, StepMovesOne DEF Worker
    <2>3. Tasks'
      BY <2>2, TasksStep DEF Worker
    <2>4. Sessions' /\ SameServers
      <3>1. CASE Send(i)
        BY <3>1, SessionsSend DEF Worker
      <3>2. CASE ~Send(i)
        <4>1. /\ UNCHANGED <<batch, requests, cache>>
              /\ \A j \in Slots : data'[j].server = data[j].server
          BY <2>2, <3>2 DEF StepMoves
        <4> QED
          BY <4>1, SessionsRest DEF Worker
      <3> QED
        BY <3>1, <3>2
    <2> QED
      BY <1>1, <2>3, <2>4 DEF Worker
  <1>3. CASE \E i \in Slots, k \in 1..MaxParallelCalls : CallStep(i, k)
    <2>1. PICK i \in Slots, k \in 1..MaxParallelCalls : CallStep(i, k)
      BY <1>3
    <2>2. Tasks'
      BY <2>1, TasksCall DEF Worker
    <2>3. Sessions' /\ SameServers
      BY <2>1, CallKeepsServers, SessionsRest DEF Worker
    <2> QED
      BY <1>1, <2>2, <2>3 DEF Worker
  <1>4. CASE NextBatch
    <2>1. /\ batch < NumBatches /\ batch' = batch + 1 /\ UNCHANGED <<requests, cache, instances>>
          /\ batch \in 1..NumBatches /\ batch' \in 1..NumBatches /\ batch' # batch
      BY <1>4 DEF NextBatch, Worker, Sessions
    <2>2. \A i \in Slots : /\ data'[i].calls = <<>> /\ data'[i].state = "pending"
                           /\ data'[i].server = NoServer
      BY <1>4 DEF NextBatch, New
    <2>3. \A i \in Slots : data[i].state = "terminated" /\ data[i].calls = <<>>
      BY <1>4 DEF NextBatch, Returned, Worker, Tasks
    <2>4. Live = {} /\ Live' = {}
      BY <2>2, <2>3 DEF Live
    <2>5. Tasks'
      <3>1. instances = 0 /\ Cardinality({}) = 0
        <4>1. Cardinality({}) = 0
          BY FS_EmptySet
        <4>2. instances = Cardinality(Live)
          BY <2>3 DEF Worker, Tasks
        <4> QED
          BY <2>4, <4>1, <4>2
      <3>2. \A i \in Slots : Len(data'[i].calls) <= MaxParallelCalls
        BY <2>2
      <3> QED
        BY <2>1, <2>2, <2>4, <3>1, <3>2 DEF Tasks
    <2>6. \A j \in 1..Len(cache) : cache[j].id[1] \in Int /\ cache[j].id[1] < batch'
      <3> SUFFICES ASSUME NEW j \in 1..Len(cache)
                   PROVE  cache[j].id[1] \in Int /\ cache[j].id[1] < batch'
        OBVIOUS
      <3>1. cache[j] \in Entries /\ cache[j].id[1] <= batch
        BY ElementOfSeq DEF Worker, Sessions, MapOK
      <3>2. cache[j].id[1] \in 1..NumBatches
        BY <3>1 DEF Entries
      <3> QED
        BY <2>1, <3>1, <3>2
    <2>7. MapOK(cache)'
      <3>1. /\ \A j \in 1..Len(cache) : cache[j].id[1] <= batch'
            /\ \A j, k \in 1..Len(cache) :
                 j < k /\ cache[j].id[1] = batch' => cache[k].id[1] = batch'
        BY <2>1, <2>6
      <3> QED
        BY <2>1, <3>1 DEF MapOK, Worker, Sessions
    <2>8. \A i \in Slots, s \in Servers : ~Holds(cache, Entry(i, s))'
      BY <2>1, <2>6 DEF Holds, Entry
    <2>9. Sessions'
      BY <2>1, <2>2, <2>7, <2>8 DEF Sessions, Worker
    <2> QED
      BY <1>1, <2>1, <2>5, <2>9 DEF Worker
  <1>5. CASE Ended \/ UNCHANGED vars
    <2>1. UNCHANGED <<batch, data, requests, cache, instances>>
      BY <1>5 DEF Ended, vars
    <2>2. Live' = Live
      BY <2>1 DEF Live
    <2>3. Tasks'
      BY <2>1, <2>2 DEF Tasks, Worker
    <2>4. Sessions' /\ SameServers
      BY <2>1, SessionsRest DEF Worker
    <2> QED
      BY <1>1, <2>3, <2>4 DEF Worker
  <1> QED
    BY <1>2, <1>3, <1>4, <1>5 DEF Next

LEMMA WorkerAlways == Spec => []Worker
  <1>1. Init => Worker
    <2> SUFFICES ASSUME Init PROVE Worker
      OBVIOUS
    <2>1. Conversations
      <3>1. Conversation(New) /\ New \in AgentData
        BY NewConversation DEF Conversation
      <3> QED
        BY <3>1 DEF Init, Conversations
    <2>2. \A i \in Slots : data[i].calls = <<>> /\ data[i].server = NoServer
      BY DEF Init, New
    <2>3. Tasks
      <3>1. Live = {}
        BY <2>2 DEF Live
      <3>2. \A i \in Slots : Len(data[i].calls) <= MaxParallelCalls
        BY <2>2
      <3>3. Cardinality({}) = 0 /\ instances = 0
        BY FS_EmptySet DEF Init
      <3> QED
        BY <2>2, <3>1, <3>2, <3>3 DEF Tasks
    <2>4. Sessions
      <3>1. cache = <<>> /\ Len(<<>>) = 0 /\ <<>> \in Seq(Entries) /\ batch = 1
            /\ requests \in [Servers -> Nat]
        BY DEF Init
      <3>2. MapOK(cache) /\ \A e : ~Holds(cache, e)
        BY <3>1 DEF MapOK, Holds
      <3> QED
        BY <2>2, <3>1, <3>2 DEF Sessions
    <2> QED
      BY <2>1, <2>3, <2>4 DEF Worker
  <1>2. Worker /\ [Next]_vars => Worker'
    BY WorkerNext
  <1> QED
    BY <1>1, <1>2, PTL DEF Spec

\* Every reachable state is well typed: the map keeps its limit and no more calls
\* run than are allowed (_choose_server, _handle_processing_tools_state).
THEOREM TypeCorrect == Spec => []TypeOK
  <1>1. Worker => TypeOK
    BY DEF Worker, Conversations, Tasks, Sessions, MapOK, Entries, TypeOK
  <1> QED
    BY <1>1, WorkerAlways, PTL

\* A conversation stays with its server, for any number of conversations at once,
\* calls of the worker and servers, if the map has a place for each conversation
\* of a call (AsyncLLMServerManager._choose_server).
THEOREM StaysWithServer == Spec => Sticky
  <1>1. Worker /\ [Next]_vars =>
          [\A i \in Slots : data[i].server # NoServer /\ batch' = batch =>
             data'[i].server = data[i].server]_vars
    BY WorkerNext DEF SameServers
  <1> QED
    BY <1>1, WorkerAlways, PTL DEF Spec, Sticky

\* No tool instance outlives its turn, for any number of calls at once and any
\* error at any await (ToolAgentLoop._call_tool).
THEOREM InstancesReleased == Spec => []Released
  <1>1. Worker => Released
    <2> SUFFICES ASSUME Worker, \A i \in Slots : data[i].state \notin {"tools", "failed"}
                 PROVE  instances = 0
      BY DEF Released
    <2>1. \A i \in Slots : data[i].calls = <<>> /\ data[i].state # "failed"
      BY DEF Worker, Tasks
    <2>2. Live = {}
      BY <2>1 DEF Live
    <2>3. instances = Cardinality(Live)
      BY <2>1 DEF Worker, Tasks
    <2> QED
      BY <2>2, <2>3, FS_EmptySet
  <1> QED
    BY <1>1, WorkerAlways, PTL

-----------------------------------------------------------------------------
(* Nobody is blocked.                                                       *)

\* What a conversation waits for arrives: the guards of Step and CallStep.
CanGoOn(i) ==
  \/ data[i].state \in {"pending", "waiting", "interacting"}
  \/ /\ data[i].state = "generating"
     /\ \E s \in Servers :
          \/ \E k \in DOMAIN cache : cache[k] = [id |-> Id(i), server |-> s]
          \/ ~Cached(Id(i)) /\ \A t \in Servers : requests[s] <= requests[t]
  \/ data[i].state = "tools" /\ AllAnswered(data[i])
  \/ \E k \in DOMAIN data[i].calls : data[i].calls[k] \in {"creating", "executing", "releasing"}

\* A call is lost only together with its conversation.
NoneLost ==
  \A i \in Slots : data[i].state # "failed" =>
    \A k \in DOMAIN data[i].calls : data[i].calls[k] # "lost"

LEMMA NoneLostNext ==
  ASSUME Conversations, NoneLost, [Next]_vars
  PROVE  NoneLost'
  <1>1. ASSUME NEW i \in Slots, Step(i)
        PROVE  NoneLost'
    <2>1. StepMoves(i)
      BY <1>1, StepMovesOne
    <2> QED
      BY <2>1 DEF StepMoves, NoneLost
  <1>2. ASSUME NEW i \in Slots, NEW k \in 1..MaxParallelCalls, CallStep(i, k)
        PROVE  NoneLost'
    <2>1. PICK to \in CallStates : TaskMoves(i, k, to)
      BY <1>2, TaskMovesOne
    <2>2. data'[i].calls = [data[i].calls EXCEPT ![k] = to]
      BY <2>1 DEF TaskMoves
    <2>3. ASSUME data'[i].state # "failed", NEW j \in DOMAIN data'[i].calls
          PROVE  data'[i].calls[j] # "lost"
      <3>1. to # "lost" /\ data[i].state # "failed"
        BY <2>1, <2>3 DEF TaskMoves
      <3>2. j \in DOMAIN data[i].calls
        BY <2>2, <2>3
      <3>3. data'[i].calls[j] = IF j = k THEN to ELSE data[i].calls[j]
        BY <2>2, <3>2
      <3> QED
        BY <3>1, <3>2, <3>3 DEF NoneLost
    <2>4. \A j \in Slots \ {i} : data'[j] = data[j]
      BY <2>1 DEF TaskMoves
    <2> QED
      BY <2>3, <2>4 DEF NoneLost
  <1>3. CASE NextBatch
    BY <1>3 DEF NextBatch, NoneLost, New
  <1>4. CASE Ended \/ UNCHANGED vars
    BY <1>4 DEF Ended, vars, NoneLost
  <1> QED
    BY <1>1, <1>2, <1>3, <1>4 DEF Next

\* Some server has the fewest conversations: one with the fewest below it.
LEMMA LeastLoaded ==
  ASSUME requests \in [Servers -> Nat]
  PROVE  \E s \in Servers : \A t \in Servers : requests[s] <= requests[t]
  <1> DEFINE Below(s) == {t \in Servers : requests[t] < requests[s]}
             All == {Below(s) : s \in Servers}
             Order == StrictSubsetOrdering(Servers)
  <1>1. IsWellFoundedOn(Order, SUBSET Servers)
    BY FS_StrictSubsetOrderingWellFounded, FS_FiniteSubsetsOfFinite
  <1>2. All \subseteq SUBSET Servers /\ All # {}
    <2>1. PICK s \in Servers : TRUE
      OBVIOUS
    <2>2. Below(s) \in All
      BY <2>1
    <2> QED
      BY <2>2
  <1>3. PICK x \in All : \A y \in All : ~ (<<y, x>> \in Order)
    <2> HIDE DEF All, Order
    <2> QED
      BY <1>1, <1>2, WFMin
  <1>4. PICK s \in Servers : x = Below(s)
    BY <1>3
  <1>5. ASSUME NEW t \in Servers, ~(requests[s] <= requests[t])
        PROVE  FALSE
    <2>1. requests[s] \in Nat /\ requests[t] \in Nat /\ requests[t] < requests[s]
      BY <1>5
    <2>2. Below(t) \subseteq Below(s)
      BY <2>1
    <2>3. t \in Below(s) /\ t \notin Below(t)
      BY <2>1
    <2>4. <<Below(t), Below(s)>> \in Order
      BY <2>2, <2>3 DEF StrictSubsetOrdering
    <2> QED
      BY <1>3, <1>4, <2>4
  <1> QED
    BY <1>5

\* Every conversation of a call goes on until it ends, whatever the others do:
\* there is a server to ask, and a tool call that the gather waits for is never
\* one that has nothing left to do (_choose_server, _handle_processing_tools_state,
\* _call_tool).
THEOREM NobodyBlocked ==
  Spec => [](\A i \in Slots : data[i].state \in {"terminated", "failed"} \/ CanGoOn(i))
  <1>1. Init => NoneLost
    BY DEF Init, NoneLost, New
  <1>2. Worker /\ NoneLost /\ [Next]_vars => NoneLost'
    BY NoneLostNext DEF Worker
  <1>3. Worker /\ NoneLost =>
          \A i \in Slots : data[i].state \in {"terminated", "failed"} \/ CanGoOn(i)
    <2> SUFFICES ASSUME Worker, NoneLost, NEW i \in Slots,
                        data[i].state \notin {"terminated", "failed"}
                 PROVE  CanGoOn(i)
      OBVIOUS
    <2>1. data[i].state \in States /\ data[i].calls \in Seq(CallStates)
      BY DEF Worker, Conversations, AgentData
    <2>2. CASE data[i].state = "generating"
      <3>1. CASE Cached(Id(i))
        <4>1. PICK k \in DOMAIN cache : cache[k].id = Id(i)
          BY <3>1 DEF Cached
        <4>2. cache[k] \in Entries
          BY <4>1, LenProperties, ElementOfSeq DEF Worker, Sessions, MapOK
        <4>3. cache[k] = [id |-> Id(i), server |-> cache[k].server] /\ cache[k].server \in Servers
          BY <4>1, <4>2 DEF Entries
        <4> QED
          BY <2>2, <4>3 DEF CanGoOn
      <3>2. CASE ~Cached(Id(i))
        <4>1. \E s \in Servers : \A t \in Servers : requests[s] <= requests[t]
          BY LeastLoaded DEF Worker, Sessions
        <4> QED
          BY <2>2, <3>2, <4>1 DEF CanGoOn
      <3> QED
        BY <3>1, <3>2
    <2>3. CASE data[i].state = "tools"
      <3>1. CASE AllAnswered(data[i])
        BY <2>3, <3>1 DEF CanGoOn
      <3>2. CASE ~AllAnswered(data[i])
        <4>1. PICK k \in DOMAIN data[i].calls : data[i].calls[k] # "answered"
          BY <3>2 DEF AllAnswered
        <4>2. data[i].calls[k] \in CallStates
          BY <2>1, <4>1, LenProperties, ElementOfSeq
        <4>3. data[i].calls[k] \in {"creating", "executing", "releasing"}
          BY <2>3, <4>1, <4>2 DEF NoneLost, CallStates
        <4> QED
          BY <4>3 DEF CanGoOn
      <3> QED
        BY <3>1, <3>2
    <2> QED
      BY <2>1, <2>2, <2>3 DEF States, CanGoOn
  <1> QED
    BY <1>1, <1>2, <1>3, WorkerAlways, PTL DEF Spec

-----------------------------------------------------------------------------
(* The work of a worker runs out.  A conversation gets longer, and at the   *)
(* same length only passes from state to state, its calls from await to     *)
(* await.                                                                   *)

StateNo(state) ==
  CASE state = "pending" -> 0
    [] state = "generating" -> 1
    [] state = "waiting" -> 2
    [] state \in {"tools", "interacting"} -> 3
    [] state = "terminated" -> 4
    [] state = "failed" -> 5

CallNo(call) ==
  CASE call = "creating" -> 0
    [] call = "executing" -> 1
    [] call = "releasing" -> 2
    [] call \in {"answered", "lost"} -> 3

\* A prompt, or what is said once after an answer, can exceed the context; the
\* server refuses the next request.
MaxIds == MaxPrompt + PromptLength + ResponseLength + MaxObservation

Short(d) ==
  /\ Len(d.ids) <= MaxIds
  /\ d.state \in {"tools", "interacting"} => Len(d.ids) <= PromptLength + ResponseLength

Sized == \A i \in Slots : Short(data[i])

\* A call of the worker, and a length of a conversation in it.
Lengths == (1..NumBatches) \X (0..MaxIds)

Past(u, i) == u[1] > batch \/ (u[1] = batch /\ u[2] > Len(data[i].ids))

Now(u, i) == u[1] = batch /\ u[2] = Len(data[i].ids)

StatesOf(i) ==
  {x \in Lengths \X (0..5) :
     Past(x[1], i) \/ (Now(x[1], i) /\ x[2] > StateNo(data[i].state))}

AwaitsOf(i) ==
  {x \in Lengths \X ((1..MaxParallelCalls) \X (0..3)) :
     \/ Past(x[1], i)
     \/ /\ Now(x[1], i)
        /\ x[2][1] \in DOMAIN data[i].calls
        /\ x[2][2] > CallNo(data[i].calls[x[2][1]])}

Left ==
  Cardinality({x \in Slots \X (Lengths \X (0..5)) : x[2] \in StatesOf(x[1])})
  + Cardinality({x \in Slots \X (Lengths \X ((1..MaxParallelCalls) \X (0..3))) :
                   x[2] \in AwaitsOf(x[1])})

\* What a step does to a conversation: it gets longer, or it stays as long.
Longs(i) == batch' > batch \/ (batch' = batch /\ Len(data'[i].ids) > Len(data[i].ids))

Stays(i) ==
  /\ batch' = batch /\ Len(data'[i].ids) = Len(data[i].ids)
  /\ StateNo(data'[i].state) >= StateNo(data[i].state)
  /\ \A k \in DOMAIN data'[i].calls :
       /\ k \in DOMAIN data[i].calls
       /\ CallNo(data'[i].calls[k]) >= CallNo(data[i].calls[k])

GoesOn(i) ==
  \/ Longs(i)
  \/ Stays(i) /\ StateNo(data'[i].state) > StateNo(data[i].state)
  \/ Stays(i) /\ \E k \in DOMAIN data'[i].calls :
                   CallNo(data'[i].calls[k]) > CallNo(data[i].calls[k])

Parts(i) ==
  /\ batch \in 1..NumBatches
  /\ Len(data[i].ids) \in 0..MaxIds
  /\ StateNo(data[i].state) \in 0..5
  /\ DOMAIN data[i].calls \subseteq 1..MaxParallelCalls
  /\ \A k \in DOMAIN data[i].calls : CallNo(data[i].calls[k]) \in 0..3

LEMMA PartsAre ==
  /\ Worker /\ Sized => \A i \in Slots : Parts(i)
  /\ Worker' /\ Sized' => \A i \in Slots : Parts(i)'
  <1>1. ASSUME NEW i \in Slots, NEW d \in AgentData, Short(d), Len(d.calls) <= MaxParallelCalls
        PROVE  /\ Len(d.ids) \in 0..MaxIds
               /\ StateNo(d.state) \in 0..5
               /\ DOMAIN d.calls \subseteq 1..MaxParallelCalls
               /\ \A k \in DOMAIN d.calls : CallNo(d.calls[k]) \in 0..3
    <2>1. d.ids \in Seq(Kinds) /\ d.calls \in Seq(CallStates) /\ d.state \in States
      BY DEF AgentData
    <2>2. Len(d.ids) \in Nat /\ Len(d.calls) \in Nat /\ DOMAIN d.calls = 1..Len(d.calls)
      BY <2>1, LenProperties
    <2>3. Len(d.ids) \in 0..MaxIds
      BY <1>1, <2>2 DEF Short, MaxIds
    <2>4. StateNo(d.state) \in 0..5
      BY <2>1 DEF States, StateNo
    <2>5. DOMAIN d.calls \subseteq 1..MaxParallelCalls
      BY <1>1, <2>2
    <2>6. \A k \in DOMAIN d.calls : d.calls[k] \in CallStates
      BY <2>1, <2>2, ElementOfSeq
    <2>7. \A c \in CallStates : CallNo(c) \in 0..3
      BY DEF CallStates, CallNo
    <2> QED
      BY <2>3, <2>4, <2>5, <2>6, <2>7
  <1>2. ASSUME Worker, Sized, NEW i \in Slots
        PROVE  Parts(i)
    <2>1. /\ data[i] \in AgentData /\ Short(data[i]) /\ Len(data[i].calls) <= MaxParallelCalls
          /\ batch \in 1..NumBatches
      BY <1>2 DEF Worker, Conversations, Tasks, Sessions, Sized
    <2> QED
      BY <1>1, <2>1 DEF Parts
  <1>3. ASSUME Worker', Sized', NEW i \in Slots
        PROVE  Parts(i)'
    <2>1. /\ data'[i] \in AgentData /\ Len(data'[i].calls) <= MaxParallelCalls
          /\ batch' \in 1..NumBatches
      BY <1>3 DEF Worker, Conversations, Tasks, Sessions
    <2>2. Short(data'[i])
      BY <1>3 DEF Sized, Short
    <2> QED
      BY <1>1, <2>1, <2>2 DEF Parts
  <1> QED
    BY <1>2, <1>3

LEMMA LongerLeaves ==
  ASSUME NEW i \in Slots, Parts(i), Parts(i)', Longs(i)
  PROVE  /\ StatesOf(i)' \subseteq StatesOf(i) /\ AwaitsOf(i)' \subseteq AwaitsOf(i)
         /\ StatesOf(i)' # StatesOf(i)
  <1>1. ASSUME NEW u \in Lengths, Past(u, i)' \/ Now(u, i)'
        PROVE  Past(u, i)
    <2>1. u[1] \in Nat /\ u[2] \in Nat
      BY DEF Lengths
    <2>2. /\ batch \in Nat /\ batch' \in Nat
          /\ Len(data[i].ids) \in Nat /\ Len(data'[i].ids) \in Nat
      BY DEF Parts
    <2> QED
      BY <1>1, <2>1, <2>2 DEF Past, Now, Longs
  <1>2. StatesOf(i)' \subseteq StatesOf(i)
    BY <1>1 DEF StatesOf
  <1>3. AwaitsOf(i)' \subseteq AwaitsOf(i)
    BY <1>1 DEF AwaitsOf
  <1>4. PICK b \in 1..NumBatches, n \in 0..MaxIds : b = batch' /\ n = Len(data'[i].ids)
    BY DEF Parts
  <1> DEFINE u == <<b, n>>
  <1>5. u \in Lengths /\ u[1] = b /\ u[2] = n
    BY DEF Lengths
  <1> HIDE DEF u
  <1>6. Now(u, i)' /\ ~Past(u, i)'
    BY <1>4, <1>5 DEF Now, Past
  <1>7. Past(u, i) /\ ~(0 > StateNo(data'[i].state))
    BY <1>1, <1>5, <1>6 DEF Parts
  <1>8. <<u, 0>> \in StatesOf(i) /\ <<u, 0>> \notin StatesOf(i)'
    BY <1>5, <1>6, <1>7 DEF StatesOf
  <1> QED
    BY <1>2, <1>3, <1>8

LEMMA StayingLeaves ==
  ASSUME NEW i \in Slots, Parts(i), Parts(i)', Stays(i)
  PROVE  /\ StatesOf(i)' \subseteq StatesOf(i) /\ AwaitsOf(i)' \subseteq AwaitsOf(i)
         /\ GoesOn(i) => StatesOf(i)' # StatesOf(i) \/ AwaitsOf(i)' # AwaitsOf(i)
  <1>1. \A u : (Past(u, i)' <=> Past(u, i)) /\ (Now(u, i)' <=> Now(u, i))
    BY DEF Past, Now, Stays
  <1>2. StatesOf(i)' \subseteq StatesOf(i)
    <2>1. ASSUME NEW n \in 0..5, n > StateNo(data'[i].state)
          PROVE  n > StateNo(data[i].state)
      BY <2>1 DEF Parts, Stays
    <2> QED
      BY <1>1, <2>1 DEF StatesOf
  <1>3. AwaitsOf(i)' \subseteq AwaitsOf(i)
    <2>1. ASSUME NEW k \in DOMAIN data'[i].calls, NEW n \in 0..3,
                 n > CallNo(data'[i].calls[k])
          PROVE  k \in DOMAIN data[i].calls /\ n > CallNo(data[i].calls[k])
      <3>1. k \in DOMAIN data[i].calls /\ CallNo(data'[i].calls[k]) >= CallNo(data[i].calls[k])
        BY <2>1 DEF Stays
      <3>2. CallNo(data[i].calls[k]) \in 0..3
        BY <3>1 DEF Parts
      <3>3. CallNo(data'[i].calls[k]) \in 0..3
        BY <2>1 DEF Parts
      <3> QED
        BY <2>1, <3>1, <3>2, <3>3
    <2> QED
      BY <1>1, <2>1 DEF AwaitsOf
  <1> DEFINE u == <<batch, Len(data[i].ids)>>
  <1>4. u \in Lengths /\ Now(u, i) /\ ~Past(u, i)
    BY DEF Parts, Lengths, Now, Past
  <1> HIDE DEF u
  <1>5. CASE StateNo(data'[i].state) > StateNo(data[i].state)
    <2> DEFINE n == StateNo(data'[i].state)
    <2>1. n \in 0..5 /\ ~(n > n)
      BY DEF Parts
    <2>2. <<u, n>> \in StatesOf(i)
      BY <1>4, <1>5, <2>1 DEF StatesOf
    <2>3. <<u, n>> \notin StatesOf(i)'
      BY <1>1, <1>4, <2>1 DEF StatesOf
    <2> QED
      BY <1>2, <1>3, <2>2, <2>3
  <1>6. ASSUME NEW k \in DOMAIN data'[i].calls,
               CallNo(data'[i].calls[k]) > CallNo(data[i].calls[k])
        PROVE  AwaitsOf(i)' # AwaitsOf(i)
    <2> DEFINE n == CallNo(data'[i].calls[k])
    <2>1. n \in 0..3 /\ ~(n > n) /\ k \in 1..MaxParallelCalls /\ k \in DOMAIN data[i].calls
      BY DEF Parts, Stays
    <2>2. <<u, <<k, n>>>> \in AwaitsOf(i)
      BY <1>4, <1>6, <2>1 DEF AwaitsOf
    <2>3. <<u, <<k, n>>>> \notin AwaitsOf(i)'
      BY <1>1, <1>4, <2>1 DEF AwaitsOf
    <2> QED
      BY <2>2, <2>3
  <1>7. ~Longs(i)
    BY DEF Longs, Stays, Parts
  <1> QED
    BY <1>2, <1>3, <1>5, <1>6, <1>7 DEF GoesOn

LEMMA LeftFalls ==
  ASSUME Worker, Worker', Sized, Sized',
         \A i \in Slots : Longs(i) \/ Stays(i),
         NEW j \in Slots, GoesOn(j)
  PROVE  Left \in Nat /\ Left' \in Nat /\ Left' < Left
  <1> DEFINE A == Slots \X (Lengths \X (0..5))
             B == Slots \X (Lengths \X ((1..MaxParallelCalls) \X (0..3)))
             S == {x \in A : x[2] \in StatesOf(x[1])}
             T == {x \in A : x[2] \in StatesOf(x[1])'}
             V == {x \in B : x[2] \in AwaitsOf(x[1])}
             W == {x \in B : x[2] \in AwaitsOf(x[1])'}
  <1>1. IsFiniteSet(A) /\ IsFiniteSet(B)
    <2>1. \A a, b \in Int : IsFiniteSet(a..b)
      BY FS_Interval
    <2>2. /\ MaxIds \in Int /\ 0 \in Int /\ 1 \in Int /\ 3 \in Int /\ 5 \in Int
          /\ NumBatches \in Int /\ BatchSize \in Int /\ MaxParallelCalls \in Int
      BY DEF MaxIds
    <2>3. /\ IsFiniteSet(0..MaxIds) /\ IsFiniteSet(0..3) /\ IsFiniteSet(0..5)
          /\ IsFiniteSet(1..NumBatches) /\ IsFiniteSet(1..MaxParallelCalls)
          /\ IsFiniteSet(Slots)
      BY <2>1, <2>2, Zenon DEF Slots
    <2>4. IsFiniteSet(Lengths)
      BY <2>3, FS_Product DEF Lengths
    <2>5. IsFiniteSet(Lengths \X (0..5))
      BY <2>3, <2>4, FS_Product
    <2>6. IsFiniteSet(Lengths \X ((1..MaxParallelCalls) \X (0..3)))
      <3>1. IsFiniteSet((1..MaxParallelCalls) \X (0..3))
        BY <2>3, FS_Product
      <3> QED
        BY <2>4, <3>1, FS_Product
    <2> QED
      BY <2>3, <2>5, <2>6, FS_Product
  <1>2. \A i \in Slots : Parts(i) /\ Parts(i)'
    BY PartsAre
  <1>3. \A i \in Slots : StatesOf(i)' \subseteq StatesOf(i) /\ AwaitsOf(i)' \subseteq AwaitsOf(i)
    BY <1>2, LongerLeaves, StayingLeaves
  <1>4. StatesOf(j)' # StatesOf(j) \/ AwaitsOf(j)' # AwaitsOf(j)
    BY <1>2, LongerLeaves, StayingLeaves DEF GoesOn
  <1>5. T \subseteq S /\ W \subseteq V
    BY <1>3
  <1>6. T # S \/ W # V
    <2>1. ASSUME StatesOf(j)' # StatesOf(j)
          PROVE  T # S
      <3>1. PICK u : u \in StatesOf(j) /\ u \notin StatesOf(j)'
        BY <1>3, <2>1
      <3>2. <<j, u>> \in S /\ <<j, u>> \notin T
        BY <3>1 DEF StatesOf
      <3> QED
        BY <3>2
    <2>2. ASSUME AwaitsOf(j)' # AwaitsOf(j)
          PROVE  W # V
      <3>1. PICK u : u \in AwaitsOf(j) /\ u \notin AwaitsOf(j)'
        BY <1>3, <2>2
      <3>2. <<j, u>> \in V /\ <<j, u>> \notin W
        BY <3>1 DEF AwaitsOf
      <3> QED
        BY <3>2
    <2> QED
      BY <1>4, <2>1, <2>2
  <1>7. IsFiniteSet(S) /\ IsFiniteSet(V)
    BY <1>1, FS_Subset
  <1>8. Left = Cardinality(S) + Cardinality(V) /\ Left' = Cardinality(T) + Cardinality(W)
    BY DEF Left
  <1> HIDE DEF S, T, V, W
  <1>9. ASSUME NEW X, NEW Y, IsFiniteSet(X), Y \subseteq X
        PROVE  /\ Cardinality(X) \in Nat /\ Cardinality(Y) \in Nat
               /\ Cardinality(Y) <= Cardinality(X)
               /\ Y # X => Cardinality(Y) # Cardinality(X)
    BY <1>9, FS_Subset, FS_CardinalityType
  <1>10. /\ Cardinality(S) \in Nat /\ Cardinality(T) \in Nat
         /\ Cardinality(T) <= Cardinality(S)
         /\ T # S => Cardinality(T) # Cardinality(S)
    BY <1>5, <1>7, <1>9
  <1>11. /\ Cardinality(V) \in Nat /\ Cardinality(W) \in Nat
         /\ Cardinality(W) <= Cardinality(V)
         /\ W # V => Cardinality(W) # Cardinality(V)
    BY <1>5, <1>7, <1>9
  <1> QED
    BY <1>6, <1>8, <1>10, <1>11

\* More tokens.
LEMMA ExtendedIds ==
  ASSUME NEW d \in AgentData, NEW kind \in Kinds, NEW n \in Nat
  PROVE  Len(Extended(d, kind, n).ids) = Len(d.ids) + n
  <1>1. d.ids \in Seq(Kinds)
    BY DEF AgentData
  <1>a. Longer(d.ids \o Tokens(kind, n), d.ids, kind, n)
    BY <1>1, Appended
  <1>2. Len(d.ids \o Tokens(kind, n)) = Len(d.ids) + n
    BY <1>a DEF Longer
  <1>3. Extended(d, kind, n).ids = d.ids \o Tokens(kind, n)
    BY DEF Extended, AgentData
  <1> QED
    BY <1>2, <1>3

\* What a step of a conversation does to it.
LEMMA StepGoes ==
  ASSUME Conversations, Tasks, NEW i \in Slots, Step(i), Short(data[i])
  PROVE  GoesOn(i) /\ Short(data'[i])
  <1> DEFINE d == data[i]
             e == data'[i]
  <1>1. /\ data \in [Slots -> AgentData] /\ options \in Options
        /\ d \in AgentData /\ Conversation(d) /\ Lists(d)
        /\ Len(d.mask) \in Nat /\ Len(d.ids) \in Nat /\ Start(d) \in Nat
        /\ ResponseLength \in Nat /\ PromptLength \in Nat /\ MaxObservation \in Nat
        /\ MaxPrompt \in Nat /\ Len(d.ids) <= MaxIds
        /\ MaxIds = MaxPrompt + PromptLength + ResponseLength + MaxObservation
    BY LenProperties DEF Conversations, Conversation, Lists, Short, MaxIds
  <1>2. batch' = batch
    BY StepMovesOne DEF StepMoves
  <1>3. ASSUME Len(e.ids) \in Nat, Len(e.ids) > Len(d.ids)
        PROVE  GoesOn(i)
    BY <1>2, <1>3 DEF GoesOn, Longs
  <1>4. ASSUME e.ids = d.ids, e.calls = d.calls \/ e.calls = <<>>, e.state \in States,
               StateNo(e.state) > StateNo(d.state)
        PROVE  GoesOn(i)
    <2>1. d.state \in States /\ d.calls \in Seq(CallStates)
      BY <1>1 DEF AgentData
    <2>2. StateNo(d.state) \in Nat /\ \A c \in CallStates : CallNo(c) \in Nat
      BY <2>1 DEF States, StateNo, CallStates, CallNo
    <2>3. \A k \in DOMAIN e.calls :
            k \in DOMAIN d.calls /\ CallNo(e.calls[k]) >= CallNo(d.calls[k])
      <3> SUFFICES ASSUME NEW k \in DOMAIN e.calls
                   PROVE  k \in DOMAIN d.calls /\ CallNo(e.calls[k]) >= CallNo(d.calls[k])
        OBVIOUS
      <3>1. e.calls = d.calls
        BY <1>4
      <3>2. d.calls[k] \in CallStates
        BY <2>1, <3>1, LenProperties, ElementOfSeq
      <3> QED
        BY <2>2, <3>1, <3>2
    <2>4. Len(e.ids) = Len(d.ids)
      BY <1>4
    <2>5. StateNo(e.state) >= StateNo(d.state)
      <3>1. StateNo(e.state) \in Nat
        BY <1>4 DEF States, StateNo
      <3> HIDE DEF d, e
      <3> QED
        BY <1>4, <2>2, <3>1
    <2>6. Stays(i)
      BY <1>2, <2>3, <2>4, <2>5 DEF Stays
    <2> QED
      BY <1>4, <2>6 DEF GoesOn
  <1>5. CASE Pending(i)
    <2>1. PICK n \in 1..MaxPrompt :
            data' = [data EXCEPT ![i].ids = Tokens("prompt", n), ![i].state = "generating"]
      BY <1>5 DEF Pending
    <2>2. e.ids = Tokens("prompt", n) /\ e.state = "generating"
      BY <1>1, <2>1 DEF AgentData
    <2>3. Len(e.ids) = n
      <3>1. "prompt" \in Kinds /\ n \in Nat
        BY DEF Kinds
      <3> QED
        BY <2>2, <3>1, TokenRun
    <2>4. Len(d.ids) = 0
      BY <1>1, <1>5 DEF Pending, Conversation
    <2> QED
      BY <1>1, <1>3, <2>2, <2>3, <2>4 DEF Short
  <1>6. CASE Send(i)
    <2>1. PICK s \in Servers : data' = [data EXCEPT ![i].state = "waiting", ![i].server = s]
      BY <1>6 DEF Send
    <2>2. /\ e.ids = d.ids /\ e.calls = d.calls
          /\ e.state = "waiting" /\ d.state = "generating"
      BY <1>1, <1>6, <2>1 DEF AgentData, Send
    <2>3. Short(e)
      BY <1>1, <2>2 DEF Short
    <2> QED
      BY <1>4, <2>2, <2>3 DEF StateNo, States
  <1>7. CASE StartRaises(i) \/ Refused(i) \/ Raises(i)
    <2>a. data' = [data EXCEPT ![i].state = "failed"]
      BY <1>7 DEF StartRaises, Refused, Raises
    <2>b. d.state \in {"pending", "waiting", "tools", "interacting"}
      BY <1>7 DEF StartRaises, Refused, Raises
    <2>1. e.ids = d.ids /\ e.calls = d.calls /\ e.state = "failed"
      BY <1>1, <2>a DEF AgentData
    <2>2. Short(e)
      BY <1>1, <2>1 DEF Short
    <2> QED
      BY <1>4, <2>b, <2>1, <2>2 DEF StateNo, States
  <1>8. CASE Answer(i)
    <2>1. PICK n \in 1..Room(d), found \in 0..MaxFound :
            LET longer == [Extended(d, "answer", n) EXCEPT !.assistantTurns = @ + 1]
                next == AfterAnswer(longer, found)
            IN data' = [data EXCEPT ![i] =
                          [longer EXCEPT !.state = next,
                                         !.calls = IF next = "tools" THEN StartedCalls(found) ELSE <<>>]]
      BY <1>8 DEF Answer
    <2> DEFINE x == Extended(d, "answer", n)
    <2>2. n \in Nat \ {0} /\ n <= PromptLength + ResponseLength - Len(d.ids)
      BY <1>1 DEF Room
    <2>3. /\ x \in AgentData /\ Lists(x) /\ Len(x.mask) = Len(d.mask) + n
          /\ Start(x) = Start(d)
      BY <1>1, <2>2, ExtendedLists
    <2>4. Len(x.ids) = Len(d.ids) + n
      <3>1. "answer" \in Kinds /\ n \in Nat
        BY <2>2 DEF Kinds
      <3> QED
        BY <1>1, <3>1, ExtendedIds
    <2> HIDE DEF x
    <2>a. x.assistantTurns + 1 \in Nat
      BY <2>3 DEF AgentData
    <2>5. e.ids = x.ids
      <3> DEFINE longer == [x EXCEPT !.assistantTurns = @ + 1]
      <3>1. longer \in AgentData /\ longer.ids = x.ids
        BY <2>3, <2>a DEF AgentData
      <3> DEFINE next == AfterAnswer(longer, found)
                 calls == IF next = "tools" THEN StartedCalls(found) ELSE <<>>
      <3>2. data' = [data EXCEPT ![i] = [longer EXCEPT !.state = next, !.calls = calls]]
        BY <2>1 DEF x
      <3> HIDE DEF longer, next, calls
      <3> QED
        BY <1>1, <3>1, <3>2 DEF AgentData
    <2>6. Len(e.ids) \in Nat /\ Len(e.ids) > Len(d.ids) /\ Len(e.ids) <= PromptLength + ResponseLength
      BY <1>1, <2>2, <2>4, <2>5
    <2> QED
      BY <1>1, <1>3, <2>6 DEF Short
  <1>9. CASE EndTools(i)
    <2>1. PICK n \in 1..MaxObservation :
            data' = [data EXCEPT ![i] =
                       IF Fits(d, n)
                         THEN [Extended(d, "observation", n) EXCEPT
                                 !.state = "generating", !.userTurns = @ + 1, !.calls = <<>>]
                         ELSE [d EXCEPT !.state = "terminated", !.calls = <<>>]]
      BY <1>9 DEF EndTools
    <2>2. d.state = "tools" /\ Len(d.mask) > 0
      BY <1>1, <1>9 DEF EndTools, Conversation
    <2>3. CASE Fits(d, n)
      <3> DEFINE x == Extended(d, "observation", n)
      <3>1. n \in Nat \ {0} /\ ~(Len(d.mask) = 0)
        BY <1>1, <2>2
      <3>2. /\ x \in AgentData /\ Lists(x) /\ Len(x.mask) = Len(d.mask) + n
            /\ Start(x) = Start(d)
        BY <1>1, <3>1, ExtendedLists
      <3>3. Len(x.ids) = Len(d.ids) + n
        <4>1. "observation" \in Kinds /\ n \in Nat
          BY <3>1 DEF Kinds
        <4> QED
          BY <1>1, <4>1, ExtendedIds
      <3>4. data' = [data EXCEPT ![i] = [x EXCEPT
                       !.state = "generating", !.userTurns = @ + 1, !.calls = <<>>]]
        BY <2>1, <2>3
      <3> HIDE DEF x
      <3>5. e.ids = x.ids /\ e.state = "generating"
        BY <1>1, <3>2, <3>4 DEF AgentData
      <3>6. Len(e.ids) \in Nat /\ Len(e.ids) > Len(d.ids) /\ Len(e.ids) <= MaxIds
        <4>1. Len(d.ids) <= PromptLength + ResponseLength
          BY <2>2 DEF Short
        <4>2. /\ Len(d.ids) \in Nat /\ n <= MaxObservation /\ ResponseLength \in Nat
              /\ PromptLength \in Nat /\ MaxObservation \in Nat /\ MaxPrompt \in Nat
              /\ MaxIds = MaxPrompt + PromptLength + ResponseLength + MaxObservation
              /\ Len(e.ids) = Len(d.ids) + n
          BY <1>1, <3>3, <3>5
        <4> HIDE DEF d, e
        <4> QED
          BY <3>1, <4>1, <4>2
      <3> QED
        BY <1>3, <3>5, <3>6 DEF Short
    <2>4. CASE ~Fits(d, n)
      <3>1. data' = [data EXCEPT ![i] = [d EXCEPT !.state = "terminated", !.calls = <<>>]]
        BY <2>1, <2>4
      <3>2. e.ids = d.ids /\ e.calls = <<>> /\ e.state = "terminated"
        BY <1>1, <3>1 DEF AgentData
      <3>3. Short(e)
        BY <1>1, <3>2 DEF Short
      <3> QED
        BY <1>4, <2>2, <3>2, <3>3 DEF StateNo, States
    <2> QED
      BY <2>3, <2>4
  <1>10. CASE Interact(i)
    <2>1. PICK n \in 1..MaxObservation, next \in {"generating", "terminated"} :
            data' = [data EXCEPT ![i] = [Extended(d, "observation", n) EXCEPT
                                           !.state = next, !.userTurns = @ + 1]]
      BY <1>10 DEF Interact
    <2> DEFINE x == Extended(d, "observation", n)
    <2>a. d.state = "interacting"
      BY <1>10 DEF Interact
    <2>b. n \in Nat \ {0} /\ n <= MaxObservation
      BY <1>1
    <2>c. Len(d.mask) > 0 /\ Len(d.ids) <= PromptLength + ResponseLength
      BY <1>1, <2>a DEF Conversation, Short
    <2>2. /\ n \in Nat \ {0} /\ n <= MaxObservation /\ ~(Len(d.mask) = 0)
          /\ Len(d.ids) <= PromptLength + ResponseLength
      BY <1>1, <2>b, <2>c
    <2>3. /\ x \in AgentData /\ Lists(x) /\ Len(x.mask) = Len(d.mask) + n
          /\ Start(x) = Start(d)
      BY <1>1, <2>2, ExtendedLists
    <2>4. Len(x.ids) = Len(d.ids) + n
      <3>1. "observation" \in Kinds /\ n \in Nat
        BY <2>2 DEF Kinds
      <3> QED
        BY <1>1, <3>1, ExtendedIds
    <2> HIDE DEF x
    <2>5. e.ids = x.ids /\ e.state \notin {"tools", "interacting"}
      BY <1>1, <2>1, <2>3 DEF AgentData, x
    <2>6. Len(e.ids) \in Nat /\ Len(e.ids) > Len(d.ids) /\ Len(e.ids) <= MaxIds
      BY <1>1, <2>2, <2>4, <2>5
    <2> QED
      BY <1>3, <2>5, <2>6 DEF Short
  <1> QED
    BY <1>5, <1>6, <1>7, <1>8, <1>9, <1>10 DEF Step

\* What a step of a tool call does to its conversation.
LEMMA CallGoes ==
  ASSUME Conversations, NEW i \in Slots, NEW k \in 1..MaxParallelCalls, CallStep(i, k),
         Short(data[i])
  PROVE  GoesOn(i) /\ Short(data'[i])
  <1>1. PICK to \in CallStates : TaskMoves(i, k, to)
    BY TaskMovesOne
  <1>2. k \in DOMAIN data[i].calls
    BY TaskMovesOne
  <1>3. /\ data[i].calls \in Seq(CallStates) /\ data[i].state \in States
        /\ Len(data[i].ids) \in Nat
    BY LenProperties DEF Conversations, AgentData
  <1>4. /\ batch' = batch /\ data'[i].ids = data[i].ids
        /\ data'[i].calls = [data[i].calls EXCEPT ![k] = to]
        /\ data'[i].state \in {data[i].state, "failed"}
    BY <1>1, CallKeepsServers DEF TaskMoves
  <1>5. /\ CallNo(data[i].calls[k]) \in Nat /\ CallNo(to) \in Nat
        /\ CallNo(to) > CallNo(data[i].calls[k])
    BY <1>1 DEF TaskMoves, CallNo
  <1>6. StateNo(data'[i].state) >= StateNo(data[i].state)
    <2>1. StateNo(data[i].state) \in Nat /\ StateNo(data[i].state) <= 5
      BY <1>3 DEF States, StateNo
    <2>2. CASE data'[i].state = data[i].state
      BY <2>1, <2>2
    <2>3. CASE data'[i].state = "failed"
      <3>1. StateNo(data'[i].state) = 5
        BY <2>3 DEF StateNo
      <3> QED
        BY <2>1, <3>1
    <2> QED
      BY <1>4, <2>2, <2>3
  <1>7. DOMAIN data'[i].calls = DOMAIN data[i].calls /\ data'[i].calls[k] = to
    BY <1>2, <1>4
  <1>8. \A j \in DOMAIN data[i].calls :
          CallNo(data'[i].calls[j]) >= CallNo(data[i].calls[j])
    <2> SUFFICES ASSUME NEW j \in DOMAIN data[i].calls
                 PROVE  CallNo(data'[i].calls[j]) >= CallNo(data[i].calls[j])
      OBVIOUS
    <2>1. CASE j = k
      BY <1>5, <1>7, <2>1
    <2>2. CASE j # k
      <3>1. data'[i].calls[j] = data[i].calls[j]
        BY <1>4, <2>2
      <3>2. data[i].calls[j] \in CallStates
        BY <1>3, LenProperties, ElementOfSeq
      <3> QED
        BY <3>1, <3>2 DEF CallStates, CallNo
    <2> QED
      BY <2>1, <2>2
  <1>9. Stays(i)
    BY <1>4, <1>6, <1>7, <1>8 DEF Stays
  <1>10. GoesOn(i)
    BY <1>2, <1>5, <1>7, <1>9 DEF GoesOn
  <1>11. Short(data'[i])
    BY <1>4 DEF Short
  <1> QED
    BY <1>10, <1>11

\* A conversation left alone.
LEMMA SameStays ==
  ASSUME Conversations, NEW i \in Slots, batch' = batch, data'[i] = data[i]
  PROVE  Stays(i)
  <1>1. data[i].calls \in Seq(CallStates) /\ data[i].state \in States
    BY DEF Conversations, AgentData
  <1>2. StateNo(data[i].state) \in Nat
    BY <1>1 DEF States, StateNo
  <1>3. \A k \in DOMAIN data[i].calls : data[i].calls[k] \in CallStates
    BY <1>1, LenProperties, ElementOfSeq
  <1>4. \A c \in CallStates : CallNo(c) \in Nat
    BY DEF CallStates, CallNo
  <1>5. \A k \in DOMAIN data[i].calls : CallNo(data[i].calls[k]) >= CallNo(data[i].calls[k])
    BY <1>3, <1>4
  <1> QED
    BY <1>2, <1>5 DEF Stays

\* Every step leaves conversations of bounded length and moves one of them on.
LEMMA StepLeaves ==
  ASSUME Worker, Sized, [Next]_vars
  PROVE  /\ Sized'
         /\ UNCHANGED vars \/ ( /\ \A i \in Slots : Longs(i) \/ Stays(i)
                                /\ \E j \in Slots : GoesOn(j))
  <1>1. ASSUME NEW j \in Slots, batch' = batch, GoesOn(j), Short(data'[j]),
               \A i \in Slots \ {j} : data'[i] = data[i]
        PROVE  /\ Sized'
               /\ \A i \in Slots : Longs(i) \/ Stays(i)
               /\ \E i \in Slots : GoesOn(i)
    <2>1. \A i \in Slots : Short(data'[i])
      BY <1>1 DEF Sized
    <2>2. \A i \in Slots \ {j} : Stays(i)
      BY <1>1, SameStays DEF Worker
    <2>3. Longs(j) \/ Stays(j)
      BY <1>1 DEF GoesOn
    <2>4. Sized'
      BY <2>1 DEF Sized, Short
    <2> QED
      BY <1>1, <2>2, <2>3, <2>4
  <1>2. ASSUME NEW j \in Slots, Step(j)
        PROVE  /\ Sized'
               /\ \A i \in Slots : Longs(i) \/ Stays(i)
               /\ \E i \in Slots : GoesOn(i)
    <2>1. StepMoves(j)
      BY <1>2, StepMovesOne DEF Worker
    <2>2. GoesOn(j) /\ Short(data'[j])
      BY <1>2, StepGoes DEF Worker, Sized
    <2> QED
      BY <1>1, <2>1, <2>2 DEF StepMoves
  <1>3. ASSUME NEW j \in Slots, NEW k \in 1..MaxParallelCalls, CallStep(j, k)
        PROVE  /\ Sized'
               /\ \A i \in Slots : Longs(i) \/ Stays(i)
               /\ \E i \in Slots : GoesOn(i)
    <2>1. PICK to \in CallStates : TaskMoves(j, k, to)
      BY <1>3, TaskMovesOne DEF Worker
    <2>2. GoesOn(j) /\ Short(data'[j])
      BY <1>3, CallGoes DEF Worker, Sized
    <2>3. batch' = batch
      BY <1>3, CallKeepsServers DEF Worker
    <2> QED
      BY <1>1, <2>1, <2>2, <2>3 DEF TaskMoves
  <1>4. ASSUME NextBatch
        PROVE  /\ Sized'
               /\ \A i \in Slots : Longs(i) \/ Stays(i)
               /\ \E i \in Slots : GoesOn(i)
    <2>1. batch \in Nat /\ batch' = batch + 1
      BY <1>4 DEF NextBatch, Worker, Sessions
    <2>2. \A i \in Slots : Longs(i)
      BY <2>1 DEF Longs
    <2>3. 1 \in Slots
      BY DEF Slots
    <2>4. Len(New.ids) = 0 /\ New.state = "pending" /\ MaxIds \in Nat
      BY DEF New, MaxIds
    <2>5. Short(New)
      BY <2>4 DEF Short, MaxIds
    <2>6. Sized'
      BY <1>4, <2>5 DEF NextBatch, Sized, Short
    <2> QED
      BY <2>2, <2>3, <2>6 DEF GoesOn
  <1>5. CASE UNCHANGED vars
    BY <1>5 DEF vars, Sized, Short
  <1>6. Ended => UNCHANGED vars
    BY DEF Ended
  <1> QED
    BY <1>2, <1>3, <1>4, <1>5, <1>6 DEF Next

\* The work left goes down with every step of the worker: a conversation does not
\* go round its states forever, for it is longer each time, the context length
\* bounds it, and a request that finds no room ends it (_handle_generating_state,
\* _handle_processing_tools_state, _handle_interacting_state, generate).
THEOREM WorkRunsOut == Spec => [][/\ Left \in Nat /\ Left' \in Nat /\ Left' < Left]_vars
  <1>1. Init => Sized
    <2> SUFFICES ASSUME Init PROVE Sized
      OBVIOUS
    <2>1. Len(New.ids) = 0 /\ New.state = "pending" /\ MaxIds \in Nat
      BY DEF New, MaxIds
    <2> QED
      BY <2>1 DEF Init, Sized, Short
  <1>2. Worker /\ Sized /\ [Next]_vars => Sized'
    BY StepLeaves
  <1>3. Worker /\ Worker' /\ Sized /\ Sized' /\ [Next]_vars =>
          [/\ Left \in Nat /\ Left' \in Nat /\ Left' < Left]_vars
    BY StepLeaves, LeftFalls
  <1> QED
    BY <1>1, <1>2, <1>3, WorkerAlways, PTL DEF Spec
=============================================================================
