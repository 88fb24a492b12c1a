------------------------------- MODULE AgentLoop -------------------------------
(***************************************************************************)
(* One worker of the tool agent loop.  A call of the worker gets a batch of *)
(* prompts and runs one conversation per prompt, all at once on one event  *)
(* loop: generate, call tools or ask the simulated user, generate again    *)
(* (verl/experimental/agent_loop/tool_agent_loop.py).  The conversations   *)
(* share the server manager and the tools (agent_loop.py beside it); the   *)
(* servers bound an answer by the context length (verl/workers/rollout/    *)
(* vllm_rollout/vllm_async_server.py).                                     *)
(*                                                                         *)
(* A token is the kind of text it belongs to: the prompt, the model's own  *)
(* answer, or an observation, what a tool or the user says.                *)
(***************************************************************************)
EXTENDS Integers, Sequences, FiniteSets

CONSTANTS
  Servers,           (* the rollout servers                                 *)
  NoServer,          (* none of them                                        *)
  BatchSize,         (* prompts in a call of the worker                     *)
  NumBatches,        (* bound: calls of the worker                          *)
  CacheSize,         (* max_cache_size of the server manager                *)
  PromptLength,      (* rollout.prompt_length                               *)
  ResponseLength,    (* rollout.response_length                             *)
  MaxPrompt,         (* bound: tokens in a prompt                           *)
  MaxObservation,    (* bound: tokens in an observation                     *)
  MaxFound,          (* bound: tool calls found in an answer                *)
  MaxParallelCalls,  (* multi_turn.max_parallel_calls                       *)
  AssistantTurnCaps, (* values of multi_turn.max_assistant_turns, 0 is null *)
  UserTurnCaps,      (* values of multi_turn.max_user_turns                 *)
  InteractionModes,  (* whether an interaction (a simulated user) is set up *)
  LogProbModes       (* rollout.calculate_log_probs                         *)

ASSUME AgentLoopAssumption ==
  /\ BatchSize \in Nat \ {0} /\ NumBatches \in Nat \ {0}
  /\ CacheSize \in Nat /\ CacheSize >= BatchSize
  /\ PromptLength \in Nat \ {0} /\ ResponseLength \in Nat \ {0}
  /\ MaxPrompt \in Nat \ {0} /\ MaxObservation \in Nat \ {0}
  /\ MaxFound \in Nat /\ MaxParallelCalls \in Nat \ {0}
  /\ AssistantTurnCaps \subseteq Nat /\ UserTurnCaps \subseteq Nat
  /\ InteractionModes \subseteq BOOLEAN
  /\ LogProbModes \subseteq BOOLEAN
  /\ Servers # {} /\ IsFiniteSet(Servers) /\ NoServer \notin Servers

Slots == 1..BatchSize

Options == [interactive : InteractionModes, logProbs : LogProbModes,
            maxUserTurns : UserTurnCaps, maxAssistantTurns : AssistantTurnCaps]

VARIABLES
  options,    (* a member of Options                                        *)
  batch,      (* calls of the worker so far                                 *)
  data,       (* the AgentData of each conversation of the call             *)
  requests,   (* conversations each server was chosen for                   *)
  cache,      (* request_id_to_server, least recently used first            *)
  instances   (* live tool instances                                        *)

vars == <<options, batch, data, requests, cache, instances>>

-----------------------------------------------------------------------------
(* A conversation.                                                          *)

States == {"pending", "generating", "waiting", "tools", "interacting",
           "terminated", "failed"}

Kinds == {"prompt", "answer", "observation"}

\* Where a task of _call_tool is.
CallStates == {"creating", "executing", "releasing", "answered", "lost"}

AgentData ==
  [state : States,
   ids : Seq(Kinds),               \* prompt_ids, with all that was appended
   mask : Seq({0, 1}),             \* response_mask
   logProbs : Seq(Kinds),          \* response_logprobs: whose they are
   userTurns : Nat, assistantTurns : Nat,
   calls : Seq(CallStates),
   server : Servers \cup {NoServer}]

New == [state |-> "pending", ids |-> <<>>, mask |-> <<>>, logProbs |-> <<>>,
        userTurns |-> 0, assistantTurns |-> 0, calls |-> <<>>, server |-> NoServer]

Tokens(kind, n) == [j \in 1..n |-> kind]

\* Mutant: 0.0 is not recorded for observed tokens.
AnsweredProbs(d, kind, n) ==
  IF options.logProbs /\ kind = "answer" THEN d.logProbs \o Tokens(kind, n) ELSE d.logProbs

\* Observed tokens get 0.0, provided there is a probability already.
ExtendedProbs(d, kind, n) ==
  IF IF kind = "answer" THEN options.logProbs ELSE d.logProbs # <<>>
    THEN d.logProbs \o Tokens(kind, n) ELSE d.logProbs

\* n more tokens, of which the model answers for its own.
Extended(d, kind, n) ==
  [d EXCEPT !.ids = @ \o Tokens(kind, n),
            !.mask = @ \o Tokens(IF kind = "answer" THEN 1 ELSE 0, n),
            !.logProbs = ExtendedProbs(d, kind, n)]

Lesser(a, b) == IF a <= b THEN a ELSE b
Larger(a, b) == IF a <= b THEN b ELSE a

\* seq[:n] and seq[-n:] of Python; -0 is 0.
Front(seq, n) == SubSeq(seq, 1, Lesser(n, Len(seq)))
Back(seq, n) == IF n = 0 \/ n >= Len(seq) THEN seq ELSE SubSeq(seq, Len(seq) - n + 1, Len(seq))

\* The AgentLoopOutput of run.
PromptIds(d) == Front(d.ids, Len(d.ids) - Len(d.mask))
ResponseIds(d) == Front(Back(d.ids, Len(d.mask)), ResponseLength)
ResponseMask(d) == Front(d.mask, ResponseLength)
ResponseLogProbs(d) == Front(d.logProbs, ResponseLength)

\* The columns of a padded prompt: tokenizer.pad fills up, and cuts nothing off.
Width(d) == Larger(PromptLength, Len(PromptIds(d)))

TypeOK ==
  /\ options \in Options
  /\ batch \in 1..NumBatches
  /\ data \in [Slots -> AgentData]
  /\ \A i \in Slots : Len(data[i].calls) <= MaxParallelCalls
  /\ requests \in [Servers -> Nat]
  /\ cache \in Seq([id : (1..NumBatches) \X Slots, server : Servers])
  /\ Len(cache) <= CacheSize
  /\ instances \in Nat

Init ==
  /\ options \in Options
  /\ batch = 1
  /\ data = [i \in Slots |-> New]
  /\ requests = [s \in Servers |-> 0]
  /\ cache = <<>>
  /\ instances = 0

-----------------------------------------------------------------------------
(* Asking a server.                                                         *)

Id(i) == <<batch, i>>

Cached(id) == \E k \in DOMAIN cache : cache[k].id = id

\* Mutant: the entry used last makes room.
EvictsNewest == IF Len(cache) < CacheSize THEN cache ELSE SubSeq(cache, 1, Len(cache) - 1)

\* The least recently used entry makes room.
WithRoom == IF Len(cache) < CacheSize THEN cache ELSE Tail(cache)

\* A look-up makes the entry the most recent one.
Touched(k) == SubSeq(cache, 1, k - 1) \o Append(SubSeq(cache, k + 1, Len(cache)), cache[k])

\* _choose_server: a server is chosen once, among those with the fewest.
ChooseServer(i, s) ==
  \/ \E k \in DOMAIN cache :
       /\ cache[k] = [id |-> Id(i), server |-> s]
       /\ cache' = Touched(k)
       /\ UNCHANGED requests
  \/ /\ ~Cached(Id(i))
     /\ \A t \in Servers : requests[s] <= requests[t]
     /\ requests' = [requests EXCEPT ![s] = @ + 1]
     /\ cache' = Append(WithRoom, [id |-> Id(i), server |-> s])

\* run, before its first state: the interaction may be unknown or raise.
StartRaises(i) ==
  /\ data[i].state = "pending"
  /\ options.interactive
  /\ data' = [data EXCEPT ![i].state = "failed"]
  /\ UNCHANGED <<options, batch, requests, cache, instances>>

\* Nothing cuts a prompt to prompt_length or checks it, and the schemas of the tools
\* are part of it.
Pending(i) ==
  /\ data[i].state = "pending"
  /\ \E n \in 1..MaxPrompt :
       data' = [data EXCEPT ![i].ids = Tokens("prompt", n), ![i].state = "generating"]
  /\ UNCHANGED <<options, batch, requests, cache, instances>>

\* max_tokens of a request, with max_model_len the sum of both lengths.
Room(d) == PromptLength + ResponseLength - Len(d.ids)

Send(i) ==
  /\ data[i].state = "generating"
  /\ \E s \in Servers :
       /\ ChooseServer(i, s)
       /\ data' = [data EXCEPT ![i].state = "waiting", ![i].server = s]
  /\ UNCHANGED <<options, batch, instances>>

\* A request without room for a token is an error of the server.
Refused(i) ==
  /\ data[i].state = "waiting"
  /\ Room(data[i]) < 1
  /\ data' = [data EXCEPT ![i].state = "failed"]
  /\ UNCHANGED <<options, batch, requests, cache, instances>>

Capped(cap, turns) == cap # 0 /\ turns >= cap

EndsAfterAnswer(d) ==
  \/ Len(d.mask) >= ResponseLength
  \/ Capped(options.maxAssistantTurns, d.assistantTurns)
  \/ Capped(options.maxUserTurns, d.userTurns)

AfterAnswer(d, found) ==
  CASE EndsAfterAnswer(d) -> "terminated"
    [] ~EndsAfterAnswer(d) /\ found > 0 -> "tools"
    [] ~EndsAfterAnswer(d) /\ found = 0 /\ options.interactive -> "interacting"
    [] OTHER -> "terminated"

\* Mutant: every call found is waited for, only so many are started.
WaitsForAll(found) == [k \in 1..found |-> IF k <= MaxParallelCalls THEN "creating" ELSE "lost"]

\* Mutant: every call found is started.
StartsAll(found) == [k \in 1..found |-> "creating"]

\* tool_calls[: max_parallel_calls], gathered.
StartedCalls(found) == [k \in 1..Lesser(found, MaxParallelCalls) |-> "creating"]

\* The rest of _handle_generating_state, with n tokens and some tool calls.
Answer(i) ==
  /\ data[i].state = "waiting"
  /\ \E n \in 1..Room(data[i]), found \in 0..MaxFound :
       LET d == [Extended(data[i], "answer", n) EXCEPT !.assistantTurns = @ + 1]
           next == AfterAnswer(d, found)
       IN data' = [data EXCEPT ![i] =
                     [d EXCEPT !.state = next,
                               !.calls = IF next = "tools" THEN StartedCalls(found) ELSE <<>>]]
  /\ UNCHANGED <<options, batch, requests, cache, instances>>

-----------------------------------------------------------------------------
(* Tools, and the simulated user.                                           *)

\* One await of _call_tool.  The tasks go on when their conversation has failed.
CallMoves(i, k, from, to) ==
  /\ k \in DOMAIN data[i].calls
  /\ data[i].calls[k] = from
  /\ data' = [data EXCEPT ![i].calls[k] = to]
  /\ UNCHANGED <<options, batch, requests, cache>>

Create(i, k) == CallMoves(i, k, "creating", "executing") /\ instances' = instances + 1

\* Bad arguments, an unknown tool, an error of create: nothing to release.
CreateRaises(i, k) == CallMoves(i, k, "creating", "answered") /\ UNCHANGED instances

Execute(i, k) == CallMoves(i, k, "executing", "releasing") /\ UNCHANGED instances

\* Mutant: an error leaves the instance behind.
RaisesAtOnce(i, k) == CallMoves(i, k, "executing", "answered") /\ UNCHANGED instances

\* The error becomes the answer, once the instance is released.
ExecuteRaises(i, k) == CallMoves(i, k, "executing", "releasing") /\ UNCHANGED instances

Release(i, k) == CallMoves(i, k, "releasing", "answered") /\ instances' = instances - 1

\* An error of release is not caught.
ReleaseRaises(i, k) ==
  /\ k \in DOMAIN data[i].calls
  /\ data[i].calls[k] = "releasing"
  /\ data' = [data EXCEPT ![i].calls[k] = "lost", ![i].state = "failed"]
  /\ UNCHANGED <<options, batch, requests, cache, instances>>

AllAnswered(d) == \A k \in DOMAIN d.calls : d.calls[k] = "answered"

\* Mutant: the observation may fill the response.
FitsExactly(d, n) == Len(d.mask) + n <= ResponseLength

Fits(d, n) == Len(d.mask) + n < ResponseLength

\* Observations that do not fit end the conversation and are dropped.
EndTools(i) ==
  /\ data[i].state = "tools"
  /\ AllAnswered(data[i])
  /\ \E n \in 1..MaxObservation :
       data' = [data EXCEPT ![i] =
                  IF Fits(data[i], n)
                    THEN [Extended(data[i], "observation", n) EXCEPT
                            !.state = "generating", !.userTurns = @ + 1, !.calls = <<>>]
                    ELSE [data[i] EXCEPT !.state = "terminated", !.calls = <<>>]]
  /\ UNCHANGED <<options, batch, requests, cache, instances>>

\* What the user says is appended whether it fits or not.
Interact(i) ==
  /\ data[i].state = "interacting"
  /\ \E n \in 1..MaxObservation, next \in {"generating", "terminated"} :
       data' = [data EXCEPT ![i] = [Extended(data[i], "observation", n) EXCEPT
                                      !.state = next, !.userTurns = @ + 1]]
  /\ UNCHANGED <<options, batch, requests, cache, instances>>

\* An answer with media the model cannot take; an error of the interaction.
Raises(i) ==
  /\ \/ data[i].state = "tools" /\ AllAnswered(data[i])
     \/ data[i].state = "interacting"
  /\ data' = [data EXCEPT ![i].state = "failed"]
  /\ UNCHANGED <<options, batch, requests, cache, instances>>

-----------------------------------------------------------------------------
(* Calls of the worker.                                                     *)

\* gather waits for all; the first error is the outcome of the call.
Returned == \A i \in Slots : data[i].state = "terminated"

\* Rows of different width cannot be concatenated (_postprocess).
Stackable == \A i, j \in Slots : Width(data[i]) = Width(data[j])

Failed ==
  \/ \E i \in Slots : data[i].state = "failed"
  \/ Returned /\ ~Stackable

NextBatch ==
  /\ Returned /\ Stackable
  /\ batch < NumBatches
  /\ batch' = batch + 1
  /\ data' = [i \in Slots |-> New]
  /\ UNCHANGED <<options, requests, cache, instances>>

Done == Returned /\ Stackable /\ batch = NumBatches

Ended ==
  /\ Done \/ Failed
  /\ UNCHANGED vars

CallStep(i, k) ==
  \/ Create(i, k)
  \/ CreateRaises(i, k)
  \/ Execute(i, k)
  \/ ExecuteRaises(i, k)
  \/ Release(i, k)
  \/ ReleaseRaises(i, k)

Step(i) ==
  \/ StartRaises(i)
  \/ Pending(i)
  \/ Send(i)
  \/ Refused(i)
  \/ Answer(i)
  \/ EndTools(i)
  \/ Interact(i)
  \/ Raises(i)

Next ==
  \/ \E i \in Slots : Step(i)
  \/ \E i \in Slots, k \in 1..MaxParallelCalls : CallStep(i, k)
  \/ NextBatch
  \/ Ended

\* The event loop runs every task that can go on; servers, tools and users answer.
Fairness ==
  /\ \A i \in Slots : WF_vars(Step(i))
  /\ \A i \in Slots, k \in 1..MaxParallelCalls : WF_vars(CallStep(i, k))
  /\ WF_vars(NextBatch)

Spec == Init /\ [][Next]_vars /\ Fairness

-----------------------------------------------------------------------------
(* Properties.                                                              *)

\* What a finished conversation hands to the trainer: a prompt of prompt tokens, a
\* response that is not empty and starts with an answer, and, over as many
\* positions, a mask that is 1 exactly on the model's tokens and, if asked for,
\* the probabilities of just these tokens.  The lists are appended to in three
\* handlers and cut apart by the length of one of them in run.
OutputsAligned ==
  \A i \in Slots : data[i].state = "terminated" =>
    LET d == data[i] IN
    /\ PromptIds(d) # <<>> /\ \A j \in DOMAIN PromptIds(d) : PromptIds(d)[j] = "prompt"
    /\ Len(ResponseIds(d)) \in 1..ResponseLength /\ ResponseIds(d)[1] = "answer"
    /\ Len(ResponseMask(d)) = Len(ResponseIds(d))
    /\ \A j \in DOMAIN ResponseIds(d) :
         ResponseMask(d)[j] = IF ResponseIds(d)[j] = "answer" THEN 1 ELSE 0
    /\ ResponseLogProbs(d) = IF options.logProbs THEN ResponseIds(d) ELSE <<>>

\* Without a simulated user, a conversation whose prompt keeps to prompt_length sends
\* no request the server must refuse, whatever room the prompt left over and however
\* many turns of tools there are: their observations are measured against the length
\* of the response, the server measures the whole (_handle_processing_tools_state,
\* generate).  A longer prompt, which nothing rules out, may leave no room; nor may
\* what the user says, which is appended unchecked (_handle_interacting_state).
RoomLeft ==
  ~options.interactive =>
    \A i \in Slots :
      data[i].state = "waiting" /\ Len(PromptIds(data[i])) <= PromptLength =>
        Room(data[i]) >= 1

\* All turns of a conversation go to one server, while others come and go
\* ("Sticky session", AsyncLLMServerManager).
Sticky ==
  [][\A i \in Slots : data[i].server # NoServer /\ batch' = batch =>
       data'[i].server = data[i].server]_vars

\* A tool instance lives no longer than the tool calls of its turn, whether the
\* call succeeds or raises at any of its awaits (_call_tool).
Released ==
  (\A i \in Slots : data[i].state \notin {"tools", "failed"}) => instances = 0

\* The worker comes to the end of all its calls, or raises: every turn adds tokens,
\* so a conversation without a cap on its turns ends too.
Ends == <>(Done \/ Failed)
=============================================================================
