---------------------------- MODULE SessionExecutor ----------------------------
(***************************************************************************)
(* One Turn in the executor: SessionExecutor.ts with ContextRetry.ts,      *)
(* ModelRequestRunner.ts and ModelStepRunner.ts.  Steps of a model and its *)
(* tools follow each other until the model answers; requests are retried,  *)
(* a context that is too long is shortened, a Turn that takes too many     *)
(* steps gets a last one.  Tools ask the user (SessionInteractions), and a *)
(* stop aborts the Turn and cancels the questions.                         *)
(***************************************************************************)
EXTENDS SessionInteractions

CONSTANTS
  MaxSteps,      \* MAX_TOOL_LOOP_STEPS
  MaxRecoveries, \* MAX_INCOMPLETE_RESPONSE_RECOVERIES
  MaxAttempts,   \* MAX_MODEL_REQUEST_ATTEMPTS
  MaxAdvances,   \* MAX_CONTEXT_ADVANCE_ATTEMPTS
  MaxCalls,      \* the most tools a model calls in one step
  MaxPrompts     \* how many prompts come during the Turn

ASSUME ExecutorAssumption ==
  /\ MaxSteps \in Nat /\ MaxRecoveries \in Nat /\ MaxAttempts \in Nat \ {0}
  /\ MaxAdvances \in Nat /\ MaxCalls \in Nat /\ MaxPrompts \in Nat

VARIABLES
  turn,      \* the locals of run_tool_loop and of what it calls: the await, the steps finished,
             \* recoveries from incomplete responses, the attempt of the request, how often the
             \* context was advanced, the calls of the step still to run and whether there were
             \* any, whether its response is incomplete, whether it is the last one, the question
             \* a tool waits for, the error or the result
  aborted,   \* the abort signal of the Turn
  queued,    \* a prompt waits for the next step
  prompts,   \* how many have come
  requests   \* history: the requests sent to the model

vars == <<turn, aborted, queued, prompts, requests, interactions>>

NewRun(advances) ==
  [at |-> "checkpoint", steps |-> 0, recoveries |-> 0, attempt |-> 0, advances |-> advances,
   calls |-> 0, called |-> FALSE, incomplete |-> FALSE, final |-> FALSE, ask |-> 0, error |-> "none",
   outcome |-> "none"]

\* The loop goes on, or has reached the limit.
Enter(t) == [t EXCEPT !.at = IF t.steps < MaxSteps THEN "checkpoint" ELSE "finalizing"]

Init ==
  /\ InitInteractions
  /\ turn = Enter(NewRun(0)) /\ aborted = FALSE /\ queued = FALSE /\ prompts = 0 /\ requests = 0

\* The Turn alone moves.
Goes(next) ==
  /\ turn' = next
  /\ UNCHANGED <<aborted, prompts, interactions>>
At(at) == [turn EXCEPT !.at = at]
Throw(error) == [turn EXCEPT !.at = "caught", !.error = error]
Result(outcome) == [turn EXCEPT !.at = "ended", !.outcome = outcome]

-----------------------------------------------------------------------------
\* One step: input, request, tools.

\* The prompts that have come are stored, and belong to this step.
Checkpoint ==
  /\ turn.at = "checkpoint"
  /\ \/ Goes(At("resolving")) /\ queued' = FALSE
     \/ Goes(Throw("failed")) /\ UNCHANGED queued
  /\ UNCHANGED requests

\* resolve_step_input, and the first attempt.
Resolve ==
  /\ turn.at = "resolving"
  /\ \/ Goes([turn EXCEPT !.at = "requesting", !.attempt = 1]) /\ requests' = requests + 1
     \/ Goes(Throw("failed")) /\ UNCHANGED requests
  /\ UNCHANGED queued

\* A response with some calls of tools; in the last step there are no tools to run.
Respond ==
  /\ turn.at = "requesting"
  /\ \E calls \in 0..MaxCalls, incomplete \in BOOLEAN :
       Goes([turn EXCEPT !.at = "tools", !.called = calls > 0, !.incomplete = incomplete,
                         !.calls = IF turn.final THEN 0 ELSE calls])
  /\ UNCHANGED <<queued, requests>>

\* A failure without partial output may be retried; others, and a context that is too long, not.
RequestFails ==
  /\ turn.at = "requesting"
  /\ Goes(IF ~aborted /\ turn.attempt < MaxAttempts THEN At("backoff") ELSE Throw("failed"))
     \/ \E error \in {"failed", "context_limit"} : Goes(Throw(error))
  /\ UNCHANGED <<queued, requests>>

Retry ==
  /\ turn.at = "backoff"
  /\ \/ aborted /\ Goes(Throw("failed")) /\ UNCHANGED requests
     \/ /\ ~aborted /\ requests' = requests + 1
        /\ Goes([turn EXCEPT !.at = "requesting", !.attempt = @ + 1])
  /\ UNCHANGED queued

\* execute_tools: the calls one after the other, also when the Turn has been aborted.  What a tool
\* throws is its result.
RunTool ==
  /\ turn.at = "tools" /\ turn.calls > 0
  /\ Goes([turn EXCEPT !.calls = @ - 1])
  /\ UNCHANGED <<queued, requests>>

Ask(i) ==
  /\ turn.at = "tools" /\ turn.calls > 0
  /\ Request(i)
  /\ turn' = [turn EXCEPT !.at = "asking", !.calls = @ - 1, !.ask = i]
  /\ UNCHANGED <<aborted, queued, prompts, requests>>

Asked ==
  /\ turn.at = "asking"
  /\ \/ Requested(turn.ask) /\ turn' = At("waiting")
     \/ NotRequested(turn.ask) /\ turn' = At("tools")
  /\ UNCHANGED <<aborted, queued, prompts, requests>>

Answered ==
  /\ turn.at = "waiting" /\ result[turn.ask] # "none"
  /\ Goes(At("tools"))
  /\ UNCHANGED <<queued, requests>>

\* The results of the tools and the step are written.
FinishStep ==
  /\ turn.at = "tools" /\ turn.calls = 0
  /\ Goes([turn EXCEPT !.at = "deciding", !.steps = @ + 1, !.attempt = 0])
     \/ Goes(Throw("failed"))
  /\ UNCHANGED <<queued, requests>>

-----------------------------------------------------------------------------
\* What follows a step: decide_tool_loop, the prompts that have come, the last step.

\* Mistake: one recovery too many.
MayRecoverAgain(t) == t.recoveries <= MaxRecoveries

MayRecover(t) == t.recoveries < MaxRecoveries

\* The model is told to go on; the hint may not be stored.
Recover ==
  /\ turn.at = "deciding" /\ ~turn.final /\ turn.incomplete
  /\ \/ MayRecover(turn) /\ Goes(Enter([turn EXCEPT !.recoveries = @ + 1]))
     \/ Goes(Throw("failed"))
  /\ UNCHANGED <<queued, requests>>

Continue ==
  /\ turn.at = "deciding" /\ ~turn.final /\ ~turn.incomplete /\ (turn.called \/ queued)
  /\ Goes(Enter([turn EXCEPT !.recoveries = 0]))
  /\ UNCHANGED <<queued, requests>>

\* A Turn that has used all its steps gets the last one even if the model has answered.
Leave ==
  /\ turn.at = "deciding" /\ ~turn.final /\ ~turn.incomplete /\ ~turn.called /\ ~queued
  /\ Goes(IF turn.steps >= MaxSteps THEN At("finalizing") ELSE Result("success"))
  /\ UNCHANGED <<queued, requests>>

\* execute_max_steps_finalization up to its request, and what becomes of its text.
Finalize ==
  /\ turn.at = "finalizing"
  /\ \/ Goes([turn EXCEPT !.at = "checkpoint", !.final = TRUE])
     \/ Goes(Throw("failed"))
  /\ UNCHANGED <<queued, requests>>

Finalized ==
  /\ turn.at = "deciding" /\ turn.final
  /\ Goes(Result("success")) \/ Goes(Result("failure"))
  /\ UNCHANGED <<queued, requests>>

\* The catch of run_tool_loop.
Catch ==
  /\ turn.at = "caught"
  /\ Goes(IF aborted THEN Result("stopped")
          ELSE IF turn.error = "context_limit" THEN At("advancing") ELSE Result("failure"))
  /\ UNCHANGED <<queued, requests>>

\* Mistake: every time the context is advanced counts as the first.
AdvanceUncounted(t) == NewRun(t.advances)

AfterAdvance(t) == NewRun(t.advances + 1)

\* execute_with_retry: the Turn starts again with a shorter context, or fails.
Advance ==
  /\ turn.at = "advancing"
  /\ \/ turn.advances < MaxAdvances /\ Goes(Enter(AfterAdvance(turn)))
     \/ Goes(Result("failure"))
  /\ UNCHANGED <<queued, requests>>

Step ==
  \/ Checkpoint \/ Resolve \/ Respond \/ RequestFails \/ Retry
  \/ RunTool \/ (\E i \in Asks : Ask(i)) \/ Asked \/ Answered \/ FinishStep
  \/ Recover \/ Continue \/ Leave \/ Finalize \/ Finalized \/ Catch \/ Advance

-----------------------------------------------------------------------------
\* What comes from outside.

Prompt ==
  /\ turn.at # "ended" /\ prompts < MaxPrompts
  /\ prompts' = prompts + 1 /\ queued' = TRUE
  /\ UNCHANGED <<turn, aborted, requests, interactions>>

Abort(s) ==
  /\ turn.at # "ended" /\ Stop(s)
  /\ aborted' = TRUE
  /\ UNCHANGED <<turn, queued, prompts, requests>>

StopReturns(s) ==
  /\ stop[s] = "waiting" /\ turn.at = "ended"
  /\ stop' = [stop EXCEPT ![s] = "returned"]
  /\ UNCHANGED <<turn, aborted, queued, prompts, requests, private, pending, message, result, chain,
                 receipts, answers, accepted>>

Users == (\E i \in Asks : Answer(i)) /\ UNCHANGED <<turn, aborted, queued, prompts, requests>>
Chain == Operate /\ UNCHANGED <<turn, aborted, queued, prompts, requests>>

Next ==
  \/ Step \/ Chain \/ Users \/ Prompt
  \/ \E s \in Stops : Abort(s) \/ StopReturns(s)

Spec == Init /\ [][Next]_vars

\* Code goes on, models and tools come to an end; users and prompts may not come.
Fairness == WF_vars(Step) /\ WF_vars(Chain) /\ \A s \in Stops : WF_vars(StopReturns(s))
FairSpec == Spec /\ Fairness

-----------------------------------------------------------------------------
Awaits == {"checkpoint", "resolving", "requesting", "backoff", "tools", "asking", "waiting",
           "deciding", "finalizing", "caught", "advancing", "ended"}
Statuses == Outcomes \cup {"none", "cancelled"}

\* Every variable keeps the shape its field has, and the locals of the loop stay in their limits.
TypeOK ==
  /\ turn \in [at : Awaits, steps : 0..MaxSteps + 1, recoveries : 0..MaxRecoveries,
               attempt : 0..MaxAttempts, advances : 0..MaxAdvances, calls : 0..MaxCalls,
               called : BOOLEAN, incomplete : BOOLEAN, final : BOOLEAN, ask : Asks \cup {0},
               error : {"none", "failed", "context_limit"},
               outcome : {"none", "success", "failure", "stopped"}]
  /\ aborted \in BOOLEAN /\ queued \in BOOLEAN /\ prompts \in 0..MaxPrompts /\ requests \in Nat
  /\ private \subseteq Asks /\ pending \subseteq Asks /\ receipts \subseteq private
  /\ message \in [Asks -> Statuses \cup {"pending"}] /\ result \in [Asks -> Statuses \cup {"refused"}]
  /\ chain \in Seq([kind : {"respond", "submit", "cancel"}, id : Asks \cup Stops,
                    outcome : Outcomes \cup {"cancelled"}, at : {"queued", "next", "storing", "stored"},
                    rest : SUBSET Asks, failed : BOOLEAN])
  /\ stop \in [Stops -> {"none", "cancelling", "waiting", "rejected", "returned"}]
  /\ answers \in 0..MaxAnswers /\ accepted \subseteq [id : Asks, outcome : Outcomes]

\* What a tool gets, what a user was told and what the message says is one and the same answer,
\* however many answers and stops come for the question at once; and the message says it first
\* (SessionInteractions.ts:6, :45).
AnswersAgree ==
  /\ \A i \in Asks : result[i] \notin {"none", "refused"} => message[i] = result[i]
  /\ \A told \in accepted : result[told.id] = told.outcome

\* However often requests fail, responses break off, prompts come and contexts are advanced, a Turn
\* sends a bounded number of requests (ToolLoopLimits.ts:13, ModelRequestRunner.ts:17,
\* ContextRetry.ts:16).
BoundedRequests == requests <= (MaxAdvances + 1) * ((MaxSteps + 1) * MaxAttempts)

\* The Turn ends, or waits for good for a user who can see the question and answer it
\* (SessionInteractions.ts:10).
WaitsVisibly ==
  /\ turn.at = "waiting" /\ turn.ask \in pending
  /\ message[turn.ask] = "pending" /\ result[turn.ask] = "none"
EndsOrAsks == <>[](turn.at = "ended" \/ WaitsVisibly)

\* A stop that has cancelled the questions of the Turn sees the Turn end: a question is answered, or
\* cancelled with its Turn (SessionInteractions.ts:10, SessionLoop.ts:443).
StopEndsTurn == \A s \in Stops : stop[s] = "waiting" ~> turn.at = "ended"
===============================================================================
