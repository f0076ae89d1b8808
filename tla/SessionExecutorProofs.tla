------------------------- MODULE SessionExecutorProofs -------------------------
(***************************************************************************)
(* What holds of SessionExecutor for all limits, questions and stops: a    *)
(* Turn sends a bounded number of requests, a question has one answer, and *)
(* the counters of the loop stay within their limits.                      *)
(***************************************************************************)
EXTENDS SessionExecutor, SequenceTheorems, TLAPS

Queue == INSTANCE SessionQueueProofs

-----------------------------------------------------------------------------
\* The requests of a Turn.

\* One run of the loop sends at most Budget requests.
Budget == (MaxSteps + 1) * MaxAttempts

Turns == [at : Awaits, steps : Nat, recoveries : Nat, attempt : Nat, advances : 0..MaxAdvances,
          calls : Nat, called : BOOLEAN, incomplete : BOOLEAN, final : BOOLEAN, ask : Asks \cup {0},
          error : {"none", "failed", "context_limit"},
          outcome : {"none", "success", "failure", "stopped"}]

\* The steps that are left where the Turn is: the step being run is not counted yet, and after it
\* the attempts of its request are.
Within(t) ==
  /\ t.at \in {"checkpoint", "resolving", "finalizing", "deciding"} => t.attempt = 0
  /\ t.attempt <= MaxAttempts /\ (t.at = "backoff" => t.attempt < MaxAttempts)
  /\ t.at # "finalizing" /\ ~t.final /\ t.at \notin {"deciding", "caught", "advancing", "ended"} =>
       t.steps < MaxSteps
  /\ t.steps <= MaxSteps \/ (t.final /\ t.at \in {"deciding", "ended"} /\ t.steps = MaxSteps + 1 /\ t.attempt = 0)

\* What the runs of the loop before this one may have sent, and what this one has.
Spent(n, t) == n <= t.advances * Budget + (t.steps * MaxAttempts + t.attempt)

RequestInv == turn \in Turns /\ requests \in Nat /\ Within(turn) /\ Spent(requests, turn)

\* Fewer steps need fewer attempts.
LEMMA Monotone ==
  ASSUME NEW s \in Nat, NEW n \in Nat, NEW k \in Nat, s <= n
  PROVE  s * k \in Nat /\ n * k \in Nat /\ s * k <= n * k /\ (s + 1) * k = s * k + k
  OBVIOUS

LEMMA BudgetIsNat == Budget \in Nat
  BY ExecutorAssumption, Monotone DEF Budget

\* Within its limits a run has used no more than its budget.
LEMMA WithinBudget ==
  ASSUME NEW t \in Turns, Within(t)
  PROVE  t.steps * MaxAttempts + t.attempt <= Budget
<1>0. MaxSteps \in Nat /\ MaxAttempts \in Nat /\ t.steps \in Nat /\ t.attempt \in Nat
  BY ExecutorAssumption DEF Turns
<1>1. CASE t.steps <= MaxSteps
  <2>1. t.steps * MaxAttempts <= MaxSteps * MaxAttempts /\ t.steps * MaxAttempts \in Nat
        /\ MaxSteps * MaxAttempts \in Nat /\ Budget = MaxSteps * MaxAttempts + MaxAttempts
    BY <1>0, <1>1, Monotone DEF Budget
  <2>2. t.attempt <= MaxAttempts
    BY DEF Within
  <2>. QED BY ONLY <1>0, <2>1, <2>2
<1>2. CASE ~(t.steps <= MaxSteps)
  <2>1. t.steps = MaxSteps + 1 /\ t.attempt = 0
    BY <1>2 DEF Within
  <2>2. t.steps * MaxAttempts = Budget /\ Budget \in Nat
    BY <2>1, BudgetIsNat DEF Budget
  <2>. QED BY <2>1, <2>2
<1>. QED BY <1>1, <1>2

\* What the runs before have sent, the steps before, this step.
LEMMA SpentTerms ==
  ASSUME NEW t \in Turns
  PROVE  /\ t.advances * Budget \in Nat /\ t.steps * MaxAttempts \in Nat /\ t.attempt \in Nat
         /\ MaxAttempts \in Nat /\ Budget \in Nat
         /\ (t.steps + 1) * MaxAttempts = t.steps * MaxAttempts + MaxAttempts
         /\ (t.advances + 1) * Budget = t.advances * Budget + Budget
<1>1. t.advances \in Nat /\ t.steps \in Nat /\ t.attempt \in Nat /\ MaxAttempts \in Nat
  BY ExecutorAssumption DEF Turns
<1>. QED BY <1>1, BudgetIsNat, Monotone

LEMMA MoreThan ==
  ASSUME NEW n \in Nat, NEW b \in Nat, NEW s \in Nat, NEW a \in Nat, NEW k \in Nat, n <= b + (s + a)
  PROVE  /\ n + 1 <= b + (s + (a + 1))
         /\ a <= k => n <= b + ((s + k) + 0)
         /\ s + a <= k => n <= (b + k) + 0
  OBVIOUS

\* A request more, within the attempts.
LEMMA OneMoreRequest ==
  ASSUME NEW n \in Nat, NEW t \in Turns, NEW u \in Turns, Spent(n, t),
         u.steps = t.steps, u.advances = t.advances, u.attempt = t.attempt + 1
  PROVE  Spent(n + 1, u)
<1>1. n + 1 <= t.advances * Budget + (t.steps * MaxAttempts + (t.attempt + 1))
  BY SpentTerms, MoreThan DEF Spent
<1>. QED BY <1>1 DEF Spent

\* A step that is finished has paid for its attempts.
LEMMA StepPays ==
  ASSUME NEW n \in Nat, NEW t \in Turns, NEW u \in Turns, Spent(n, t), Within(t),
         u.steps = t.steps + 1, u.advances = t.advances, u.attempt = 0
  PROVE  Spent(n, u)
<1>1. t.attempt <= MaxAttempts
  BY DEF Within
<1>2. n <= t.advances * Budget + ((t.steps * MaxAttempts + MaxAttempts) + 0)
  BY <1>1, SpentTerms, MoreThan DEF Spent
<1>3. n <= t.advances * Budget + ((t.steps + 1) * MaxAttempts + 0)
  BY <1>2, SpentTerms
<1>. QED BY <1>3 DEF Spent

\* A run that is given up has paid for itself.
LEMMA RunPays ==
  ASSUME NEW n \in Nat, NEW t \in Turns, NEW u \in Turns, Spent(n, t), Within(t),
         u.steps = 0, u.attempt = 0, u.advances = t.advances + 1
  PROVE  Spent(n, u)
<1>1. t.steps * MaxAttempts + t.attempt <= Budget
  BY WithinBudget
<1>2. n <= (t.advances * Budget + Budget) + 0
  BY <1>1, SpentTerms, MoreThan DEF Spent
<1>3. n <= (t.advances + 1) * Budget + (0 * MaxAttempts + 0)
  BY <1>2, SpentTerms
<1>. QED BY <1>3 DEF Spent

\* The Turn goes on without a request.
LEMMA Moved ==
  ASSUME NEW n \in Nat, NEW t \in Turns, NEW u \in Turns, Spent(n, t),
         u.steps = t.steps, u.advances = t.advances, u.attempt = t.attempt
  PROVE  Spent(n, u)
  BY DEF Spent

LEMMA Entered ==
  ASSUME NEW t \in Turns, t.steps <= MaxSteps, t.attempt = 0, ~t.final
  PROVE  /\ Enter(t) \in Turns /\ Within(Enter(t)) /\ Enter(t).steps = t.steps
         /\ Enter(t).attempt = 0 /\ Enter(t).advances = t.advances
  BY ExecutorAssumption DEF Enter, Turns, Within, Awaits

LEMMA RequestsInit == Init => RequestInv
<1>. SUFFICES ASSUME Init PROVE RequestInv
  OBVIOUS
<1>1. NewRun(0) \in Turns /\ NewRun(0).steps = 0 /\ NewRun(0).attempt = 0 /\ NewRun(0).advances = 0
      /\ ~NewRun(0).final
  BY ExecutorAssumption DEF NewRun, Turns, Awaits
<1>2. turn \in Turns /\ Within(turn) /\ turn.steps = 0 /\ turn.attempt = 0 /\ turn.advances = 0
  BY <1>1, Entered, ExecutorAssumption DEF Init
<1>3. 0 <= 0 * Budget + (0 * MaxAttempts + 0)
  BY BudgetIsNat, ExecutorAssumption
<1>. QED BY <1>2, <1>3 DEF Init, RequestInv, Spent

\* The steps of the Turn that send nothing and finish nothing.
LEMMA QuietSteps ==
  ASSUME RequestInv,
         \/ Checkpoint \/ Respond \/ RequestFails \/ RunTool \/ (\E i \in Asks : Ask(i)) \/ Asked
         \/ Answered \/ Leave \/ Finalize \/ Finalized \/ Catch
  PROVE  RequestInv'
<1>. USE DEF RequestInv, Goes, At, Throw, Result
<1>. SUFFICES turn' \in Turns /\ Within(turn') /\ turn'.steps = turn.steps
              /\ turn'.advances = turn.advances /\ turn'.attempt = turn.attempt /\ requests' = requests
  BY Moved DEF Within, Spent, Turns
<1>1. CASE Checkpoint
  BY <1>1 DEF Checkpoint, Turns, Within, Awaits
<1>2. CASE Respond
  <2>. PICK calls \in 0..MaxCalls, incomplete \in BOOLEAN :
         turn' = [turn EXCEPT !.at = "tools", !.called = calls > 0, !.incomplete = incomplete,
                              !.calls = IF turn.final THEN 0 ELSE calls]
    BY <1>2 DEF Respond
  <2>1. turn.at = "requesting" /\ requests' = requests
    BY <1>2 DEF Respond
  <2>0. calls \in Nat /\ 0 \in Nat /\ (calls > 0) \in BOOLEAN
    BY ExecutorAssumption
  <2>2. turn' \in Turns
    <3>1. PICK n \in Nat, called \in BOOLEAN :
            turn' = [turn EXCEPT !.at = "tools", !.called = called, !.incomplete = incomplete, !.calls = n]
      BY <2>0
    <3>. QED BY <3>1 DEF Turns, Awaits
  <2>3. turn'.at = "tools" /\ turn'.steps = turn.steps /\ turn'.advances = turn.advances
        /\ turn'.attempt = turn.attempt /\ turn'.final = turn.final
    BY DEF Turns
  <2>. QED BY <2>1, <2>2, <2>3 DEF Within
<1>3. CASE RequestFails
  <2>1. turn.at = "requesting" /\ requests' = requests
    BY <1>3 DEF RequestFails
  <2>2. CASE turn.attempt < MaxAttempts /\ turn' = [turn EXCEPT !.at = "backoff"]
    BY <2>1, <2>2 DEF Turns, Within, Awaits
  <2>3. CASE \E error \in {"failed", "context_limit"} : turn' = [turn EXCEPT !.at = "caught", !.error = error]
    BY <2>1, <2>3 DEF Turns, Within, Awaits
  <2>. QED BY <1>3, <2>2, <2>3 DEF RequestFails
<1>4. CASE RunTool
  <2>1. turn.at = "tools" /\ turn.calls - 1 \in Nat /\ requests' = requests
        /\ turn' = [turn EXCEPT !.calls = turn.calls - 1]
    BY <1>4 DEF RunTool, Turns
  <2>. QED BY <2>1 DEF Turns, Within
<1>5. CASE \E i \in Asks : Ask(i)
  <2>1. PICK i \in Asks : Ask(i)
    BY <1>5
  <2>2. turn.at = "tools" /\ requests' = requests /\ turn.calls > 0
        /\ turn' = [turn EXCEPT !.at = "asking", !.calls = turn.calls - 1, !.ask = i]
    BY <2>1 DEF Ask
  <2>0. turn.calls - 1 \in Nat
    BY <2>2 DEF Turns
  <2>3. turn' \in Turns
    BY <2>0, <2>2 DEF Turns, Awaits
  <2>. QED BY <2>2, <2>3 DEF Turns, Within
<1>6. CASE Asked
  BY <1>6 DEF Asked, Turns, Within, Awaits
<1>7. CASE Answered
  BY <1>7 DEF Answered, Turns, Within, Awaits
<1>8. CASE Leave
  BY <1>8 DEF Leave, Turns, Within, Awaits
<1>9. CASE Finalize
  BY <1>9 DEF Finalize, Turns, Within, Awaits
<1>10. CASE Finalized
  <2>1. PICK o \in {"success", "failure"} : turn' = Result(o)
    BY <1>10 DEF Finalized
  <2>2. turn' \in Turns /\ turn'.at \notin {"checkpoint", "resolving", "finalizing", "backoff"}
        /\ turn'.steps = turn.steps /\ turn'.advances = turn.advances /\ turn'.attempt = turn.attempt
        /\ turn'.final = turn.final
    BY <2>1 DEF Turns, Awaits
  <2>. QED BY <1>10, <2>1, <2>2 DEF Finalized, Within
<1>11. CASE Catch
  BY <1>11 DEF Catch, Turns, Within, Awaits
<1>. QED BY <1>1, <1>2, <1>3, <1>4, <1>5, <1>6, <1>7, <1>8, <1>9, <1>10, <1>11

\* The first attempt, and one after a failure.
LEMMA Requesting ==
  ASSUME RequestInv, Resolve \/ Retry
  PROVE  RequestInv'
<1>. USE DEF RequestInv, Goes, Throw
<1>1. CASE turn'.at = "caught"
  <2>1. turn' \in Turns /\ Within(turn') /\ turn'.steps = turn.steps
        /\ turn'.advances = turn.advances /\ turn'.attempt = turn.attempt /\ requests' = requests
    BY <1>1 DEF Resolve, Retry, Turns, Within, Awaits
  <2>. QED BY <2>1, Moved
<1>2. CASE turn'.at # "caught"
  <2>1. turn' \in Turns /\ Within(turn') /\ turn'.steps = turn.steps
        /\ turn'.advances = turn.advances /\ turn'.attempt = turn.attempt + 1 /\ requests' = requests + 1
    <3>1. CASE Resolve
      <4>1. turn' = [turn EXCEPT !.at = "requesting", !.attempt = 1] /\ turn.at = "resolving"
            /\ requests' = requests + 1 /\ turn.attempt = 0
        BY <1>2, <3>1 DEF Resolve, Turns, Within
      <4>2. turn' \in Turns
        BY <4>1 DEF Turns, Awaits
      <4>. QED BY <4>1, <4>2, ExecutorAssumption DEF Turns, Within
    <3>2. CASE Retry
      <4>1. turn' = [turn EXCEPT !.at = "requesting", !.attempt = turn.attempt + 1] /\ turn.at = "backoff"
            /\ requests' = requests + 1
        <5>1. turn' # [turn EXCEPT !.at = "caught", !.error = "failed"]
          BY <1>2 DEF Turns
        <5>. QED BY <3>2, <5>1 DEF Retry
      <4>3. turn.attempt + 1 <= MaxAttempts /\ turn.attempt + 1 \in Nat
        BY <4>1, ExecutorAssumption DEF Turns, Within
      <4>2. turn' \in Turns
        BY <4>1, <4>3 DEF Turns, Awaits
      <4>. QED BY <4>1, <4>2, <4>3 DEF Turns, Within
    <3>. QED BY <3>1, <3>2
  <2>. QED BY <2>1, OneMoreRequest
<1>. QED BY <1>1, <1>2

LEMMA Finishing ==
  ASSUME RequestInv, FinishStep
  PROVE  RequestInv'
<1>. USE DEF RequestInv, Goes, Throw
<1>1. CASE turn'.at = "caught"
  <2>1. turn' \in Turns /\ Within(turn') /\ turn'.steps = turn.steps
        /\ turn'.advances = turn.advances /\ turn'.attempt = turn.attempt /\ requests' = requests
    BY <1>1 DEF FinishStep, Turns, Within, Awaits
  <2>. QED BY <2>1, Moved
<1>2. CASE turn'.at # "caught"
  <2>1. turn' \in Turns /\ Within(turn') /\ turn'.steps = turn.steps + 1
        /\ turn'.advances = turn.advances /\ turn'.attempt = 0 /\ requests' = requests
    <3>1. turn' = [turn EXCEPT !.at = "deciding", !.steps = turn.steps + 1, !.attempt = 0]
          /\ turn.at = "tools" /\ requests' = requests
      <4>1. turn' # [turn EXCEPT !.at = "caught", !.error = "failed"]
        BY <1>2 DEF Turns
      <4>. QED BY <4>1 DEF FinishStep
    <3>0. turn.steps + 1 \in Nat
      BY DEF Turns
    <3>2. turn' \in Turns
      BY <3>0, <3>1 DEF Turns, Awaits
    <3>3. turn.steps + 1 <= MaxSteps \/ (turn.final /\ turn.steps <= MaxSteps)
      BY <3>1, ExecutorAssumption DEF Turns, Within
    <3>4. turn.steps + 1 <= MaxSteps \/ (turn.final /\ turn.steps + 1 = MaxSteps + 1)
      BY <3>3, ExecutorAssumption DEF Turns
    <3>5. 0 <= MaxAttempts
      BY ExecutorAssumption
    <3>. QED BY <3>1, <3>2, <3>4, <3>5 DEF Turns, Within
  <2>. QED BY <2>1, StepPays
<1>. QED BY <1>1, <1>2

\* The loop goes on after a step, or fails.
LEMMA GoingOn ==
  ASSUME RequestInv, Recover \/ Continue
  PROVE  RequestInv'
<1>. USE DEF RequestInv, Goes, Throw
<1>0. turn.at = "deciding" /\ ~turn.final /\ requests' = requests
  BY DEF Recover, Continue
<1>1. turn.attempt = 0 /\ turn.steps <= MaxSteps
  BY <1>0 DEF Within
<1>2. CASE turn' = [turn EXCEPT !.at = "caught", !.error = "failed"]
  <2>1. turn' \in Turns /\ Within(turn') /\ turn'.steps = turn.steps
        /\ turn'.advances = turn.advances /\ turn'.attempt = turn.attempt
    BY <1>0, <1>1, <1>2 DEF Turns, Within, Awaits
  <2>. QED BY <1>0, <2>1, Moved
<1>3. CASE \E r \in Nat : turn' = Enter([turn EXCEPT !.recoveries = r])
  <2>1. PICK r \in Nat : turn' = Enter([turn EXCEPT !.recoveries = r])
    BY <1>3
  <2>. DEFINE t == [turn EXCEPT !.recoveries = r]
  <2>2. t \in Turns /\ t.steps = turn.steps /\ t.attempt = turn.attempt /\ ~t.final
        /\ t.advances = turn.advances
    BY <1>0 DEF Turns
  <2>3. turn' \in Turns /\ Within(turn') /\ turn'.steps = turn.steps
        /\ turn'.advances = turn.advances /\ turn'.attempt = turn.attempt
    BY <1>1, <2>1, <2>2, Entered
  <2>. QED BY <1>0, <2>3, Moved
<1>4. turn.recoveries + 1 \in Nat
  BY DEF Turns
<1>. QED BY <1>2, <1>3, <1>4 DEF Recover, Continue

LEMMA Advancing ==
  ASSUME RequestInv, Advance
  PROVE  RequestInv'
<1>. USE DEF RequestInv, Goes
<1>1. CASE turn' = Result("failure")
  <2>1. turn' \in Turns /\ Within(turn') /\ turn'.steps = turn.steps
        /\ turn'.advances = turn.advances /\ turn'.attempt = turn.attempt /\ requests' = requests
    BY <1>1 DEF Advance, Result, Turns, Within, Awaits
  <2>. QED BY <2>1, Moved
<1>2. CASE turn.advances < MaxAdvances /\ turn' = Enter(AfterAdvance(turn))
  <2>1. AfterAdvance(turn) \in Turns /\ AfterAdvance(turn).steps = 0 /\ AfterAdvance(turn).attempt = 0
        /\ ~AfterAdvance(turn).final /\ AfterAdvance(turn).advances = turn.advances + 1
    BY <1>2, ExecutorAssumption DEF AfterAdvance, NewRun, Turns, Awaits
  <2>2. turn' \in Turns /\ Within(turn') /\ turn'.steps = 0 /\ turn'.attempt = 0
        /\ turn'.advances = turn.advances + 1
    BY <1>2, <2>1, Entered, ExecutorAssumption
  <2>. QED BY <2>2, RunPays DEF Advance
<1>. QED BY <1>1, <1>2 DEF Advance

\* Questions, answers, stops and prompts send nothing.
LEMMA Outside ==
  ASSUME RequestInv, Chain \/ Users \/ Prompt \/ (\E s \in Stops : Abort(s) \/ StopReturns(s)) \/ UNCHANGED vars
  PROVE  RequestInv'
<1>1. turn' = turn /\ requests' = requests
  BY DEF Chain, Users, Prompt, Abort, StopReturns, vars
<1>. QED BY <1>1 DEF RequestInv

LEMMA RequestsStep == RequestInv /\ [Next]_vars => RequestInv'
<1>. SUFFICES ASSUME RequestInv, [Next]_vars PROVE RequestInv'
  OBVIOUS
<1>. QED BY QuietSteps, Requesting, Finishing, GoingOn, Advancing, Outside DEF Next, Step

\* In all the runs together.
LEMMA AllRuns == RequestInv => BoundedRequests
<1>. SUFFICES ASSUME RequestInv PROVE BoundedRequests
  OBVIOUS
<1>1. turn \in Turns /\ turn.advances \in Nat /\ turn.advances <= MaxAdvances /\ MaxAdvances \in Nat
  BY ExecutorAssumption DEF RequestInv, Turns
<1>2. turn.steps * MaxAttempts + turn.attempt <= Budget
  BY <1>1, WithinBudget DEF RequestInv
<1>3. requests <= (turn.advances * Budget + Budget) + 0 /\ requests \in Nat
  BY <1>1, <1>2, SpentTerms, MoreThan DEF RequestInv, Spent
<1>4. turn.advances * Budget <= MaxAdvances * Budget /\ (MaxAdvances + 1) * Budget = MaxAdvances * Budget + Budget
      /\ MaxAdvances * Budget \in Nat /\ turn.advances * Budget \in Nat
  BY <1>1, BudgetIsNat, Monotone
<1>5. requests <= (MaxAdvances + 1) * Budget
  BY ONLY <1>3, <1>4, BudgetIsNat
<1>. QED BY <1>5 DEF BoundedRequests, Budget

\* A Turn sends a bounded number of requests, whatever fails, breaks off or is advanced
\* (ToolLoopLimits.ts:13, ModelRequestRunner.ts:17, ContextRetry.ts:16).
THEOREM RequestsBounded == Spec => []BoundedRequests
<1>1. RequestInv /\ [Next]_vars => RequestInv'
  BY RequestsStep
<1>. QED BY <1>1, RequestsInit, AllRuns, PTL DEF Spec

-----------------------------------------------------------------------------
\* A question has one answer.

Ops == [kind : {"respond", "submit", "cancel"}, id : Asks \cup Stops, outcome : Statuses,
        at : {"queued", "next", "storing", "stored"}, rest : SUBSET Asks, failed : BOOLEAN]

\* What an operation stores is what it will tell the tool, and the question still waits for that.
Fits(op, m, p) ==
  /\ op.kind = "submit" => op.outcome = "resolved"
  /\ op.kind # "cancel" /\ op.at = "stored" => op.id \in p /\ m[op.id] = op.outcome
  /\ op.kind = "cancel" /\ op.at \in {"storing", "stored"} => op.rest # {}
  /\ op.kind = "cancel" /\ op.at = "storing" => m[First(op.rest)] = "pending"
  /\ op.kind = "cancel" /\ op.at = "stored" => First(op.rest) \in p /\ m[First(op.rest)] = "cancelled"

\* Only the first operation has begun.
Serial(c, m, p) ==
  /\ c \in Seq(Ops)
  /\ \A k \in DOMAIN c : /\ c[k].kind # "cancel" => c[k].id \in Asks /\ c[k].outcome \in Outcomes
                         /\ c[k].at # "queued" => k = 1
                         /\ Fits(c[k], m, p)

\* A question that waits has no result, and one that the message shows as pending waits.
Waiting(m, r, p) ==
  /\ m \in [Asks -> Statuses \cup {"pending"}] /\ r \in [Asks -> Statuses \cup {"refused"}] /\ p \subseteq Asks
  /\ \A i \in p : r[i] = "none"
  /\ \A i \in Asks : m[i] = "pending" => i \in p

\* A tool whose question is being stored.
Asking(t, m, p) == t.at = "asking" => t.ask \in p /\ m[t.ask] = "none"

Agree(m, r, told, repeated) ==
  /\ \A i \in Asks : r[i] \notin {"none", "refused"} => m[i] = r[i]
  /\ \A a \in told : a.id \in Asks /\ a.outcome \in Outcomes /\ r[a.id] = a.outcome
  /\ \A i \in repeated : i \in Asks /\ r[i] = "resolved"

AnswerInv ==
  /\ Serial(chain, message, pending) /\ Waiting(message, result, pending)
  /\ Asking(turn, message, pending) /\ Agree(message, result, accepted, receipts)

LEMMA FirstIsAsked ==
  ASSUME NEW S \in SUBSET Asks, S # {}
  PROVE  First(S) \in S
<1>1. S \in SUBSET Nat
  BY InteractionAssumption
<1>. QED BY <1>1, Queue!LeastMember DEF First

\* The first operation goes on, or leaves; another one comes; or the question of another one moves.
LEMMA Replaced ==
  ASSUME NEW c, NEW m, NEW p, NEW m2, NEW p2, Serial(c, m, p), 1 \in DOMAIN c, NEW op \in Ops,
         op.kind = c[1].kind, op.id = c[1].id, op.outcome = c[1].outcome, Fits(op, m2, p2)
  PROVE  Serial([c EXCEPT ![1] = op], m2, p2)
<1>. DEFINE d == [c EXCEPT ![1] = op]
<1>1. d \in Seq(Ops) /\ DOMAIN d = DOMAIN c /\ d[1] = op /\ \A k \in DOMAIN c \ {1} : d[k] = c[k]
  BY ExceptSeq, LenProperties DEF Serial
<1>2. ASSUME NEW k \in DOMAIN c \ {1}
      PROVE  /\ c[k].kind # "cancel" => c[k].id \in Asks /\ c[k].outcome \in Outcomes
             /\ c[k].at = "queued" /\ Fits(c[k], m2, p2)
  BY DEF Serial, Fits
<1>3. c[1].kind # "cancel" => c[1].id \in Asks /\ c[1].outcome \in Outcomes
  BY DEF Serial
<1>. HIDE DEF d
<1>4. Serial(d, m2, p2)
  BY <1>1, <1>2, <1>3 DEF Serial
<1>. QED BY <1>4 DEF d

LEMMA WithoutFirst ==
  ASSUME NEW c \in Seq(Ops), NEW d, d = SubSeq(c, 1, 1 - 1) \o SubSeq(c, 1 + 1, Len(c))
  PROVE  d \in Seq(Ops) /\ \A k \in DOMAIN d : k + 1 \in DOMAIN c /\ d[k] = c[k + 1] /\ k + 1 # 1
<1>. DEFINE e == SubSeq(c, 2, Len(c))
<1>1. Len(c) \in Nat /\ DOMAIN c = 1 .. Len(c)
  BY LenProperties
<1>2. \A k \in 2 .. Len(c) : c[k] \in Ops
  BY <1>1
<1>3. e \in Seq(Ops) /\ (\A k \in 1 .. Len(c) - 2 + 1 : e[k] = c[2 + k - 1])
      /\ Len(e) = IF 2 <= Len(c) THEN Len(c) - 2 + 1 ELSE 0
  BY <1>1, <1>2, SubSeqProperties
<1>4. SubSeq(c, 1, 0) = <<>> /\ <<>> \o e = e
  BY <1>3, SubSeqEmpty, ConcatEmptySeq
<1>5. 1 - 1 = 0 /\ 1 + 1 = 2
  OBVIOUS
<1>6. d = e
  BY <1>4, <1>5
<1>. HIDE DEF e
<1>7. ASSUME NEW k \in DOMAIN e PROVE k + 1 \in DOMAIN c /\ e[k] = c[k + 1] /\ k + 1 # 1
  <2>1. k \in 1 .. Len(e)
    BY <1>3, LenProperties
  <2>2. 2 <= Len(c) /\ k \in 1 .. Len(c) - 2 + 1
    <3>1. CASE 2 <= Len(c)
      <4>1. Len(e) = Len(c) - 2 + 1
        BY <1>3, <3>1
      <4>. QED BY <2>1, <3>1, <4>1
    <3>2. CASE ~(2 <= Len(c))
      <4>1. Len(e) = 0
        BY <1>3, <3>2
      <4>. QED BY <2>1, <4>1
    <3>. QED BY <3>1, <3>2
  <2>3. k + 1 \in 1 .. Len(c) /\ 2 + k - 1 = k + 1 /\ k + 1 # 1
    BY <1>1, <2>2
  <2>. QED BY <1>1, <1>3, <2>2, <2>3
<1>. QED BY <1>3, <1>6, <1>7

LEMMA Removed ==
  ASSUME NEW c, NEW m, NEW p, NEW m2, NEW p2, Serial(c, m, p), 1 \in DOMAIN c
  PROVE  Serial(SubSeq(c, 1, 1 - 1) \o SubSeq(c, 1 + 1, Len(c)), m2, p2)
<1>. DEFINE d == SubSeq(c, 1, 1 - 1) \o SubSeq(c, 1 + 1, Len(c))
<1>1. c \in Seq(Ops)
  BY DEF Serial
<1>2. d \in Seq(Ops) /\ \A k \in DOMAIN d : k + 1 \in DOMAIN c /\ d[k] = c[k + 1] /\ k + 1 # 1
  BY <1>1, WithoutFirst
<1>. HIDE DEF d
<1>3. ASSUME NEW k \in DOMAIN d
      PROVE  /\ d[k].kind # "cancel" => d[k].id \in Asks /\ d[k].outcome \in Outcomes
             /\ d[k].at = "queued" /\ Fits(d[k], m2, p2)
  BY <1>2 DEF Serial, Fits
<1>4. Serial(d, m2, p2)
  BY <1>2, <1>3 DEF Serial
<1>. QED BY <1>4 DEF d

LEMMA Appended ==
  ASSUME NEW c, NEW m, NEW p, Serial(c, m, p), NEW op \in Ops, op.at = "queued",
         op.kind # "cancel" => op.id \in Asks /\ op.outcome \in Outcomes,
         op.kind = "submit" => op.outcome = "resolved"
  PROVE  Serial(Append(c, op), m, p)
<1>. DEFINE d == Append(c, op)
<1>1. c \in Seq(Ops) /\ Len(c) \in Nat /\ DOMAIN c = 1 .. Len(c)
  BY LenProperties DEF Serial
<1>2. d \in Seq(Ops) /\ DOMAIN d = 1 .. Len(c) + 1 /\ d[Len(c) + 1] = op /\ \A k \in DOMAIN c : d[k] = c[k]
  BY <1>1, AppendProperties, LenProperties
<1>3. Fits(op, m, p)
  BY DEF Fits
<1>. HIDE DEF d
<1>4. ASSUME NEW k \in DOMAIN d
      PROVE  /\ d[k].kind # "cancel" => d[k].id \in Asks /\ d[k].outcome \in Outcomes
             /\ d[k].at # "queued" => k = 1
             /\ Fits(d[k], m, p)
  <2>1. k \in DOMAIN c \/ k = Len(c) + 1
    BY <1>1, <1>2
  <2>. QED BY <1>2, <1>3, <2>1 DEF Serial
<1>5. Serial(d, m, p)
  BY <1>2, <1>4 DEF Serial
<1>. QED BY <1>5 DEF d

LEMMA Kept ==
  ASSUME NEW c, NEW m, NEW p, NEW m2, NEW p2, Serial(c, m, p), 1 \in DOMAIN c => Fits(c[1], m2, p2)
  PROVE  Serial(c, m2, p2)
<1>1. ASSUME NEW k \in DOMAIN c \ {1} PROVE Fits(c[k], m2, p2)
  BY DEF Serial, Fits
<1>. QED BY <1>1 DEF Serial

LEMMA AnswersInit == Init => AnswerInv
<1>. SUFFICES ASSUME Init PROVE AnswerInv
  OBVIOUS
<1>1. turn.at # "asking"
  BY DEF Init, Enter, NewRun
<1>2. chain = <<>> /\ <<>> \in Seq(Ops) /\ DOMAIN <<>> = {}
  BY EmptySeq, LenProperties DEF Init, InitInteractions
<1>3. Serial(chain, message, pending)
  BY <1>2 DEF Serial
<1>. QED BY <1>1, <1>3 DEF Init, InitInteractions, AnswerInv, Waiting, Asking, Agree, Statuses

\* The operation that runs.
LEMMA Running ==
  ASSUME AnswerInv, 1 \in DOMAIN chain
  PROVE  /\ chain[1] \in Ops /\ Fits(chain[1], message, pending)
         /\ chain[1].kind # "cancel" => chain[1].id \in Asks /\ chain[1].outcome \in Outcomes
         /\ chain[1].rest \subseteq Asks
         /\ chain[1].rest # {} => First(chain[1].rest) \in chain[1].rest
<1>1. chain[1] \in Ops
  BY LenProperties DEF AnswerInv, Serial
<1>2. chain[1].rest \in SUBSET Asks
  BY <1>1 DEF Ops
<1>. QED BY <1>1, <1>2, FirstIsAsked DEF AnswerInv, Serial

LEMMA BeginAnswerKeeps ==
  ASSUME AnswerInv, 1 \in DOMAIN chain, BeginAnswer(1), turn' = turn
  PROVE  AnswerInv'
<1>. DEFINE op == chain[1]
<1>0. op \in Ops /\ op.kind # "cancel" /\ op.id \in Asks /\ op.outcome \in Outcomes
      /\ Fits(op, message, pending)
  BY Running DEF BeginAnswer
<1>1. message' = message /\ result' = result /\ pending' = pending /\ receipts' = receipts
  BY DEF BeginAnswer
<1>2. Serial(chain', message, pending)
  <2>1. CASE Ends(1)
    BY <2>1, Removed DEF AnswerInv, Ends
  <2>2. CASE chain' = [chain EXCEPT ![1].at = "storing"]
    <3>. DEFINE next == [op EXCEPT !.at = "storing"]
    <3>1. next \in Ops /\ next.kind = op.kind /\ next.id = op.id /\ next.outcome = op.outcome
          /\ next.at = "storing"
      BY <1>0 DEF Ops
    <3>2. Fits(next, message, pending)
      BY <1>0, <3>1 DEF Fits
    <3>3. chain' = [chain EXCEPT ![1] = next]
      BY <2>2
    <3>. HIDE DEF next
    <3>. QED BY <3>1, <3>2, <3>3, Replaced DEF AnswerInv
  <2>. QED BY <2>1, <2>2 DEF BeginAnswer
<1>3. Agree(message, result, accepted', receipts)
  <2>1. CASE accepted' = accepted
    BY <2>1 DEF AnswerInv, Agree
  <2>2. CASE op.id \in receipts /\ accepted' = accepted \cup {[id |-> op.id, outcome |-> "resolved"]}
    BY <1>0, <2>2 DEF AnswerInv, Agree, Outcomes
  <2>. QED BY <2>1, <2>2 DEF BeginAnswer, Told
<1>. QED BY <1>1, <1>2, <1>3 DEF AnswerInv, Asking

LEMMA StoreAnswerKeeps ==
  ASSUME AnswerInv, 1 \in DOMAIN chain, StoreAnswer(1), turn' = turn
  PROVE  AnswerInv'
<1>. DEFINE op == chain[1]
<1>0. op \in Ops /\ op.kind # "cancel" /\ op.id \in Asks /\ op.outcome \in Outcomes
      /\ Fits(op, message, pending)
  BY Running DEF StoreAnswer
<1>1. result' = result /\ pending' = pending /\ receipts' = receipts /\ accepted' = accepted
  BY DEF StoreAnswer
<1>2. CASE Ends(1) /\ message' = message
  <2>1. Serial(chain', message, pending)
    BY <1>2, Removed DEF AnswerInv, Ends
  <2>. QED BY <1>1, <1>2, <2>1 DEF AnswerInv, Asking
<1>3. CASE /\ message[op.id] = "pending" /\ message' = [message EXCEPT ![op.id] = op.outcome]
           /\ chain' = [chain EXCEPT ![1].at = "stored"]
  <2>. DEFINE next == [op EXCEPT !.at = "stored"]
  <2>0. op.id \in pending /\ result[op.id] = "none"
    BY <1>0, <1>3 DEF AnswerInv, Waiting
  <2>1. next \in Ops /\ next.kind = op.kind /\ next.id = op.id /\ next.outcome = op.outcome
        /\ next.at = "stored"
    BY <1>0 DEF Ops
  <2>2. message'[op.id] = op.outcome /\ message' \in [Asks -> Statuses \cup {"pending"}]
        /\ \A i \in Asks : i # op.id => message'[i] = message[i]
    BY <1>0, <1>3 DEF AnswerInv, Waiting, Statuses
  <2>3. Fits(next, message', pending)
    BY <1>0, <2>0, <2>1, <2>2 DEF Fits
  <2>4. chain' = [chain EXCEPT ![1] = next]
    BY <1>3
  <2>5. Serial(chain', message', pending)
    <3>. HIDE DEF next
    <3>. QED BY <2>1, <2>3, <2>4, Replaced DEF AnswerInv
  <2>6. Waiting(message', result, pending)
    BY <1>0, <2>2 DEF AnswerInv, Waiting, Outcomes
  <2>7. Asking(turn, message', pending)
    BY <1>0, <1>3, <2>2 DEF AnswerInv, Waiting, Asking
  <2>8. Agree(message', result, accepted, receipts)
    BY <2>0, <2>2 DEF AnswerInv, Agree
  <2>. QED BY <1>1, <2>5, <2>6, <2>7, <2>8 DEF AnswerInv, Asking
<1>. QED BY <1>2, <1>3 DEF StoreAnswer

\* The question is answered: the tool, the user and the message agree.
LEMMA FinishKeeps ==
  ASSUME AnswerInv, NEW i \in pending, NEW outcome \in Statuses \ {"none"}, message[i] = outcome,
         Finish(i, outcome), turn' = turn, message' = message
  PROVE  /\ Waiting(message', result', pending') /\ Asking(turn', message', pending')
         /\ \A j \in Asks : result'[j] \notin {"none", "refused"} => message'[j] = result'[j]
         /\ result'[i] = outcome /\ \A j \in Asks : j # i => result'[j] = result[j]
         /\ i \in Asks /\ result[i] = "none"
<1>0. i \in Asks /\ result[i] = "none" /\ result \in [Asks -> Statuses \cup {"refused"}]
  BY DEF AnswerInv, Waiting
<1>1. result'[i] = outcome /\ (\A j \in Asks : j # i => result'[j] = result[j])
      /\ result' \in [Asks -> Statuses \cup {"refused"}] /\ pending' = pending \ {i}
  BY <1>0 DEF Finish
<1>2. outcome # "pending"
  BY DEF Statuses, Outcomes
<1>. QED BY <1>0, <1>1, <1>2 DEF AnswerInv, Waiting, Asking, Agree

LEMMA EndAnswerKeeps ==
  ASSUME AnswerInv, 1 \in DOMAIN chain, EndAnswer(1), turn' = turn
  PROVE  AnswerInv'
<1>. DEFINE op == chain[1]
<1>0. op.kind # "cancel" /\ op.id \in Asks /\ op.outcome \in Outcomes
      /\ op.id \in pending /\ message[op.id] = op.outcome
      /\ (op.kind = "submit" => op.outcome = "resolved")
  BY Running DEF EndAnswer, Fits
<1>1. message' = message /\ Finish(op.id, op.outcome) /\ Ends(1)
      /\ accepted' = accepted \cup {[id |-> op.id, outcome |-> op.outcome]}
  BY DEF EndAnswer, Told
<1>2. op.outcome \in Statuses \ {"none"}
  BY <1>0 DEF Statuses, Outcomes
<1>3. /\ Waiting(message', result', pending') /\ Asking(turn', message', pending')
      /\ \A j \in Asks : result'[j] \notin {"none", "refused"} => message'[j] = result'[j]
      /\ result'[op.id] = op.outcome /\ \A j \in Asks : j # op.id => result'[j] = result[j]
      /\ result[op.id] = "none"
  BY <1>0, <1>1, <1>2, FinishKeeps
<1>4. Serial(chain', message', pending')
  BY <1>1, Removed DEF AnswerInv, Ends
<1>5. \A a \in accepted' : a.id \in Asks /\ a.outcome \in Outcomes /\ result'[a.id] = a.outcome
  <2>1. ASSUME NEW a \in accepted PROVE a.id \in Asks /\ a.outcome \in Outcomes /\ result'[a.id] = a.outcome
    BY <1>3 DEF AnswerInv, Agree, Outcomes
  <2>. QED BY <1>0, <1>1, <1>3, <2>1
<1>6. \A i \in receipts' : i \in Asks /\ result'[i] = "resolved"
  <2>1. ASSUME NEW i \in receipts PROVE i \in Asks /\ result'[i] = "resolved"
    BY <1>3 DEF AnswerInv, Agree
  <2>. QED BY <1>0, <1>3, <2>1 DEF EndAnswer
<1>. QED BY <1>3, <1>4, <1>5, <1>6 DEF AnswerInv, Agree

\* The first of the questions that a cancellation still has to close.
LEMMA CancelSteps ==
  ASSUME AnswerInv, 1 \in DOMAIN chain, turn' = turn,
         BeginCancel(1) \/ CancelNext(1) \/ Cancelled(1)
  PROVE  AnswerInv'
<1>. DEFINE op == chain[1]
<1>0. op \in Ops /\ Fits(op, message, pending) /\ op.kind = "cancel" /\ op.rest \subseteq Asks
      /\ pending \subseteq Asks
  BY Running DEF BeginCancel, CancelNext, Cancelled, AnswerInv, Waiting
<1>1. message' = message /\ result' = result /\ pending' = pending /\ receipts' = receipts
      /\ accepted' = accepted
  BY DEF BeginCancel, CancelNext, Cancelled
<1>2. CASE Ends(1)
  <2>1. Serial(chain', message, pending)
    BY <1>2, Removed DEF AnswerInv, Ends
  <2>. QED BY <1>1, <2>1 DEF AnswerInv, Asking
<1>3. ASSUME NEW next \in Ops, next.kind = op.kind, next.id = op.id, next.outcome = op.outcome,
             Fits(next, message, pending), chain' = [chain EXCEPT ![1] = next]
      PROVE  AnswerInv'
  <2>1. Serial(chain', message, pending)
    BY <1>3, Replaced DEF AnswerInv
  <2>. QED BY <1>1, <2>1 DEF AnswerInv, Asking
<1>4. CASE BeginCancel(1)
  <2>. DEFINE next == [op EXCEPT !.at = "next", !.rest = pending]
  <2>1. next \in Ops /\ next.kind = op.kind /\ next.id = op.id /\ next.outcome = op.outcome /\ next.at = "next"
    BY <1>0 DEF Ops
  <2>2. Fits(next, message, pending)
    BY <1>0, <2>1 DEF Fits
  <2>3. chain' = [chain EXCEPT ![1] = next]
    BY <1>4 DEF BeginCancel
  <2>. HIDE DEF next
  <2>. QED BY <1>3, <2>1, <2>2, <2>3
<1>5. CASE CancelNext(1)
  <2>. DEFINE i == First(op.rest)
              next == IF message[i] = "pending" THEN [op EXCEPT !.at = "storing"]
                      ELSE [op EXCEPT !.rest = op.rest \ {i}, !.failed = TRUE]
  <2>1. chain' = [chain EXCEPT ![1] = next] /\ op.rest # {} /\ op.at = "next"
    BY <1>5 DEF CancelNext
  <2>2. next \in Ops /\ next.kind = op.kind /\ next.id = op.id /\ next.outcome = op.outcome
        /\ IF message[i] = "pending" THEN next.at = "storing" /\ next.rest = op.rest ELSE next.at = "next"
    BY <1>0, <2>1 DEF Ops
  <2>3. Fits(next, message, pending)
    BY <1>0, <2>1, <2>2 DEF Fits
  <2>. HIDE DEF next
  <2>. QED BY <1>3, <2>1, <2>2, <2>3
<1>. QED BY <1>2, <1>4, <1>5 DEF Cancelled

LEMMA StoreCancelKeeps ==
  ASSUME AnswerInv, 1 \in DOMAIN chain, turn' = turn, StoreCancel(1)
  PROVE  AnswerInv'
<1>. DEFINE op == chain[1]  i == First(op.rest)
<1>0. op \in Ops /\ Fits(op, message, pending) /\ op.kind = "cancel" /\ op.rest \subseteq Asks
      /\ op.at = "storing" /\ i \in Asks /\ message[i] = "pending"
  BY Running DEF StoreCancel, Fits
<1>1. result' = result /\ pending' = pending /\ receipts' = receipts /\ accepted' = accepted
  BY DEF StoreCancel
<1>2. CASE /\ message' = message
           /\ chain' = [chain EXCEPT ![1].at = "next", ![1].rest = @ \ {First(chain[1].rest)}, ![1].failed = TRUE]
  <2>. DEFINE next == [op EXCEPT !.at = "next", !.rest = op.rest \ {i}, !.failed = TRUE]
  <2>1. next \in Ops /\ next.kind = op.kind /\ next.id = op.id /\ next.outcome = op.outcome /\ next.at = "next"
    BY <1>0 DEF Ops
  <2>2. Fits(next, message, pending)
    BY <1>0, <2>1 DEF Fits
  <2>3. chain' = [chain EXCEPT ![1] = next]
    BY <1>2
  <2>4. Serial(chain', message, pending)
    <3>. HIDE DEF next
    <3>. QED BY <2>1, <2>2, <2>3, Replaced DEF AnswerInv
  <2>. QED BY <1>1, <1>2, <2>4 DEF AnswerInv, Asking
<1>3. CASE message' = [message EXCEPT ![i] = "cancelled"] /\ chain' = [chain EXCEPT ![1].at = "stored"]
  <2>. DEFINE next == [op EXCEPT !.at = "stored"]
  <2>0. i \in pending /\ result[i] = "none"
    BY <1>0 DEF AnswerInv, Waiting
  <2>1. next \in Ops /\ next.kind = op.kind /\ next.id = op.id /\ next.outcome = op.outcome
        /\ next.at = "stored" /\ next.rest = op.rest
    BY <1>0 DEF Ops
  <2>2. message'[i] = "cancelled" /\ message' \in [Asks -> Statuses \cup {"pending"}]
        /\ \A j \in Asks : j # i => message'[j] = message[j]
    BY <1>0, <1>3 DEF AnswerInv, Waiting, Statuses
  <2>3. Fits(next, message', pending)
    BY <1>0, <2>0, <2>1, <2>2 DEF Fits
  <2>4. chain' = [chain EXCEPT ![1] = next]
    BY <1>3
  <2>5. Serial(chain', message', pending)
    <3>. HIDE DEF next
    <3>. QED BY <2>1, <2>3, <2>4, Replaced DEF AnswerInv
  <2>6. Waiting(message', result, pending)
    BY <1>0, <2>2 DEF AnswerInv, Waiting
  <2>7. Asking(turn, message', pending)
    BY <1>0, <2>2 DEF AnswerInv, Waiting, Asking
  <2>8. Agree(message', result, accepted, receipts)
    BY <2>0, <2>2 DEF AnswerInv, Agree
  <2>. QED BY <1>1, <2>5, <2>6, <2>7, <2>8 DEF AnswerInv, Asking
<1>. QED BY <1>2, <1>3 DEF StoreCancel

LEMMA EndCancelKeeps ==
  ASSUME AnswerInv, 1 \in DOMAIN chain, turn' = turn, EndCancel(1)
  PROVE  AnswerInv'
<1>. DEFINE op == chain[1]  i == First(op.rest)
            next == [op EXCEPT !.at = "next", !.rest = op.rest \ {i}]
<1>0. op \in Ops /\ Fits(op, message, pending) /\ op.kind = "cancel" /\ op.rest \subseteq Asks
      /\ i \in pending /\ message[i] = "cancelled"
  BY Running DEF EndCancel, Fits
<1>1. message' = message /\ Finish(i, "cancelled") /\ receipts' = receipts /\ accepted' = accepted
      /\ chain' = [chain EXCEPT ![1] = next]
  BY DEF EndCancel
<1>2. "cancelled" \in Statuses \ {"none"}
  BY DEF Statuses
<1>3. /\ Waiting(message', result', pending') /\ Asking(turn', message', pending')
      /\ \A j \in Asks : result'[j] \notin {"none", "refused"} => message'[j] = result'[j]
      /\ \A j \in Asks : j # i => result'[j] = result[j]
      /\ result[i] = "none"
  BY <1>0, <1>1, <1>2, FinishKeeps
<1>4. Serial(chain', message', pending')
  <2>1. next \in Ops /\ next.kind = op.kind /\ next.id = op.id /\ next.outcome = op.outcome /\ next.at = "next"
    BY <1>0 DEF Ops
  <2>2. Fits(next, message', pending')
    BY <1>0, <2>1 DEF Fits
  <2>. HIDE DEF next
  <2>. QED BY <1>1, <2>1, <2>2, Replaced DEF AnswerInv
<1>5. Agree(message', result', accepted', receipts')
  BY <1>1, <1>3 DEF AnswerInv, Agree, Outcomes
<1>. QED BY <1>3, <1>4, <1>5 DEF AnswerInv

LEMMA ChainKeeps ==
  ASSUME AnswerInv, Chain
  PROVE  AnswerInv'
<1>1. 1 \in DOMAIN chain /\ turn' = turn
      /\ \/ BeginAnswer(1) \/ StoreAnswer(1) \/ EndAnswer(1)
         \/ BeginCancel(1) \/ CancelNext(1) \/ StoreCancel(1) \/ EndCancel(1) \/ Cancelled(1)
  BY DEF Chain, Operate, Runs
<1>. QED BY <1>1, BeginAnswerKeeps, StoreAnswerKeeps, EndAnswerKeeps, CancelSteps, StoreCancelKeeps,
            EndCancelKeeps

\* The steps of the Turn that have nothing to do with questions.
LEMMA TurnMoves ==
  ASSUME AnswerInv, turn \in Turns,
         \/ Checkpoint \/ Resolve \/ Respond \/ RequestFails \/ Retry \/ RunTool \/ Answered \/ FinishStep
         \/ Recover \/ Continue \/ Leave \/ Finalize \/ Finalized \/ Catch \/ Advance
  PROVE  AnswerInv'
<1>. USE DEF Goes, At, Throw, Result
<1>1. UNCHANGED interactions
  BY DEF Checkpoint, Resolve, Respond, RequestFails, Retry, RunTool, Answered, FinishStep,
         Recover, Continue, Leave, Finalize, Finalized, Catch, Advance
<1>2. turn'.at # "asking"
  <2>1. CASE Checkpoint \/ Resolve
    BY <2>1 DEF Checkpoint, Resolve, Turns
  <2>2. CASE Respond
    <3>1. PICK c \in 0..MaxCalls, incomplete \in BOOLEAN :
            turn' = [turn EXCEPT !.at = "tools", !.called = c > 0, !.incomplete = incomplete,
                                 !.calls = IF turn.final THEN 0 ELSE c]
      BY <2>2 DEF Respond
    <3>. QED BY <3>1 DEF Turns
  <2>3. CASE RequestFails \/ Retry
    BY <2>3 DEF RequestFails, Retry, Turns
  <2>4. CASE RunTool \/ Answered \/ FinishStep
    BY <2>4 DEF RunTool, Answered, FinishStep, Turns
  <2>5. CASE Recover \/ Continue
    BY <2>5 DEF Recover, Continue, Enter, Turns
  <2>6. CASE Leave \/ Finalize \/ Finalized \/ Catch
    BY <2>6 DEF Leave, Finalize, Finalized, Catch, Turns
  <2>7. CASE Advance
    BY <2>7 DEF Advance, Enter, AfterAdvance, NewRun, Turns
  <2>. QED BY <2>1, <2>2, <2>3, <2>4, <2>5, <2>6, <2>7
<1>. QED BY <1>1, <1>2 DEF AnswerInv, Asking, interactions

\* A tool asks; the question is stored, or is not.
LEMMA AskKeeps ==
  ASSUME AnswerInv, turn \in Turns, NEW i \in Asks, Ask(i)
  PROVE  AnswerInv'
<1>1. message' = message /\ result' = result /\ chain' = chain /\ receipts' = receipts /\ accepted' = accepted
      /\ pending' = pending \cup {i} /\ message[i] = "none" /\ result[i] = "none"
      /\ turn' = [turn EXCEPT !.at = "asking", !.calls = @ - 1, !.ask = i]
  BY DEF Ask, Request
<1>2. turn'.ask = i
  BY <1>1 DEF Turns
<1>3. Serial(chain, message, pending')
  <2>1. 1 \in DOMAIN chain => Fits(chain[1], message, pending')
    BY <1>1 DEF AnswerInv, Serial, Fits
  <2>. QED BY <2>1, Kept DEF AnswerInv
<1>. QED BY <1>1, <1>2, <1>3 DEF AnswerInv, Waiting, Asking

LEMMA AskedKeeps ==
  ASSUME AnswerInv, turn \in Turns, Asked
  PROVE  AnswerInv'
<1>. DEFINE i == turn.ask
<1>1. turn.at = "asking" /\ i \in pending /\ i \in Asks /\ message[i] = "none" /\ result[i] = "none"
  BY DEF Asked, AnswerInv, Asking, Waiting
<1>2. turn'.at # "asking"
  BY DEF Asked, At, Turns
<1>3. chain' = chain /\ receipts' = receipts /\ accepted' = accepted
  BY DEF Asked, Requested, NotRequested
<1>4. ASSUME 1 \in DOMAIN chain, NEW m, NEW p, \A j \in Asks \ {i} : m[j] = message[j],
             pending \ {i} \subseteq p
      PROVE  Fits(chain[1], m, p)
  <2>1. "none" \notin Outcomes
    BY DEF Outcomes
  <2>. QED BY <1>1, <1>4, <2>1, Running DEF Fits, AnswerInv, Waiting
<1>5. CASE Requested(i)
  <2>1. message' = [message EXCEPT ![i] = "pending"] /\ pending' = pending /\ result' = result
    BY <1>5 DEF Requested
  <2>2. message' \in [Asks -> Statuses \cup {"pending"}] /\ message'[i] = "pending"
        /\ \A j \in Asks \ {i} : message'[j] = message[j]
    BY <1>1, <2>1 DEF AnswerInv, Waiting
  <2>3. Serial(chain, message', pending)
    BY <1>4, <2>2, Kept DEF AnswerInv
  <2>4. Waiting(message', result, pending) /\ Agree(message', result, accepted, receipts)
    BY <1>1, <2>2 DEF AnswerInv, Waiting, Agree
  <2>. QED BY <1>2, <1>3, <2>1, <2>3, <2>4 DEF AnswerInv, Asking
<1>6. CASE NotRequested(i)
  <2>1. result' = [result EXCEPT ![i] = "refused"] /\ pending' = pending \ {i} /\ message' = message
    BY <1>6 DEF NotRequested
  <2>2. result' \in [Asks -> Statuses \cup {"refused"}] /\ result'[i] = "refused"
        /\ \A j \in Asks \ {i} : result'[j] = result[j]
    BY <1>1, <2>1 DEF AnswerInv, Waiting
  <2>3. Serial(chain, message, pending')
    BY <1>4, <2>1, Kept DEF AnswerInv
  <2>4. Waiting(message, result', pending')
    BY <1>1, <2>1, <2>2 DEF AnswerInv, Waiting
  <2>5. Agree(message, result', accepted, receipts)
    BY <1>1, <2>2 DEF AnswerInv, Agree, Outcomes
  <2>. QED BY <1>2, <1>3, <2>1, <2>3, <2>4, <2>5 DEF AnswerInv, Asking
<1>. QED BY <1>5, <1>6 DEF Asked

\* Users answer, stops come: one operation more.
LEMMA OutsideKeeps ==
  ASSUME AnswerInv, Users \/ Prompt \/ (\E s \in Stops : Abort(s) \/ StopReturns(s)) \/ UNCHANGED vars
  PROVE  AnswerInv'
<1>1. turn' = turn /\ message' = message /\ result' = result /\ pending' = pending
      /\ receipts' = receipts /\ accepted' = accepted
  BY DEF Users, Answer, Prompt, Abort, Stop, StopReturns, vars, interactions
<1>2. Serial(chain', message, pending)
  <2>1. CASE chain' = chain
    BY <2>1 DEF AnswerInv
  <2>2. CASE Users
    <3>1. PICK i \in Asks : Answer(i)
      BY <2>2 DEF Users
    <3>2. PICK kind \in {"respond", "submit"}, outcome \in Outcomes :
            chain' = Append(chain, Operation(kind, i, outcome)) /\ (kind = "submit" => outcome = "resolved")
      BY <3>1 DEF Answer, Outcomes
    <3>. DEFINE op == Operation(kind, i, outcome)
    <3>3. op \in Ops /\ op.at = "queued" /\ op.id = i /\ op.outcome = outcome /\ op.kind = kind
      BY DEF Operation, Ops, Statuses
    <3>. HIDE DEF op
    <3>4. Serial(Append(chain, op), message, pending)
      BY <3>2, <3>3, Appended DEF AnswerInv
    <3>. QED BY <3>2, <3>4 DEF op
  <2>3. ASSUME NEW s \in Stops, Abort(s) PROVE Serial(chain', message, pending)
    <3>. DEFINE op == Operation("cancel", s, "cancelled")
    <3>1. op \in Ops /\ op.at = "queued" /\ op.kind = "cancel"
      BY DEF Operation, Ops, Statuses
    <3>2. chain' = Append(chain, op)
      BY <2>3 DEF Abort, Stop
    <3>. HIDE DEF op
    <3>. QED BY <3>1, <3>2, Appended DEF AnswerInv
  <2>. QED BY <2>1, <2>2, <2>3 DEF Prompt, StopReturns, vars, interactions
<1>. QED BY <1>1, <1>2 DEF AnswerInv, Asking

LEMMA AnswersStep == AnswerInv /\ turn \in Turns /\ [Next]_vars => AnswerInv'
<1>. SUFFICES ASSUME AnswerInv, turn \in Turns, [Next]_vars PROVE AnswerInv'
  OBVIOUS
<1>. QED BY ChainKeeps, TurnMoves, AskKeeps, AskedKeeps, OutsideKeeps DEF Next, Step

\* However many answers and stops come for a question, its tool, its message and the users who
\* were told agree (SessionInteractions.ts:6, :45).
THEOREM OneAnswer == Spec => []AnswersAgree
<1>1. Init => RequestInv /\ AnswerInv
  BY RequestsInit, AnswersInit
<1>2. RequestInv /\ AnswerInv /\ [Next]_vars => (RequestInv /\ AnswerInv)'
  BY RequestsStep, AnswersStep DEF RequestInv
<1>3. AnswerInv => AnswersAgree
  BY DEF AnswerInv, Agree, AnswersAgree
<1>. QED BY <1>1, <1>2, <1>3, PTL DEF Spec

-----------------------------------------------------------------------------
\* The types.

\* An answer that is being stored as a private one is for a private question.
Shaped(op, privates) ==
  /\ op.kind = "cancel" => op.outcome = "cancelled"
  /\ op.kind = "submit" /\ op.at # "queued" => op.id \in privates

StopStates == {"none", "cancelling", "waiting", "rejected", "returned"}

ShapeInv ==
  /\ turn.recoveries <= MaxRecoveries /\ turn.calls <= MaxCalls
  /\ aborted \in BOOLEAN /\ queued \in BOOLEAN /\ prompts \in 0..MaxPrompts
  /\ private \subseteq Asks /\ receipts \subseteq private
  /\ \A k \in DOMAIN chain : Shaped(chain[k], private)
  /\ stop \in [Stops -> StopStates] /\ answers \in 0..MaxAnswers
  /\ accepted \subseteq [id : Asks, outcome : Outcomes]

ExecutorInv == RequestInv /\ AnswerInv /\ ShapeInv

LEMMA ShapesInit == Init => ShapeInv
<1>. SUFFICES ASSUME Init PROVE ShapeInv
  OBVIOUS
<1>1. turn.recoveries = 0 /\ turn.calls = 0
  BY DEF Init, Enter, NewRun
<1>2. DOMAIN chain = {}
  BY EmptySeq, LenProperties DEF Init, InitInteractions
<1>3. turn.recoveries <= MaxRecoveries /\ turn.calls <= MaxCalls /\ 0 \in 0..MaxPrompts /\ 0 \in 0..MaxAnswers
  BY <1>1, InteractionAssumption, ExecutorAssumption
<1>4. stop \in [Stops -> StopStates]
  BY DEF Init, InitInteractions, StopStates
<1>5. \A k \in DOMAIN chain : Shaped(chain[k], private)
  BY <1>2
<1>6. private = {} /\ receipts = {} /\ accepted = {} /\ answers = 0 /\ prompts = 0 /\ aborted = FALSE /\ queued = FALSE
  BY DEF Init, InitInteractions
<1>. QED BY <1>3, <1>4, <1>5, <1>6 DEF ShapeInv

\* The Turn alone moves.
LEMMA TurnShapes ==
  ASSUME ExecutorInv,
         \/ Checkpoint \/ Resolve \/ Respond \/ RequestFails \/ Retry \/ RunTool \/ Answered \/ FinishStep
         \/ Recover \/ Continue \/ Leave \/ Finalize \/ Finalized \/ Catch \/ Advance
  PROVE  ShapeInv'
<1>0. turn \in Turns /\ turn.recoveries <= MaxRecoveries /\ turn.calls <= MaxCalls
  BY DEF ExecutorInv, RequestInv, ShapeInv
<1>. USE DEF Goes, At, Throw, Result
<1>1. UNCHANGED <<interactions, aborted, prompts>> /\ queued' \in BOOLEAN
  BY DEF Checkpoint, Resolve, Respond, RequestFails, Retry, RunTool, Answered, FinishStep,
         Recover, Continue, Leave, Finalize, Finalized, Catch, Advance, ExecutorInv, ShapeInv
<1>2. turn'.recoveries <= MaxRecoveries /\ turn'.calls <= MaxCalls
  <2>1. CASE Checkpoint \/ Resolve \/ RequestFails \/ Retry
    BY <1>0, <2>1 DEF Checkpoint, Resolve, RequestFails, Retry, Turns
  <2>2. CASE Respond
    <3>1. PICK c \in 0..MaxCalls, incomplete \in BOOLEAN :
            turn' = [turn EXCEPT !.at = "tools", !.called = c > 0, !.incomplete = incomplete,
                                 !.calls = IF turn.final THEN 0 ELSE c]
      BY <2>2 DEF Respond
    <3>2. turn'.recoveries = turn.recoveries /\ turn'.calls \in 0..MaxCalls
      BY <1>0, <3>1, ExecutorAssumption DEF Turns
    <3>. QED BY <1>0, <3>2
  <2>3. CASE RunTool
    <3>1. turn' = [turn EXCEPT !.calls = turn.calls - 1] /\ turn.calls \in Nat /\ turn.calls > 0
      BY <1>0, <2>3 DEF RunTool, Turns
    <3>2. turn'.recoveries = turn.recoveries /\ turn'.calls = turn.calls - 1
      BY <1>0, <3>1 DEF Turns
    <3>. QED BY <1>0, <3>1, <3>2, ExecutorAssumption
  <2>4. CASE Answered \/ FinishStep \/ Leave \/ Finalize \/ Finalized \/ Catch
    BY <1>0, <2>4 DEF Answered, FinishStep, Leave, Finalize, Finalized, Catch, Turns
  <2>5. CASE Recover
    <3>1. CASE turn.recoveries < MaxRecoveries /\ turn' = Enter([turn EXCEPT !.recoveries = turn.recoveries + 1])
      <4>1. turn'.recoveries = turn.recoveries + 1 /\ turn'.calls = turn.calls
        BY <1>0, <3>1 DEF Enter, Turns
      <4>2. turn.recoveries \in Nat /\ MaxRecoveries \in Nat
        BY <1>0, ExecutorAssumption DEF Turns
      <4>. QED BY <1>0, <3>1, <4>1, <4>2
    <3>2. CASE turn' = [turn EXCEPT !.at = "caught", !.error = "failed"]
      BY <1>0, <3>2 DEF Turns
    <3>. QED BY <2>5, <3>1, <3>2 DEF Recover, MayRecover
  <2>6. CASE Continue
    <3>1. turn'.recoveries = 0 /\ turn'.calls = turn.calls
      BY <1>0, <2>6 DEF Continue, Enter, Turns
    <3>. QED BY <1>0, <3>1, ExecutorAssumption
  <2>7. CASE Advance
    <3>1. turn'.recoveries \in {0, turn.recoveries} /\ turn'.calls \in {0, turn.calls}
      BY <1>0, <2>7 DEF Advance, Enter, AfterAdvance, NewRun, Turns
    <3>. QED BY <1>0, <3>1, ExecutorAssumption
  <2>. QED BY <2>1, <2>2, <2>3, <2>4, <2>5, <2>6, <2>7
<1>. QED BY <1>1, <1>2 DEF ExecutorInv, ShapeInv, interactions

LEMMA AskShapes ==
  ASSUME ExecutorInv, Asked \/ \E i \in Asks : Ask(i)
  PROVE  ShapeInv'
<1>0. turn \in Turns /\ turn.recoveries <= MaxRecoveries /\ turn.calls <= MaxCalls
  BY DEF ExecutorInv, RequestInv, ShapeInv
<1>1. CASE Asked
  <2>1. turn'.recoveries = turn.recoveries /\ turn'.calls = turn.calls
        /\ UNCHANGED <<aborted, queued, prompts, private, receipts, chain, stop, answers, accepted>>
    BY <1>0, <1>1 DEF Asked, Requested, NotRequested, At, Turns
  <2>. QED BY <1>0, <2>1 DEF ExecutorInv, ShapeInv
<1>2. ASSUME NEW i \in Asks, Ask(i) PROVE ShapeInv'
  <2>1. /\ UNCHANGED <<aborted, queued, prompts, receipts, chain, stop, answers, accepted>>
        /\ private' \in {private, private \cup {i}}
        /\ turn' = [turn EXCEPT !.at = "asking", !.calls = turn.calls - 1, !.ask = i]
    BY <1>2 DEF Ask, Request
  <2>2. turn'.recoveries = turn.recoveries /\ turn'.calls = turn.calls - 1 /\ turn.calls \in Nat
    BY <1>0, <2>1 DEF Turns
  <2>3. turn'.recoveries <= MaxRecoveries /\ turn'.calls <= MaxCalls
    BY <1>0, <2>2, ExecutorAssumption
  <2>4. private \subseteq private' /\ private' \subseteq Asks
    BY <2>1 DEF ExecutorInv, ShapeInv
  <2>5. \A k \in DOMAIN chain : Shaped(chain[k], private')
    BY <2>4 DEF ExecutorInv, ShapeInv, Shaped
  <2>6. receipts \subseteq private'
    BY <2>4 DEF ExecutorInv, ShapeInv
  <2>. QED BY <2>1, <2>3, <2>4, <2>5, <2>6 DEF ExecutorInv, ShapeInv
<1>. QED BY <1>1, <1>2

\* The first operation ends or goes on, or another one comes.
LEMMA EndShapes ==
  ASSUME ExecutorInv, 1 \in DOMAIN chain, Ends(1)
  PROVE  \A k \in DOMAIN chain' : Shaped(chain'[k], private)
<1>1. chain \in Seq(Ops)
  BY DEF ExecutorInv, AnswerInv, Serial
<1>2. \A k \in DOMAIN chain' : k + 1 \in DOMAIN chain /\ chain'[k] = chain[k + 1]
  BY <1>1, WithoutFirst DEF Ends
<1>. QED BY <1>2 DEF ExecutorInv, ShapeInv

LEMMA GoOnShapes ==
  ASSUME ExecutorInv, 1 \in DOMAIN chain, NEW op, Shaped(op, private), chain' = [chain EXCEPT ![1] = op]
  PROVE  \A k \in DOMAIN chain' : Shaped(chain'[k], private)
  BY DEF ExecutorInv, ShapeInv

LEMMA OperationShapes ==
  ASSUME ExecutorInv, Chain
  PROVE  ShapeInv'
<1>1. /\ 1 \in DOMAIN chain /\ UNCHANGED <<turn, aborted, queued, prompts>>
      /\ \/ BeginAnswer(1) \/ StoreAnswer(1) \/ EndAnswer(1)
         \/ BeginCancel(1) \/ CancelNext(1) \/ StoreCancel(1) \/ EndCancel(1) \/ Cancelled(1)
  BY DEF Chain, Operate, Runs
<1>. DEFINE op == chain[1]
<1>2. op \in Ops /\ Shaped(op, private) /\ (op.kind # "cancel" => op.id \in Asks /\ op.outcome \in Outcomes)
  BY <1>1, Running DEF ExecutorInv, ShapeInv
<1>3. private' = private /\ answers' = answers
  BY <1>1 DEF BeginAnswer, StoreAnswer, EndAnswer, BeginCancel, CancelNext, StoreCancel, EndCancel, Cancelled
<1>4. CASE BeginAnswer(1)
  <2>1. UNCHANGED <<receipts, stop>>
    BY <1>4 DEF BeginAnswer
  <2>2. accepted' \subseteq [id : Asks, outcome : Outcomes]
    BY <1>2, <1>4 DEF BeginAnswer, Told, Outcomes, ExecutorInv, ShapeInv
  <2>3. \A k \in DOMAIN chain' : Shaped(chain'[k], private)
    <3>1. CASE Ends(1)
      BY <1>1, <3>1, EndShapes
    <3>2. CASE chain' = [chain EXCEPT ![1].at = "storing"] /\ ((op.kind = "submit") = (op.id \in private))
      <4>. DEFINE next == [op EXCEPT !.at = "storing"]
      <4>1. chain' = [chain EXCEPT ![1] = next]
        BY <3>2
      <4>2. next.kind = op.kind /\ next.outcome = op.outcome /\ next.id = op.id
        BY <1>2 DEF Ops
      <4>3. Shaped(next, private)
        BY <1>2, <3>2, <4>2 DEF Shaped
      <4>. HIDE DEF next
      <4>. QED BY <1>1, <4>1, <4>3, GoOnShapes
    <3>. QED BY <1>4, <3>1, <3>2 DEF BeginAnswer
  <2>. QED BY <1>1, <1>3, <2>1, <2>2, <2>3 DEF ExecutorInv, ShapeInv
<1>5. CASE StoreAnswer(1)
  <2>1. UNCHANGED <<receipts, stop, accepted>>
    BY <1>5 DEF StoreAnswer
  <2>2. CASE Ends(1)
    BY <1>1, <1>3, <2>1, <2>2, EndShapes DEF ExecutorInv, ShapeInv
  <2>3. CASE chain' = [chain EXCEPT ![1].at = "stored"] /\ op.at = "storing"
    <3>. DEFINE next == [op EXCEPT !.at = "stored"]
    <3>1. chain' = [chain EXCEPT ![1] = next]
      BY <2>3
    <3>2. next.kind = op.kind /\ next.outcome = op.outcome /\ next.id = op.id
      BY <1>2 DEF Ops
    <3>3. Shaped(next, private)
      BY <1>2, <2>3, <3>2 DEF Shaped
    <3>. HIDE DEF next
    <3>4. \A k \in DOMAIN chain' : Shaped(chain'[k], private)
      BY <1>1, <3>1, <3>3, GoOnShapes
    <3>. QED BY <1>1, <1>3, <2>1, <3>4 DEF ExecutorInv, ShapeInv
  <2>. QED BY <1>5, <2>2, <2>3 DEF StoreAnswer
<1>6. CASE EndAnswer(1)
  <2>1. UNCHANGED stop /\ Ends(1) /\ receipts' \subseteq private
    BY <1>2, <1>6 DEF EndAnswer, Shaped, ExecutorInv, ShapeInv
  <2>2. accepted' \subseteq [id : Asks, outcome : Outcomes]
    BY <1>2, <1>6 DEF EndAnswer, Told, ExecutorInv, ShapeInv
  <2>. QED BY <1>1, <1>3, <2>1, <2>2, EndShapes DEF ExecutorInv, ShapeInv
<1>7. CASE BeginCancel(1) \/ CancelNext(1) \/ StoreCancel(1) \/ EndCancel(1)
  <2>1. UNCHANGED <<receipts, stop, accepted>> /\ op.kind = "cancel"
    BY <1>7 DEF BeginCancel, CancelNext, StoreCancel, EndCancel
  <2>2. ASSUME NEW next, next.kind = "cancel", next.outcome = op.outcome, chain' = [chain EXCEPT ![1] = next]
        PROVE  ShapeInv'
    <3>1. Shaped(next, private)
      BY <1>2, <2>1, <2>2 DEF Shaped
    <3>2. \A k \in DOMAIN chain' : Shaped(chain'[k], private)
      BY <1>1, <2>2, <3>1, GoOnShapes
    <3>. QED BY <1>1, <1>3, <2>1, <3>2 DEF ExecutorInv, ShapeInv
  <2>3. ASSUME NEW at, NEW rest, NEW failed, chain' = [chain EXCEPT ![1].at = at, ![1].rest = rest, ![1].failed = failed]
        PROVE  ShapeInv'
    <3>. DEFINE next == [op EXCEPT !.at = at, !.rest = rest, !.failed = failed]
    <3>1. next.kind = "cancel" /\ next.outcome = op.outcome
      BY <1>2, <2>1 DEF Ops
    <3>2. chain' = [chain EXCEPT ![1] = next]
      BY <2>3
    <3>. HIDE DEF next
    <3>. QED BY <2>2, <3>1, <3>2
  <2>4. CASE BeginCancel(1)
    <3>1. chain' = [chain EXCEPT ![1] = [op EXCEPT !.at = "next", !.rest = pending]]
      BY <2>4 DEF BeginCancel
    <3>2. [op EXCEPT !.at = "next", !.rest = pending].kind = "cancel"
          /\ [op EXCEPT !.at = "next", !.rest = pending].outcome = op.outcome
      BY <1>2, <2>1 DEF Ops
    <3>. QED BY <2>2, <3>1, <3>2
  <2>5. CASE CancelNext(1)
    <3>. DEFINE i == First(op.rest)
                next == IF message[i] = "pending" THEN [op EXCEPT !.at = "storing"]
                        ELSE [op EXCEPT !.rest = op.rest \ {i}, !.failed = TRUE]
    <3>1. chain' = [chain EXCEPT ![1] = next]
      BY <2>5 DEF CancelNext
    <3>2. next.kind = "cancel" /\ next.outcome = op.outcome
      BY <1>2, <2>1 DEF Ops
    <3>. HIDE DEF next
    <3>. QED BY <2>2, <3>1, <3>2
  <2>6. CASE StoreCancel(1)
    <3>1. CASE chain' = [chain EXCEPT ![1].at = "stored"]
      <4>1. chain' = [chain EXCEPT ![1] = [op EXCEPT !.at = "stored"]]
        BY <3>1
      <4>2. [op EXCEPT !.at = "stored"].kind = "cancel" /\ [op EXCEPT !.at = "stored"].outcome = op.outcome
        BY <1>2, <2>1 DEF Ops
      <4>. QED BY <2>2, <4>1, <4>2
    <3>2. CASE chain' = [chain EXCEPT ![1].at = "next", ![1].rest = @ \ {First(chain[1].rest)}, ![1].failed = TRUE]
      BY <2>3, <3>2
    <3>. QED BY <2>6, <3>1, <3>2 DEF StoreCancel
  <2>7. CASE EndCancel(1)
    <3>. DEFINE next == [op EXCEPT !.at = "next", !.rest = op.rest \ {First(op.rest)}]
    <3>1. chain' = [chain EXCEPT ![1] = next]
      BY <2>7 DEF EndCancel
    <3>2. next.kind = "cancel" /\ next.outcome = op.outcome
      BY <1>2, <2>1 DEF Ops
    <3>. HIDE DEF next
    <3>. QED BY <2>2, <3>1, <3>2
  <2>. QED BY <1>7, <2>4, <2>5, <2>6, <2>7
<1>8. CASE Cancelled(1)
  <2>1. UNCHANGED <<receipts, accepted>> /\ Ends(1) /\ stop' \in [Stops -> StopStates]
    BY <1>8 DEF Cancelled, ExecutorInv, ShapeInv, StopStates
  <2>. QED BY <1>1, <1>3, <2>1, EndShapes DEF ExecutorInv, ShapeInv
<1>. QED BY <1>1, <1>4, <1>5, <1>6, <1>7, <1>8

\* Users answer, stops and prompts come.
LEMMA OutsideShapes ==
  ASSUME ExecutorInv, Users \/ Prompt \/ (\E s \in Stops : Abort(s) \/ StopReturns(s)) \/ UNCHANGED vars
  PROVE  ShapeInv'
<1>1. UNCHANGED <<turn, private, receipts, accepted>>
  BY DEF Users, Answer, Prompt, Abort, Stop, StopReturns, vars, interactions
<1>2. /\ aborted' \in BOOLEAN /\ queued' \in BOOLEAN /\ prompts' \in 0..MaxPrompts
      /\ answers' \in 0..MaxAnswers /\ stop' \in [Stops -> StopStates]
  <2>0. /\ aborted \in BOOLEAN /\ queued \in BOOLEAN /\ prompts \in 0..MaxPrompts
        /\ answers \in 0..MaxAnswers /\ stop \in [Stops -> StopStates]
    BY DEF ExecutorInv, ShapeInv
  <2>1. CASE Users
    <3>1. UNCHANGED <<aborted, queued, prompts, stop>> /\ answers' = answers + 1 /\ answers < MaxAnswers
      BY <2>1 DEF Users, Answer
    <3>. QED BY <2>0, <3>1, InteractionAssumption
  <2>2. CASE Prompt
    <3>1. UNCHANGED <<aborted, answers, stop>> /\ queued' = TRUE /\ prompts' = prompts + 1 /\ prompts < MaxPrompts
      BY <2>2 DEF Prompt, interactions
    <3>. QED BY <2>0, <3>1, ExecutorAssumption
  <2>3. CASE \E s \in Stops : Abort(s) \/ StopReturns(s)
    <3>1. UNCHANGED <<queued, answers, prompts>> /\ aborted' \in {TRUE, aborted}
      BY <2>3 DEF Abort, Stop, StopReturns
    <3>2. stop' \in [Stops -> StopStates]
      BY <2>0, <2>3 DEF Abort, Stop, StopReturns, StopStates
    <3>. QED BY <2>0, <3>1, <3>2
  <2>4. CASE UNCHANGED vars
    BY <2>0, <2>4 DEF vars, interactions
  <2>. QED BY <2>1, <2>2, <2>3, <2>4
<1>3. \A k \in DOMAIN chain' : Shaped(chain'[k], private)
  <2>1. CASE chain' = chain
    BY <2>1 DEF ExecutorInv, ShapeInv
  <2>2. ASSUME NEW op, Shaped(op, private), chain' = Append(chain, op)
        PROVE  \A k \in DOMAIN chain' : Shaped(chain'[k], private)
    <3>1. chain \in Seq(Ops)
      BY DEF ExecutorInv, AnswerInv, Serial
    <3>2. \A k \in DOMAIN chain' : (k \in DOMAIN chain /\ chain'[k] = chain[k]) \/ chain'[k] = op
      BY <2>2, <3>1
    <3>. QED BY <2>2, <3>2 DEF ExecutorInv, ShapeInv
  <2>3. CASE Users
    <3>1. PICK i \in Asks : Answer(i)
      BY <2>3 DEF Users
    <3>2. PICK kind \in {"respond", "submit"}, outcome \in Outcomes :
            chain' = Append(chain, Operation(kind, i, outcome))
      BY <3>1 DEF Answer, Outcomes
    <3>3. Shaped(Operation(kind, i, outcome), private)
      BY DEF Operation, Shaped
    <3>. QED BY <2>2, <3>2, <3>3
  <2>4. ASSUME NEW s \in Stops, Abort(s) PROVE \A k \in DOMAIN chain' : Shaped(chain'[k], private)
    <3>1. chain' = Append(chain, Operation("cancel", s, "cancelled"))
      BY <2>4 DEF Abort, Stop
    <3>2. Shaped(Operation("cancel", s, "cancelled"), private)
      BY DEF Operation, Shaped
    <3>. QED BY <2>2, <3>1, <3>2
  <2>. QED BY <2>1, <2>3, <2>4 DEF Prompt, StopReturns, vars, interactions
<1>. QED BY <1>1, <1>2, <1>3 DEF ExecutorInv, ShapeInv

LEMMA ExecutorStep == ExecutorInv /\ [Next]_vars => ExecutorInv'
<1>. SUFFICES ASSUME ExecutorInv, [Next]_vars PROVE ExecutorInv'
  OBVIOUS
<1>1. RequestInv' /\ AnswerInv'
  BY RequestsStep, AnswersStep DEF ExecutorInv, RequestInv
<1>2. ShapeInv'
  BY TurnShapes, AskShapes, OperationShapes, OutsideShapes DEF Next, Step
<1>. QED BY <1>1, <1>2 DEF ExecutorInv

LEMMA ShapesAreTypes == ExecutorInv => TypeOK
<1>. SUFFICES ASSUME ExecutorInv PROVE TypeOK
  OBVIOUS
<1>. DEFINE Typed == [kind : {"respond", "submit", "cancel"}, id : Asks \cup Stops,
                      outcome : Outcomes \cup {"cancelled"}, at : {"queued", "next", "storing", "stored"},
                      rest : SUBSET Asks, failed : BOOLEAN]
<1>1. chain \in Seq(Typed)
  <2>1. chain \in Seq(Ops) /\ Len(chain) \in Nat /\ DOMAIN chain = 1..Len(chain)
    BY LenProperties DEF ExecutorInv, AnswerInv, Serial
  <2>2. ASSUME NEW k \in DOMAIN chain PROVE chain[k] \in Typed
    <3>1. chain[k] \in Ops /\ chain[k].outcome \in Outcomes \cup {"cancelled"}
      BY <2>1 DEF ExecutorInv, ShapeInv, Shaped, AnswerInv, Serial
    <3>. QED BY <3>1 DEF Ops
  <2>. HIDE DEF Typed
  <2>3. chain = [k \in 1..Len(chain) |-> chain[k]]
    BY <2>1
  <2>. QED BY <2>1, <2>2, <2>3
<1>2. turn \in [at : Awaits, steps : 0..MaxSteps + 1, recoveries : 0..MaxRecoveries,
                attempt : 0..MaxAttempts, advances : 0..MaxAdvances, calls : 0..MaxCalls,
                called : BOOLEAN, incomplete : BOOLEAN, final : BOOLEAN, ask : Asks \cup {0},
                error : {"none", "failed", "context_limit"},
                outcome : {"none", "success", "failure", "stopped"}]
  <2>1. turn \in Turns /\ turn.recoveries <= MaxRecoveries /\ turn.calls <= MaxCalls
        /\ turn.attempt <= MaxAttempts /\ (turn.steps <= MaxSteps \/ turn.steps = MaxSteps + 1)
    BY DEF ExecutorInv, RequestInv, ShapeInv, Within
  <2>2. /\ turn.steps \in 0..MaxSteps + 1 /\ turn.recoveries \in 0..MaxRecoveries
        /\ turn.attempt \in 0..MaxAttempts /\ turn.calls \in 0..MaxCalls
    BY <2>1, ExecutorAssumption DEF Turns
  <2>. QED BY <2>1, <2>2 DEF Turns
<1>3. pending \subseteq Asks /\ message \in [Asks -> Statuses \cup {"pending"}]
      /\ result \in [Asks -> Statuses \cup {"refused"}] /\ requests \in Nat
  BY DEF ExecutorInv, AnswerInv, Waiting, RequestInv
<1>. QED BY <1>1, <1>2, <1>3 DEF TypeOK, ExecutorInv, ShapeInv, StopStates

\* The locals of the loop stay within its limits: steps, recoveries, attempts and advances are never
\* counted beyond them (SessionExecutor.ts, ToolLoopLimits.ts:13), and only private questions have
\* private receipts.
THEOREM ExecutorTypes == Spec => []TypeOK
<1>1. Init => ExecutorInv
  BY RequestsInit, AnswersInit, ShapesInit DEF ExecutorInv
<1>. QED BY <1>1, ExecutorStep, ShapesAreTypes, PTL DEF Spec
=============================================================================
