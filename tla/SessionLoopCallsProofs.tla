----------------------- MODULE SessionLoopCallsProofs ------------------------
(***************************************************************************)
(* What SessionLoop promises its callers, for any calls, actors, faults    *)
(* and number of crashes: the counter of prompts equals the queue, what is *)
(* queued will be seen by a Turn that may see it, the result of a          *)
(* delegation stays in its Turn, a request is stored once, no lease is     *)
(* lost and a caller is told what is recorded.  CallsInv is the            *)
(* strengthening: a command stands in line once, and the window of a Turn  *)
(* is closed before the last look at the queue is over.  Then: whoever     *)
(* waits is served (ServedInv); and, for SessionAuthors, with any records  *)
(* failing, the authors of a Turn whose execution is known and the handles *)
(* on it (AuthorsInv).                                                     *)
(***************************************************************************)
EXTENDS SessionLoopProofs, SessionAuthors

-----------------------------------------------------------------------------
\* The strengthening.

Once(q) == \A i, j \in DOMAIN q : q[i] = q[j] => i = j

\* A command stands in one place: in the queue, in the batch that is absorbed, or with the loop.
Line ==
  /\ Once(queue) /\ Once(drained)
  /\ \A i \in DOMAIN queue : pc[queue[i]] = "queued"
  /\ \A j \in DOMAIN drained :
       pc[drained[j]] = "queued" /\ \A i \in DOMAIN queue : queue[i] # drained[j]
  /\ phase # "drain" => drained = <<>>
  /\ phase \in {"persist", "maintenance"} =>
       pc[current] = "queued" /\ \A i \in DOMAIN queue : queue[i] # current

\* The window of a Turn that ends is closed, and so is the one of a Turn that stop fails.  Nobody
\* resumes a submission while a Turn is active.
Window ==
  /\ phase \in {"closing", "sealing", "finishing", "failing"} => closing
  /\ phase \notin TurnPhases => active_turn = NoTurn \/ closing
  /\ \A c \in Calls : pc[c] = "woken" => active_turn = NoTurn

\* A result that stands in line has its Turn before it.
ResultsInTurn ==
  /\ \A c \in Cancelled(queue, Results) : active_turn = TargetOf[c]
  /\ \A c \in Cancelled(drained, Results) : active_turn = TargetOf[c]
  /\ phase = "persist" => current \notin Results

\* A delivery is answered at once or queued, it is not admitted like a prompt.
ResultPcs == {"idle", "queued", "accepted", "rejected", "saved", "lost"}
ResultsApart == \A c \in Results : pc[c] \in ResultPcs

LineInv == Line /\ PendingCountExact /\ Window /\ QueuedIsCurrent /\ ResultsInTurn

\* Only an accepted call is told how its Turn ended, and it knows the Turn.
ToldWhenAccepted ==
  \A c \in Calls : /\ outcome[c] # "pending" => pc[c] = "accepted"
                   /\ pc[c] = "accepted" => handle[c] \in Keys

\* A call in progress is neither waiting for the finish of a Turn nor kept for a later one.
Working == {"idle", "reading", "waiting", "joining", "preparing", "sharing", "resolving", "blocked",
            "woken", "queued"}

\* The submissions of one key that may still store its message.
Storing == {"resolving", "blocked", "woken", "queued"}

\* Before the message of a key is stored one submission is in charge of it, and its retries see it.
InCharge ==
  /\ \A c \in Calls : pc[c] \in Working => c \notin on_finish \cup failed_releases
  /\ \A c \in Calls \ Results : pc[c] \in {"preparing"} \cup Storing =>
       holder[c] # NoActor \/ message[KeyOf[c]] # NoMessage
  /\ \A c \in Calls : pc[c] = "joining" => message[KeyOf[c]] # NoMessage
  /\ \A c, d \in Calls :
       pc[c] \in Storing /\ pc[d] \in Storing /\ KeyOf[c] = KeyOf[d] /\ c # d
         => message[KeyOf[c]] # NoMessage

\* A command that stands in line knows whether its message is stored.
KnowsStored ==
  \A c \in Calls : pc[c] = "queued" => (command[c].stored <=> message[KeyOf[c]] # NoMessage)

ToldInv == ToldWhenAccepted /\ SettledAsRecorded

StoreInv == InCharge /\ KnowsStored /\ StoredOnce /\ ResultStaysInItsTurn

CallsInv == ResultsApart /\ LineInv /\ NoLeaseLost /\ ToldInv /\ StoreInv

-----------------------------------------------------------------------------
\* The calls that deliver results.

\* No step brings a delivery where only prompts go.
Apart(c) == pc'[c] = pc[c] \/ pc'[c] \in ResultPcs

LEMMA ResultsTyped ==
  ASSUME IInv, ResultsApart
  PROVE  /\ Results \subseteq Calls /\ Results \subseteq Commands /\ Calls \subseteq Commands
         /\ Maintenance \subseteq Commands /\ Maintenance \cap Calls = {}
         /\ pc \in [Commands -> CallPcs \cup {"done"}]
BY LoopAssumption DEF IInv, TypeOK, Commands

LEMMA CallsStayApart ==
  ASSUME IInv, ResultsApart, NEW c \in Calls, Prompt(c) \/ AcceptDelegationResult(c) \/ CallStep(c)
  PROVE  \A r \in Results : Apart(r)
<1> USE ResultsTyped
<1>1. CASE Prompt(c)
  BY <1>1 DEF Prompt, Apart
<1>2. CASE AcceptDelegationResult(c)
  BY <1>2 DEF AcceptDelegationResult, Enqueue, Apart, ResultPcs
<1>3. ASSUME pc[c] \notin ResultPcs,
             \/ \E S : Rejected(S) \/ \E t : Accepted(S, t)
             \/ \E v : pc' = [pc EXCEPT ![c] = v]
      PROVE  \A r \in Results : Apart(r)
  BY <1>3 DEF Rejected, Accepted, Apart, ResultPcs, ResultsApart
<1>4. CASE Admit(c)
  BY <1>3, <1>4 DEF Admit, Arbitrate, Refuse, ResultPcs
<1>5. CASE EnsureRunnable(c) \/ PromptWithIdentity(c) \/ ResumeSubmission(c)
  BY <1>3, <1>5 DEF EnsureRunnable, PromptWithIdentity, ResumeSubmission, Fail, Move, Submit, Enqueue,
                    Join, ResultPcs
<1> QED
  BY <1>1, <1>2, <1>4, <1>5 DEF CallStep

LEMMA LoopStaysApart ==
  ASSUME IInv, ResultsApart, LoopStep
  PROVE  \A r \in Results : Apart(r)
<1> USE ResultsTyped
<1>1. ASSUME \/ UNCHANGED pc
             \/ \E S : Rejected(S) \/ \E t : Accepted(S, t)
             \/ \E m \in Maintenance : pc' = [pc EXCEPT ![m] = "done"]
             \/ \E status : Settle(status)
      PROVE  \A r \in Results : Apart(r)
  <2>1. CASE \E status : Settle(status)
    <3> SUFFICES ASSUME NEW r \in Results PROVE Apart(r)
      OBVIOUS
    <3>1. pc[r] \in ResultPcs
      BY DEF ResultsApart
    <3>2. PICK status : pc'[r] = WakeOnFinish(r, status # "unacknowledged")
      BY <2>1 DEF Settle
    <3> QED
      BY <3>1, <3>2 DEF WakeOnFinish, ResultPcs, Apart
  <2> QED
    BY <1>1, <2>1 DEF Rejected, Accepted, Apart, ResultPcs
<1>2. CASE TakeNext \/ DrainDone
  BY <1>1, <1>2 DEF TakeNext, DrainDone, callers
<1>3. CASE ExecuteMaintenance
  BY <1>1, <1>3 DEF ExecuteMaintenance, IInv, LoopOwnsTurn
<1>4. CASE StartTurn \/ AbsorbDrained
  BY <1>1, <1>4 DEF StartTurn, AbsorbDrained
<1>5. CASE ExecutorReturns \/ ChildrenSettle \/ TurnThrows
  BY <1>1, <1>5 DEF ExecutorReturns, ChildrenSettle, TurnThrows, AbsorbOrClose, CloseWindow
<1>6. CASE FixStatus
  <2>1. \A r \in Results : r \notin Cancelled(queue, Maintenance)
    BY CancelledMember
  <2> QED
    BY <1>6, <2>1 DEF FixStatus, Apart
<1>7. CASE PrepareCompletion \/ CompleteTurn \/ FailTurn
  BY <1>1, <1>7 DEF PrepareCompletion, CompleteTurn, FailTurn, Finished, Unacknowledged, callers
<1> QED
  BY <1>2, <1>3, <1>4, <1>5, <1>6, <1>7 DEF LoopStep

LEMMA NextApart == ASSUME IInv, ResultsApart, [Next]_vars PROVE ResultsApart'
<1> USE ResultsTyped
<1> SUFFICES \A r \in Results : Apart(r)
  BY DEF Apart, ResultsApart
<1>1. CASE LoopStep
  BY <1>1, LoopStaysApart
<1>2. ASSUME NEW c \in Calls, Prompt(c) \/ AcceptDelegationResult(c) \/ CallStep(c)
      PROVE  \A r \in Results : Apart(r)
  BY <1>2, CallsStayApart
<1>3. ASSUME NEW s \in Stoppers, StopBegin(s) \/ StopStep(s) PROVE \A r \in Results : Apart(r)
  <2>1. CASE StopBegin(s)
    BY <2>1 DEF StopBegin, Rejected, Apart, ResultPcs
  <2>2. CASE StopEnd(s)
    BY <2>2 DEF StopEnd, callers, Apart
  <2>3. CASE StopRecovers(s)
    <3> SUFFICES ASSUME NEW r \in Results PROVE Apart(r)
      OBVIOUS
    <3>1. pc[r] \in ResultPcs
      BY DEF ResultsApart
    <3>2. PICK status : pc'[r] = WakeOnFinish(r, status # "unacknowledged")
      BY <2>3 DEF StopRecovers, Finished, Unacknowledged, Settle
    <3> QED
      BY <3>1, <3>2 DEF WakeOnFinish, ResultPcs, Apart
  <2> QED
    BY <1>3, <2>1, <2>2, <2>3 DEF StopStep
<1>4. CASE InitializeOccupation \/ Checkpoint \/ UNCHANGED vars
  BY <1>4 DEF InitializeOccupation, Checkpoint, vars, callers, Apart
<1>5. CASE Crash
  BY <1>5 DEF Crash, Apart, ResultPcs
<1>6. ASSUME NEW m \in Maintenance, EnqueueMaintenance(m) PROVE \A r \in Results : Apart(r)
  BY <1>6 DEF EnqueueMaintenance, Apart
<1> QED
  BY <1>1, <1>2, <1>3, <1>4, <1>5, <1>6 DEF Next

-----------------------------------------------------------------------------
\* The line.

AtLoop == {"persist", "maintenance"}

NoPrompts == Cancelled(queue, Calls) = {} /\ Cancelled(drained, Calls) = {}

\* A step that moves nobody in the line; at most the loop is done with its command.
Steady ==
  /\ UNCHANGED <<queue, drained, pending_prompt_count, stop_generation>>
  /\ \A c \in Commands :
       pc[c] = "queued" /\ ~(phase \in AtLoop /\ c = current) => pc'[c] = "queued"
  /\ \A c \in Calls : pc[c] = "queued" => gen'[c] = gen[c]
  /\ phase' \in AtLoop => phase' = phase /\ current' = current /\ pc'[current] = pc[current]
  /\ phase' # "drain" => phase # "drain" \/ drained = <<>>

\* What the step does to the Turn and its window.
WindowMoves ==
  /\ phase' \in {"closing", "sealing", "finishing", "failing"} => closing'
  /\ phase' \notin TurnPhases => active_turn' = NoTurn \/ closing'
  /\ \A c \in Calls : pc'[c] = "woken" => active_turn' = NoTurn

Unmoved ==
  /\ Steady /\ WindowMoves
  /\ closing' /\ active_turn' # NoTurn => (closing /\ active_turn # NoTurn) \/ NoPrompts
  /\ active_turn' = active_turn \/ NoPrompts

LEMMA CommandsTyped ==
  ASSUME IInv
  PROVE  /\ queue \in Seq(Commands) /\ drained \in Seq(Commands) /\ pending_prompt_count \in Nat
         /\ \A i \in DOMAIN queue : queue[i] \in Commands
         /\ \A i \in DOMAIN drained : drained[i] \in Commands
         /\ IsFiniteSet(Calls) /\ Calls \subseteq Commands /\ Results \subseteq Calls
         /\ Maintenance \subseteq Commands /\ Calls \cap Maintenance = {}
BY LoopAssumption DEF IInv, TypeOK, Commands

LEMMA PromptsCounted ==
  /\ IsFiniteSet(Cancelled(queue, Calls)) /\ Cardinality(Cancelled(queue, Calls)) \in Nat
  /\ IsFiniteSet(Cancelled(drained, Calls)) /\ Cardinality(Cancelled(drained, Calls)) \in Nat
BY CancelledFinite, LoopAssumption

LEMMA UnmovedKeeps == ASSUME IInv, LineInv, Unmoved PROVE LineInv'
<1>1. /\ UNCHANGED <<queue, drained, pending_prompt_count, stop_generation>>
      /\ \A i \in DOMAIN queue : queue[i] \in Commands
      /\ \A i \in DOMAIN drained : drained[i] \in Commands
      /\ Results \subseteq Calls
  BY CommandsTyped DEF Unmoved, Steady
<1>2. Line'
  <2>1. \A i \in DOMAIN queue : pc'[queue[i]] = "queued"
    BY <1>1 DEF LineInv, Line, Unmoved, Steady, AtLoop
  <2>2. \A i \in DOMAIN drained : pc'[drained[i]] = "queued"
    BY <1>1 DEF LineInv, Line, Unmoved, Steady, AtLoop
  <2> QED
    BY <1>1, <2>1, <2>2 DEF LineInv, Line, Once, Unmoved, Steady, AtLoop
<1>3. PendingCountExact'
  BY <1>1 DEF LineInv, PendingCountExact
<1>4. Window'
  BY DEF Unmoved, WindowMoves, Window
<1>5. QueuedIsCurrent'
  <2>1. \A c \in Cancelled(queue, Calls) : pc[c] = "queued" /\ c \in Calls
    BY CancelledMember DEF LineInv, Line
  <2>2. \A c \in Cancelled(queue, Calls) \ Results : gen'[c] = stop_generation'
    BY <1>1, <2>1 DEF LineInv, QueuedIsCurrent, Unmoved, Steady
  <2>3. Closing' => Cancelled(queue, Calls) = {}
    BY DEF LineInv, QueuedIsCurrent, Unmoved, Closing, NoPrompts
  <2> QED
    BY <1>1, <2>2, <2>3 DEF QueuedIsCurrent
<1>6. ResultsInTurn'
  <2>1. NoPrompts => Cancelled(queue, Results) = {} /\ Cancelled(drained, Results) = {}
    BY <1>1, CancelledMember DEF NoPrompts
  <2>2. phase' = "persist" => current' \notin Results
    BY DEF LineInv, ResultsInTurn, Unmoved, Steady, AtLoop
  <2> QED
    BY <1>1, <2>1, <2>2 DEF LineInv, ResultsInTurn, Unmoved
<1> QED
  BY <1>2, <1>3, <1>4, <1>5, <1>6 DEF LineInv

\* A command joins the end of the queue.
Joins(c) ==
  /\ pc[c] # "queued" /\ queue' = Append(queue, c)
  /\ pc' = [pc EXCEPT ![c] = "queued"]
  /\ UNCHANGED <<drained, current, turn, stop_generation, gen>>
  /\ phase' = IF phase = "idle" THEN "take" ELSE phase
  /\ \/ c \in Maintenance /\ UNCHANGED pending_prompt_count
     \/ /\ c \in Calls /\ pending_prompt_count' = pending_prompt_count + 1
        /\ ~Closing
        /\ c \notin Results => gen[c] = stop_generation
        /\ c \in Results => active_turn = TargetOf[c]

LEMMA JoinsKeeps == ASSUME IInv, LineInv, NEW c \in Commands, Joins(c) PROVE LineInv'
<1>1. /\ queue \in Seq(Commands) /\ pending_prompt_count \in Nat
      /\ \A i \in DOMAIN queue : queue[i] \in Commands
      /\ \A i \in DOMAIN drained : drained[i] \in Commands
      /\ Results \subseteq Calls /\ Calls \cap Maintenance = {}
      /\ pc \in [Commands -> CallPcs \cup {"done"}]
  BY CommandsTyped DEF IInv, TypeOK
<1>2. /\ \A S : Cancelled(queue', S) = Cancelled(queue, S) \cup ({c} \cap S)
      /\ \A i \in DOMAIN queue' : queue'[i] = c \/ (i \in DOMAIN queue /\ queue'[i] = queue[i])
      /\ \A i \in DOMAIN queue' : i \notin DOMAIN queue => i = Len(queue) + 1
      /\ DOMAIN queue \subseteq DOMAIN queue'
      /\ \A i \in DOMAIN queue : queue'[i] = queue[i]
  BY <1>1, CancelledAppend DEF Joins
<1>3. /\ pc'[c] = "queued" /\ \A d \in Commands \ {c} : pc'[d] = pc[d]
      /\ \A i \in DOMAIN queue : queue[i] # c
      /\ \A j \in DOMAIN drained : drained[j] # c
      /\ phase \in AtLoop => current # c
  BY <1>1 DEF Joins, LineInv, Line, AtLoop
<1>4. Line'
  <2>1. Once(queue')
    BY <1>2, <1>3 DEF LineInv, Line, Once
  <2>2. \A i \in DOMAIN queue' : pc'[queue'[i]] = "queued"
    BY <1>1, <1>2, <1>3 DEF LineInv, Line
  <2>3. \A j \in DOMAIN drained :
          pc'[drained[j]] = "queued" /\ \A i \in DOMAIN queue' : queue'[i] # drained[j]
    BY <1>1, <1>2, <1>3 DEF LineInv, Line
  <2>4. phase' \in {"persist", "maintenance"} =>
          pc'[current] = "queued" /\ \A i \in DOMAIN queue' : queue'[i] # current
    <3>1. phase' \in {"persist", "maintenance"} => phase' = phase
      BY DEF Joins
    <3>2. phase \in {"persist", "maintenance"} => current \in Commands
      BY CommandsTyped DEF IInv, LoopOwnsTurn
    <3> QED
      BY <1>2, <1>3, <3>1, <3>2 DEF LineInv, Line, AtLoop
  <2>5. phase' # "drain" => drained = <<>>
    BY DEF Joins, LineInv, Line
  <2>6. drained' = drained /\ current' = current /\ Once(drained)
    BY DEF Joins, LineInv, Line
  <2> QED
    BY <2>1, <2>2, <2>3, <2>4, <2>5, <2>6 DEF Line
<1>5. PendingCountExact'
  <2>1. CASE c \in Maintenance
    <3>1. Cancelled(queue', Calls) = Cancelled(queue, Calls)
      <4>1. {c} \cap Calls = {}
        BY <2>1, LoopAssumption
      <4>2. Cancelled(queue', Calls) = Cancelled(queue, Calls) \cup ({c} \cap Calls)
        BY <1>2
      <4> QED
        BY ONLY <4>1, <4>2
    <3> QED
      BY <1>1, <2>1, <3>1 DEF LineInv, PendingCountExact, Joins
  <2>2. CASE c \in Calls
    <3>1. c \notin Cancelled(queue, Calls)
      BY <1>3, CancelledMember
    <3>2. Cardinality(Cancelled(queue', Calls)) = Cardinality(Cancelled(queue, Calls)) + 1
      <4>1. Cancelled(queue', Calls) = Cancelled(queue, Calls) \cup {c}
        BY <1>2, <2>2
      <4> QED
        BY <3>1, <4>1, PromptsCounted, FS_AddElement
    <3>3. drained' = drained /\ pending_prompt_count' = pending_prompt_count + 1
      BY <1>1, <2>2 DEF Joins
    <3> QED
      BY <3>2, <3>3, PromptsCounted DEF LineInv, PendingCountExact
  <2> QED
    BY <2>1, <2>2 DEF Joins
<1>6. Window'
  BY <1>3, CommandsTyped DEF LineInv, Window, Joins, turn, TurnPhases
<1>7. QueuedIsCurrent'
  BY <1>1, <1>2 DEF LineInv, QueuedIsCurrent, Joins, Closing, turn
<1>8. ResultsInTurn'
  <2>1. Cancelled(queue', Results) = Cancelled(queue, Results) \cup ({c} \cap Results)
    BY <1>2
  <2> QED
    BY <1>1, <2>1 DEF LineInv, ResultsInTurn, Joins, turn
<1> QED
  BY <1>4, <1>5, <1>6, <1>7, <1>8 DEF LineInv

\* The calls that are cancelled with the queue stand in it or share a submission.
LEMMA CancelledOrSharing ==
  /\ \A c \in CancelledCalls : c \in Cancelled(queue, Calls) \/ pc[c] = "sharing"
  /\ \A c \in Calls : \A d \in Sharing(c) : d = c \/ pc[d] = "sharing"
<1>1. \A c : \A d \in Sharing(c) : d = c \/ pc[d] = "sharing"
  BY DEF Sharing
<1> QED
  BY <1>1 DEF CancelledCalls

\* cancel empties the queue of prompts and the counter of those it held.
Emptied ==
  /\ CancelQueuedPrompts /\ UNCHANGED drained
  /\ \A c \in Commands \ Cancelled(queue, Calls) :
       pc[c] = "queued" /\ ~(phase \in AtLoop /\ phase' \notin AtLoop /\ c = current)
         => pc'[c] = "queued"
  /\ phase' \in AtLoop => phase' = phase /\ current' = current
  /\ phase' # "drain" => phase # "drain" \/ drained = <<>>
  /\ WindowMoves
  /\ active_turn' = active_turn \/ drained = <<>>

LEMMA EmptiedKeeps == ASSUME IInv, LineInv, Emptied PROVE LineInv'
<1> DEFINE K == {queue[i] : i \in DOMAIN queue} \ Calls
<1>1. /\ queue \in Seq(Commands) /\ queue' = Keep(queue, K) /\ pending_prompt_count \in Nat
      /\ \A i \in DOMAIN queue : queue[i] \in Commands
      /\ \A i \in DOMAIN drained : drained[i] \in Commands
      /\ Results \subseteq Calls
  BY CommandsTyped DEF Emptied, CancelQueuedPrompts, AfterCancel
<1>2. /\ {queue'[n] : n \in DOMAIN queue'} = {queue[i] : i \in DOMAIN queue} \cap K
      /\ Once(queue) => Once(queue')
  <2> HIDE DEF K
  <2>1. /\ {Keep(queue, K)[n] : n \in DOMAIN Keep(queue, K)} = {queue[i] : i \in DOMAIN queue} \cap K
        /\ (\A i, j \in DOMAIN queue : queue[i] = queue[j] => i = j)
             => \A m, n \in DOMAIN Keep(queue, K) : Keep(queue, K)[m] = Keep(queue, K)[n] => m = n
    BY <1>1, KeepMembers
  <2> QED
    BY <1>1, <2>1 DEF Once
<1>3. \A n \in DOMAIN queue' : queue'[n] \notin Calls /\ \E i \in DOMAIN queue : queue[i] = queue'[n]
  BY <1>2
<1>4. \A S \in SUBSET Calls : Cancelled(queue', S) = {}
  BY <1>3, CancelledMember
<1>5. /\ \A i \in DOMAIN queue : pc[queue[i]] = "queued"
      /\ \A j \in DOMAIN drained :
           pc[drained[j]] = "queued" /\ \A i \in DOMAIN queue : queue[i] # drained[j]
      /\ phase \in AtLoop => pc[current] = "queued" /\ \A i \in DOMAIN queue : queue[i] # current
      /\ phase # "drain" => drained = <<>>
      /\ Once(queue) /\ Once(drained) /\ drained' = drained
  BY DEF LineInv, Line, Emptied, AtLoop
<1>6. Line'
  <2>1. \A n \in DOMAIN queue' : pc'[queue'[n]] = "queued"
    <3> SUFFICES ASSUME NEW n \in DOMAIN queue' PROVE pc'[queue'[n]] = "queued"
      OBVIOUS
    <3>1. PICK i \in DOMAIN queue : queue[i] = queue'[n]
      BY <1>3
    <3>2. queue[i] \in Commands /\ pc[queue[i]] = "queued" /\ queue[i] \notin Cancelled(queue, Calls)
      BY <1>1, <1>3, <1>5, <3>1, CancelledMember
    <3>3. ~(phase \in AtLoop /\ queue[i] = current)
      BY <1>5
    <3> QED
      BY <3>1, <3>2, <3>3 DEF Emptied
  <2>2. \A j \in DOMAIN drained : drained[j] \notin Cancelled(queue, Calls) /\ phase = "drain"
    BY <1>5, CancelledMember
  <2>3. \A j \in DOMAIN drained : pc'[drained[j]] = "queued"
    BY <1>1, <1>5, <2>2 DEF Emptied, AtLoop
  <2>4. phase' \in AtLoop =>
          pc'[current'] = "queued" /\ \A n \in DOMAIN queue' : queue'[n] # current'
    <3>1. phase' \in AtLoop => current \in Commands /\ current \notin Cancelled(queue, Calls)
      BY <1>5, CommandsTyped, CancelledMember DEF Emptied, IInv, LoopOwnsTurn, AtLoop
    <3> QED
      BY <1>3, <1>5, <3>1 DEF Emptied
  <2>5. phase' # "drain" => drained = <<>>
    BY <1>5 DEF Emptied
  <2>6. \A j \in DOMAIN drained : \A n \in DOMAIN queue' : queue'[n] # drained[j]
    BY <1>3, <1>5
  <2> QED
    BY <1>2, <1>5, <2>1, <2>3, <2>4, <2>5, <2>6 DEF Line, AtLoop
<1>7. PendingCountExact'
  <2>1. pending_prompt_count =
          Cardinality(Cancelled(queue, Calls)) + Cardinality(Cancelled(drained, Calls))
    BY DEF LineInv, PendingCountExact
  <2>2. pending_prompt_count' = CountWithout(Cardinality(Cancelled(queue, Calls)))
    BY DEF Emptied, CancelQueuedPrompts
  <2>3. pending_prompt_count' = Cardinality(Cancelled(drained, Calls))
    BY <2>1, <2>2, PromptsCounted DEF CountWithout
  <2>4. Cancelled(queue', Calls) = {}
    BY <1>4
  <2> QED
    BY <1>5, <2>3, <2>4, FS_EmptySet, PromptsCounted DEF PendingCountExact
<1>8. QueuedIsCurrent'
  BY <1>4 DEF QueuedIsCurrent
<1>9. ResultsInTurn'
  <2>1. drained = <<>> => Cancelled(drained, Results) = {}
    BY CancelledMember
  <2>2. phase' = "persist" => current' \notin Results
    BY DEF LineInv, ResultsInTurn, Emptied, AtLoop
  <2>3. Cancelled(queue', Results) = {}
    BY <1>1, <1>4
  <2>4. \A c \in Cancelled(drained, Results) : active_turn' = TargetOf[c]
    BY <2>1 DEF LineInv, ResultsInTurn, Emptied
  <2> QED
    BY <1>5, <2>2, <2>3, <2>4 DEF ResultsInTurn
<1> QED
  BY <1>6, <1>7, <1>8, <1>9 DEF LineInv, Emptied, WindowMoves, Window

\* The queue becomes the batch that is absorbed.
Batched ==
  /\ phase \in {"run", "children"} /\ phase' = "drain" /\ drained' = queue /\ queue' = <<>>
  /\ UNCHANGED <<pending_prompt_count, pc, turn>>

LEMMA BatchedKeeps == ASSUME IInv, LineInv, Batched PROVE LineInv'
<1>1. drained = <<>> /\ DOMAIN queue' = {} /\ drained' = queue /\ queue' = <<>> /\ pc' = pc
  BY DEF Batched, LineInv, Line
<1>2. Line'
  BY <1>1 DEF Batched, LineInv, Line, Once
<1>3. \A S : Cancelled(queue', S) = {} /\ Cancelled(drained, S) = {}
  BY <1>1, CancelledMember
<1>4. PendingCountExact'
  <2>1. Cancelled(queue', Calls) = {} /\ Cancelled(drained, Calls) = {}
    BY <1>3
  <2>2. pending_prompt_count' = Cardinality(Cancelled(queue, Calls))
    BY <2>1, FS_EmptySet, PromptsCounted DEF LineInv, PendingCountExact, Batched
  <2> QED
    BY <1>1, <2>1, <2>2, FS_EmptySet, PromptsCounted DEF PendingCountExact
<1>5. Window' /\ QueuedIsCurrent' /\ ResultsInTurn'
  BY <1>1, <1>3 DEF Batched, turn, LineInv, Window, TurnPhases, QueuedIsCurrent, ResultsInTurn
<1> QED
  BY <1>2, <1>4, <1>5 DEF LineInv

\* No result is in line while the loop looks for a command: a Turn that still takes one is running.
LEMMA NoResultAtTake ==
  ASSUME IInv, LineInv, phase \notin TurnPhases
  PROVE  Cancelled(queue, Results) = {} /\ Cancelled(drained, Results) = {}
<1>1. drained = <<>> /\ (active_turn = NoTurn \/ closing)
  BY DEF LineInv, Line, Window, TurnPhases
<1>2. Cancelled(drained, Results) = {}
  BY <1>1, CancelledMember
<1>3. ASSUME NEW c \in Cancelled(queue, Results) PROVE FALSE
  <2>1. c \in Results /\ c \in Cancelled(queue, Calls)
    BY CommandsTyped, CancelledMember
  <2>2. active_turn # NoTurn
    BY <2>1, LoopAssumption DEF LineInv, ResultsInTurn
  <2> QED
    BY <1>1, <2>1, <2>2 DEF LineInv, QueuedIsCurrent, Closing
<1> QED
  BY <1>2, <1>3

LEMMA TakeNextLine == ASSUME IInv, LineInv, TakeNext PROVE LineInv'
<1>1. /\ phase = "take" /\ phase \notin TurnPhases /\ drained = <<>>
      /\ Cancelled(queue, Results) = {} /\ Cancelled(drained, Results) = {}
      /\ active_turn = NoTurn \/ closing
  BY NoResultAtTake DEF TakeNext, TurnPhases, LineInv, Line, Window
<1>2. CASE ~HasCommand(queue)
  <2>1. phase' = "idle" /\ UNCHANGED <<queue, pending_prompt_count, turn, drained, callers, stops>>
    BY <1>2 DEF TakeNext
  <2>2. Unmoved
    BY <1>1, <2>1 DEF Unmoved, Steady, WindowMoves, LineInv, Window, AtLoop, TurnPhases, turn, callers,
                      stops
  <2> QED
    BY <2>2, UnmovedKeeps
<1>3. CASE HasCommand(queue)
  <2>1. /\ queue \in Seq(Commands) /\ queue # <<>> /\ Once(queue)
        /\ queue' = Tail(queue) /\ current' = Head(queue)
        /\ UNCHANGED <<drained, pc, gen, stop_generation>>
    BY <1>3, CommandsTyped DEF TakeNext, HasCommand, AfterTakeNext, LineInv, Line, callers, stops
  <2>2. /\ queue' \in Seq(Commands) /\ Head(queue) = queue[1] /\ 1 \in DOMAIN queue
        /\ Head(queue) \in Commands
        /\ \A i \in DOMAIN queue' : \E j \in DOMAIN queue : queue'[i] = queue[j]
    BY <2>1, TailKeeps
  <2>3. /\ \A S : Cancelled(queue', S) = Cancelled(queue, S) \ {Head(queue)}
        /\ \A S : Head(queue) \in S => Head(queue) \in Cancelled(queue, S)
        /\ \A i, j \in DOMAIN queue' : queue'[i] = queue'[j] => i = j
        /\ \A i \in DOMAIN queue' : queue'[i] # Head(queue)
    BY <2>1, CancelledTail DEF Once
  <2>4. phase' \in AtLoop
    BY <1>3 DEF TakeNext, AtLoop
  <2>5. Line'
    BY <1>1, <2>1, <2>2, <2>3, <2>4 DEF LineInv, Line, Once, AtLoop
  <2>6. ResultsInTurn'
    BY <1>1, <2>1, <2>3 DEF ResultsInTurn
  <2>7. \A c \in Calls : pc'[c] # "woken"
    BY <2>1 DEF TakeNext
  <2>8. CASE Head(queue) \in Maintenance
    <3>1. Head(queue) \notin Calls
      BY <2>8, LoopAssumption
    <3>2. phase' = "maintenance" /\ UNCHANGED <<pending_prompt_count, turn>>
      BY <1>3, <2>8, <3>1 DEF TakeNext
    <3>3. Cancelled(queue', Calls) = Cancelled(queue, Calls)
      <4>1. Head(queue) \notin Cancelled(queue, Calls)
        BY ONLY <3>1, CancelledMember
      <4>2. Cancelled(queue', Calls) = Cancelled(queue, Calls) \ {Head(queue)}
        BY <2>3
      <4> QED
        BY ONLY <4>1, <4>2
    <3>4. PendingCountExact' /\ QueuedIsCurrent'
      BY <2>1, <3>2, <3>3 DEF LineInv, PendingCountExact, QueuedIsCurrent, Closing, turn
    <3>5. Window'
      BY <1>1, <2>7, <3>2 DEF Window, turn, TurnPhases
    <3> QED
      BY <2>5, <2>6, <3>4, <3>5 DEF LineInv
  <2>9. CASE Head(queue) \in Calls
    <3>1. Head(queue) \notin Maintenance
      BY <2>9, LoopAssumption
    <3>2. phase' = "persist" /\ pending_prompt_count' = CountWithout(1) /\ closing' = FALSE
      BY <1>3, <2>9, <3>1 DEF TakeNext
    <3>3. /\ Cancelled(queue', Calls) = Cancelled(queue, Calls) \ {Head(queue)}
          /\ Head(queue) \in Cancelled(queue, Calls)
      BY <2>3, <2>9
    <3>4. /\ Cardinality(Cancelled(queue', Calls)) = Cardinality(Cancelled(queue, Calls)) - 1
          /\ Cardinality(Cancelled(queue', Calls)) \in Nat
      <4>1. IsFiniteSet(Cancelled(queue, Calls))
        BY PromptsCounted
      <4> QED
        BY ONLY <3>3, <4>1, FS_RemoveElement, FS_CardinalityType
    <3>5. PendingCountExact'
      <4>1. pending_prompt_count =
              Cardinality(Cancelled(queue, Calls)) + Cardinality(Cancelled(drained, Calls))
        BY DEF LineInv, PendingCountExact
      <4>2. pending_prompt_count' = pending_prompt_count - 1
        BY <3>2, <3>4, <4>1, PromptsCounted DEF CountWithout
      <4> QED
        BY <2>1, <3>4, <4>1, <4>2, PromptsCounted DEF PendingCountExact
    <3>6. QueuedIsCurrent'
      BY <2>1, <3>2, <3>3 DEF LineInv, QueuedIsCurrent, Closing
    <3>7. Window'
      BY <2>7, <3>2 DEF Window, TurnPhases
    <3> QED
      BY <2>5, <2>6, <3>5, <3>6, <3>7 DEF LineInv
  <2> QED
    BY <2>2, <2>8, <2>9 DEF Commands
<1> QED
  BY <1>2, <1>3

\* drain_maintenance takes no prompt.
LEMMA FixStatusLine == ASSUME IInv, LineInv, FixStatus PROVE LineInv'
<1> DEFINE K == {queue[i] : i \in DOMAIN queue} \ Maintenance
<1>1. /\ queue \in Seq(Commands) /\ queue' = Keep(queue, K) /\ phase = "closing" /\ phase' = "sealing"
      /\ UNCHANGED <<drained, gen, stop_generation, pending_prompt_count, turn>>
      /\ Calls \cap Maintenance = {} /\ Results \subseteq Calls
      /\ \A i \in DOMAIN queue : queue[i] \in Commands
  BY CommandsTyped DEF FixStatus, AfterDrainMaintenance, stops
<1>2. /\ {queue'[n] : n \in DOMAIN queue'} = {queue[i] : i \in DOMAIN queue} \cap K
      /\ Once(queue) => Once(queue')
  <2> HIDE DEF K
  <2>1. /\ {Keep(queue, K)[n] : n \in DOMAIN Keep(queue, K)} = {queue[i] : i \in DOMAIN queue} \cap K
        /\ (\A i, j \in DOMAIN queue : queue[i] = queue[j] => i = j)
             => \A m, n \in DOMAIN Keep(queue, K) : Keep(queue, K)[m] = Keep(queue, K)[n] => m = n
    BY <1>1, KeepMembers
  <2> QED
    BY <1>1, <2>1 DEF Once
<1>3. /\ \A n \in DOMAIN queue' :
           queue'[n] \notin Maintenance /\ \E i \in DOMAIN queue : queue[i] = queue'[n]
      /\ \A i \in DOMAIN queue : queue[i] \notin Maintenance => \E n \in DOMAIN queue' : queue'[n] = queue[i]
  BY <1>2
<1>4. \A S \in SUBSET Calls : Cancelled(queue', S) = Cancelled(queue, S)
  <2> SUFFICES ASSUME NEW S \in SUBSET Calls, NEW c
               PROVE  c \in Cancelled(queue', S) <=> c \in Cancelled(queue, S)
    OBVIOUS
  <2> QED
    BY <1>1, <1>3, CancelledMember
<1>5. \A c \in Commands : c \notin Maintenance => pc'[c] = pc[c]
  BY CancelledMember DEF FixStatus
<1>6. drained = <<>>
  BY <1>1 DEF LineInv, Line
<1>7. Line'
  BY <1>1, <1>2, <1>3, <1>5, <1>6 DEF LineInv, Line, Once
<1>8. PendingCountExact' /\ QueuedIsCurrent' /\ ResultsInTurn'
  BY <1>1, <1>4 DEF LineInv, PendingCountExact, QueuedIsCurrent, ResultsInTurn, Closing, turn
<1>9. Window'
  BY <1>1, <1>5, CommandsTyped DEF LineInv, Window, TurnPhases, turn
<1> QED
  BY <1>7, <1>8, <1>9 DEF LineInv

\* The command that is absorbed leaves the batch, and the counter if it is a prompt.
LEMMA AbsorbDrainedLine == ASSUME IInv, LineInv, AbsorbDrained PROVE LineInv'
<1> DEFINE c == Head(drained)
<1>1. /\ drained \in Seq(Commands) /\ drained # <<>> /\ Once(drained) /\ drained' = Tail(drained)
      /\ phase = "drain" /\ phase' = "drain"
      /\ UNCHANGED <<queue, gen, stop_generation, turn>>
      /\ \A i \in DOMAIN queue : queue[i] \in Commands
      /\ Results \subseteq Calls /\ Calls \cap Maintenance = {}
      /\ pc \in [Commands -> CallPcs \cup {"done"}]
  BY CommandsTyped DEF AbsorbDrained, LineInv, Line, stops, IInv, TypeOK
<1>2. /\ drained' \in Seq(Commands) /\ c = drained[1] /\ 1 \in DOMAIN drained /\ c \in Commands
      /\ \A i \in DOMAIN drained' : \E j \in DOMAIN drained : drained'[i] = drained[j]
  BY <1>1, TailKeeps
<1>3. /\ \A S : Cancelled(drained', S) = Cancelled(drained, S) \ {c}
      /\ \A S : c \in S => c \in Cancelled(drained, S)
      /\ \A i, j \in DOMAIN drained' : drained'[i] = drained'[j] => i = j
      /\ \A i \in DOMAIN drained' : drained'[i] # c
  BY <1>1, CancelledTail DEF Once
<1>4. \A d \in Commands : pc[d] = "queued" /\ d # c => pc'[d] = "queued"
  <2>1. CASE c \in Maintenance /\ pc' = [pc EXCEPT ![c] = "done"]
    BY <1>1, <1>2, <2>1
  <2>2. CASE c \in Calls /\ (Rejected(Sharing(c)) \/ Accepted(Sharing(c), active_turn))
    BY <2>2, CancelledOrSharing DEF Rejected, Accepted
  <2>3. \/ c \in Maintenance /\ pc' = [pc EXCEPT ![c] = "done"]
        \/ c \in Calls /\ (Rejected(Sharing(c)) \/ Accepted(Sharing(c), active_turn))
    BY DEF AbsorbDrained
  <2> QED
    BY <2>1, <2>2, <2>3, Zenon
<1>5. \A d \in Calls : pc'[d] = "woken" => pc[d] = "woken"
  BY <1>1, <1>2 DEF AbsorbDrained, Rejected, Accepted, Commands
<1>6. Line'
  <2>1. \A i \in DOMAIN queue : pc[queue[i]] = "queued" /\ queue[i] # c
    BY <1>2 DEF LineInv, Line
  <2>2. \A i \in DOMAIN queue : pc'[queue[i]] = "queued"
    BY <1>1, <1>4, <2>1
  <2>3. \A i \in DOMAIN drained' : drained'[i] \in Commands /\ pc[drained'[i]] = "queued"
    BY <1>1, <1>2 DEF LineInv, Line
  <2>4. \A j \in DOMAIN drained' : pc'[drained'[j]] = "queued" /\ \A i \in DOMAIN queue : queue[i] # drained'[j]
    BY <1>2, <1>3, <1>4, <2>3 DEF LineInv, Line
  <2> QED
    BY <1>1, <1>3, <2>2, <2>4 DEF LineInv, Line, Once
<1>7. PendingCountExact'
  <2>1. pending_prompt_count =
          Cardinality(Cancelled(queue, Calls)) + Cardinality(Cancelled(drained, Calls))
    BY DEF LineInv, PendingCountExact
  <2>2. CASE c \in Maintenance
    <3>1. c \notin Calls /\ c \notin Cancelled(drained, Calls)
      BY <1>1, <2>2, CancelledMember
    <3>2. Cancelled(drained', Calls) = Cancelled(drained, Calls)
      BY <1>3, <3>1
    <3>3. pending_prompt_count' = pending_prompt_count
      BY <3>1 DEF AbsorbDrained
    <3> QED
      BY <1>1, <2>1, <3>2, <3>3 DEF PendingCountExact
  <2>3. CASE c \in Calls
    <3>1. c \in Cancelled(drained, Calls) /\ Cancelled(drained', Calls) = Cancelled(drained, Calls) \ {c}
      BY <1>3, <2>3
    <3>2. /\ Cardinality(Cancelled(drained', Calls)) = Cardinality(Cancelled(drained, Calls)) - 1
          /\ Cardinality(Cancelled(drained', Calls)) \in Nat
      <4>1. /\ IsFiniteSet(Cancelled(drained, Calls))
            /\ Cardinality(Cancelled(drained, Calls)) \in Nat
        BY PromptsCounted
      <4>2. /\ IsFiniteSet(Cancelled(drained, Calls) \ {c})
            /\ Cardinality(Cancelled(drained, Calls) \ {c}) = Cardinality(Cancelled(drained, Calls)) - 1
        BY <3>1, <4>1, FS_RemoveElement
      <4>3. Cardinality(Cancelled(drained, Calls) \ {c}) \in Nat
        BY <4>2, FS_CardinalityType
      <4> QED
        BY <3>1, <4>2, <4>3
    <3>3. pending_prompt_count' = CountWithout(1)
      BY <1>1, <2>3 DEF AbsorbDrained
    <3>4. pending_prompt_count' = pending_prompt_count - 1
      BY <2>1, <3>2, <3>3, PromptsCounted DEF CountWithout
    <3> QED
      BY <1>1, <2>1, <3>2, <3>4, PromptsCounted DEF PendingCountExact
  <2> QED
    BY <1>2, <2>2, <2>3 DEF Commands
<1>8. Window'
  BY <1>1, <1>5 DEF LineInv, Window, turn, TurnPhases
<1>9. QueuedIsCurrent' /\ ResultsInTurn'
  BY <1>1, <1>3 DEF LineInv, QueuedIsCurrent, ResultsInTurn, Closing, turn
<1> QED
  BY <1>6, <1>7, <1>8, <1>9 DEF LineInv

-----------------------------------------------------------------------------
\* Every action moves the line in one of these ways.

\* A step of callers only: the loop and those who stand in line do not notice it.
Aside ==
  /\ UNCHANGED <<queue, drained, pending_prompt_count, stop_generation, phase, current, turn>>
  /\ \A c \in Commands : pc[c] = "queued" => pc'[c] = "queued"
  /\ \A c \in Calls : (pc[c] = "queued" => gen'[c] = gen[c]) /\ (pc'[c] = "woken" => pc[c] = "woken")

LEMMA AsideKeeps == ASSUME IInv, LineInv, Aside PROVE LineInv'
<1>1. phase \in AtLoop => current \in Commands /\ pc[current] = "queued"
  BY CommandsTyped DEF IInv, LoopOwnsTurn, LineInv, Line, AtLoop
<1>2. Unmoved
  BY <1>1 DEF Aside, Unmoved, Steady, WindowMoves, LineInv, Window, Line, turn
<1> QED
  BY <1>2, UnmovedKeeps

LEMMA InitializeOccupationLine == ASSUME IInv, LineInv, InitializeOccupation PROVE LineInv'
<1>1. Aside
  BY DEF InitializeOccupation, Aside, loop, callers, stops
<1> QED
  BY <1>1, AsideKeeps

LEMMA PromptLine == ASSUME IInv, LineInv, NEW c \in Calls, Prompt(c) PROVE LineInv'
<1>1. pc \in [Commands -> CallPcs \cup {"done"}] /\ gen \in [Calls -> Nat] /\ c \in Commands
  BY DEF IInv, TypeOK, Commands
<1>2. Aside
  BY <1>1, CommandsTyped DEF Prompt, Aside, loop, stops
<1> QED
  BY <1>2, AsideKeeps

LEMMA AdmitLine == ASSUME IInv, LineInv, NEW c \in Calls, Admit(c) PROVE LineInv'
<1>1. pc \in [Commands -> CallPcs \cup {"done"}] /\ gen \in [Calls -> Nat] /\ c \in Commands
  BY DEF IInv, TypeOK, Commands
<1>2. /\ pc[c] = "reading" /\ \A d \in Commands \ {c} : pc'[d] = pc[d]
      /\ pc'[c] \in {"rejected", "joining", "waiting", "preparing"}
      /\ \A d \in Calls \ {c} : gen'[d] = gen[d]
  BY <1>1 DEF Admit, Arbitrate, Refuse, Rejected
<1>3. Aside
  BY <1>2, CommandsTyped DEF Admit, Aside, loop, stops
<1> QED
  BY <1>3, AsideKeeps

\* The steps of a prompt after its admission: it leaves, waits, or joins the line.
LEMMA SubmittedLine ==
  ASSUME IInv, LineInv, NEW c \in Calls \ Results,
         pc[c] \in {"preparing", "resolving", "joining", "woken"},
         \/ Fails(c)
         \/ \E to \in {"sharing", "resolving", "blocked"} : Move(c, to)
         \/ Submit(c) /\ ~Closing /\ ~Cancelling(c),
         UNCHANGED <<turn, current, drained, gen, stops>>
  PROVE  LineInv'
<1>1. pc \in [Commands -> CallPcs \cup {"done"}] /\ c \in Commands /\ c \in Calls
  BY DEF IInv, TypeOK, Commands
<1>2. CASE Fails(c)
  <2>1. PICK S \in {{c}, Sharing(c)} : Fail(S)
    BY <1>2 DEF Fails
  <2>2. \A d \in Commands : pc'[d] = pc[d] \/ (pc'[d] = "rejected" /\ pc[d] # "queued")
    BY <1>1, <2>1, CancelledOrSharing DEF Fail, Rejected
  <2>3. Aside
    BY <2>1, <2>2, CommandsTyped DEF Fail, Aside, stops
  <2> QED
    BY <2>3, AsideKeeps
<1>3. ASSUME NEW to \in {"sharing", "resolving", "blocked"}, Move(c, to) PROVE LineInv'
  <2>1. Aside
    BY <1>1, <1>3, CommandsTyped DEF Move, Aside, stops
  <2> QED
    BY <2>1, AsideKeeps
<1>4. CASE Submit(c) /\ ~Closing /\ ~Cancelling(c)
  <2>1. Joins(c)
    BY <1>1, <1>4 DEF Submit, Enqueue, EnqueueCommand, Joins, Cancelling, stops
  <2> QED
    BY <1>1, <2>1, JoinsKeeps
<1> QED
  BY <1>2, <1>3, <1>4

LEMMA EnsureRunnableLine ==
  ASSUME IInv, ResultsApart, LineInv, NEW c \in Calls, EnsureRunnable(c)
  PROVE  LineInv'
<1>1. c \in Calls \ Results /\ pc[c] = "preparing"
  BY DEF EnsureRunnable, ResultsApart, ResultPcs
<1>2. \/ Fails(c)
      \/ \E to \in {"sharing", "resolving", "blocked"} : Move(c, to)
      \/ Submit(c) /\ ~Closing /\ ~Cancelling(c)
  BY DEF EnsureRunnable, Fails
<1>3. UNCHANGED <<turn, current, drained, gen, stops>>
  BY DEF EnsureRunnable
<1> QED
  BY <1>1, <1>2, <1>3, SubmittedLine

LEMMA ResumeSubmissionLine ==
  ASSUME IInv, ResultsApart, LineInv, NEW c \in Calls, ResumeSubmission(c)
  PROVE  LineInv'
<1>1. c \in Calls \ Results /\ pc[c] = "woken"
  BY DEF ResumeSubmission, ResultsApart, ResultPcs
<1>2. ~Closing
  BY <1>1 DEF LineInv, Window, Closing
<1>3. UNCHANGED <<turn, current, drained, gen, stops>>
  BY DEF ResumeSubmission
<1> QED
  BY <1>1, <1>2, <1>3, SubmittedLine DEF ResumeSubmission, Fails

LEMMA PromptWithIdentityLine ==
  ASSUME IInv, ResultsApart, LineInv, NEW c \in Calls, PromptWithIdentity(c)
  PROVE  LineInv'
<1>1. c \in Calls \ Results /\ pc[c] \in {"resolving", "joining"}
  BY DEF PromptWithIdentity, ResultsApart, ResultPcs
<1>2. UNCHANGED <<turn, current, drained, gen, stops>>
  BY DEF PromptWithIdentity
<1>3. CASE Join(c)
  <2>1. pc \in [Commands -> CallPcs \cup {"done"}] /\ c \in Commands
    BY DEF IInv, TypeOK, Commands
  <2>2. \A d \in Commands : pc'[d] = pc[d] \/ (pc'[d] = "accepted" /\ pc[d] # "queued")
    BY <1>1, <1>3, <2>1, CancelledOrSharing DEF Join, Accepted
  <2>3. Aside
    BY <1>2, <1>3, <2>2, CommandsTyped DEF Join, Aside, stops
  <2> QED
    BY <2>3, AsideKeeps
<1>4. CASE \/ Fails(c)
           \/ \E to \in {"sharing", "resolving", "blocked"} : Move(c, to)
           \/ Submit(c) /\ ~Closing /\ ~Cancelling(c)
  BY <1>1, <1>2, <1>4, SubmittedLine
<1> QED
  BY <1>3, <1>4 DEF PromptWithIdentity, Fails

\* Closing and CanAcquire are looked at in the same step in which the result is queued.
LEMMA AcceptDelegationResultLine ==
  ASSUME IInv, LineInv, NEW c \in Calls, AcceptDelegationResult(c)
  PROVE  LineInv'
<1>1. pc \in [Commands -> CallPcs \cup {"done"}] /\ c \in Commands /\ c \in Results /\ pc[c] = "idle"
  BY DEF IInv, TypeOK, Commands, AcceptDelegationResult
<1>2. UNCHANGED <<drained, current, turn, stops, gen>>
  BY DEF AcceptDelegationResult
<1>3. CASE AwaitsResult(c) /\ Enqueue(c, owner)
  <2>1. Joins(c)
    BY <1>1, <1>2, <1>3 DEF AwaitsResult, Enqueue, EnqueueCommand, Joins, Closing, stops
  <2> QED
    BY <1>1, <2>1, JoinsKeeps
<1>4. CASE /\ \E v \in {"accepted", "rejected", "saved"} : pc' = [pc EXCEPT ![c] = v]
           /\ UNCHANGED <<queue, pending_prompt_count, command, phase>>
  <2>1. Aside
    BY <1>1, <1>2, <1>4, CommandsTyped DEF Aside, stops
  <2> QED
    BY <2>1, AsideKeeps
<1> QED
  BY <1>3, <1>4 DEF AcceptDelegationResult

LEMMA EnqueueMaintenanceLine ==
  ASSUME IInv, LineInv, NEW m \in Maintenance, EnqueueMaintenance(m)
  PROVE  LineInv'
<1>1. m \in Commands /\ Joins(m)
  BY CommandsTyped DEF EnqueueMaintenance, EnqueueCommand, Joins, stops
<1> QED
  BY <1>1, JoinsKeeps

LEMMA AtLoopQueued ==
  ASSUME IInv, LineInv, phase \in AtLoop
  PROVE  current \in Commands /\ pc[current] = "queued" /\ current \notin Cancelled(queue, Calls)
BY CommandsTyped, CancelledMember DEF IInv, LoopOwnsTurn, LineInv, Line, AtLoop

LEMMA ExecuteMaintenanceLine == ASSUME IInv, LineInv, ExecuteMaintenance PROVE LineInv'
<1>1. /\ current \in Commands /\ phase = "maintenance" /\ current \in Maintenance /\ current \notin Calls
      /\ pc \in [Commands -> CallPcs \cup {"done"}]
  BY CommandsTyped, AtLoopQueued DEF ExecuteMaintenance, AtLoop, IInv, TypeOK, LoopOwnsTurn
<1>2. Unmoved
  BY <1>1, CommandsTyped DEF ExecuteMaintenance, Unmoved, Steady, WindowMoves, LineInv, Window, Line,
     AtLoop, TurnPhases, turn, stops
<1> QED
  BY <1>2, UnmovedKeeps

\* A Turn starts with the command of the loop; if its message cannot be stored it takes the queue
\* with it.
LEMMA StartTurnLine == ASSUME IInv, LineInv, StartTurn PROVE LineInv'
<1>1. /\ phase = "persist" /\ phase \in AtLoop /\ phase \in TurnPhases /\ drained = <<>>
      /\ current \in Calls /\ pc[current] = "queued" /\ current \notin Cancelled(queue, Calls)
      /\ active_turn \in Keys /\ active_turn # NoTurn
      /\ \A d \in Sharing(current) : d = current \/ pc[d] = "sharing"
      /\ UNCHANGED <<drained, gen, stops, active_turn>>
  BY AtLoopQueued, NoRecoveryInTurn, CancelledOrSharing
  DEF StartTurn, AtLoop, TurnPhases, LineInv, Line, IInv, LoopOwnsTurn
<1>2. CASE /\ Accepted(Sharing(current), active_turn) /\ phase' = "run"
           /\ UNCHANGED <<queue, pending_prompt_count, closing>>
  <2>1. \A d \in Commands : pc'[d] = pc[d] \/ (pc'[d] = "accepted" /\ (d = current \/ pc[d] = "sharing"))
    BY <1>1, <1>2 DEF Accepted
  <2>2. Unmoved
    BY <1>1, <1>2, <2>1, CommandsTyped DEF Unmoved, Steady, WindowMoves, LineInv, Window,
       AtLoop, TurnPhases, stops
  <2> QED
    BY <2>2, UnmovedKeeps
<1>3. CASE /\ Rejected(Sharing(current) \cup CancelledCalls) /\ CancelQueuedPrompts
           /\ closing' = TRUE /\ phase' = "failing"
  <2>1. \A d \in Commands : \/ pc'[d] = pc[d]
                            \/ /\ pc'[d] = "rejected"
                               /\ d = current \/ pc[d] = "sharing" \/ d \in Cancelled(queue, Calls)
    BY <1>1, <1>3, CancelledOrSharing DEF Rejected
  <2>2. Emptied
    BY <1>1, <1>3, <2>1, CommandsTyped DEF Emptied, WindowMoves, LineInv, Window, AtLoop, TurnPhases
  <2> QED
    BY <2>2, EmptiedKeeps
<1> QED
  BY <1>2, <1>3 DEF StartTurn

LEMMA CheckpointLine == ASSUME IInv, LineInv, Checkpoint PROVE LineInv'
<1>1. Batched
  BY DEF Checkpoint, Batched, Drained, AfterDrain, callers
<1> QED
  BY <1>1, BatchedKeeps

LEMMA DrainDoneLine == ASSUME IInv, LineInv, DrainDone PROVE LineInv'
<1>1. Unmoved
  BY DEF DrainDone, Unmoved, Steady, WindowMoves, LineInv, Window, Line,
     AtLoop, TurnPhases, turn, callers, stops
<1> QED
  BY <1>1, UnmovedKeeps

\* The last look at the queue: with no prompt counted there is none, so that a Turn that closes
\* leaves nobody behind.
LEMMA CloseWindowLine ==
  ASSUME IInv, LineInv, phase \in {"run", "children"}, NEW res \in {"success", "failure"},
         CloseWindow(res), res = "failure" \/ aborted \/ pending_prompt_count = 0,
         UNCHANGED <<active_turn, gen, stops>>
  PROVE  LineInv'
<1>1. /\ phase \in TurnPhases /\ phase \notin AtLoop /\ drained = <<>> /\ drained' = drained
      /\ active_turn \in Keys /\ active_turn # NoTurn /\ phase' = "closing" /\ closing' = TRUE
  BY NoRecoveryInTurn DEF CloseWindow, TurnPhases, AtLoop, LineInv, Line
<1>2. CASE res = "failure" \/ aborted
  <2>1. CancelQueuedPrompts /\ Rejected(CancelledCalls)
    BY <1>2 DEF CloseWindow
  <2>2. \A d \in Commands : \/ pc'[d] = pc[d]
                            \/ pc'[d] = "rejected" /\ (pc[d] = "sharing" \/ d \in Cancelled(queue, Calls))
    BY <2>1, CancelledOrSharing DEF Rejected
  <2>3. Emptied
    BY <1>1, <2>1, <2>2, CommandsTyped DEF Emptied, WindowMoves, LineInv, Window, AtLoop, TurnPhases
  <2> QED
    BY <2>3, EmptiedKeeps
<1>3. CASE ~(res = "failure" \/ aborted)
  <2>1. UNCHANGED <<queue, pending_prompt_count, pc>> /\ pending_prompt_count = 0
    BY <1>3 DEF CloseWindow
  <2>2. Cardinality(Cancelled(queue, Calls)) = 0 /\ Cardinality(Cancelled(drained, Calls)) = 0
    BY <2>1, PromptsCounted DEF LineInv, PendingCountExact
  <2>3. NoPrompts
    BY <2>2, PromptsCounted, FS_EmptySet DEF NoPrompts
  <2>4. Unmoved
    BY <1>1, <2>1, <2>3 DEF Unmoved, Steady, WindowMoves, LineInv, Window, AtLoop, TurnPhases, stops
  <2> QED
    BY <2>4, UnmovedKeeps
<1> QED
  BY <1>2, <1>3

LEMMA AbsorbOrCloseLine ==
  ASSUME IInv, LineInv, phase \in {"run", "children"}, AbsorbOrClose(TRUE),
         UNCHANGED <<active_turn, aborted, gen, stops>>
  PROVE  LineInv'
<1>1. CASE Batched
  BY <1>1, BatchedKeeps
<1>2. CASE CloseWindow("success") /\ (aborted \/ pending_prompt_count = 0)
  BY <1>2, CloseWindowLine
<1> QED
  BY <1>1, <1>2 DEF AbsorbOrClose, Batched, Drained, AfterDrain, turn

LEMMA ExecutorReturnsLine == ASSUME IInv, LineInv, ExecutorReturns PROVE LineInv'
<1>1. phase = "run" /\ UNCHANGED <<active_turn, aborted, gen, stops>>
  BY DEF ExecutorReturns
<1>2. CASE phase' = "children" /\ UNCHANGED <<closing, queue, pending_prompt_count, pc, drained>>
  <2>1. Unmoved
    BY <1>1, <1>2 DEF Unmoved, Steady, WindowMoves, LineInv, Window, Line, AtLoop, TurnPhases, stops
  <2> QED
    BY <2>1, UnmovedKeeps
<1> QED
  BY <1>1, <1>2, AbsorbOrCloseLine, CloseWindowLine DEF ExecutorReturns

LEMMA ChildrenSettleLine == ASSUME IInv, LineInv, ChildrenSettle PROVE LineInv'
BY AbsorbOrCloseLine DEF ChildrenSettle

LEMMA TurnThrowsLine == ASSUME IInv, LineInv, TurnThrows PROVE LineInv'
<1>1. /\ CancelQueuedPrompts /\ Rejected(CancelledCalls) /\ phase \notin AtLoop
      /\ phase' = "failing" /\ closing' = TRUE /\ UNCHANGED <<drained, active_turn>>
      /\ drained = <<>> /\ active_turn # NoTurn
  BY NoRecoveryInTurn DEF TurnThrows, AtLoop, LineInv, Line, TurnPhases
<1>2. \A d \in Commands : \/ pc'[d] = pc[d]
                          \/ pc'[d] = "rejected" /\ (pc[d] = "sharing" \/ d \in Cancelled(queue, Calls))
  BY <1>1, CancelledOrSharing DEF Rejected
<1>3. \A c \in Calls : pc[c] # "woken"
  BY DEF TurnThrows, Quiet
<1>4. Emptied
  BY <1>1, <1>2, <1>3, CommandsTyped DEF Emptied, WindowMoves, AtLoop, TurnPhases
<1> QED
  BY <1>4, EmptiedKeeps

\* When the finish of a Turn settles nobody stands in line for it: its window is closed.
SettledLoop ==
  /\ closing /\ phase \notin {"persist", "run", "drain", "children"}
  /\ phase' = "take" \/ (phase' = phase /\ phase \notin TurnPhases)
  /\ \E status : Settle(status)
  /\ UNCHANGED <<queue, drained, pending_prompt_count, stop_generation, current>>

LEMMA SettledLoopKeeps == ASSUME IInv, LineInv, SettledLoop PROVE LineInv'
<1>1. PICK status : Settle(status)
  BY DEF SettledLoop
<1>2. drained = <<>> /\ phase \in AtLoop => phase = "maintenance"
  BY DEF SettledLoop, LineInv, Line, AtLoop
<1>3. \A c \in Commands : pc[c] = "queued" => pc'[c] = "queued"
  BY <1>1 DEF Settle, WakeOnFinish
<1>4. \A c \in Calls : pc[c] = "queued" => gen'[c] = gen[c]
  BY <1>1 DEF Settle
<1>5. active_turn' = NoTurn
  BY <1>1 DEF Settle
<1>6. active_turn = NoTurn \/ NoPrompts
  <2>1. drained = <<>> => Cancelled(drained, Calls) = {}
    BY CancelledMember
  <2> QED
    BY <2>1 DEF SettledLoop, LineInv, Line, QueuedIsCurrent, Closing, NoPrompts
<1>7. Steady
  BY <1>3, <1>4, AtLoopQueued DEF SettledLoop, Steady, LineInv, Line, AtLoop, TurnPhases
<1>8. WindowMoves
  BY <1>5 DEF SettledLoop, WindowMoves, TurnPhases
<1>9. Unmoved
  BY <1>5, <1>6, <1>7, <1>8 DEF Unmoved
<1> QED
  BY <1>9, UnmovedKeeps

LEMMA PrepareCompletionLine == ASSUME IInv, LineInv, PrepareCompletion PROVE LineInv'
<1>1. phase = "sealing" /\ closing
  BY DEF PrepareCompletion, LineInv, Window
<1>2. CASE phase' = "finishing" /\ UNCHANGED <<queue, pending_prompt_count, turn, callers, stops>>
  <2>1. Unmoved
    BY <1>1, <1>2 DEF PrepareCompletion, Unmoved, Steady, WindowMoves, LineInv, Window, Line, AtLoop,
       TurnPhases, turn, callers, stops
  <2> QED
    BY <2>1, UnmovedKeeps
<1>3. CASE Unacknowledged /\ phase' = "take" /\ UNCHANGED <<queue, pending_prompt_count, stop_generation>>
  <2>1. SettledLoop
    BY <1>1, <1>3 DEF PrepareCompletion, Unacknowledged, SettledLoop
  <2> QED
    BY <2>1, SettledLoopKeeps
<1> QED
  BY <1>2, <1>3 DEF PrepareCompletion

LEMMA CompleteTurnLine == ASSUME IInv, LineInv, CompleteTurn PROVE LineInv'
<1>1. SettledLoop
  BY DEF CompleteTurn, Finished, SettledLoop, LineInv, Window
<1> QED
  BY <1>1, SettledLoopKeeps

LEMMA FailTurnLine == ASSUME IInv, LineInv, FailTurn PROVE LineInv'
<1>1. SettledLoop
  BY DEF FailTurn, Finished, Unacknowledged, SettledLoop, LineInv, Window
<1> QED
  BY <1>1, SettledLoopKeeps

LEMMA StopRecoversLine ==
  ASSUME IInv, LineInv, NEW s \in Stoppers, StopRecovers(s)
  PROVE  LineInv'
<1>1. closing /\ phase \notin TurnPhases
  BY DEF StopRecovers, IInv, StopOwnsRecovery
<1>2. SettledLoop
  BY <1>1 DEF StopRecovers, Finished, Unacknowledged, SettledLoop, TurnPhases, loop
<1> QED
  BY <1>2, SettledLoopKeeps

LEMMA StopEndLine == ASSUME IInv, LineInv, NEW s \in Stoppers, StopEnd(s) PROVE LineInv'
<1>1. Aside
  BY DEF StopEnd, Aside, loop, callers
<1> QED
  BY <1>1, AsideKeeps

\* A stop sends away whoever stands in the queue, so that what is queued belongs to its generation.
LEMMA StopBeginLine == ASSUME IInv, LineInv, NEW s \in Stoppers, StopBegin(s) PROVE LineInv'
<1>1. /\ CancelQueuedPrompts /\ Rejected(CancelledCalls)
      /\ UNCHANGED <<drained, phase, current>>
      /\ \A c \in Calls : pc[c] # "woken"
  BY DEF StopBegin, loop, Quiet
<1>2. \A d \in Commands : \/ pc'[d] = pc[d]
                          \/ pc'[d] = "rejected" /\ (pc[d] = "sharing" \/ d \in Cancelled(queue, Calls))
  BY <1>1, CancelledOrSharing DEF Rejected
<1>3. \/ active_turn = NoTurn /\ closing' = TRUE
      \/ UNCHANGED <<active_turn, closing>>
  BY DEF StopBegin, turn
<1>4. phase \in TurnPhases => active_turn # NoTurn
  BY NoRecoveryInTurn
<1>5. WindowMoves
  BY <1>1, <1>2, <1>3, <1>4, CommandsTyped DEF WindowMoves, LineInv, Window
<1>6. active_turn' = active_turn \/ drained = <<>>
  BY <1>3, <1>4 DEF LineInv, Line, TurnPhases
<1>7. Emptied
  BY <1>1, <1>2, <1>5, <1>6 DEF Emptied, LineInv, Line
<1> QED
  BY <1>7, EmptiedKeeps

LEMMA EmptyLine ==
  ASSUME queue = <<>>, drained = <<>>, pending_prompt_count = 0, phase = "idle", active_turn = NoTurn,
         \A c \in Calls : pc[c] # "woken"
  PROVE  LineInv
<1>1. \A S : Cancelled(queue, S) = {} /\ Cancelled(drained, S) = {}
  BY CancelledMember
<1>2. PendingCountExact
  <2>1. Cardinality({}) = 0
    BY FS_EmptySet
  <2>2. Cardinality(Cancelled(queue, Calls)) = 0 /\ Cardinality(Cancelled(drained, Calls)) = 0
    BY <1>1, <2>1
  <2> QED
    BY <2>2 DEF PendingCountExact
<1>3. Line /\ Window
  BY DEF Line, Once, Window, TurnPhases
<1>4. QueuedIsCurrent /\ ResultsInTurn
  BY <1>1 DEF QueuedIsCurrent, ResultsInTurn, Closing
<1> QED
  BY <1>2, <1>3, <1>4 DEF LineInv

LEMMA CrashLine == ASSUME IInv, LineInv, Crash PROVE LineInv'
<1>1. \A c \in Calls : pc'[c] # "woken"
  BY CommandsTyped DEF Crash
<1>2. DOMAIN queue' = {} /\ DOMAIN drained' = {}
  BY DEF Crash
<1>3. \A S : Cancelled(queue', S) = {} /\ Cancelled(drained', S) = {}
  BY <1>2, CancelledMember
<1>4. PendingCountExact'
  <2>1. Cardinality({}) = 0
    BY FS_EmptySet
  <2>2. pending_prompt_count' = 0
    BY DEF Crash
  <2> QED
    BY <1>3, <2>1, <2>2 DEF PendingCountExact
<1>5. Line' /\ Window'
  BY <1>1, <1>2 DEF Crash, Line, Once, Window, TurnPhases
<1>6. QueuedIsCurrent' /\ ResultsInTurn'
  BY <1>3 DEF Crash, QueuedIsCurrent, ResultsInTurn, Closing
<1> QED
  BY <1>4, <1>5, <1>6 DEF LineInv

LEMMA NextLine == ASSUME IInv, ResultsApart, LineInv, [Next]_vars PROVE LineInv'
<1>1. CASE LoopStep
  BY <1>1, TakeNextLine, ExecuteMaintenanceLine, StartTurnLine, AbsorbDrainedLine, DrainDoneLine,
     ExecutorReturnsLine, ChildrenSettleLine, TurnThrowsLine, FixStatusLine, PrepareCompletionLine,
     CompleteTurnLine, FailTurnLine DEF LoopStep
<1>2. ASSUME NEW c \in Calls, Prompt(c) \/ AcceptDelegationResult(c) \/ CallStep(c) PROVE LineInv'
  BY <1>2, PromptLine, AcceptDelegationResultLine, AdmitLine, EnsureRunnableLine,
     PromptWithIdentityLine, ResumeSubmissionLine DEF CallStep
<1>3. ASSUME NEW s \in Stoppers, StopBegin(s) \/ StopStep(s) PROVE LineInv'
  BY <1>3, StopBeginLine, StopRecoversLine, StopEndLine DEF StopStep
<1>4. CASE InitializeOccupation \/ Checkpoint \/ Crash
  BY <1>4, InitializeOccupationLine, CheckpointLine, CrashLine
<1>5. CASE \E m \in Maintenance : EnqueueMaintenance(m)
  BY <1>5, EnqueueMaintenanceLine
<1>6. CASE UNCHANGED vars
  <2>1. Aside
    BY <1>6 DEF vars, Aside, loop, callers, stops
  <2> QED
    BY <2>1, AsideKeeps
<1> QED
  BY <1>1, <1>2, <1>3, <1>4, <1>5, <1>6 DEF Next

-----------------------------------------------------------------------------
\* Theorems about the line.

LEMMA InitLine == ASSUME Init PROVE IInv /\ ResultsApart /\ LineInv
<1>1. IInv
  BY InitInv
<1>2. Calls \subseteq Commands /\ Results \subseteq Commands
  BY LoopAssumption DEF Commands
<1>3. \A c \in Commands : pc[c] = "idle"
  BY DEF Init
<1>4. LineInv
  BY <1>2, <1>3, EmptyLine DEF Init
<1> QED
  BY <1>1, <1>2, <1>3, <1>4 DEF ResultsApart, ResultPcs

\* pending_prompt_count is incremented by enqueue_prompt and decremented where a prompt leaves the
\* queue or a batch (SessionLoop.ts); the Turn closes on it.  It never differs from the prompts in
\* line, whatever is cancelled, drained or stopped.
THEOREM PromptsAreCounted == Spec => []PendingCountExact
<1>1. IInv /\ ResultsApart /\ LineInv => PendingCountExact
  BY DEF LineInv
<1> QED
  BY InitLine, NextInv, NextApart, NextLine, <1>1, PTL DEF Spec

\* Every prompt in the queue was admitted after the latest stop, and none is in it while a Turn
\* closes: it would be answered by nobody.
THEOREM QueueIsCurrent == Spec => []QueuedIsCurrent
<1>1. IInv /\ ResultsApart /\ LineInv => QueuedIsCurrent
  BY DEF LineInv
<1> QED
  BY InitLine, NextInv, NextApart, NextLine, <1>1, PTL DEF Spec

-----------------------------------------------------------------------------
\* What accepted calls are told.

\* A record is final.
LEMMA RecordsStay ==
  ASSUME IInv, [Next]_vars
  PROVE  \A t \in Keys : journal[t] # "none" => journal'[t] = journal[t]
<1>1. journal \in [Keys -> Statuses \cup {"none"}]
  BY DEF IInv, TypeOK
<1>2. journal' = journal \/ \E t \in Keys, status \in Statuses : Promise!Record(t, status)
  BY PromiseStep DEF Promise!Next, Promise!Tell
<1> QED
  BY <1>1, <1>2 DEF Promise!Record

\* What a step may do to a call: nothing if it is accepted; it may be accepted, and what it is told
\* is then on record.
ToldTrue(c) ==
  \/ /\ outcome'[c] = outcome[c]
     /\ pc[c] = "accepted" => pc'[c] = "accepted" /\ handle'[c] = handle[c]
     /\ pc'[c] = "accepted" => handle'[c] \in Keys
  \/ /\ pc'[c] = "accepted" /\ handle'[c] \in Keys
     /\ outcome'[c] \in Statuses => journal'[handle'[c]] = outcome'[c]
  \/ outcome'[c] = "pending" /\ pc'[c] = "lost"

LEMMA ToldKeeps ==
  ASSUME IInv, [Next]_vars, ToldInv, \A c \in Calls : ToldTrue(c)
  PROVE  ToldInv'
<1> SUFFICES ASSUME NEW c \in Calls
             PROVE  /\ outcome'[c] # "pending" => pc'[c] = "accepted"
                    /\ pc'[c] = "accepted" => handle'[c] \in Keys
                    /\ outcome'[c] \in Statuses => journal'[handle'[c]] = outcome'[c]
  BY DEF ToldInv, ToldWhenAccepted, SettledAsRecorded
<1>1. "none" \notin Statuses /\ "pending" \notin Statuses
  BY DEF Statuses
<1> QED
  BY <1>1, RecordsStay DEF ToldTrue, ToldInv, ToldWhenAccepted, SettledAsRecorded

\* Steps that leave the accepted calls alone.
Unanswered ==
  /\ outcome' = outcome
  /\ \A c \in Calls : pc[c] = "accepted" => pc'[c] = "accepted" /\ handle'[c] = handle[c]
  /\ \A c \in Calls : pc'[c] = "accepted" => pc[c] = "accepted" \/ handle'[c] \in Keys

LEMMA UnansweredTrue ==
  ASSUME ToldInv, Unanswered
  PROVE  \A c \in Calls : ToldTrue(c)
BY DEF ToldInv, ToldWhenAccepted, Unanswered, ToldTrue

\* The finish of a Turn tells the calls what is recorded of it.
LEMMA SettleTrue ==
  ASSUME IInv, ToldInv, NEW status, Settle(status), status \in Statuses => journal'[active_turn] = status
  PROVE  \A c \in Calls : ToldTrue(c)
<1> SUFFICES ASSUME NEW c \in Calls PROVE ToldTrue(c)
  OBVIOUS
<1>1. pc'[c] = WakeOnFinish(c, status # "unacknowledged") /\ handle' = handle
      /\ outcome'[c] = IF SettlesNow(c) THEN status ELSE outcome[c]
  BY DEF Settle, Commands
<1>2. pc'[c] = "accepted" <=> pc[c] = "accepted"
  BY <1>1 DEF WakeOnFinish
<1> QED
  BY <1>1, <1>2 DEF ToldTrue, SettlesNow, ToldInv, ToldWhenAccepted

LEMMA CallsTold ==
  ASSUME IInv, ToldInv, NEW c \in Calls, Prompt(c) \/ AcceptDelegationResult(c) \/ CallStep(c)
  PROVE  \A d \in Calls : ToldTrue(d)
<1>1. /\ pc \in [Commands -> CallPcs \cup {"done"}] /\ handle \in [Calls -> Keys \cup {NoTurn}]
      /\ outcome \in [Calls -> Statuses \cup {"pending", "unacknowledged"}]
      /\ c \in Commands /\ Calls \subseteq Commands
      /\ message \in [Keys -> [turn : Keys, from : Actors] \cup {NoMessage}] /\ KeyOf[c] \in Keys
  BY LoopAssumption DEF IInv, TypeOK, Commands
<1>2. ASSUME UNCHANGED <<outcome, handle>>, pc[c] # "accepted",
             \/ Rejected({c}) \/ Rejected(Sharing(c))
             \/ \E v : v # "accepted" /\ pc' = [pc EXCEPT ![c] = v]
      PROVE  \A d \in Calls : ToldTrue(d)
  <2>1. Unanswered
    BY <1>1, <1>2, CancelledOrSharing DEF Rejected, Unanswered
  <2> QED
    BY <2>1, UnansweredTrue
<1>3. CASE Prompt(c) \/ Admit(c)
  BY <1>2, <1>3 DEF Prompt, Admit, Arbitrate, Refuse
<1>4. CASE EnsureRunnable(c) \/ ResumeSubmission(c)
  BY <1>2, <1>4 DEF EnsureRunnable, ResumeSubmission, Fail, Move, Submit, Enqueue
<1>5. CASE AcceptDelegationResult(c)
  <2>1. CASE message[KeyOf[c]] = NoMessage
    BY <1>2, <1>5, <2>1 DEF AcceptDelegationResult, Enqueue
  <2>2. CASE message[KeyOf[c]] # NoMessage
    <3>1. message[KeyOf[c]].turn \in Keys
      BY <1>1, <2>2
    <3>2. Unanswered
      BY <1>1, <1>5, <2>2, <3>1 DEF AcceptDelegationResult, Unanswered
    <3> QED
      BY <3>2, UnansweredTrue
  <2> QED
    BY <2>1, <2>2
<1>6. CASE PromptWithIdentity(c)
  <2>1. CASE Join(c) /\ Resolvable(KeyOf[c])
    <3> DEFINE t == message[KeyOf[c]].turn
    <3>1. t \in Keys
      BY <1>1, <2>1 DEF Resolvable
    <3>2. pc[c] # "accepted" /\ \A d \in Sharing(c) : pc[d] # "accepted"
      BY <1>6, CancelledOrSharing DEF PromptWithIdentity
    <3>3. /\ \A d \in Calls : pc'[d] = IF d \in Sharing(c) THEN "accepted" ELSE pc[d]
          /\ \A d \in Calls : handle'[d] = IF d \in Sharing(c) THEN t ELSE handle[d]
      BY <1>1, <2>1 DEF Join, Accepted
    <3>4. CASE outcome' = outcome
      <4>1. Unanswered
        BY <3>1, <3>2, <3>3, <3>4 DEF Unanswered
      <4> QED
        BY <4>1, UnansweredTrue
    <3>5. CASE outcome' = [d \in Calls |-> IF d \in Sharing(c) THEN journal[t] ELSE outcome[d]]
      <4>1. journal' = journal
        BY <1>6 DEF PromptWithIdentity, durable
      <4> SUFFICES ASSUME NEW d \in Calls PROVE ToldTrue(d)
        OBVIOUS
      <4>2. CASE d \in Sharing(c)
        BY <3>1, <3>3, <3>5, <4>1, <4>2 DEF ToldTrue
      <4>3. CASE d \notin Sharing(c)
        BY <3>3, <3>5, <4>3 DEF ToldTrue, ToldInv, ToldWhenAccepted
      <4> QED
        BY <4>2, <4>3
    <3> QED
      BY <2>1, <3>4, <3>5 DEF Join
  <2>2. CASE ~(Join(c) /\ Resolvable(KeyOf[c]))
    BY <1>2, <1>6, <2>2 DEF PromptWithIdentity, Fail, Move, Submit, Enqueue
  <2> QED
    BY <2>1, <2>2
<1> QED
  BY <1>3, <1>4, <1>5, <1>6 DEF CallStep

\* Whoever is cancelled with the queue has not been accepted.
LEMMA CancelledUnanswered ==
  ASSUME IInv, LineInv
  PROVE  /\ \A c \in CancelledCalls : pc[c] # "accepted"
         /\ \A c \in Commands : pc[c] = "queued" => \A d \in Sharing(c) : pc[d] # "accepted"
<1>1. \A c \in Cancelled(queue, Calls) : pc[c] = "queued"
  BY CancelledMember DEF LineInv, Line
<1>2. \A c : \A d \in Sharing(c) : d = c \/ pc[d] = "sharing"
  BY DEF Sharing
<1> QED
  BY <1>1, <1>2, CancelledOrSharing

LEMMA LoopTold ==
  ASSUME IInv, LineInv, ToldInv, LoopStep
  PROVE  \A c \in Calls : ToldTrue(c)
<1>1. /\ pc \in [Commands -> CallPcs \cup {"done"}] /\ handle \in [Calls -> Keys \cup {NoTurn}]
      /\ Calls \subseteq Commands /\ Maintenance \cap Calls = {} /\ Maintenance \subseteq Commands
  BY CommandsTyped DEF IInv, TypeOK
<1>2. ASSUME UNCHANGED <<outcome, handle>>,
             \/ UNCHANGED pc
             \/ \E S : Rejected(S) /\ \A c \in S : pc[c] # "accepted"
             \/ \E m \in Maintenance : pc' = [pc EXCEPT ![m] = "done"]
      PROVE  \A c \in Calls : ToldTrue(c)
  <2>1. Unanswered
    BY <1>1, <1>2 DEF Rejected, Unanswered
  <2> QED
    BY <2>1, UnansweredTrue
<1>3. ASSUME NEW c \in Commands, pc[c] = "queued", active_turn \in Keys,
             Accepted(Sharing(c), active_turn), outcome' = outcome
      PROVE  \A d \in Calls : ToldTrue(d)
  <2>1. Unanswered
    BY <1>1, <1>3, CancelledUnanswered DEF Accepted, Unanswered
  <2> QED
    BY <2>1, UnansweredTrue
<1>4. CASE TakeNext \/ DrainDone
  BY <1>2, <1>4 DEF TakeNext, DrainDone, callers
<1>5. CASE ExecuteMaintenance
  BY <1>2, <1>5 DEF ExecuteMaintenance, IInv, LoopOwnsTurn
<1>6. CASE StartTurn
  <2>1. current \in Commands /\ pc[current] = "queued" /\ active_turn \in Keys /\ outcome' = outcome
    BY <1>6, AtLoopQueued, NoRecoveryInTurn DEF StartTurn, AtLoop, TurnPhases
  <2>2. CASE Accepted(Sharing(current), active_turn)
    BY <1>3, <2>1, <2>2
  <2>3. CASE Rejected(Sharing(current) \cup CancelledCalls) /\ handle' = handle
    BY <1>2, <2>1, <2>3, CancelledUnanswered
  <2> QED
    BY <1>6, <2>2, <2>3 DEF StartTurn
<1>7. CASE AbsorbDrained
  <2> DEFINE c == Head(drained)
  <2>1. /\ c \in Commands /\ pc[c] = "queued" /\ active_turn \in Keys /\ outcome' = outcome
    <3>1. c = drained[1] /\ 1 \in DOMAIN drained
      BY <1>7, CommandsTyped DEF AbsorbDrained
    <3> QED
      BY <1>7, <3>1, NoRecoveryInTurn, CommandsTyped DEF AbsorbDrained, TurnPhases, LineInv, Line
  <2>2. CASE Accepted(Sharing(c), active_turn)
    BY <1>3, <2>1, <2>2
  <2>3. CASE Rejected(Sharing(c)) /\ handle' = handle
    BY <1>2, <2>1, <2>3, CancelledUnanswered
  <2>4. CASE c \in Maintenance /\ pc' = [pc EXCEPT ![c] = "done"] /\ handle' = handle
    BY <1>2, <2>1, <2>4
  <2> QED
    BY <1>7, <2>2, <2>3, <2>4 DEF AbsorbDrained
<1>8. CASE ExecutorReturns \/ ChildrenSettle \/ TurnThrows
  BY <1>2, <1>8, CancelledUnanswered
  DEF ExecutorReturns, ChildrenSettle, TurnThrows, AbsorbOrClose, CloseWindow
<1>9. CASE FixStatus
  <2>1. \A c \in Calls : c \notin Cancelled(queue, Maintenance)
    BY <1>1, CancelledMember
  <2>2. Unanswered
    BY <1>1, <1>9, <2>1 DEF FixStatus, Unanswered
  <2> QED
    BY <2>2, UnansweredTrue
<1>10. CASE PrepareCompletion
  <2>1. CASE callers' = callers
    BY <1>2, <2>1 DEF callers
  <2>2. CASE Unacknowledged
    <3>1. Settle("unacknowledged") /\ "unacknowledged" \notin Statuses
      BY <2>2 DEF Unacknowledged, Statuses
    <3> QED
      BY <3>1, SettleTrue
  <2> QED
    BY <1>10, <2>1, <2>2 DEF PrepareCompletion
<1>11. CASE CompleteTurn
  <2>1. Settle(journal[active_turn]) /\ journal' = journal
    BY <1>11 DEF CompleteTurn, Finished, durable
  <2> QED
    BY <2>1, SettleTrue
<1>12. CASE FailTurn
  <2>1. CASE Finished(journal'[active_turn], {})
    BY <2>1, SettleTrue DEF Finished
  <2>2. CASE Unacknowledged
    <3>1. Settle("unacknowledged") /\ "unacknowledged" \notin Statuses
      BY <2>2 DEF Unacknowledged, Statuses
    <3> QED
      BY <3>1, SettleTrue
  <2> QED
    BY <1>12, <2>1, <2>2 DEF FailTurn
<1> QED
  BY <1>4, <1>5, <1>6, <1>7, <1>8, <1>9, <1>10, <1>11, <1>12 DEF LoopStep

LEMMA StopTold ==
  ASSUME IInv, LineInv, ToldInv, NEW s \in Stoppers, StopBegin(s) \/ StopStep(s)
  PROVE  \A c \in Calls : ToldTrue(c)
<1>1. CASE StopBegin(s)
  <2>1. Unanswered
    BY <1>1, CancelledUnanswered, CommandsTyped DEF StopBegin, Rejected, Unanswered
  <2> QED
    BY <2>1, UnansweredTrue
<1>2. CASE StopEnd(s)
  <2>1. Unanswered
    BY <1>2 DEF StopEnd, callers, Unanswered
  <2> QED
    BY <2>1, UnansweredTrue
<1>3. CASE StopRecovers(s)
  <2>1. CASE \E also : Finished(journal'[active_turn], also)
    BY <2>1, SettleTrue DEF Finished
  <2>2. CASE Unacknowledged
    <3>1. Settle("unacknowledged") /\ "unacknowledged" \notin Statuses
      BY <2>2 DEF Unacknowledged, Statuses
    <3> QED
      BY <3>1, SettleTrue
  <2> QED
    BY <1>3, <2>1, <2>2 DEF StopRecovers
<1> QED
  BY <1>1, <1>2, <1>3 DEF StopStep

LEMMA NextTold == ASSUME IInv, LineInv, ToldInv, [Next]_vars PROVE ToldInv'
<1> SUFFICES \A c \in Calls : ToldTrue(c)
  BY ToldKeeps
<1>1. CASE LoopStep
  BY <1>1, LoopTold
<1>2. ASSUME NEW c \in Calls, Prompt(c) \/ AcceptDelegationResult(c) \/ CallStep(c)
      PROVE  \A d \in Calls : ToldTrue(d)
  BY <1>2, CallsTold
<1>3. ASSUME NEW s \in Stoppers, StopBegin(s) \/ StopStep(s) PROVE \A c \in Calls : ToldTrue(c)
  BY <1>3, StopTold
<1>4. CASE InitializeOccupation \/ Checkpoint \/ UNCHANGED vars
  <2>1. Unanswered
    BY <1>4 DEF InitializeOccupation, Checkpoint, vars, callers, Unanswered
  <2> QED
    BY <2>1, UnansweredTrue
<1>6. ASSUME NEW m \in Maintenance, EnqueueMaintenance(m) PROVE \A c \in Calls : ToldTrue(c)
  <2>1. /\ UNCHANGED <<outcome, handle>> /\ pc' = [pc EXCEPT ![m] = "queued"]
        /\ pc \in [Commands -> CallPcs \cup {"done"}]
    BY <1>6 DEF EnqueueMaintenance, IInv, TypeOK
  <2>2. \A c \in Calls : pc'[c] = pc[c]
    BY <2>1, CommandsTyped
  <2> QED
    BY <2>1, <2>2, UnansweredTrue DEF Unanswered
<1>5. CASE Crash
  <2> SUFFICES ASSUME NEW c \in Calls PROVE ToldTrue(c)
    OBVIOUS
  <2>1. /\ outcome'[c] = outcome[c] /\ handle'[c] = handle[c] /\ c \in Commands
        /\ pc'[c] = IF \/ pc[c] \in {"idle", "rejected", "saved", "done", "lost"}
                       \/ c \in Calls /\ pc[c] = "accepted" /\ outcome[c] # "pending"
                    THEN pc[c] ELSE "lost"
    BY <1>5, CommandsTyped DEF Crash
  <2> QED
    BY <2>1 DEF ToldTrue, ToldInv, ToldWhenAccepted
<1> QED
  BY <1>1, <1>2, <1>3, <1>4, <1>5, <1>6 DEF Next

\* A caller is told what the completion journal says of its Turn, through stops, late failures,
\* failed acknowledgements and restarts (SessionTurnCompletion.ts, resolve_idempotent_prompt).
THEOREM CallersToldTheRecord == Spec => []SettledAsRecorded
<1>1. ASSUME Init PROVE ToldInv
  <2>1. \A c \in Calls : outcome[c] = "pending" /\ pc[c] = "idle"
    BY <1>1, LoopAssumption DEF Init, Commands
  <2> QED
    BY <2>1 DEF ToldInv, ToldWhenAccepted, SettledAsRecorded, Statuses
<1>2. IInv /\ ResultsApart /\ LineInv /\ ToldInv => SettledAsRecorded
  BY DEF ToldInv
<1> QED
  BY InitLine, NextInv, NextApart, NextLine, NextTold, <1>1, <1>2, PTL DEF Spec


-----------------------------------------------------------------------------
\* The leases.

\* A submission that holds its lease itself.
Submitting == {"preparing", "sharing", "resolving", "blocked", "woken", "queued"}

\* A step that admits nobody: whoever lets a lease go hands it on.
HandedOn ==
  /\ \A l \in Leases : holder'[l] # NoActor => holder[l] # NoActor
  /\ \A c \in Calls : holder'[c] # NoActor /\ pc[c] \in Submitting =>
       pc'[c] \in Submitting \/ (c \in on_finish' /\ active_turn' # NoTurn)
  /\ \A l \in on_finish : holder'[l] # NoActor /\ active_turn # NoTurn =>
       (l \in on_finish' /\ active_turn' # NoTurn) \/ l \in failed_releases'
  /\ \A l \in failed_releases : holder'[l] # NoActor => l \in failed_releases'
  /\ recovered_release /\ holder'[Recovery] # NoActor =>
       recovered_release' \/ (Recovery \in on_finish' /\ active_turn' # NoTurn)

LEMMA HandedOnKeeps == ASSUME NoLeaseLost, HandedOn PROVE NoLeaseLost'
BY DEF NoLeaseLost, HandedOn, Submitting

\* A release ends the leases it is for and no other.
LEMMA ReleaseEnds ==
  ASSUME NEW S, Release(S)
  PROVE  \A l \in Leases : holder'[l] = IF l \in S THEN NoActor ELSE holder[l]
BY DEF Release

\* The steps that move no lease: no call that holds one leaves its submission.
LeasesAside ==
  /\ UNCHANGED <<occupation, releases>>
  /\ active_turn # NoTurn => active_turn' # NoTurn
  /\ \A c \in Calls : pc[c] \in Submitting => pc'[c] \in Submitting

LEMMA LeasesAsideKeep == ASSUME NoLeaseLost, LeasesAside PROVE NoLeaseLost'
<1> HandedOn
  BY LeasesFinite DEF LeasesAside, HandedOn, occupation, releases
<1> QED
  BY HandedOnKeeps

\* The calls of S fail: while a Turn is active their leases wait for its finish.
LEMMA RejectedHandOn ==
  ASSUME IInv, NoLeaseLost, NEW S \in SUBSET Calls, NEW b \in BOOLEAN, Rejected(S), RejectedLeases(S, b),
         b => active_turn' # NoTurn, ~b => active_turn' = active_turn,
         UNCHANGED <<recovered_turn_id, recovered_release, failed_releases>>
  PROVE  NoLeaseLost'
<1>1. /\ \A c \in Calls \ S : pc'[c] = pc[c]
      /\ \A c \in S : holder[c] # NoActor => c \in Leased(S)
      /\ Leased(S) \subseteq S
      /\ Calls \subseteq Leases
  BY DEF Rejected, Commands, Leased, Leases
<1>2. CASE b
  <2>1. on_finish' = on_finish \cup Leased(S) /\ UNCHANGED occupation /\ active_turn' # NoTurn
    BY <1>2 DEF RejectedLeases
  <2>2. HandedOn
    BY <1>1, <2>1 DEF HandedOn, occupation
  <2> QED
    BY <2>2, HandedOnKeeps
<1>3. CASE ~b
  <2>1. /\ \A l \in Leases : holder'[l] = IF l \in Leased(S) THEN NoActor ELSE holder[l]
        /\ on_finish' = on_finish /\ active_turn' = active_turn
    BY <1>3, ReleaseEnds DEF RejectedLeases
  <2>2. on_finish \subseteq Leases /\ failed_releases \subseteq Leases /\ Recovery \in Leases
    BY DEF IInv, TypeOK, Leases
  <2>3. HandedOn
    BY <1>1, <2>1, <2>2 DEF HandedOn
  <2> QED
    BY <2>3, HandedOnKeeps
<1> QED
  BY <1>2, <1>3

\* The calls of S obtain a handle on the active Turn.
LEMMA AcceptedHandOn ==
  ASSUME IInv, NoLeaseLost, NEW S \in SUBSET Calls, NEW t, Accepted(S, t), AcceptedLeases(S),
         active_turn \in Keys, UNCHANGED <<active_turn, failed_releases, occupation>>
  PROVE  NoLeaseLost'
<1>1. /\ \A c \in Calls \ S : pc'[c] = pc[c]
      /\ \A c \in S : holder[c] # NoActor => c \in Leased(S)
      /\ Calls \subseteq Leases
      /\ active_turn' # NoTurn
  BY LoopAssumption DEF Accepted, Commands, Leased, Leases
<1>2. /\ on_finish \subseteq on_finish' /\ Leased(S) \subseteq on_finish'
      /\ recovered_release => recovered_release' \/ Recovery \in on_finish'
  BY DEF AcceptedLeases
<1>3. HandedOn
  BY <1>1, <1>2 DEF HandedOn, occupation
<1> QED
  BY <1>3, HandedOnKeeps

\* The finish of a Turn ends its leases, or keeps them for a later Turn.
LEMMA SettledSubmits ==
  ASSUME NEW status, Settle(status)
  PROVE  \A c \in Calls : pc[c] \in Submitting =>
           pc'[c] \in Submitting \/ (status = "unacknowledged" /\ pc'[c] = "rejected")
BY DEF Settle, WakeOnFinish, Submitting, Commands

LEMMA FinishedHandOn ==
  ASSUME IInv, NoLeaseLost, NEW status \in Statuses, NEW also, Finished(status, also),
         recovered_release => recovered_release' \/ Recovery \in also
  PROVE  NoLeaseLost'
<1> DEFINE parked == IF \E c \in on_finish \cap Calls : pc[c] = "accepted"
                     THEN failed_releases ELSE {}
<1>1. /\ Settle(status) /\ Release(on_finish \cup parked \cup also)
      /\ failed_releases' = failed_releases \ (parked \cup also) /\ on_finish' = {}
  BY DEF Finished
<1>2. /\ on_finish \subseteq Leases /\ failed_releases \subseteq Leases /\ Recovery \in Leases
      /\ Calls \subseteq Leases
  BY DEF IInv, TypeOK, Leases
<1> HIDE DEF parked
<1>3. \A l \in Leases : holder'[l] = IF l \in on_finish \cup parked \cup also THEN NoActor ELSE holder[l]
  BY <1>1, ReleaseEnds
<1>4. \A c \in Calls : pc[c] \in Submitting => pc'[c] \in Submitting
  BY <1>1, SettledSubmits DEF Statuses
<1>5. HandedOn
  BY <1>1, <1>2, <1>3, <1>4 DEF HandedOn
<1> QED
  BY <1>5, HandedOnKeeps

LEMMA UnacknowledgedHandOn ==
  ASSUME IInv, NoLeaseLost, Unacknowledged, recovered_release' = recovered_release
  PROVE  NoLeaseLost'
<1> DEFINE R == {c \in Calls : pc'[c] = "rejected" /\ pc[c] # "rejected"}
<1>1. /\ Settle("unacknowledged") /\ Release(R)
      /\ failed_releases' = failed_releases \cup on_finish /\ on_finish' = {}
  BY DEF Unacknowledged
<1>2. /\ on_finish \subseteq Leases /\ failed_releases \subseteq Leases /\ Recovery \in Leases
      /\ Calls \subseteq Leases
  BY DEF IInv, TypeOK, Leases
<1>3. \A c \in Calls : pc[c] \in Submitting => pc'[c] \in Submitting \/ c \in R
  BY <1>1, SettledSubmits DEF Submitting
<1> HIDE DEF R
<1>4. \A l \in Leases : holder'[l] = IF l \in R THEN NoActor ELSE holder[l]
  BY <1>1, ReleaseEnds
<1>5. HandedOn
  BY <1>1, <1>2, <1>3, <1>4 DEF HandedOn
<1> QED
  BY <1>5, HandedOnKeeps


LEMMA CallsHandOn ==
  ASSUME IInv, NoLeaseLost, NEW c \in Calls, Prompt(c) \/ AcceptDelegationResult(c) \/ CallStep(c)
  PROVE  NoLeaseLost'
<1>1. /\ pc \in [Commands -> CallPcs \cup {"done"}] /\ c \in Commands /\ Calls \subseteq Commands
      /\ Calls \subseteq Leases /\ Recovery \in Leases /\ Recovery \notin Calls
      /\ holder \in [Leases -> Actors \cup {NoActor}]
  BY LoopAssumption DEF IInv, TypeOK, Commands, Leases
<1>2. ASSUME NEW v, pc' = [pc EXCEPT ![c] = v], v \in Submitting \/ holder[c] = NoActor,
             UNCHANGED <<occupation, releases, active_turn>>
      PROVE  NoLeaseLost'
  <2>1. \A d \in Calls \ {c} : pc'[d] = pc[d]
    BY <1>1, <1>2
  <2>2. pc'[c] = v
    BY <1>1, <1>2
  <2>3. HandedOn
    BY <1>1, <1>2, <2>1, <2>2 DEF HandedOn, occupation, releases
  <2> QED
    BY <2>3, HandedOnKeeps
<1>3. pc[c] \in {"idle", "reading"} => holder[c] = NoActor
  BY DEF IInv, UnleasedBeforeAdmission
<1>4. ASSUME Fails(c), UNCHANGED <<active_turn, recovered_turn_id, recovered_release, failed_releases>>
      PROVE  NoLeaseLost'
  <2>1. active_turn # NoTurn => active_turn' # NoTurn
    BY <1>4
  <2> QED
    BY <1>4, <2>1, SharingCalls, RejectedHandOn DEF Fail, Fails
<1>5. ASSUME NEW v, Move(c, v), v \in Submitting,
             UNCHANGED <<active_turn, recovered_turn_id, recovered_release, failed_releases>>
      PROVE  NoLeaseLost'
  BY <1>2, <1>5 DEF Move, releases
<1>6. ASSUME Submit(c), UNCHANGED <<active_turn, recovered_turn_id, recovered_release, failed_releases>>
      PROVE  NoLeaseLost'
  BY <1>2, <1>6 DEF Submit, Enqueue, releases, Submitting
<1>7. CASE Prompt(c)
  BY <1>2, <1>3, <1>7 DEF Prompt, turn
<1>8. CASE AcceptDelegationResult(c)
  BY <1>2, <1>3, <1>8 DEF AcceptDelegationResult, Enqueue, turn
<1>9. CASE Admit(c)
  <2>1. /\ pc[c] = "reading" /\ holder[c] = NoActor /\ UNCHANGED <<releases, active_turn>>
    BY <1>3, <1>9 DEF Admit, turn
  <2>2. CASE Refuse(c)
    <3>1. pc' = [pc EXCEPT ![c] = "rejected"]
      BY <1>1, <2>2 DEF Refuse, Rejected
    <3> QED
      BY <1>2, <2>1, <2>2, <3>1 DEF Refuse
  <2>3. CASE pc' = [pc EXCEPT ![c] = "joining"] /\ UNCHANGED occupation
    BY <1>2, <2>1, <2>3
  <2>4. CASE pc' = [pc EXCEPT ![c] = "waiting"] /\ UNCHANGED occupation
    BY <1>2, <2>1, <2>4
  <2>5. CASE pc' = [pc EXCEPT ![c] = "preparing"] /\ Acquire(c, ActorOf[c])
    <3>1. \A l \in Leases \ {c} : holder'[l] = holder[l]
      BY <1>1, <2>5 DEF Acquire
    <3>2. pc'[c] = "preparing" /\ \A d \in Calls \ {c} : pc'[d] = pc[d]
      BY <1>1, <2>5
    <3> QED
      BY <1>1, <2>1, <3>1, <3>2 DEF NoLeaseLost, releases
  <2> QED
    BY <1>9, <2>2, <2>3, <2>4, <2>5 DEF Admit, Arbitrate
<1>10. CASE EnsureRunnable(c)
  BY <1>4, <1>5, <1>6, <1>10 DEF EnsureRunnable, turn, Submitting, Fails
<1>11. CASE ResumeSubmission(c)
  BY <1>4, <1>6, <1>11 DEF ResumeSubmission, turn, Fails
<1>12. CASE PromptWithIdentity(c)
  <2>1. /\ pc[c] \in {"resolving", "joining"} /\ UNCHANGED active_turn
    BY <1>12 DEF PromptWithIdentity, turn
  <2>2. CASE ~OtherAuthor(c) /\ Resolvable(KeyOf[c]) /\ Join(c)
    <3> DEFINE S == Sharing(c)
               t == message[KeyOf[c]].turn
    <3>1. S \in SUBSET Calls /\ t \in Keys
      BY <2>2, SharingCalls, LoopAssumption DEF Resolvable, IInv, TypeOK, NoMessage
    <3>2. Accepted(S, t)
      BY <2>2 DEF Join
    <3>3. CASE active_turn = t
      BY <2>1, <2>2, <3>1, <3>2, <3>3, AcceptedHandOn DEF Join
    <3>4. CASE active_turn # t /\ Leased(S) = {}
      <4>1. /\ UNCHANGED <<occupation, releases>> /\ \A d \in S : holder[d] = NoActor
        BY <2>2, <3>4 DEF Join, Leased
      <4>2. \A d \in Calls \ S : pc'[d] = pc[d]
        BY <1>1, <3>2 DEF Accepted
      <4>3. HandedOn
        BY <1>1, <2>1, <3>1, <4>1, <4>2 DEF HandedOn, occupation, releases
      <4> QED
        BY <4>3, HandedOnKeeps
    <3>5. CASE active_turn # t /\ Leased(S) # {}
      <4> DEFINE all == Leased(S) \cup failed_releases \cup (IF recovered_release THEN {Recovery} ELSE {})
      <4>1. Release(all) /\ on_finish' = on_finish
        BY <2>2, <3>5 DEF Join
      <4>2. \A l \in Leases : holder'[l] = IF l \in all THEN NoActor ELSE holder[l]
        BY <4>1, ReleaseEnds
      <4>3. \A d \in Calls \ S : pc'[d] = pc[d]
        BY <1>1, <3>2 DEF Accepted
      <4>4. \A d \in S : holder[d] # NoActor => d \in all
        BY DEF Leased
      <4>5. failed_releases \subseteq all /\ on_finish \subseteq Leases /\ failed_releases \subseteq Leases
            /\ (recovered_release => Recovery \in all)
        BY DEF IInv, TypeOK
      <4> HIDE DEF all
      <4>6. HandedOn
        BY <1>1, <2>1, <4>1, <4>2, <4>3, <4>4, <4>5 DEF HandedOn
      <4> QED
        BY <4>6, HandedOnKeeps
    <3> QED
      BY <3>3, <3>4, <3>5
  <2>3. CASE Fails(c) /\ UNCHANGED <<recovered_turn_id, recovered_release, failed_releases>>
    BY <1>4, <2>1, <2>3
  <2>4. CASE Move(c, "blocked") /\ UNCHANGED <<recovered_turn_id, recovered_release, failed_releases>>
    BY <1>5, <2>1, <2>4 DEF Submitting
  <2>5. CASE Submit(c) /\ UNCHANGED <<recovered_turn_id, recovered_release, failed_releases>>
    BY <1>6, <2>1, <2>5
  <2> QED
    BY <1>12, <2>2, <2>3, <2>4, <2>5 DEF PromptWithIdentity, Fails
<1> QED
  BY <1>7, <1>8, <1>9, <1>10, <1>11, <1>12 DEF CallStep


LEMMA LoopHandsOn == ASSUME IInv, LineInv, NoLeaseLost, LoopStep PROVE NoLeaseLost'
<1>1. /\ pc \in [Commands -> CallPcs \cup {"done"}] /\ Calls \subseteq Commands
      /\ Maintenance \cap Calls = {} /\ NoTurn \notin Keys
  BY LoopAssumption DEF IInv, TypeOK, Commands
<1>2. phase \in TurnPhases => active_turn \in Keys
  BY DEF IInv, LoopOwnsTurn
<1>3. phase = "persist" => current \in Calls
  BY DEF IInv, LoopOwnsTurn
<1>4. CASE TakeNext
  <2>1. HasCommand(queue) /\ Head(queue) \in Calls => command[Head(queue)].turn \in Keys
    <3>1. HasCommand(queue) => 1 \in DOMAIN queue /\ Head(queue) = queue[1]
      BY CommandsTyped DEF HasCommand
    <3> QED
      BY <3>1 DEF IInv, CommandsBound, QueueBound, Bound
  <2>2. active_turn # NoTurn => active_turn' # NoTurn
    BY <1>1, <1>4, <2>1 DEF TakeNext, turn
  <2> QED
    BY <1>4, <2>2, LeasesAsideKeep DEF TakeNext, LeasesAside, callers
<1>5. CASE ExecuteMaintenance
  <2>1. \A c \in Calls : pc'[c] = pc[c]
    BY <1>1, <1>5 DEF ExecuteMaintenance, IInv, LoopOwnsTurn
  <2> QED
    BY <1>5, <2>1, LeasesAsideKeep DEF ExecuteMaintenance, LeasesAside, turn
<1>6. CASE DrainDone
  BY <1>6, LeasesAsideKeep DEF DrainDone, LeasesAside, turn, callers
<1>7. CASE FixStatus
  <2>1. \A c \in Calls : pc'[c] = pc[c]
    BY <1>1, <1>7, CancelledMember DEF FixStatus
  <2> QED
    BY <1>7, <2>1, LeasesAsideKeep DEF FixStatus, LeasesAside, turn
<1>8. CASE StartTurn
  <2>1. Sharing(current) \in SUBSET Calls /\ Sharing(current) \cup CancelledCalls \in SUBSET Calls
    BY <1>3, <1>8, SharingCalls, CancelledAreCalls DEF StartTurn
  <2>2. active_turn \in Keys /\ active_turn' # NoTurn
    BY <1>1, <1>2, <1>8 DEF StartTurn, TurnPhases
  <2>3. CASE Accepted(Sharing(current), active_turn) /\ AcceptedLeases(Sharing(current))
             /\ UNCHANGED occupation
    BY <1>8, <2>1, <2>2, <2>3, AcceptedHandOn DEF StartTurn
  <2>4. CASE /\ Rejected(Sharing(current) \cup CancelledCalls)
             /\ RejectedLeases(Sharing(current) \cup CancelledCalls, TRUE)
             /\ UNCHANGED <<recovered_turn_id, recovered_release>>
    BY <1>8, <2>1, <2>2, <2>4, RejectedHandOn DEF StartTurn
  <2> QED
    BY <1>8, <2>3, <2>4 DEF StartTurn
<1>9. CASE AbsorbDrained
  <2> DEFINE c == Head(drained)
  <2>1. active_turn \in Keys /\ active_turn' # NoTurn
    BY <1>1, <1>2, <1>9 DEF AbsorbDrained, TurnPhases, turn
  <2>2. CASE c \in Maintenance /\ pc' = [pc EXCEPT ![c] = "done"]
             /\ UNCHANGED <<recovered_turn_id, recovered_release, on_finish>>
    <3>1. \A d \in Calls : pc'[d] = pc[d]
      BY <1>1, <2>2
    <3> QED
      BY <1>9, <2>2, <3>1, LeasesAsideKeep DEF AbsorbDrained, LeasesAside, turn, releases
  <2>3. CASE c \in Calls /\ Accepted(Sharing(c), active_turn) /\ AcceptedLeases(Sharing(c))
    BY <1>9, <2>1, <2>3, SharingCalls, AcceptedHandOn DEF AbsorbDrained, turn
  <2>4. CASE /\ c \in Calls /\ Rejected(Sharing(c))
             /\ on_finish' = on_finish \cup Leased(Sharing(c))
             /\ UNCHANGED <<recovered_turn_id, recovered_release>>
    <3>1. RejectedLeases(Sharing(c), TRUE)
      BY <1>9, <2>4 DEF AbsorbDrained, RejectedLeases
    <3> QED
      BY <1>9, <2>1, <2>4, <3>1, SharingCalls, RejectedHandOn DEF AbsorbDrained
  <2> QED
    BY <1>9, <2>2, <2>3, <2>4 DEF AbsorbDrained
<1>10. ASSUME phase \in TurnPhases, UNCHANGED <<active_turn, recovered_turn_id, recovered_release, failed_releases>>,
              \/ Rejected(CancelledCalls) /\ RejectedLeases(CancelledCalls, TRUE)
              \/ UNCHANGED <<pc, on_finish, occupation>>
       PROVE  NoLeaseLost'
  <2>1. CASE Rejected(CancelledCalls) /\ RejectedLeases(CancelledCalls, TRUE)
    BY <1>1, <1>2, <1>10, <2>1, CancelledAreCalls, RejectedHandOn
  <2>2. CASE UNCHANGED <<pc, on_finish, occupation>>
    BY <1>10, <2>2, LeasesAsideKeep DEF LeasesAside, releases
  <2> QED
    BY <1>10, <2>1, <2>2
<1>11. CASE ExecutorReturns \/ ChildrenSettle
  BY <1>10, <1>11 DEF ExecutorReturns, ChildrenSettle, AbsorbOrClose, CloseWindow, TurnPhases
<1>12. CASE TurnThrows
  BY <1>10, <1>12 DEF TurnThrows, TurnPhases
<1>13. CASE PrepareCompletion
  <2>1. CASE Unacknowledged /\ UNCHANGED recovered_release
    BY <2>1, UnacknowledgedHandOn
  <2>2. CASE UNCHANGED <<occupation, releases, turn, callers>>
    BY <2>2, LeasesAsideKeep DEF LeasesAside, turn, callers
  <2> QED
    BY <1>13, <2>1, <2>2 DEF PrepareCompletion
<1>14. CASE CompleteTurn
  <2>1. journal[active_turn] \in Statuses /\ Finished(journal[active_turn], {})
        /\ UNCHANGED recovered_release
    BY <1>14 DEF CompleteTurn, IInv, LoopOwnsTurn
  <2> QED
    BY <2>1, FinishedHandOn
<1>15. CASE FailTurn
  <2>1. CASE Unacknowledged
    BY <1>15, <2>1, UnacknowledgedHandOn DEF FailTurn
  <2>2. CASE Seal(IF aborted THEN "stopped" ELSE "failed") /\ Finished(journal'[active_turn], {})
    <3>1. active_turn \in Keys /\ UNCHANGED recovered_release
      BY <1>2, <1>15 DEF FailTurn, TurnPhases
    <3>2. journal'[active_turn] \in Statuses
      BY <2>2, <3>1, SealKeeps DEF IInv, Statuses
    <3> QED
      BY <2>2, <3>1, <3>2, FinishedHandOn
  <2> QED
    BY <1>15, <2>1, <2>2 DEF FailTurn
<1> QED
  BY <1>4, <1>5, <1>6, <1>7, <1>8, <1>9, <1>11, <1>12, <1>13, <1>14, <1>15 DEF LoopStep

LEMMA StopHandsOn ==
  ASSUME IInv, NoLeaseLost, NEW s \in Stoppers, StopBegin(s) \/ StopStep(s)
  PROVE  NoLeaseLost'
<1>1. CASE StopBegin(s)
  <2>1. /\ Rejected(CancelledCalls) /\ CancelledCalls \in SUBSET Calls
        /\ UNCHANGED <<recovered_turn_id, recovered_release, failed_releases>>
    BY <1>1, CancelledAreCalls DEF StopBegin
  <2>2. CASE RejectedLeases(CancelledCalls, TRUE) /\ active_turn' # NoTurn
    BY <2>1, <2>2, RejectedHandOn
  <2>3. CASE RejectedLeases(CancelledCalls, FALSE) /\ active_turn' = active_turn
    BY <2>1, <2>3, RejectedHandOn
  <2> QED
    BY <1>1, <2>2, <2>3 DEF StopBegin, turn
<1>2. CASE StopEnd(s)
  BY <1>2, LeasesAsideKeep DEF StopEnd, LeasesAside, turn, callers
<1>3. CASE StopRecovers(s)
  <2>1. CASE Unacknowledged /\ UNCHANGED recovered_release
    BY <2>1, UnacknowledgedHandOn
  <2>2. CASE /\ Seal("stopped")
             /\ Finished(journal'[active_turn],
                         failed_releases \cup (IF recovered_release THEN {Recovery} ELSE {}))
    <3>1. active_turn \in Keys
      BY <1>3 DEF StopRecovers, IInv, StopOwnsRecovery
    <3>2. journal'[active_turn] \in Statuses
      BY <2>2, <3>1, SealKeeps DEF IInv, Statuses
    <3>3. recovered_release =>
            Recovery \in failed_releases \cup (IF recovered_release THEN {Recovery} ELSE {})
      OBVIOUS
    <3> QED
      BY <2>2, <3>2, <3>3, FinishedHandOn
  <2> QED
    BY <1>3, <2>1, <2>2 DEF StopRecovers
<1> QED
  BY <1>1, <1>2, <1>3 DEF StopStep

LEMMA NextHandsOn == ASSUME IInv, LineInv, NoLeaseLost, [Next]_vars PROVE NoLeaseLost'
<1>1. CASE LoopStep
  BY <1>1, LoopHandsOn
<1>2. ASSUME NEW c \in Calls, Prompt(c) \/ AcceptDelegationResult(c) \/ CallStep(c) PROVE NoLeaseLost'
  BY <1>2, CallsHandOn
<1>3. ASSUME NEW s \in Stoppers, StopBegin(s) \/ StopStep(s) PROVE NoLeaseLost'
  BY <1>3, StopHandsOn
<1>4. CASE Checkpoint \/ UNCHANGED vars
  BY <1>4, LeasesAsideKeep DEF Checkpoint, vars, LeasesAside, turn, callers
<1>5. ASSUME NEW m \in Maintenance, EnqueueMaintenance(m) PROVE NoLeaseLost'
  <2>1. /\ UNCHANGED <<occupation, releases, turn>> /\ pc' = [pc EXCEPT ![m] = "queued"]
        /\ pc \in [Commands -> CallPcs \cup {"done"}]
    BY <1>5 DEF EnqueueMaintenance, IInv, TypeOK
  <2>2. \A c \in Calls : pc'[c] = pc[c]
    BY <2>1, CommandsTyped
  <2> QED
    BY <2>1, <2>2, LeasesAsideKeep DEF LeasesAside, turn
<1>6. CASE InitializeOccupation
  <2>1. /\ \A l \in Leases : holder[l] = NoActor
        /\ holder \in [Leases -> Actors \cup {NoActor}]
    BY <1>6 DEF InitializeOccupation, IInv, UnleasedBeforeAdmission, TypeOK
  <2>2. CASE UNCHANGED occupation
    BY <2>1, <2>2 DEF NoLeaseLost, occupation
  <2>3. ASSUME NEW a, Acquire(Recovery, a), recovered_release' = TRUE PROVE NoLeaseLost'
    <3>1. \A l \in Leases \ {Recovery} : holder'[l] = NoActor
      BY <2>1, <2>3 DEF Acquire
    <3> QED
      BY <2>3, <3>1 DEF NoLeaseLost
  <2> QED
    BY <1>6, <2>2, <2>3 DEF InitializeOccupation
<1>7. CASE Crash
  BY <1>7 DEF Crash, NoLeaseLost
<1> QED
  BY <1>1, <1>2, <1>3, <1>4, <1>5, <1>6, <1>7 DEF Next

\* Every lease has somebody who will run its release: the submission, the finish of the Turn, a
\* later finish when a Turn could not be acknowledged, or the recovery (SessionOccupation.ts,
\* submit_normalized_prompt, bind_release_to_turn).
THEOREM LeasesAreKept == Spec => []NoLeaseLost
<1>1. Init => NoLeaseLost
  BY DEF Init, NoLeaseLost
<1> QED
  BY <1>1, InitLine, NextInv, NextApart, NextLine, NextHandsOn, PTL DEF Spec


-----------------------------------------------------------------------------
\* What is stored.

Stored(k) == message[k] # NoMessage

\* A step takes a call no further than the finish of a Turn takes it, and leaves its lease alone.
Carries(c) ==
  /\ pc'[c] \in Working =>
       /\ \/ pc'[c] = pc[c]
          \/ pc[c] = "blocked" /\ pc'[c] = "woken"
          \/ pc[c] = "waiting" /\ pc'[c] = "reading"
       /\ holder'[c] = holder[c] /\ c \notin on_finish' \cup failed_releases'
  /\ pc'[c] = "queued" => command'[c] = command[c]

\* The message of a command that stood in line is stored.
Stores(c) ==
  /\ pc[c] = "queued" /\ ~command[c].stored /\ pc'[c] \notin Working
  /\ message' = [message EXCEPT ![KeyOf[c]] = [turn |-> active_turn, from |-> command[c].from]]
  /\ history' = Append(history, KeyOf[c])
  /\ active_turn \in Keys /\ (c \in Results => active_turn = TargetOf[c])

\* A message is written once and then it stays.
LEMMA StoresOnce ==
  ASSUME IInv, StoreInv, NEW c \in Calls, Stores(c)
  PROVE  /\ ~Stored(KeyOf[c]) /\ message'[KeyOf[c]].turn = active_turn
         /\ message'[KeyOf[c]] # NoMessage
         /\ \A k \in Keys \ {KeyOf[c]} : message'[k] = message[k]
         /\ StoredOnce' /\ ResultStaysInItsTurn'
<1>1. /\ message \in [Keys -> [turn : Keys, from : Actors] \cup {NoMessage}] /\ history \in Seq(Keys)
      /\ KeyOf \in [Calls -> Keys] /\ NoTurn \notin Keys /\ Results \subseteq Calls
  BY LoopAssumption DEF IInv, TypeOK
<1>2. ~Stored(KeyOf[c])
  BY DEF Stores, StoreInv, KnowsStored, Stored
<1>3. /\ message'[KeyOf[c]] = [turn |-> active_turn, from |-> command[c].from]
      /\ \A k \in Keys \ {KeyOf[c]} : message'[k] = message[k]
  BY <1>1 DEF Stores
<1>4. message'[KeyOf[c]].turn = active_turn /\ message'[KeyOf[c]] # NoMessage
  BY <1>1, <1>3 DEF NoMessage, Stores
<1>5. StoredOnce'
  <2>1. \A i \in DOMAIN history : history[i] # KeyOf[c]
    BY <1>2 DEF IInv, HistoryStored, Stored
  <2>2. /\ history' = Append(history, KeyOf[c]) /\ KeyOf[c] \in Keys
        /\ \A i, j \in DOMAIN history : history[i] = history[j] => i = j
    BY <1>1 DEF Stores, StoreInv, StoredOnce
  <2>3. \A i \in DOMAIN history' :
          \/ i \in DOMAIN history /\ history'[i] = history[i]
          \/ i = Len(history) + 1 /\ history'[i] = KeyOf[c]
    BY <1>1, <2>2
  <2> QED
    BY <2>1, <2>2, <2>3 DEF StoredOnce
<1>6. ResultStaysInItsTurn'
  <2> SUFFICES ASSUME NEW r \in Results, message'[KeyOf[r]] # NoMessage
               PROVE  message'[KeyOf[r]].turn = TargetOf[r]
    BY DEF ResultStaysInItsTurn
  <2>1. CASE KeyOf[r] = KeyOf[c]
    <3>1. c \in Results /\ TargetOf[r] = TargetOf[c]
      BY <2>1, LoopAssumption
    <3> QED
      BY <1>4, <2>1, <3>1 DEF Stores
  <2>2. CASE KeyOf[r] # KeyOf[c]
    BY <1>1, <1>3, <2>2 DEF StoreInv, ResultStaysInItsTurn
  <2> QED
    BY <2>1, <2>2
<1> QED
  BY <1>2, <1>3, <1>4, <1>5, <1>6

LEMMA CarriesKeeps ==
  ASSUME IInv, StoreInv, \A c \in Calls : Carries(c),
         UNCHANGED <<message, history>> \/ \E c \in Calls : Stores(c)
  PROVE  StoreInv'
<1>1. \A d \in Calls : Stored(KeyOf[d]) => message'[KeyOf[d]] # NoMessage
  BY StoresOnce, LoopAssumption DEF Stored
<1>2. StoredOnce' /\ ResultStaysInItsTurn'
  BY StoresOnce DEF StoreInv, StoredOnce, ResultStaysInItsTurn
<1>3. InCharge'
  <2>1. \A c \in Calls : pc'[c] \in Working => c \notin on_finish' \cup failed_releases'
    BY DEF Carries
  <2>2. ASSUME NEW c \in Calls \ Results, pc'[c] \in {"preparing"} \cup Storing
        PROVE  holder'[c] # NoActor \/ message'[KeyOf[c]] # NoMessage
    <3>1. pc[c] \in {"preparing"} \cup Storing /\ holder'[c] = holder[c]
      BY <2>2 DEF Carries, Working, Storing
    <3> QED
      BY <1>1, <3>1 DEF StoreInv, InCharge, Stored
  <2>3. \A c \in Calls : pc'[c] = "joining" => message'[KeyOf[c]] # NoMessage
    BY <1>1 DEF Carries, Working, StoreInv, InCharge, Stored
  <2>4. \A c \in Calls : pc'[c] \in Storing => pc[c] \in Storing
    BY DEF Carries, Working, Storing
  <2>5. ASSUME NEW c \in Calls, NEW d \in Calls, pc'[c] \in Storing, pc'[d] \in Storing,
               KeyOf[c] = KeyOf[d], c # d
        PROVE  message'[KeyOf[c]] # NoMessage
    BY <1>1, <2>4, <2>5 DEF StoreInv, InCharge, Stored
  <2> QED
    BY <2>1, <2>2, <2>3, <2>5 DEF InCharge
<1>4. KnowsStored'
  <2> SUFFICES ASSUME NEW d \in Calls, pc'[d] = "queued"
               PROVE  command'[d].stored <=> message'[KeyOf[d]] # NoMessage
    BY DEF KnowsStored
  <2>1. pc[d] = "queued" /\ command'[d] = command[d]
    BY DEF Carries, Working
  <2>2. command[d].stored <=> Stored(KeyOf[d])
    BY <2>1 DEF StoreInv, KnowsStored, Stored
  <2>3. CASE UNCHANGED <<message, history>>
    BY <2>1, <2>2, <2>3 DEF Stored
  <2>4. ASSUME NEW c \in Calls, Stores(c) PROVE message'[KeyOf[d]] = message[KeyOf[d]]
    <3>1. c # d /\ pc[c] = "queued"
      BY <2>4 DEF Stores, Working
    <3>2. KeyOf[c] # KeyOf[d]
      BY <2>1, <2>4, <3>1, StoresOnce DEF StoreInv, InCharge, Storing, Stored
    <3> QED
      BY <2>4, <3>2, StoresOnce, LoopAssumption
  <2> QED
    BY <2>1, <2>2, <2>3, <2>4 DEF Stored
<1> QED
  BY <1>2, <1>3, <1>4 DEF StoreInv

\* The loop stores the message of the command it takes from the line.
LEMMA PersistStores ==
  ASSUME NEW c \in Calls, NEW saved \in BOOLEAN, Persist(c, saved), pc[c] = "queued",
         pc'[c] \notin Working, active_turn \in Keys, c \in Results => active_turn = TargetOf[c]
  PROVE  UNCHANGED <<message, history>> \/ Stores(c)
BY DEF Persist, Stores, durable

LEMMA CarriedAside ==
  ASSUME StoreInv, UNCHANGED <<occupation, on_finish, failed_releases, command>>,
         NEW c \in Calls, pc'[c] = pc[c]
  PROVE  Carries(c)
BY DEF Carries, StoreInv, InCharge, occupation

LEMMA RejectedCarry ==
  ASSUME StoreInv, NEW S \in SUBSET Calls, NEW b \in BOOLEAN, Rejected(S), RejectedLeases(S, b),
         UNCHANGED <<command, failed_releases>>
  PROVE  \A c \in Calls : Carries(c)
<1> SUFFICES ASSUME NEW c \in Calls PROVE Carries(c)
  OBVIOUS
<1>1. CASE c \in S
  BY <1>1 DEF Rejected, Commands, Carries, Working
<1>2. CASE c \notin S
  <2>1. pc'[c] = pc[c] /\ c \notin Leased(S)
    BY <1>2 DEF Rejected, Commands, Leased
  <2>2. holder'[c] = holder[c]
    BY <2>1, ReleaseEnds, LeasesFinite DEF RejectedLeases, occupation
  <2>3. on_finish' \subseteq on_finish \cup Leased(S)
    BY DEF RejectedLeases
  <2> QED
    BY <2>1, <2>2, <2>3 DEF Carries, StoreInv, InCharge
<1> QED
  BY <1>1, <1>2

LEMMA AcceptedCarry ==
  ASSUME StoreInv, NEW S \in SUBSET Calls, NEW t, Accepted(S, t), AcceptedLeases(S),
         UNCHANGED <<command, failed_releases, occupation>>
  PROVE  \A c \in Calls : Carries(c)
<1> SUFFICES ASSUME NEW c \in Calls PROVE Carries(c)
  OBVIOUS
<1>1. CASE c \in S
  BY <1>1 DEF Accepted, Commands, Carries, Working
<1>2. CASE c \notin S
  <2>1. pc'[c] = pc[c] /\ c \notin Leased(S)
    BY <1>2 DEF Accepted, Commands, Leased
  <2>2. c \notin on_finish' \ on_finish
    BY <2>1, LoopAssumption DEF AcceptedLeases
  <2> QED
    BY <2>1, <2>2 DEF Carries, StoreInv, InCharge, occupation
<1> QED
  BY <1>1, <1>2

\* Where the finish of a Turn takes a call.
LEMMA SettledGoes ==
  ASSUME NEW status, Settle(status), NEW c \in Calls, pc'[c] \in Working
  PROVE  /\ \/ pc'[c] = pc[c]
            \/ pc[c] = "blocked" /\ pc'[c] = "woken"
            \/ pc[c] = "waiting" /\ pc'[c] = "reading"
         /\ pc[c] \in Working
BY DEF Settle, WakeOnFinish, Working, Commands

LEMMA FinishedCarry ==
  ASSUME StoreInv, NEW status, NEW also, Finished(status, also), also \cap Calls \subseteq failed_releases
  PROVE  \A c \in Calls : Carries(c)
<1> SUFFICES ASSUME NEW c \in Calls PROVE Carries(c)
  OBVIOUS
<1> DEFINE parked == IF \E d \in on_finish \cap Calls : pc[d] = "accepted"
                     THEN failed_releases ELSE {}
<1>1. /\ Settle(status) /\ Release(on_finish \cup parked \cup also) /\ parked \subseteq failed_releases
      /\ failed_releases' = failed_releases \ (parked \cup also) /\ on_finish' = {}
  BY DEF Finished
<1> HIDE DEF parked
<1>2. command' = command
  BY <1>1 DEF Settle
<1>3. pc'[c] \in Working => c \notin on_finish \cup parked \cup also
  BY <1>1, SettledGoes DEF StoreInv, InCharge
<1>4. c \in Leases
  BY LeasesFinite
<1>5. pc'[c] \in Working => holder'[c] = holder[c] /\ c \notin on_finish' \cup failed_releases'
  BY <1>1, <1>3, <1>4, ReleaseEnds, SettledGoes DEF StoreInv, InCharge
<1> QED
  BY <1>1, <1>2, <1>5, SettledGoes DEF Carries

LEMMA UnacknowledgedCarry ==
  ASSUME StoreInv, Unacknowledged
  PROVE  \A c \in Calls : Carries(c)
<1> SUFFICES ASSUME NEW c \in Calls PROVE Carries(c)
  OBVIOUS
<1> DEFINE R == {d \in Calls : pc'[d] = "rejected" /\ pc[d] # "rejected"}
<1>1. /\ Settle("unacknowledged") /\ Release(R) /\ (c \in R => pc'[c] = "rejected")
      /\ failed_releases' = failed_releases \cup on_finish /\ on_finish' = {}
  BY DEF Unacknowledged
<1> HIDE DEF R
<1>2. command' = command
  BY <1>1 DEF Settle
<1>3. pc'[c] \in Working => c \notin R /\ c \notin on_finish \cup failed_releases
  BY <1>1, SettledGoes DEF StoreInv, InCharge, Working
<1>4. c \in Leases
  BY LeasesFinite
<1>5. pc'[c] \in Working => holder'[c] = holder[c] /\ c \notin on_finish' \cup failed_releases'
  BY <1>1, <1>3, <1>4, ReleaseEnds
<1> QED
  BY <1>1, <1>2, <1>5, SettledGoes DEF Carries


LEMMA LoopStores ==
  ASSUME IInv, LineInv, StoreInv, LoopStep
  PROVE  (\A c \in Calls : Carries(c)) /\ (UNCHANGED <<message, history>> \/ \E c \in Calls : Stores(c))
<1>1. /\ pc \in [Commands -> CallPcs \cup {"done"}] /\ Calls \subseteq Commands
      /\ Maintenance \cap Calls = {} /\ NoTurn \notin Keys
  BY LoopAssumption DEF IInv, TypeOK, Commands
<1>2. phase \in TurnPhases => active_turn \in Keys
  BY DEF IInv, LoopOwnsTurn
<1>3. CASE TakeNext \/ DrainDone
  BY <1>3, CarriedAside DEF TakeNext, DrainDone, callers, releases, durable
<1>4. CASE ExecuteMaintenance
  <2>1. \A c \in Calls : pc'[c] = pc[c]
    BY <1>1, <1>4 DEF ExecuteMaintenance, IInv, LoopOwnsTurn
  <2> QED
    BY <1>4, <2>1, CarriedAside DEF ExecuteMaintenance, releases, durable
<1>5. CASE FixStatus
  <2>1. \A c \in Calls : pc'[c] = pc[c]
    BY <1>1, <1>5, CancelledMember DEF FixStatus
  <2> QED
    BY <1>5, <2>1, CarriedAside DEF FixStatus, releases, durable
<1>6. CASE StartTurn
  <2>1. /\ current \in Calls /\ pc[current] = "queued" /\ active_turn \in Keys
        /\ current \notin Results /\ UNCHANGED <<command, failed_releases>>
        /\ current \in Sharing(current)
    BY <1>2, <1>6 DEF StartTurn, IInv, LoopOwnsTurn, LineInv, Line, ResultsInTurn, TurnPhases, Sharing
  <2>2. Sharing(current) \in SUBSET Calls /\ Sharing(current) \cup CancelledCalls \in SUBSET Calls
    BY <2>1, SharingCalls, CancelledAreCalls
  <2>3. CASE /\ Persist(current, TRUE) /\ Accepted(Sharing(current), active_turn)
             /\ AcceptedLeases(Sharing(current)) /\ UNCHANGED occupation
    <3>1. pc'[current] \notin Working
      BY <1>1, <2>1, <2>3 DEF Accepted, Working
    <3> QED
      BY <2>1, <2>2, <2>3, <3>1, AcceptedCarry, PersistStores
  <2>4. ASSUME NEW saved \in BOOLEAN, Persist(current, saved),
               Rejected(Sharing(current) \cup CancelledCalls),
               RejectedLeases(Sharing(current) \cup CancelledCalls, TRUE)
        PROVE  (\A c \in Calls : Carries(c)) /\ (UNCHANGED <<message, history>> \/ \E c \in Calls : Stores(c))
    <3>1. pc'[current] \notin Working
      BY <1>1, <2>1, <2>4 DEF Rejected, Working
    <3> QED
      BY <2>1, <2>2, <2>4, <3>1, RejectedCarry, PersistStores
  <2> QED
    BY <1>6, <2>3, <2>4 DEF StartTurn
<1>7. CASE AbsorbDrained
  <2> DEFINE c == Head(drained)
  <2>1. /\ active_turn \in Keys /\ UNCHANGED <<command, failed_releases, occupation>>
        /\ drained # <<>>
    BY <1>2, <1>7 DEF AbsorbDrained, TurnPhases
  <2>2. CASE c \in Maintenance /\ pc' = [pc EXCEPT ![c] = "done"] /\ UNCHANGED <<message, history, on_finish>>
    <3>1. \A d \in Calls : pc'[d] = pc[d]
      BY <1>1, <2>2
    <3> QED
      BY <2>1, <2>2, <3>1, CarriedAside
  <2>3. c \in Calls => pc[c] = "queued" /\ (c \in Results => active_turn = TargetOf[c])
    <3>1. 1 \in DOMAIN drained /\ c = drained[1]
      BY <2>1, CommandsTyped
    <3>2. c \in Results => c \in Cancelled(drained, Results)
      BY <3>1, CancelledMember
    <3> QED
      BY <3>1, <3>2 DEF LineInv, Line, ResultsInTurn
  <2>4. CASE /\ c \in Calls /\ Persist(c, TRUE) /\ Accepted(Sharing(c), active_turn)
             /\ AcceptedLeases(Sharing(c))
    <3>1. pc'[c] \notin Working
      BY <1>1, <2>4 DEF Accepted, Working, Sharing
    <3> QED
      BY <2>1, <2>3, <2>4, <3>1, SharingCalls, AcceptedCarry, PersistStores
  <2>5. ASSUME c \in Calls, NEW saved \in BOOLEAN, Persist(c, saved), Rejected(Sharing(c)),
               on_finish' = on_finish \cup Leased(Sharing(c))
        PROVE  (\A d \in Calls : Carries(d)) /\ (UNCHANGED <<message, history>> \/ \E d \in Calls : Stores(d))
    <3>1. pc'[c] \notin Working
      BY <1>1, <2>5 DEF Rejected, Working, Sharing
    <3>2. RejectedLeases(Sharing(c), TRUE)
      BY <2>1, <2>5 DEF RejectedLeases
    <3> QED
      BY <2>1, <2>3, <2>5, <3>1, <3>2, SharingCalls, RejectedCarry, PersistStores
  <2> QED
    BY <1>7, <2>2, <2>4, <2>5 DEF AbsorbDrained, durable
<1>8. ASSUME UNCHANGED <<message, history, command, failed_releases>>,
             \/ Rejected(CancelledCalls) /\ RejectedLeases(CancelledCalls, TRUE)
             \/ UNCHANGED <<pc, on_finish, occupation>>
      PROVE  (\A c \in Calls : Carries(c)) /\ (UNCHANGED <<message, history>> \/ \E c \in Calls : Stores(c))
  BY <1>8, CancelledAreCalls, RejectedCarry, CarriedAside
<1>9. CASE ExecutorReturns \/ ChildrenSettle
  BY <1>8, <1>9 DEF ExecutorReturns, ChildrenSettle, AbsorbOrClose, CloseWindow, durable
<1>10. CASE TurnThrows
  BY <1>8, <1>10 DEF TurnThrows, durable
<1>11. ASSUME Unacknowledged \/ \E status : Finished(status, {}), UNCHANGED <<message, history>>
       PROVE  (\A c \in Calls : Carries(c)) /\ (UNCHANGED <<message, history>> \/ \E c \in Calls : Stores(c))
  BY <1>11, UnacknowledgedCarry, FinishedCarry
<1>12. CASE PrepareCompletion
  <2>1. UNCHANGED <<message, history>>
    BY <1>12 DEF PrepareCompletion, Seal, durable
  <2>2. CASE Unacknowledged
    BY <1>11, <2>1, <2>2
  <2>3. CASE UNCHANGED <<occupation, releases, turn, callers>>
    BY <2>1, <2>3, CarriedAside DEF releases, callers
  <2> QED
    BY <1>12, <2>2, <2>3 DEF PrepareCompletion
<1>13. CASE CompleteTurn
  BY <1>11, <1>13 DEF CompleteTurn, durable
<1>14. CASE FailTurn
  BY <1>11, <1>14 DEF FailTurn, Seal, durable
<1> QED
  BY <1>3, <1>4, <1>5, <1>6, <1>7, <1>9, <1>10, <1>12, <1>13, <1>14 DEF LoopStep

LEMMA StopStores ==
  ASSUME IInv, StoreInv, NEW s \in Stoppers, StopBegin(s) \/ StopStep(s)
  PROVE  (\A c \in Calls : Carries(c)) /\ UNCHANGED <<message, history>>
<1>1. CASE StopBegin(s)
  BY <1>1, CancelledAreCalls, RejectedCarry DEF StopBegin, durable
<1>2. CASE StopEnd(s)
  BY <1>2, CarriedAside DEF StopEnd, releases, callers, durable
<1>3. CASE StopRecovers(s)
  <2>1. UNCHANGED <<message, history>>
    BY <1>3 DEF StopRecovers, Seal, durable
  <2>2. CASE Unacknowledged
    BY <2>1, <2>2, UnacknowledgedCarry
  <2>3. ASSUME NEW status,
               Finished(status, failed_releases \cup (IF recovered_release THEN {Recovery} ELSE {}))
        PROVE  \A c \in Calls : Carries(c)
    <3> DEFINE also == failed_releases \cup (IF recovered_release THEN {Recovery} ELSE {})
    <3>1. also \cap Calls \subseteq failed_releases
      BY LoopAssumption
    <3> QED
      BY <2>3, <3>1, FinishedCarry
  <2> QED
    BY <1>3, <2>1, <2>2, <2>3 DEF StopRecovers
<1> QED
  BY <1>1, <1>2, <1>3 DEF StopStep


\* No other submission of this key can store its message, unless it is stored.
Alone(c) == \A d \in Calls \ {c} : KeyOf[d] = KeyOf[c] /\ pc[d] \in Storing => Stored(KeyOf[c])

\* One call goes on to v with its own command, the others stay.
GoesOn(c, v) ==
  /\ pc[c] \in Working /\ v \in Working
  /\ pc' = [pc EXCEPT ![c] = v]
  /\ UNCHANGED <<message, history, on_finish, failed_releases>>
  /\ \A d \in Calls \ {c} : command'[d] = command[d] /\ holder'[d] = holder[d]
  /\ c \notin Results /\ v \in {"preparing"} \cup Storing => holder'[c] # NoActor \/ Stored(KeyOf[c])
  /\ v = "joining" => Stored(KeyOf[c])
  /\ v \in Storing => pc[c] \in Storing \/ Alone(c)
  /\ v = "queued" => (command'[c].stored <=> Stored(KeyOf[c]))

LEMMA GoesOnKeeps ==
  ASSUME IInv, StoreInv, NEW c \in Calls, NEW v, GoesOn(c, v)
  PROVE  StoreInv'
<1>1. /\ pc \in [Commands -> CallPcs \cup {"done"}] /\ Calls \subseteq Commands /\ c \in Commands
  BY DEF IInv, TypeOK, Commands
<1>2. pc'[c] = v /\ \A d \in Calls \ {c} : pc'[d] = pc[d]
  BY <1>1 DEF GoesOn
<1>3. \A d \in Calls : pc'[d] \in Working => d \notin on_finish' \cup failed_releases'
  BY <1>2 DEF GoesOn, StoreInv, InCharge
<1>4. \A d \in Calls \ Results : pc'[d] \in {"preparing"} \cup Storing =>
        holder'[d] # NoActor \/ message'[KeyOf[d]] # NoMessage
  BY <1>2 DEF GoesOn, StoreInv, InCharge, Stored
<1>5. \A d \in Calls : pc'[d] = "joining" => message'[KeyOf[d]] # NoMessage
  BY <1>2 DEF GoesOn, StoreInv, InCharge, Stored
<1>6. ASSUME NEW a \in Calls, NEW b \in Calls, pc'[a] \in Storing, pc'[b] \in Storing,
             KeyOf[a] = KeyOf[b], a # b
      PROVE  message'[KeyOf[a]] # NoMessage
  <2>1. CASE a = c
    BY <1>2, <1>6, <2>1 DEF GoesOn, Alone, StoreInv, InCharge, Stored
  <2>2. CASE b = c
    BY <1>2, <1>6, <2>2 DEF GoesOn, Alone, StoreInv, InCharge, Stored
  <2>3. CASE a # c /\ b # c
    BY <1>2, <1>6, <2>3 DEF GoesOn, StoreInv, InCharge
  <2> QED
    BY <2>1, <2>2, <2>3
<1>7. KnowsStored'
  BY <1>2 DEF GoesOn, StoreInv, KnowsStored, Stored
<1>8. StoredOnce' /\ ResultStaysInItsTurn'
  BY DEF GoesOn, StoreInv, StoredOnce, ResultStaysInItsTurn
<1> QED
  BY <1>3, <1>4, <1>5, <1>6, <1>7, <1>8 DEF StoreInv, InCharge

\* One call is refused or answered without a lease.
LEMMA AnsweredKeeps ==
  ASSUME IInv, StoreInv, NEW c \in Calls, NEW v, v \notin Working, pc' = [pc EXCEPT ![c] = v],
         UNCHANGED <<message, history, occupation, on_finish, failed_releases, command>>
  PROVE  StoreInv'
<1>1. /\ pc \in [Commands -> CallPcs \cup {"done"}] /\ Calls \subseteq Commands /\ c \in Commands
  BY DEF IInv, TypeOK, Commands
<1>2. pc'[c] = v /\ \A d \in Calls \ {c} : pc'[d] = pc[d]
  BY <1>1
<1>3. \A d \in Calls : Carries(d)
  BY <1>2, CarriedAside DEF Carries, Working
<1> QED
  BY <1>3, CarriesKeeps

\* A request is looked for among the submissions before one is in charge of it.
LEMMA FirstIsAlone ==
  ASSUME IInv, ResultsApart, StoreInv, NEW c \in Calls \ Results, pc[c] \in {"preparing", "joining"},
         \/ c \notin Identified \/ PendingHandle(KeyOf[c]) = {} \/ Stored(KeyOf[c])
  PROVE  Alone(c)
<1> SUFFICES ASSUME NEW d \in Calls \ {c}, KeyOf[d] = KeyOf[c], pc[d] \in Storing, ~Stored(KeyOf[c])
             PROVE  FALSE
  BY DEF Alone
<1>1. c \in Identified /\ d \in Identified /\ d \notin Results
  BY LoopAssumption
<1>2. holder[d] # NoActor
  BY <1>1 DEF StoreInv, InCharge, Stored
<1>3. d \in PendingHandle(KeyOf[c])
  BY <1>1, <1>2 DEF PendingHandle, Storing
<1> QED
  BY <1>1, <1>3

LEMMA SubmitStores ==
  ASSUME IInv, StoreInv, NEW c \in Calls, Enqueue(c, ActorOf[c]) \/ Enqueue(c, owner),
         pc[c] \in Working, pc[c] \in Storing \/ Alone(c),
         c \in Results \/ pc[c] \in {"preparing", "joining"} \cup Storing,
         UNCHANGED <<message, history, on_finish, failed_releases, occupation>>
  PROVE  StoreInv'
<1>1. command \in [Calls -> [turn : Keys \cup {NoTurn}, stored : BOOLEAN, from : Actors \cup {NoActor}]]
  BY DEF IInv, TypeOK
<1>2. /\ \A d \in Calls \ {c} : command'[d] = command[d]
      /\ command'[c].stored <=> Stored(KeyOf[c])
      /\ pc' = [pc EXCEPT ![c] = "queued"]
  <2>1. PICK from : Enqueue(c, from)
    OBVIOUS
  <2>2. /\ pc' = [pc EXCEPT ![c] = "queued"]
        /\ \E t : command' = [command EXCEPT ![c] = [turn |-> t, stored |-> Stored(KeyOf[c]), from |-> from]]
    BY <2>1 DEF Enqueue, Stored
  <2>3. \E t : command'[c] = [turn |-> t, stored |-> Stored(KeyOf[c]), from |-> from]
    BY <1>1, <2>2
  <2>4. command'[c].stored = Stored(KeyOf[c])
    BY <2>3
  <2> QED
    BY <1>1, <2>2, <2>4
<1>3. c \notin Results => holder'[c] # NoActor \/ Stored(KeyOf[c])
  BY DEF StoreInv, InCharge, Stored, occupation
<1>4. GoesOn(c, "queued")
  BY <1>2, <1>3 DEF GoesOn, Working, Storing, occupation
<1> QED
  BY <1>4, GoesOnKeeps

LEMMA MoveStores ==
  ASSUME IInv, StoreInv, NEW c \in Calls \ Results, NEW v \in {"blocked", "sharing", "resolving"}, Move(c, v),
         pc[c] \in {"preparing", "joining"} \cup Storing,
         v \in Storing => pc[c] \in Storing \/ Alone(c),
         UNCHANGED <<message, history, failed_releases>>
  PROVE  StoreInv'
<1>1. /\ pc' = [pc EXCEPT ![c] = v] /\ UNCHANGED <<command, holder, on_finish>>
  BY DEF Move, occupation
<1>2. holder[c] # NoActor \/ Stored(KeyOf[c])
  BY DEF StoreInv, InCharge, Stored
<1>3. GoesOn(c, v)
  BY <1>1, <1>2 DEF GoesOn, Working, Storing
<1> QED
  BY <1>3, GoesOnKeeps

LEMMA FailStores ==
  ASSUME IInv, StoreInv, NEW c \in Calls, Fails(c), UNCHANGED <<message, history, failed_releases>>
  PROVE  StoreInv'
<1>1. \A d \in Calls : Carries(d)
  BY SharingCalls, RejectedCarry DEF Fail, Fails
<1> QED
  BY <1>1, CarriesKeeps

\* A call that shares the request of c gets its handle, and nobody else is touched.
LEMMA JoinCarries ==
  ASSUME IInv, StoreInv, NEW c \in Calls, Join(c)
  PROVE  \A d \in Calls : Carries(d)
<1> DEFINE S == Sharing(c)
           t == message[KeyOf[c]].turn
<1>1. S \in SUBSET Calls /\ Accepted(S, t) /\ command' = command
  BY SharingCalls DEF Join
<1>2. CASE active_turn = t
  BY <1>1, <1>2, AcceptedCarry DEF Join
<1>3. CASE active_turn # t
  <2> SUFFICES ASSUME NEW d \in Calls PROVE Carries(d)
    OBVIOUS
  <2>1. CASE d \in S
    BY <1>1, <2>1 DEF Accepted, Commands, Carries, Working
  <2>2. CASE d \notin S
    <3>1. pc'[d] = pc[d] /\ d \notin Leased(S)
      BY <1>1, <2>2 DEF Accepted, Commands, Leased
    <3>2. CASE Leased(S) = {}
      BY <1>1, <1>3, <3>1, <3>2, CarriedAside DEF Join, releases
    <3>3. CASE Leased(S) # {}
      <4> DEFINE all == Leased(S) \cup failed_releases \cup (IF recovered_release THEN {Recovery} ELSE {})
      <4>1. Release(all) /\ failed_releases' = {} /\ on_finish' = on_finish
        BY <1>3, <3>3 DEF Join
      <4>2. pc[d] \in Working => d \notin all /\ d \notin on_finish
        BY <3>1, LoopAssumption DEF StoreInv, InCharge
      <4>3. d \in Leases
        BY LeasesFinite
      <4> HIDE DEF all
      <4>4. pc[d] \in Working => holder'[d] = holder[d]
        BY <4>1, <4>2, <4>3, ReleaseEnds
      <4> QED
        BY <1>1, <3>1, <4>1, <4>2, <4>4 DEF Carries, Working
    <3> QED
      BY <3>2, <3>3
  <2> QED
    BY <2>1, <2>2
<1> QED
  BY <1>2, <1>3

LEMMA JoinStores ==
  ASSUME IInv, StoreInv, NEW c \in Calls, Join(c), UNCHANGED <<message, history>>
  PROVE  StoreInv'
BY JoinCarries, CarriesKeeps

LEMMA AdmitStores ==
  ASSUME IInv, StoreInv, NEW c \in Calls, Admit(c)
  PROVE  StoreInv'
<1>1. /\ pc \in [Commands -> CallPcs \cup {"done"}] /\ c \in Commands /\ Calls \subseteq Leases
      /\ holder \in [Leases -> Actors \cup {NoActor}] /\ ActorOf[c] # NoActor
  BY LoopAssumption, LeasesFinite DEF IInv, TypeOK, Commands
<1>2. /\ pc[c] = "reading" /\ UNCHANGED <<message, history, on_finish, failed_releases, command>>
  BY DEF Admit, releases, durable
<1>3. CASE Refuse(c)
  <2>1. pc' = [pc EXCEPT ![c] = "rejected"] /\ UNCHANGED occupation
    BY <1>1, <1>3 DEF Refuse, Rejected
  <2> QED
    BY <1>2, <2>1, AnsweredKeeps DEF Working
<1>4. ASSUME NEW v \in {"joining", "waiting"}, pc' = [pc EXCEPT ![c] = v], UNCHANGED occupation,
             v = "joining" => Resolvable(KeyOf[c])
      PROVE  StoreInv'
  <2>1. GoesOn(c, v)
    BY <1>2, <1>4 DEF GoesOn, Working, Storing, occupation, Resolvable, Stored
  <2> QED
    BY <2>1, GoesOnKeeps
<1>5. CASE pc' = [pc EXCEPT ![c] = "preparing"] /\ Acquire(c, ActorOf[c])
  <2>1. holder'[c] # NoActor /\ \A d \in Calls \ {c} : holder'[d] = holder[d]
    BY <1>1, <1>5 DEF Acquire
  <2>2. GoesOn(c, "preparing")
    BY <1>2, <1>5, <2>1 DEF GoesOn, Working, Storing
  <2> QED
    BY <2>2, GoesOnKeeps
<1> QED
  BY <1>3, <1>4, <1>5 DEF Admit, Arbitrate

LEMMA CallsStore ==
  ASSUME IInv, ResultsApart, StoreInv, NEW c \in Calls,
         Prompt(c) \/ AcceptDelegationResult(c) \/ CallStep(c)
  PROVE  StoreInv'
<1>1. CASE Prompt(c)
  <2>1. GoesOn(c, "reading")
    BY <1>1 DEF Prompt, GoesOn, Working, Storing, durable, releases, occupation
  <2> QED
    BY <2>1, GoesOnKeeps
<1>2. CASE AcceptDelegationResult(c)
  <2>1. /\ UNCHANGED <<message, history, occupation, on_finish, failed_releases>>
        /\ c \in Results /\ pc[c] = "idle"
    BY <1>2 DEF AcceptDelegationResult, releases, durable
  <2>2. CASE Enqueue(c, owner)
    <3>1. Alone(c)
      <4> SUFFICES ASSUME NEW d \in Calls \ {c}, KeyOf[d] = KeyOf[c], pc[d] \in Storing PROVE FALSE
        BY DEF Alone
      <4>1. d \in Results
        BY <2>1, LoopAssumption
      <4>2. pc[d] = "queued"
        BY <4>1 DEF ResultsApart, ResultPcs, Storing
      <4> QED
        BY <1>2, <4>1, <4>2 DEF AcceptDelegationResult
    <3> QED
      BY <2>1, <2>2, <3>1, SubmitStores DEF Working
  <2>3. ASSUME NEW v \in {"accepted", "rejected", "saved"}, pc' = [pc EXCEPT ![c] = v], command' = command
        PROVE  StoreInv'
    BY <2>1, <2>3, AnsweredKeeps DEF Working
  <2> QED
    BY <1>2, <2>2, <2>3 DEF AcceptDelegationResult
<1>3. CASE Admit(c)
  BY <1>3, AdmitStores
<1>4. CASE EnsureRunnable(c)
  <2>1. /\ UNCHANGED <<message, history, failed_releases>> /\ pc[c] = "preparing" /\ c \notin Results
    BY <1>4 DEF EnsureRunnable, durable, ResultsApart, ResultPcs
  <2>2. CASE Fails(c)
    BY <2>1, <2>2, FailStores
  <2>3. CASE c \notin Identified /\ (Move(c, "blocked") \/ Submit(c))
    BY <2>1, <2>3, FirstIsAlone, MoveStores, SubmitStores DEF Submit, Working
  <2>4. CASE Move(c, "sharing")
    BY <2>1, <2>4, MoveStores DEF Storing
  <2>5. CASE PendingHandle(KeyOf[c]) = {} /\ Move(c, "resolving")
    BY <2>1, <2>5, FirstIsAlone, MoveStores
  <2> QED
    BY <1>4, <2>2, <2>3, <2>4, <2>5 DEF EnsureRunnable, Fails
<1>5. CASE ResumeSubmission(c)
  <2>1. /\ UNCHANGED <<message, history, failed_releases>> /\ pc[c] = "woken"
    BY <1>5 DEF ResumeSubmission, durable
  <2>2. CASE Fails(c)
    BY <2>1, <2>2, FailStores
  <2>3. CASE Submit(c)
    BY <2>1, <2>3, SubmitStores DEF Submit, Working, Storing
  <2> QED
    BY <1>5, <2>2, <2>3 DEF ResumeSubmission, Fails
<1>6. CASE PromptWithIdentity(c)
  <2>1. /\ UNCHANGED <<message, history>> /\ pc[c] \in {"resolving", "joining"} /\ c \notin Results
    BY <1>6 DEF PromptWithIdentity, durable, ResultsApart, ResultPcs
  <2>2. CASE Join(c)
    BY <2>1, <2>2, JoinStores
  <2>3. CASE Fails(c) /\ UNCHANGED failed_releases
    BY <2>1, <2>3, FailStores
  <2>4. CASE (Move(c, "blocked") \/ Submit(c)) /\ UNCHANGED failed_releases
    <3>1. pc[c] = "joining" => Stored(KeyOf[c])
      BY DEF StoreInv, InCharge, Stored
    <3>2. pc[c] \in Storing \/ Alone(c)
      BY <2>1, <3>1, FirstIsAlone DEF Storing
    <3> QED
      BY <2>1, <2>4, <3>2, MoveStores, SubmitStores DEF Submit, Working, Storing
  <2> QED
    BY <1>6, <2>2, <2>3, <2>4 DEF PromptWithIdentity, Fails
<1> QED
  BY <1>1, <1>2, <1>3, <1>4, <1>5, <1>6 DEF CallStep


LEMMA NextStores == ASSUME IInv, ResultsApart, LineInv, StoreInv, [Next]_vars PROVE StoreInv'
<1>1. CASE LoopStep
  BY <1>1, LoopStores, CarriesKeeps
<1>2. ASSUME NEW c \in Calls, Prompt(c) \/ AcceptDelegationResult(c) \/ CallStep(c) PROVE StoreInv'
  BY <1>2, CallsStore
<1>3. ASSUME NEW s \in Stoppers, StopBegin(s) \/ StopStep(s) PROVE StoreInv'
  BY <1>3, StopStores, CarriesKeeps
<1>4. CASE Checkpoint \/ UNCHANGED vars
  <2>1. \A c \in Calls : Carries(c)
    BY <1>4, CarriedAside DEF Checkpoint, vars, releases, callers
  <2> QED
    BY <1>4, <2>1, CarriesKeeps DEF Checkpoint, vars, durable
<1>5. ASSUME NEW m \in Maintenance, EnqueueMaintenance(m) PROVE StoreInv'
  <2>1. /\ UNCHANGED <<durable, occupation, releases, command>> /\ pc' = [pc EXCEPT ![m] = "queued"]
        /\ pc \in [Commands -> CallPcs \cup {"done"}]
    BY <1>5 DEF EnqueueMaintenance, IInv, TypeOK
  <2>2. \A c \in Calls : pc'[c] = pc[c]
    BY <2>1, CommandsTyped
  <2>3. \A c \in Calls : Carries(c)
    BY <2>1, <2>2, CarriedAside DEF releases
  <2> QED
    BY <2>1, <2>3, CarriesKeeps DEF durable
<1>6. CASE InitializeOccupation
  <2>1. UNCHANGED <<message, history, on_finish, failed_releases, command, pc>>
    BY <1>6 DEF InitializeOccupation, durable, callers
  <2>2. \A c \in Calls : holder'[c] = holder[c]
    BY <1>6, LoopAssumption DEF InitializeOccupation, occupation, Acquire, IInv, TypeOK, Leases
  <2>3. \A c \in Calls : Carries(c)
    BY <2>1, <2>2 DEF Carries, StoreInv, InCharge
  <2> QED
    BY <2>1, <2>3, CarriesKeeps
<1>7. CASE Crash
  <2>1. UNCHANGED <<message, history>> /\ on_finish' = {} /\ failed_releases' = {}
    BY <1>7 DEF Crash, durable
  <2> SUFFICES ASSUME NEW c \in Calls PROVE Carries(c)
    BY <2>1, CarriesKeeps
  <2>2. pc'[c] = IF \/ pc[c] \in {"idle", "rejected", "saved", "done", "lost"}
                    \/ c \in Calls /\ pc[c] = "accepted" /\ outcome[c] # "pending"
                 THEN pc[c] ELSE "lost"
    BY <1>7, CommandsTyped DEF Crash
  <2>3. pc'[c] \in Working => pc'[c] = "idle" /\ pc[c] = "idle"
    BY <2>2 DEF Working
  <2>4. pc[c] = "idle" => holder[c] = NoActor
    BY DEF IInv, UnleasedBeforeAdmission
  <2>5. holder'[c] = NoActor
    BY <1>7, LeasesFinite DEF Crash
  <2> QED
    BY <2>1, <2>2, <2>3, <2>4, <2>5 DEF Carries, Working
<1> QED
  BY <1>1, <1>2, <1>3, <1>4, <1>5, <1>6, <1>7 DEF Next

LEMMA InitStores == ASSUME Init PROVE StoreInv
<1>1. \A c \in Calls : pc[c] = "idle" /\ message[KeyOf[c]] = NoMessage
  BY LoopAssumption DEF Init, Commands
<1>2. history = <<>> /\ on_finish = {} /\ failed_releases = {}
  BY DEF Init
<1> QED
  BY <1>1, <1>2, LoopAssumption DEF StoreInv, InCharge, KnowsStored, StoredOnce, ResultStaysInItsTurn, Storing

\* A request is stored once, whichever of its retries is first and whatever fails in between: one
\* submission is in charge until its message is stored (pending_request_handles,
\* prompt_with_identity), and message_id is the primary key of the storage.
THEOREM RequestsAreStoredOnce == Spec => []StoredOnce
<1>1. StoreInv => StoredOnce
  BY DEF StoreInv
<1> QED
  BY <1>1, InitLine, InitStores, NextInv, NextApart, NextLine, NextStores, PTL DEF Spec

\* The result of a delegation is only ever stored in the Turn that delegated: it is queued only
\* while that Turn takes input, and the line is empty before another Turn starts
\* (accept_delegation_result).
THEOREM ResultsStayInTheirTurn == Spec => []ResultStaysInItsTurn
<1>1. StoreInv => ResultStaysInItsTurn
  BY DEF StoreInv
<1> QED
  BY <1>1, InitLine, InitStores, NextInv, NextApart, NextLine, NextStores, PTL DEF Spec

-----------------------------------------------------------------------------
\* Who waits in line.

\* LineInv says that who stands in line is queued; the converse: a queued call stands in line.
InLine(c) ==
  \/ \E i \in DOMAIN queue : queue[i] = c
  \/ \E i \in DOMAIN drained : drained[i] = c
  \/ phase = "persist" /\ c = current

Standing == \A c \in Calls : pc[c] = "queued" => InLine(c)

\* The steps that leave a call where it stands, or take it out.
Stands(c) == pc[c] = "queued" /\ InLine(c) => InLine(c)' \/ pc'[c] # "queued"

\* A line nobody leaves but by being answered stays complete.
LEMMA StandsKeeps ==
  ASSUME Standing, \A c \in Calls : (pc'[c] = "queued" => pc[c] = "queued") /\ Stands(c)
  PROVE  Standing'
BY DEF Standing, Stands

\* What cancelling leaves in the queue.
LEMMA CancelLeaves ==
  ASSUME IInv, CancelQueuedPrompts, NEW c \in Calls
  PROVE  (\E i \in DOMAIN queue : queue[i] = c) => c \in CancelledCalls
<1>1. ASSUME NEW i \in DOMAIN queue, queue[i] = c PROVE c \in CancelledCalls
  <2>1. c \in Cancelled(queue, Calls)
    BY <1>1, CancelledMember
  <2> QED
    BY <2>1 DEF CancelledCalls, Sharing
<1> QED
  BY <1>1

\* Once a Turn closes nobody stands in line, but for a batch that is being absorbed.
LEMMA NobodyInLine ==
  ASSUME IInv, LineInv, \/ phase \in {"closing", "sealing", "finishing", "failing"}
                        \/ phase \notin TurnPhases /\ active_turn # NoTurn,
         NEW c \in Calls
  PROVE  ~InLine(c)
<1>1. Closing /\ phase \notin {"persist", "drain"}
  BY LoopAssumption DEF IInv, LoopOwnsTurn, LineInv, Window, Closing, TurnPhases
<1>2. drained = <<>> /\ c \notin Cancelled(queue, Calls)
  BY <1>1 DEF LineInv, Line, QueuedIsCurrent
<1> QED
  BY <1>1, <1>2, CancelledMember DEF InLine

\* Who stands first is the only one that taking the next command takes out.
LEMMA TailLeaves ==
  ASSUME NEW q \in Seq(Commands), q # <<>>, NEW c
  PROVE  (\E i \in DOMAIN q : q[i] = c) => c = Head(q) \/ \E i \in DOMAIN Tail(q) : Tail(q)[i] = c
<1> SUFFICES ASSUME NEW i \in DOMAIN q, q[i] = c, c # Head(q)
             PROVE  \E j \in DOMAIN Tail(q) : Tail(q)[j] = c
  OBVIOUS
<1>1. i \in 2 .. Len(q) /\ Len(Tail(q)) = Len(q) - 1 /\ DOMAIN Tail(q) = 1 .. Len(Tail(q))
  OBVIOUS
<1>2. i - 1 \in DOMAIN Tail(q) /\ Tail(q)[i - 1] = c
  BY <1>1
<1> QED
  BY <1>2

\* The loop takes commands out of the line one at a time, in a batch, or by cancelling them.
LEMMA LoopStands ==
  ASSUME IInv, LineInv, LoopStep, NEW c \in Calls
  PROVE  Stands(c)
<1>1. /\ pc \in [Commands -> CallPcs \cup {"done"}] /\ Calls \subseteq Commands /\ c \in Commands
      /\ Maintenance \cap Calls = {} /\ queue \in Seq(Commands) /\ drained \in Seq(Commands)
  BY CommandsTyped DEF IInv, TypeOK
<1>2. ASSUME UNCHANGED <<queue, drained>>, phase # "persist" PROVE Stands(c)
  BY <1>2 DEF Stands, InLine
<1>3. CASE TakeNext
  <2>1. CASE phase' = "idle"
    BY <1>2, <1>3, <2>1 DEF TakeNext
  <2>2. CASE HasCommand(queue) /\ queue' = Tail(queue) /\ current' = Head(queue)
             /\ (phase' = "persist" \/ Head(queue) \in Maintenance)
    <3>1. queue \in Seq(Commands) /\ queue # <<>> /\ queue' = Tail(queue)
      BY <1>1, <2>2 DEF HasCommand
    <3>2. (\E i \in DOMAIN queue : queue[i] = c) => c = Head(queue) \/ \E i \in DOMAIN Tail(queue) : Tail(queue)[i] = c
      BY <3>1, TailLeaves
    <3>3. (\E i \in DOMAIN queue : queue[i] = c) => c = Head(queue) \/ \E i \in DOMAIN queue' : queue'[i] = c
      BY <3>1, <3>2, Zenon
    <3> QED
      BY <1>1, <1>3, <2>2, <3>3 DEF TakeNext, Stands, InLine
  <2> QED
    BY <1>3, <2>1, <2>2 DEF TakeNext, AfterTakeNext
<1>4. CASE ExecuteMaintenance \/ DrainDone \/ CompleteTurn \/ FailTurn
  BY <1>2, <1>4 DEF ExecuteMaintenance, DrainDone, CompleteTurn, FailTurn
<1>5. CASE PrepareCompletion
  BY <1>2, <1>5 DEF PrepareCompletion
<1>6. CASE FixStatus
  <2>1. phase = "closing"
    BY <1>6 DEF FixStatus
  <2> QED
    BY <2>1, NobodyInLine DEF Stands
<1>7. CASE StartTurn
  <2>1. phase = "persist" /\ current \in Sharing(current) /\ UNCHANGED drained
    BY <1>7 DEF StartTurn, Sharing
  <2>2. CASE Accepted(Sharing(current), active_turn) /\ queue' = queue
    BY <1>1, <2>1, <2>2 DEF Accepted, Stands, InLine
  <2>3. CASE Rejected(Sharing(current) \cup CancelledCalls) /\ CancelQueuedPrompts
    BY <1>1, <2>1, <2>3, CancelLeaves DEF Rejected, Stands, InLine
  <2> QED
    BY <1>7, <2>2, <2>3 DEF StartTurn
<1>8. CASE AbsorbDrained
  <2>1. phase = "drain" /\ queue' = queue /\ drained # <<>> /\ drained' = Tail(drained)
    BY <1>8 DEF AbsorbDrained
  <2>2. (\E i \in DOMAIN drained : drained[i] = c) => c = Head(drained) \/ \E i \in DOMAIN drained' : drained'[i] = c
    BY <1>1, <2>1, TailLeaves
  <2>3. c = Head(drained) => pc'[c] # "queued"
    BY <1>1, <1>8 DEF AbsorbDrained, Accepted, Rejected, Sharing
  <2> QED
    BY <2>1, <2>2, <2>3 DEF Stands, InLine
<1>9. ASSUME Rejected(CancelledCalls), CancelQueuedPrompts, UNCHANGED drained, phase # "persist"
      PROVE  Stands(c)
  BY <1>1, <1>9, CancelLeaves DEF Rejected, Stands, InLine
<1>10. ASSUME phase # "drain", phase # "persist", drained' = queue
       PROVE  Stands(c)
  BY <1>10 DEF Stands, InLine, LineInv, Line
<1>11. CASE ExecutorReturns \/ ChildrenSettle
  BY <1>2, <1>9, <1>10, <1>11 DEF ExecutorReturns, ChildrenSettle, AbsorbOrClose, CloseWindow, Drained
<1>12. CASE TurnThrows
  BY <1>9, <1>12 DEF TurnThrows
<1> QED
  BY <1>3, <1>4, <1>5, <1>6, <1>7, <1>8, <1>11, <1>12 DEF LoopStep

\* A call gets into the line at its end.
LEMMA CallsStand ==
  ASSUME IInv, NEW c \in Calls, Prompt(c) \/ AcceptDelegationResult(c) \/ CallStep(c), NEW d \in Calls
  PROVE  Stands(d) /\ (pc'[d] = "queued" => pc[d] = "queued" \/ InLine(d)')
<1>1. pc \in [Commands -> CallPcs \cup {"done"}] /\ c \in Commands /\ d \in Commands /\ queue \in Seq(Commands)
  BY CommandsTyped DEF IInv, TypeOK
<1>2. \A i \in DOMAIN queue : i \in DOMAIN Append(queue, c) /\ Append(queue, c)[i] = queue[i]
  BY <1>1
<1>3. \E i \in DOMAIN Append(queue, c) : Append(queue, c)[i] = c
  <2>1. Len(queue) + 1 \in DOMAIN Append(queue, c) /\ Append(queue, c)[Len(queue) + 1] = c
    BY <1>1
  <2> QED
    BY <2>1
<1>4. UNCHANGED <<drained, current>>
  BY DEF Prompt, AcceptDelegationResult, CallStep, Admit, EnsureRunnable, PromptWithIdentity,
         ResumeSubmission, loop
<1>5. CASE UNCHANGED <<queue, phase>> /\ (pc'[d] = "queued" => pc[d] = "queued")
  BY <1>4, <1>5 DEF Stands, InLine
<1>6. CASE /\ queue' = Append(queue, c) /\ phase' = (IF phase = "idle" THEN "take" ELSE phase)
           /\ pc' = [pc EXCEPT ![c] = "queued"]
  BY <1>1, <1>2, <1>3, <1>4, <1>6 DEF Stands, InLine
<1>7. \/ UNCHANGED <<queue, phase>> /\ (pc'[d] = "queued" => pc[d] = "queued")
      \/ /\ queue' = Append(queue, c) /\ phase' = (IF phase = "idle" THEN "take" ELSE phase)
         /\ pc' = [pc EXCEPT ![c] = "queued"]
  <2>1. CASE Prompt(c)
    BY <1>1, <2>1 DEF Prompt, loop
  <2>2. CASE AcceptDelegationResult(c)
    BY <1>1, <2>2 DEF AcceptDelegationResult, Enqueue, EnqueueCommand
  <2>3. CASE Admit(c)
    BY <1>1, <2>3 DEF Admit, Arbitrate, Refuse, Rejected, loop
  <2>4. CASE EnsureRunnable(c)
    BY <1>1, <2>4 DEF EnsureRunnable, Fail, Rejected, Move, Submit, Enqueue, EnqueueCommand
  <2>5. CASE PromptWithIdentity(c)
    BY <1>1, <2>5 DEF PromptWithIdentity, Fail, Rejected, Move, Submit, Enqueue, EnqueueCommand, Join, Accepted
  <2>6. CASE ResumeSubmission(c)
    BY <1>1, <2>6 DEF ResumeSubmission, Fail, Rejected, Submit, Enqueue, EnqueueCommand
  <2> QED
    BY <2>1, <2>2, <2>3, <2>4, <2>5, <2>6 DEF CallStep
<1> QED
  BY <1>5, <1>6, <1>7

\* Stop takes the calls out of the line that it cancels.
LEMMA StopStands ==
  ASSUME IInv, LineInv, NEW s \in Stoppers, StopBegin(s) \/ StopStep(s), NEW c \in Calls
  PROVE  Stands(c)
<1>1. c \in Commands
  BY CommandsTyped
<1>2. CASE StopBegin(s)
  BY <1>1, <1>2, CancelLeaves DEF StopBegin, Rejected, Stands, InLine, loop
<1>3. CASE StopRecovers(s) \/ StopEnd(s)
  BY <1>3 DEF StopRecovers, StopEnd, Stands, InLine, loop
<1> QED
  BY <1>2, <1>3 DEF StopStep

\* Every step: who is queued stands in line.
LEMMA NextStands ==
  ASSUME IInv, LineInv, StoreInv, Standing, [Next]_vars
  PROVE  Standing'
<1>1. ASSUME \A c \in Calls : Carries(c) /\ Stands(c) PROVE Standing'
  BY <1>1, StandsKeeps DEF Carries, Working
<1>2. CASE LoopStep
  BY <1>1, <1>2, LoopStores, LoopStands
<1>3. ASSUME NEW c \in Calls, Prompt(c) \/ AcceptDelegationResult(c) \/ CallStep(c) PROVE Standing'
  BY <1>3, CallsStand DEF Standing, Stands
<1>4. ASSUME NEW s \in Stoppers, StopBegin(s) \/ StopStep(s) PROVE Standing'
  BY <1>1, <1>4, StopStores, StopStands
<1>5. CASE UNCHANGED vars \/ InitializeOccupation
  BY <1>5 DEF vars, InitializeOccupation, Standing, InLine, callers, loop
<1>6. CASE Checkpoint
  BY <1>6 DEF Checkpoint, Standing, InLine, callers, loop, Drained, LineInv, Line
<1>7. ASSUME NEW m \in Maintenance, EnqueueMaintenance(m) PROVE Standing'
  <2>1. /\ pc \in [Commands -> CallPcs \cup {"done"}] /\ queue \in Seq(Commands) /\ Calls \cap Maintenance = {}
        /\ Calls \subseteq Commands
    BY CommandsTyped DEF IInv, TypeOK
  <2>2. \A c \in Calls : pc'[c] = pc[c]
    BY <1>7, <2>1 DEF EnqueueMaintenance
  <2>3. \A i \in DOMAIN queue : i \in DOMAIN queue' /\ queue'[i] = queue[i]
    BY <1>7, <2>1 DEF EnqueueMaintenance, EnqueueCommand
  <2>4. UNCHANGED <<drained, current>> /\ (phase = "persist" => phase' = "persist")
    BY <1>7 DEF EnqueueMaintenance
  <2> QED
    BY <2>2, <2>3, <2>4 DEF Standing, InLine
<1>8. CASE Crash
  <2>1. \A c \in Calls : pc'[c] # "queued"
    BY <1>8, CommandsTyped DEF Crash
  <2> QED
    BY <2>1 DEF Standing
<1> QED
  BY <1>2, <1>3, <1>4, <1>5, <1>6, <1>7, <1>8 DEF Next

\* A result in line has its Turn before it.
LEMMA QueuedResult ==
  ASSUME IInv, LineInv, Standing, NEW c \in Results, pc[c] = "queued"
  PROVE  active_turn \in Keys /\ (phase \notin TurnPhases => FALSE)
<1>1. c \in Calls /\ TargetOf[c] \in Keys /\ NoTurn \notin Keys
  BY LoopAssumption
<1>2. InLine(c)
  BY <1>1 DEF Standing
<1>3. active_turn = TargetOf[c]
  BY <1>2, CancelledMember DEF InLine, LineInv, ResultsInTurn
<1>4. CASE phase \notin TurnPhases
  BY <1>1, <1>2, <1>3, <1>4, NobodyInLine
<1> QED
  BY <1>1, <1>3, <1>4

-----------------------------------------------------------------------------
\* Who ends the active Turn, and what stop waits for.

LEMMA TurnAsideServed ==
  ASSUME TurnServed, StopsServed, UNCHANGED <<active_turn, aborted, stops>>,
         phase \in TurnPhases => phase' \in TurnPhases
  PROVE  TurnServed' /\ StopsServed'
BY DEF TurnServed, StopsServed, stops

\* The finish of a Turn tells every stop that waits for it.
LEMMA SettleServed ==
  ASSUME IInv, StopsServed, NEW status, Settle(status), UNCHANGED <<stopping, stop_generation, stop_gen>>
  PROVE  TurnServed' /\ StopsServed'
<1>1. /\ active_turn' = NoTurn
      /\ \A s \in Stoppers : stop_pc'[s] = WakeStop(s)
  BY DEF Settle
<1> QED
  BY <1>1 DEF WakeStop, TurnServed, StopsServed

\* A Turn only starts when none is active: while stop fails a recovered one nobody stands in line.
LEMMA TakesWhenFree ==
  ASSUME IInv, TurnServed, TakeNext, phase' = "persist"
  PROVE  active_turn = NoTurn
<1>1. phase \notin TurnPhases /\ HasCommand(queue) /\ Head(queue) \in Calls
  BY LoopAssumption DEF TakeNext, TurnPhases
<1>2. 1 \in DOMAIN queue /\ queue[1] \in Calls
  BY <1>1, CommandsTyped DEF HasCommand
<1> QED
  BY <1>1, <1>2 DEF TurnServed, IInv, StopOwnsRecovery

LEMMA LoopServed ==
  ASSUME IInv, TurnServed, StopsServed, LoopStep
  PROVE  TurnServed' /\ StopsServed'
<1>1. CASE TakeNext
  <2>1. phase = "take" /\ UNCHANGED stops
    BY <1>1 DEF TakeNext
  <2>2. CASE phase' = "persist"
    <3>1. active_turn = NoTurn
      BY <1>1, <2>2, TakesWhenFree
    <3> QED
      BY <2>1, <2>2, <3>1 DEF TurnServed, StopsServed, TurnPhases, stops
  <2>3. CASE phase' # "persist"
    BY <1>1, <2>1, <2>3, TurnAsideServed DEF TakeNext, turn, TurnPhases
  <2> QED
    BY <2>2, <2>3
<1>2. CASE ExecuteMaintenance \/ DrainDone
  BY <1>2, TurnAsideServed DEF ExecuteMaintenance, DrainDone, turn, TurnPhases
<1>3. CASE StartTurn \/ AbsorbDrained \/ TurnThrows \/ FixStatus
  BY <1>3, TurnAsideServed DEF StartTurn, AbsorbDrained, TurnThrows, FixStatus, turn, TurnPhases
<1>4. CASE ExecutorReturns \/ ChildrenSettle
  BY <1>4, TurnAsideServed DEF ExecutorReturns, ChildrenSettle, AbsorbOrClose, CloseWindow, TurnPhases
<1>5. CASE PrepareCompletion
  <2>1. CASE phase' = "finishing" /\ UNCHANGED <<turn, stops>>
    BY <2>1, TurnAsideServed DEF turn, TurnPhases
  <2>2. CASE Unacknowledged /\ UNCHANGED <<stopping, stop_generation, stop_gen>>
    BY <2>2, SettleServed DEF Unacknowledged
  <2> QED
    BY <1>5, <2>1, <2>2 DEF PrepareCompletion
<1>6. CASE CompleteTurn \/ FailTurn
  BY <1>6, SettleServed DEF CompleteTurn, FailTurn, Finished, Unacknowledged
<1> QED
  BY <1>1, <1>2, <1>3, <1>4, <1>5, <1>6 DEF LoopStep

\* The latest stop is the one that opens the Session again.
LEMMA StopServed ==
  ASSUME IInv, TurnServed, StopsServed, NEW s \in Stoppers, StopBegin(s) \/ StopStep(s)
  PROVE  TurnServed' /\ StopsServed'
<1>1. /\ stop_pc \in [Stoppers -> {"idle", "waiting", "recovering", "woken", "done"}]
      /\ stop_gen \in [Stoppers -> Nat] /\ NoTurn \notin Keys
  BY LoopAssumption DEF IInv, TypeOK
<1>2. CASE StopBegin(s)
  <2>1. /\ stop_gen'[s] = stop_generation' /\ stop_pc[s] = "idle" /\ phase' = phase
        /\ \A t \in Stoppers \ {s} : stop_pc'[t] = stop_pc[t]
        /\ stop_pc'[s] \in {"waiting", "recovering", "woken"}
    BY <1>1, <1>2 DEF StopBegin, loop
  <2>2. active_turn' = active_turn \/ (active_turn = NoTurn /\ stop_pc'[s] = "recovering" /\ active_turn' # NoTurn)
    BY <1>1, <1>2 DEF StopBegin, turn
  <2>3. TurnServed'
    BY <2>1, <2>2 DEF TurnServed
  <2>4. stop_pc'[s] # "woken" => active_turn' # NoTurn /\ aborted'
    BY <1>1, <1>2 DEF StopBegin
  <2>5. active_turn = NoTurn \/ (aborted' /\ active_turn' # NoTurn)
    BY <1>2, <2>2 DEF StopBegin
  <2> QED
    BY <2>1, <2>3, <2>4, <2>5 DEF StopsServed
<1>3. CASE StopEnd(s)
  <2>1. /\ stop_pc[s] \in {"woken", "waiting"} /\ stop_pc' = [stop_pc EXCEPT ![s] = "done"]
        /\ UNCHANGED <<active_turn, aborted, phase, stop_gen, stop_generation>>
        /\ stopping' = (stopping /\ stop_gen[s] # stop_generation)
    BY <1>3 DEF StopEnd, turn, loop
  <2>2. \A t \in Stoppers \ {s} : stop_pc'[t] = stop_pc[t]
    BY <1>1, <2>1
  <2> QED
    BY <1>1, <2>1, <2>2 DEF TurnServed, StopsServed
<1>4. CASE StopRecovers(s)
  BY <1>4, SettleServed DEF StopRecovers, Finished, Unacknowledged
<1> QED
  BY <1>2, <1>3, <1>4 DEF StopStep

LEMMA NextServed ==
  ASSUME IInv, TurnServed, StopsServed, [Next]_vars
  PROVE  TurnServed' /\ StopsServed'
<1>1. CASE LoopStep
  BY <1>1, LoopServed
<1>2. ASSUME NEW s \in Stoppers, StopBegin(s) \/ StopStep(s) PROVE TurnServed' /\ StopsServed'
  BY <1>2, StopServed
<1>3. ASSUME NEW c \in Calls, Prompt(c) \/ AcceptDelegationResult(c) \/ CallStep(c)
      PROVE  TurnServed' /\ StopsServed'
  <2>1. UNCHANGED <<active_turn, aborted, stops>>
    BY <1>3 DEF Prompt, AcceptDelegationResult, CallStep, Admit, EnsureRunnable, PromptWithIdentity,
                ResumeSubmission, turn
  <2>2. phase' = phase \/ phase = "idle"
    BY <1>3 DEF Prompt, AcceptDelegationResult, CallStep, Admit, EnsureRunnable, PromptWithIdentity,
                ResumeSubmission, Fail, Move, Submit, Enqueue, Join, loop
  <2> QED
    BY <2>1, <2>2, TurnAsideServed DEF TurnPhases
<1>4. CASE InitializeOccupation \/ Checkpoint \/ UNCHANGED vars \/ \E m \in Maintenance : EnqueueMaintenance(m)
  BY <1>4, TurnAsideServed DEF InitializeOccupation, Checkpoint, EnqueueMaintenance, vars, turn, loop, TurnPhases
<1>5. CASE Crash
  BY <1>5 DEF Crash, TurnServed, StopsServed
<1> QED
  BY <1>1, <1>2, <1>3, <1>4, <1>5 DEF Next

-----------------------------------------------------------------------------
\* Who waits for the finish of the active Turn.

\* A call starts to wait only for the Turn that is active after the step.
Awaits(c) ==
  /\ pc'[c] \in {"waiting", "blocked"} => pc'[c] = pc[c] \/ Closing'
  /\ c \notin Results /\ pc'[c] = "accepted" /\ outcome'[c] = "pending" =>
       \/ pc[c] = "accepted" /\ outcome[c] = "pending" /\ handle'[c] = handle[c]
       \/ active_turn' # NoTurn /\ handle'[c] = active_turn'

\* The active Turn stays, and its window stays closed.
TurnGoesOn ==
  /\ Closing => Closing'
  /\ active_turn # NoTurn => active_turn' = active_turn

LEMMA AwaitsKeep ==
  ASSUME FinishAwaited, TurnGoesOn, \A c \in Calls : Awaits(c)
  PROVE  FinishAwaited'
BY DEF FinishAwaited, TurnGoesOn, Awaits

\* The finish of a Turn settles its handles and wakes whoever waited for it.
LEMMA SettleAwaited ==
  ASSUME IInv, FinishAwaited, NEW status, status # "pending", Settle(status)
  PROVE  FinishAwaited'
<1> SUFFICES ASSUME NEW c \in Calls
             PROVE  /\ pc'[c] \notin {"waiting", "blocked"}
                    /\ c \notin Results /\ pc'[c] = "accepted" => outcome'[c] # "pending"
  BY DEF FinishAwaited
<1>1. /\ pc'[c] = WakeOnFinish(c, status # "unacknowledged")
      /\ outcome'[c] = IF SettlesNow(c) THEN status ELSE outcome[c]
  BY DEF Settle, Commands
<1>2. pc'[c] \notin {"waiting", "blocked"} /\ (pc'[c] = "accepted" => pc[c] = "accepted")
  BY <1>1 DEF WakeOnFinish
<1> QED
  BY <1>1, <1>2 DEF FinishAwaited, SettlesNow

\* Calls that are rejected do not wait, and those that are accepted wait for the Turn they are told.
LEMMA RejectedAwait ==
  ASSUME NEW S, Rejected(S), UNCHANGED <<handle, outcome>>
  PROVE  \A c \in Calls : Awaits(c)
BY DEF Rejected, Awaits, Commands

LEMMA AcceptedAwait ==
  ASSUME NEW S, Accepted(S, active_turn), active_turn # NoTurn, UNCHANGED <<outcome, active_turn>>
  PROVE  \A c \in Calls : Awaits(c)
BY DEF Accepted, Awaits, Commands

LEMMA SameAwait ==
  ASSUME UNCHANGED <<handle, outcome>>, \A c \in Calls : pc'[c] = pc[c]
  PROVE  \A c \in Calls : Awaits(c)
BY DEF Awaits

LEMMA LoopAwaited ==
  ASSUME IInv, TurnServed, FinishAwaited, LoopStep
  PROVE  FinishAwaited'
<1>1. /\ pc \in [Commands -> CallPcs \cup {"done"}] /\ Maintenance \cap Calls = {} /\ Calls \subseteq Commands
      /\ (phase \in TurnPhases => active_turn # NoTurn)
      /\ (phase = "maintenance" => current \in Maintenance)
  BY LoopAssumption DEF IInv, TypeOK, LoopOwnsTurn, Commands
<1>2. CASE TakeNext
  <2>1. \A c \in Calls : Awaits(c)
    BY <1>2, SameAwait DEF TakeNext, callers
  <2>2. TurnGoesOn
    <3>1. active_turn = NoTurn \/ UNCHANGED turn
      BY <1>2, TakesWhenFree DEF TakeNext
    <3> QED
      BY <3>1 DEF TurnGoesOn, Closing, turn
  <2> QED
    BY <2>1, <2>2, AwaitsKeep
<1>3. ASSUME UNCHANGED <<active_turn, handle, outcome>>, closing' = closing \/ closing',
             \/ \A c \in Calls : pc'[c] = pc[c]
             \/ \E S : Rejected(S)
      PROVE  FinishAwaited'
  <2>1. \A c \in Calls : Awaits(c)
    BY <1>3, SameAwait, RejectedAwait
  <2>2. TurnGoesOn
    BY <1>3 DEF TurnGoesOn, Closing
  <2> QED
    BY <2>1, <2>2, AwaitsKeep
<1>4. CASE ExecuteMaintenance \/ DrainDone
  BY <1>1, <1>3, <1>4 DEF ExecuteMaintenance, DrainDone, turn, callers
<1>5. CASE FixStatus
  <2>1. \A c \in Calls : pc'[c] = pc[c]
    BY <1>1, <1>5, CancelledMember DEF FixStatus
  <2> QED
    BY <1>3, <1>5, <2>1 DEF FixStatus, turn
<1>6. CASE StartTurn \/ AbsorbDrained
  <2>1. UNCHANGED <<active_turn, outcome>> /\ (closing' = closing \/ closing') /\ active_turn # NoTurn
    BY <1>1, <1>6 DEF StartTurn, AbsorbDrained, turn, TurnPhases
  <2>2. ASSUME NEW S, Accepted(S, active_turn) PROVE FinishAwaited'
    BY <2>1, <2>2, AcceptedAwait, AwaitsKeep DEF TurnGoesOn, Closing
  <2> QED
    BY <1>1, <1>3, <1>6, <2>1, <2>2 DEF StartTurn, AbsorbDrained
<1>7. CASE ExecutorReturns \/ ChildrenSettle \/ TurnThrows
  BY <1>3, <1>7 DEF ExecutorReturns, ChildrenSettle, TurnThrows, AbsorbOrClose, CloseWindow
<1>8. CASE PrepareCompletion
  <2>1. CASE UNCHANGED <<turn, callers>>
    BY <1>3, <2>1 DEF turn, callers
  <2>2. CASE Unacknowledged
    BY <2>2, SettleAwaited DEF Unacknowledged
  <2> QED
    BY <1>8, <2>1, <2>2 DEF PrepareCompletion
<1>9. CASE CompleteTurn
  <2>1. phase = "finishing" /\ Settle(journal[active_turn])
    BY <1>9 DEF CompleteTurn, Finished
  <2>2. journal[active_turn] # "pending"
    BY <2>1 DEF IInv, LoopOwnsTurn, Statuses
  <2> QED
    BY <2>1, <2>2, SettleAwaited
<1>10. CASE FailTurn
  <2>1. CASE Unacknowledged
    BY <2>1, SettleAwaited DEF Unacknowledged
  <2>2. CASE Finished(journal'[active_turn], {})
    <3>1. active_turn \in Keys
      BY <1>10 DEF FailTurn, IInv, LoopOwnsTurn, TurnPhases
    <3>2. IInv'
      BY <1>10, NextInv DEF Next, LoopStep
    <3>3. journal'[active_turn] # "pending"
      BY <3>1, <3>2 DEF IInv, TypeOK, Statuses
    <3> QED
      BY <2>2, <3>3, SettleAwaited DEF Finished
  <2> QED
    BY <1>10, <2>1, <2>2 DEF FailTurn
<1> QED
  BY <1>2, <1>4, <1>5, <1>6, <1>7, <1>8, <1>9, <1>10 DEF LoopStep

LEMMA StopAwaited ==
  ASSUME IInv, FinishAwaited, NEW s \in Stoppers, StopBegin(s) \/ StopStep(s)
  PROVE  FinishAwaited'
<1>1. CASE StopBegin(s)
  <2>1. TurnGoesOn
    <3>1. active_turn = NoTurn \/ UNCHANGED <<active_turn, closing>>
      BY <1>1 DEF StopBegin
    <3> QED
      BY <3>1 DEF TurnGoesOn, Closing
  <2> QED
    BY <1>1, <2>1, RejectedAwait, AwaitsKeep DEF StopBegin
<1>2. CASE StopEnd(s)
  <2>1. TurnGoesOn
    BY <1>2 DEF StopEnd, TurnGoesOn, Closing, turn
  <2> QED
    BY <1>2, <2>1, SameAwait, AwaitsKeep DEF StopEnd, callers
<1>3. CASE StopRecovers(s)
  <2>1. CASE Unacknowledged
    BY <2>1, SettleAwaited DEF Unacknowledged
  <2>2. ASSUME NEW also, Finished(journal'[active_turn], also) PROVE FinishAwaited'
    <3>1. active_turn \in Keys /\ IInv'
      BY <1>3, NextInv DEF StopRecovers, Next, StopStep, IInv, StopOwnsRecovery
    <3>2. journal'[active_turn] # "pending"
      BY <3>1 DEF IInv, TypeOK, Statuses
    <3> QED
      BY <2>2, <3>2, SettleAwaited DEF Finished
  <2> QED
    BY <1>3, <2>1, <2>2 DEF StopRecovers
<1> QED
  BY <1>1, <1>2, <1>3 DEF StopStep

LEMMA CallsAwaited ==
  ASSUME IInv, FinishAwaited, NEW c \in Calls, Prompt(c) \/ AcceptDelegationResult(c) \/ CallStep(c)
  PROVE  FinishAwaited'
<1>1. /\ pc \in [Commands -> CallPcs \cup {"done"}] /\ c \in Commands /\ Calls \subseteq Commands
      /\ handle \in [Calls -> Keys \cup {NoTurn}] /\ NoTurn \notin Keys
      /\ outcome \in [Calls -> Statuses \cup {"pending", "unacknowledged"}]
      /\ journal \in [Keys -> Statuses \cup {"none"}] /\ KeyOf[c] \in Keys
      /\ message \in [Keys -> [turn : Keys, from : Actors] \cup {NoMessage}]
  BY LoopAssumption DEF IInv, TypeOK, Commands
<1>2. UNCHANGED turn
  BY DEF Prompt, AcceptDelegationResult, CallStep, Admit, EnsureRunnable, PromptWithIdentity, ResumeSubmission
<1>3. TurnGoesOn /\ (Closing' <=> Closing)
  BY <1>2 DEF TurnGoesOn, Closing, turn
<1>4. ASSUME UNCHANGED <<handle, outcome>>,
             \/ Rejected({c}) \/ Rejected(Sharing(c))
             \/ \E v : v # "accepted" /\ (v \in {"waiting", "blocked"} => Closing) /\ pc' = [pc EXCEPT ![c] = v]
      PROVE  FinishAwaited'
  <2>1. \A d \in Calls : Awaits(d)
    BY <1>1, <1>3, <1>4, RejectedAwait DEF Awaits
  <2> QED
    BY <1>3, <2>1, AwaitsKeep
<1>5. CASE Prompt(c) \/ Admit(c)
  BY <1>4, <1>5 DEF Prompt, Admit, Arbitrate, Refuse
<1>6. CASE EnsureRunnable(c) \/ ResumeSubmission(c)
  BY <1>4, <1>6 DEF EnsureRunnable, ResumeSubmission, Fail, Move, Submit, Enqueue
<1>7. CASE AcceptDelegationResult(c)
  <2>1. \A d \in Calls : Awaits(d)
    BY <1>1, <1>7 DEF AcceptDelegationResult, Enqueue, Awaits
  <2> QED
    BY <1>3, <2>1, AwaitsKeep
<1>8. CASE PromptWithIdentity(c)
  <2>1. CASE Join(c) /\ Resolvable(KeyOf[c])
    <3> DEFINE t == message[KeyOf[c]].turn
    <3>1. t \in Keys /\ Accepted(Sharing(c), t) /\ Sharing(c) \in SUBSET Calls
      BY <1>1, <2>1, SharingCalls DEF Resolvable, Join
    <3>2. CASE active_turn = t
      BY <1>1, <1>2, <1>3, <2>1, <3>1, <3>2, AcceptedAwait, AwaitsKeep DEF Join, turn
    <3>3. CASE active_turn # t
      <4>1. outcome' = [d \in Calls |-> IF d \in Sharing(c) THEN journal[t] ELSE outcome[d]]
        BY <2>1, <3>3 DEF Join
      <4>2. journal[t] # "pending"
        BY <1>1, <3>1 DEF Statuses
      <4>3. \A d \in Calls : Awaits(d)
        BY <1>1, <3>1, <4>1, <4>2 DEF Accepted, Awaits
      <4> QED
        BY <1>3, <4>3, AwaitsKeep
    <3> QED
      BY <3>2, <3>3
  <2>2. CASE ~(Join(c) /\ Resolvable(KeyOf[c]))
    BY <1>4, <1>8, <2>2 DEF PromptWithIdentity, Fail, Move, Submit, Enqueue
  <2> QED
    BY <2>1, <2>2
<1> QED
  BY <1>5, <1>6, <1>7, <1>8 DEF CallStep

LEMMA NextAwaited ==
  ASSUME IInv, TurnServed, FinishAwaited, [Next]_vars
  PROVE  FinishAwaited'
<1>1. CASE LoopStep
  BY <1>1, LoopAwaited
<1>2. ASSUME NEW s \in Stoppers, StopBegin(s) \/ StopStep(s) PROVE FinishAwaited'
  BY <1>2, StopAwaited
<1>3. ASSUME NEW c \in Calls, Prompt(c) \/ AcceptDelegationResult(c) \/ CallStep(c) PROVE FinishAwaited'
  BY <1>3, CallsAwaited
<1>4. CASE InitializeOccupation \/ Checkpoint \/ UNCHANGED vars
  BY <1>4 DEF InitializeOccupation, Checkpoint, vars, turn, callers, FinishAwaited, Closing
<1>5. ASSUME NEW m \in Maintenance, EnqueueMaintenance(m) PROVE FinishAwaited'
  <2>1. /\ UNCHANGED <<turn, outcome, handle>> /\ pc' = [pc EXCEPT ![m] = "queued"]
        /\ pc \in [Commands -> CallPcs \cup {"done"}]
    BY <1>5 DEF EnqueueMaintenance, IInv, TypeOK
  <2>2. \A c \in Calls : pc'[c] = pc[c]
    BY <2>1, CommandsTyped
  <2> QED
    BY <2>1, <2>2 DEF FinishAwaited, Closing, turn
<1>6. CASE Crash
  <2>1. \A c \in Calls : /\ pc'[c] \notin {"waiting", "blocked"} /\ outcome'[c] = outcome[c]
                         /\ pc'[c] = "accepted" => outcome[c] # "pending"
    BY <1>6, CommandsTyped DEF Crash
  <2> QED
    BY <2>1 DEF FinishAwaited
<1> QED
  BY <1>1, <1>2, <1>3, <1>4, <1>5, <1>6 DEF Next

-----------------------------------------------------------------------------
\* Who shares a submission.

\* A submission in charge of its request stays so, or takes those that share it along.
Leads(d) ==
  holder[d] # NoActor /\ pc[d] \in Storing =>
    \/ pc'[d] \in Storing /\ holder'[d] # NoActor
    \/ \A c \in Calls : pc[c] = "sharing" /\ KeyOf[c] = KeyOf[d] => pc'[c] # "sharing"

LEMMA LeadsKeep ==
  ASSUME SharingServed, \A d \in Calls : Leads(d),
         \A c \in Calls : pc'[c] = "sharing" => pc[c] = "sharing" \/ PendingHandle(KeyOf[c])' # {}
  PROVE  SharingServed'
<1> SUFFICES ASSUME NEW c \in Calls, pc'[c] = "sharing", pc[c] = "sharing"
             PROVE  PendingHandle(KeyOf[c])' # {}
  BY DEF SharingServed
<1>1. PICK d \in PendingHandle(KeyOf[c]) : TRUE
  BY DEF SharingServed
<1>2. d \in Identified /\ d \in Calls /\ KeyOf[d] = KeyOf[c] /\ holder[d] # NoActor /\ pc[d] \in Storing
  BY <1>1, LoopAssumption DEF PendingHandle, Storing
<1>3. pc'[d] \in Storing /\ holder'[d] # NoActor
  BY <1>2 DEF Leads
<1>4. d \in PendingHandle(KeyOf[c])'
  BY <1>2, <1>3 DEF PendingHandle, Storing
<1> QED
  BY <1>4

\* A set of calls that holds with a submission all that share it.
Together(S) == \A d \in S : pc[d] \in Storing => Sharing(d) \subseteq S

LEMMA SharingTogether ==
  ASSUME NEW c
  PROVE  Together(Sharing(c)) /\ Together(CancelledCalls) /\ Together(Sharing(c) \cup CancelledCalls)
<1>1. \A e : \A d \in Sharing(e) : d = e \/ pc[d] = "sharing"
  BY DEF Sharing
<1>2. "sharing" \notin Storing
  BY DEF Storing
<1>3. Together(Sharing(c))
  BY <1>1, <1>2 DEF Together
<1>4. Together(CancelledCalls)
  <2> SUFFICES ASSUME NEW d \in CancelledCalls, pc[d] \in Storing PROVE Sharing(d) \subseteq CancelledCalls
    BY DEF Together
  <2>1. PICK e \in Cancelled(queue, Calls) : d \in Sharing(e)
    BY DEF CancelledCalls
  <2>2. d = e
    BY <1>1, <1>2, <2>1
  <2> QED
    BY <2>1, <2>2 DEF CancelledCalls
<1> QED
  BY <1>3, <1>4 DEF Together

\* A step that answers the calls of S and no other.
Answers(S) == \A d \in Calls : IF d \in S THEN pc'[d] \notin Working ELSE pc'[d] = pc[d]

LEMMA TogetherKeeps ==
  ASSUME SharingServed, NEW S, Together(S), Answers(S), \A d \in Calls : Carries(d)
  PROVE  SharingServed'
<1>1. ASSUME NEW d \in Calls PROVE Leads(d)
  <2> SUFFICES ASSUME holder[d] # NoActor, pc[d] \in Storing, ~(pc'[d] \in Storing /\ holder'[d] # NoActor),
                      NEW c \in Calls, pc[c] = "sharing", KeyOf[c] = KeyOf[d]
               PROVE  pc'[c] # "sharing"
    BY DEF Leads
  <2>1. d \in S
    BY DEF Answers, Carries, Working, Storing
  <2>2. c \in S
    BY <2>1 DEF Together, Sharing
  <2> QED
    BY <2>2 DEF Answers, Working
<1>2. \A c \in Calls : pc'[c] = "sharing" => pc[c] = "sharing"
  BY DEF Carries, Working
<1> QED
  BY <1>1, <1>2, LeadsKeep

LEMMA AnswersSet ==
  ASSUME NEW S
  PROVE  /\ Rejected(S) => Answers(S)
         /\ \A t : Accepted(S, t) => Answers(S)
         /\ pc' = pc => Answers({})
BY DEF Rejected, Accepted, Answers, Working, Commands

LEMMA NobodyTogether == Together({})
BY DEF Together

\* The finish of a Turn wakes the submission and not those that share it, or rejects all of them.
LEMMA SettleShared ==
  ASSUME SharingServed, NEW status, Settle(status), \A d \in Calls : Carries(d)
  PROVE  SharingServed'
<1>1. \A d \in Calls : pc'[d] = WakeOnFinish(d, status # "unacknowledged")
  BY DEF Settle, Commands
<1> SUFFICES ASSUME NEW c \in Calls, pc'[c] = "sharing"
             PROVE  PendingHandle(KeyOf[c])' # {}
  BY DEF SharingServed
<1>2. pc[c] = "sharing"
  BY DEF Carries, Working
<1>3. PICK d \in PendingHandle(KeyOf[c]) : TRUE
  BY <1>2 DEF SharingServed
<1>4. d \in Identified /\ d \in Calls /\ KeyOf[d] = KeyOf[c] /\ holder[d] # NoActor /\ pc[d] \in Storing
  BY <1>3, LoopAssumption DEF PendingHandle, Storing
<1>5. status # "unacknowledged" \/ pc[d] # "blocked"
  BY <1>1, <1>2, <1>3 DEF WakeOnFinish
<1>6. pc'[d] \in Storing
  BY <1>1, <1>4, <1>5 DEF WakeOnFinish, Storing
<1>7. holder'[d] # NoActor
  BY <1>4, <1>6 DEF Carries, Storing, Working
<1>8. d \in PendingHandle(KeyOf[c])'
  BY <1>4, <1>6, <1>7 DEF PendingHandle, Storing
<1> QED
  BY <1>8

LEMMA LoopShared ==
  ASSUME IInv, LineInv, StoreInv, SharingServed, LoopStep
  PROVE  SharingServed'
<1>1. \A d \in Calls : Carries(d)
  BY LoopStores
<1>2. ASSUME NEW S, Together(S), Rejected(S) \/ \E t : Accepted(S, t) PROVE SharingServed'
  BY <1>1, <1>2, AnswersSet, TogetherKeeps
<1>3. ASSUME \A d \in Calls : pc'[d] = pc[d] PROVE SharingServed'
  <2>1. Answers({})
    BY <1>3 DEF Answers
  <2> QED
    BY <1>1, <2>1, NobodyTogether, TogetherKeeps
<1>4. /\ pc \in [Commands -> CallPcs \cup {"done"}] /\ Maintenance \cap Calls = {}
      /\ (phase = "maintenance" => current \in Maintenance)
  BY LoopAssumption DEF IInv, TypeOK, LoopOwnsTurn
<1>5. CASE TakeNext \/ ExecuteMaintenance \/ DrainDone
  <2>1. CASE ExecuteMaintenance
    <3>1. \A d \in Calls : pc'[d] = pc[d]
      BY <1>4, <2>1 DEF ExecuteMaintenance
    <3> QED
      BY <1>3, <3>1
  <2>2. CASE TakeNext \/ DrainDone
    BY <1>3, <2>2 DEF TakeNext, DrainDone, callers
  <2> QED
    BY <1>5, <2>1, <2>2
<1>6. CASE StartTurn
  <2>1. CASE Accepted(Sharing(current), active_turn)
    BY <1>2, <2>1, SharingTogether
  <2>2. CASE Rejected(Sharing(current) \cup CancelledCalls)
    BY <1>2, <2>2, SharingTogether
  <2> QED
    BY <1>6, <2>1, <2>2 DEF StartTurn
<1>7. CASE AbsorbDrained
  <2> DEFINE c == Head(drained)
  <2>1. CASE c \in Maintenance /\ pc' = [pc EXCEPT ![c] = "done"]
    BY <1>3, <1>4, <2>1
  <2>2. CASE Accepted(Sharing(c), active_turn)
    BY <1>2, <2>2, SharingTogether
  <2>3. CASE Rejected(Sharing(c))
    BY <1>2, <2>3, SharingTogether
  <2> QED
    BY <1>7, <2>1, <2>2, <2>3 DEF AbsorbDrained
<1>8. CASE ExecutorReturns \/ ChildrenSettle \/ TurnThrows
  BY <1>2, <1>3, <1>8, SharingTogether DEF ExecutorReturns, ChildrenSettle, TurnThrows, AbsorbOrClose, CloseWindow
<1>9. CASE FixStatus
  <2>1. \A d \in Calls : pc'[d] = pc[d]
    BY <1>4, <1>9, CommandsTyped, CancelledMember DEF FixStatus
  <2> QED
    BY <1>3, <2>1
<1>10. CASE PrepareCompletion
  BY <1>1, <1>3, <1>10, SettleShared DEF PrepareCompletion, Unacknowledged, callers
<1>11. CASE CompleteTurn \/ FailTurn
  BY <1>1, <1>11, SettleShared DEF CompleteTurn, FailTurn, Finished, Unacknowledged
<1> QED
  BY <1>5, <1>6, <1>7, <1>8, <1>9, <1>10, <1>11 DEF LoopStep

\* One call goes on by itself.
LEMMA AloneShared ==
  ASSUME IInv, SharingServed, NEW c \in Calls, NEW v, pc' = [pc EXCEPT ![c] = v],
         \A d \in Calls \ {c} : holder'[d] = holder[d],
         pc[c] \in Storing => v \in Storing /\ holder'[c] = holder[c],
         v = "sharing" => PendingHandle(KeyOf[c]) # {} /\ pc[c] \notin Storing
  PROVE  SharingServed'
<1>1. pc \in [Commands -> CallPcs \cup {"done"}] /\ c \in Commands /\ Calls \subseteq Commands
  BY CommandsTyped DEF IInv, TypeOK
<1>2. pc'[c] = v /\ \A d \in Calls \ {c} : pc'[d] = pc[d]
  BY <1>1
<1>3. \A d \in Calls : Leads(d)
  BY <1>2 DEF Leads
<1>4. ASSUME v = "sharing" PROVE PendingHandle(KeyOf[c])' # {}
  <2>1. PICK d \in PendingHandle(KeyOf[c]) : TRUE
    BY <1>4
  <2>2. d \in Calls \ {c}
    BY <1>4, <2>1, LoopAssumption DEF PendingHandle, Storing
  <2>3. d \in PendingHandle(KeyOf[c])'
    BY <1>2, <2>1, <2>2 DEF PendingHandle
  <2> QED
    BY <2>3
<1> QED
  BY <1>2, <1>3, <1>4, LeadsKeep

LEMMA CallsShared ==
  ASSUME IInv, ResultsApart, StoreInv, SharingServed, NEW c \in Calls,
         Prompt(c) \/ AcceptDelegationResult(c) \/ CallStep(c)
  PROVE  SharingServed'
<1>1. /\ pc \in [Commands -> CallPcs \cup {"done"}] /\ c \in Commands
      /\ holder \in [Leases -> Actors \cup {NoActor}] /\ Calls \subseteq Leases
  BY CommandsTyped, LeasesFinite DEF IInv, TypeOK
<1>2. ASSUME NEW v, pc' = [pc EXCEPT ![c] = v], UNCHANGED occupation,
             pc[c] \in Storing => v \in Storing,
             v = "sharing" => PendingHandle(KeyOf[c]) # {} /\ pc[c] \notin Storing
      PROVE  SharingServed'
  BY <1>2, AloneShared DEF occupation
<1>3. ASSUME Fail(Sharing(c)), UNCHANGED failed_releases PROVE SharingServed'
  <2>1. (\A d \in Calls : Carries(d)) \/ ~StoreInv
    BY <1>3, SharingCalls, RejectedCarry DEF Fail
  <2> QED
    BY <1>3, <2>1, SharingTogether, AnswersSet, TogetherKeeps DEF Fail
<1>4. ASSUME Submit(c) PROVE SharingServed'
  BY <1>2, <1>4 DEF Submit, Enqueue, Storing
<1>5. CASE Prompt(c)
  BY <1>2, <1>5 DEF Prompt, Storing
<1>6. CASE AcceptDelegationResult(c)
  BY <1>2, <1>6 DEF AcceptDelegationResult, Enqueue, Storing
<1>7. CASE Admit(c)
  <2>1. pc[c] = "reading" /\ "reading" \notin Storing
    BY <1>7 DEF Admit, Storing
  <2>2. CASE Acquire(c, ActorOf[c]) /\ pc' = [pc EXCEPT ![c] = "preparing"]
    <3>1. \A d \in Calls \ {c} : holder'[d] = holder[d]
      BY <1>1, <2>2 DEF Acquire
    <3> QED
      BY <2>1, <2>2, <3>1, AloneShared
  <2>3. CASE Refuse(c)
    <3>1. pc' = [pc EXCEPT ![c] = "rejected"] /\ UNCHANGED occupation
      BY <1>1, <2>3 DEF Refuse, Rejected
    <3> QED
      BY <1>2, <2>1, <3>1
  <2>4. CASE UNCHANGED occupation /\ \E v \in {"joining", "waiting"} : pc' = [pc EXCEPT ![c] = v]
    BY <1>2, <2>1, <2>4
  <2> QED
    BY <1>7, <2>2, <2>3, <2>4 DEF Admit, Arbitrate
<1>8. CASE EnsureRunnable(c)
  <2>1. pc[c] = "preparing" /\ "preparing" \notin Storing /\ UNCHANGED failed_releases
    BY <1>8 DEF EnsureRunnable, Storing
  <2>2. ASSUME NEW v \in {"blocked", "sharing", "resolving"}, Move(c, v),
               v = "sharing" => PendingHandle(KeyOf[c]) # {}
        PROVE  SharingServed'
    BY <1>2, <2>1, <2>2 DEF Move
  <2>3. CASE Fail({c})
    <3>1. pc' = [pc EXCEPT ![c] = "rejected"]
      BY <1>1, <2>3 DEF Fail, Rejected
    <3>2. \A d \in Calls \ {c} : holder'[d] = holder[d]
      BY <1>1, <2>3, ReleaseEnds DEF Fail, RejectedLeases, Leased, occupation
    <3> QED
      BY <2>1, <3>1, <3>2, AloneShared
  <2> QED
    BY <1>4, <1>8, <2>1, <2>2, <2>3 DEF EnsureRunnable
<1>9. CASE ResumeSubmission(c)
  BY <1>3, <1>4, <1>9 DEF ResumeSubmission
<1>10. CASE PromptWithIdentity(c)
  <2>1. CASE Join(c)
    <3>1. \A d \in Calls : Carries(d)
      BY <2>1, JoinCarries
    <3> QED
      BY <2>1, <3>1, SharingTogether, AnswersSet, TogetherKeeps DEF Join
  <2>2. CASE Move(c, "blocked")
    BY <1>2, <2>2 DEF Move, Storing
  <2> QED
    BY <1>3, <1>4, <1>10, <2>1, <2>2 DEF PromptWithIdentity
<1> QED
  BY <1>5, <1>6, <1>7, <1>8, <1>9, <1>10 DEF CallStep

LEMMA NextShared ==
  ASSUME IInv, ResultsApart, LineInv, StoreInv, SharingServed, [Next]_vars
  PROVE  SharingServed'
<1>1. CASE LoopStep
  BY <1>1, LoopShared
<1>2. ASSUME NEW c \in Calls, Prompt(c) \/ AcceptDelegationResult(c) \/ CallStep(c) PROVE SharingServed'
  BY <1>2, CallsShared
<1>3. ASSUME NEW s \in Stoppers, StopBegin(s) \/ StopStep(s) PROVE SharingServed'
  <2>1. \A d \in Calls : Carries(d)
    BY <1>3, StopStores
  <2>2. CASE StopBegin(s)
    BY <2>1, <2>2, SharingTogether, AnswersSet, TogetherKeeps DEF StopBegin
  <2>3. CASE StopEnd(s)
    BY <2>1, <2>3, NobodyTogether, AnswersSet, TogetherKeeps DEF StopEnd, callers
  <2>4. CASE StopRecovers(s)
    BY <2>1, <2>4, SettleShared DEF StopRecovers, Finished, Unacknowledged
  <2> QED
    BY <1>3, <2>2, <2>3, <2>4 DEF StopStep
<1>4. CASE Checkpoint \/ UNCHANGED vars
  BY <1>4 DEF Checkpoint, vars, callers, occupation, SharingServed, PendingHandle
<1>5. ASSUME NEW m \in Maintenance, EnqueueMaintenance(m) PROVE SharingServed'
  <2>1. /\ UNCHANGED occupation /\ pc' = [pc EXCEPT ![m] = "queued"]
        /\ pc \in [Commands -> CallPcs \cup {"done"}]
    BY <1>5 DEF EnqueueMaintenance, IInv, TypeOK
  <2>2. \A c \in Calls : pc'[c] = pc[c]
    BY <2>1, CommandsTyped
  <2> QED
    BY <2>1, <2>2, LeadsKeep DEF Leads, occupation
<1>6. CASE InitializeOccupation
  <2>1. pc' = pc /\ \A c \in Calls : holder'[c] = holder[c]
    BY <1>6, LoopAssumption DEF InitializeOccupation, occupation, Acquire, IInv, TypeOK, Leases, callers
  <2> QED
    BY <2>1, LeadsKeep DEF Leads
<1>7. CASE Crash
  <2>1. \A c \in Calls : pc'[c] # "sharing"
    BY <1>7, CommandsTyped DEF Crash
  <2> QED
    BY <2>1 DEF SharingServed
<1> QED
  BY <1>1, <1>2, <1>3, <1>4, <1>5, <1>6, <1>7 DEF Next

-----------------------------------------------------------------------------
\* Who stands in line has the loop awake.

\* A maintenance command in line, which nobody but the loop takes out of it.
InService(m) ==
  \/ \E i \in DOMAIN queue : queue[i] = m
  \/ \E i \in DOMAIN drained : drained[i] = m
  \/ phase = "maintenance" /\ m = current

MaintenanceStands == \A m \in Maintenance : pc[m] = "queued" => InService(m)

\* cancel keeps the maintenance in the queue.
LEMMA CancelKeepsMaintenance ==
  ASSUME IInv, CancelQueuedPrompts, NEW m \in Maintenance, NEW i \in DOMAIN queue, queue[i] = m
  PROVE  \E j \in DOMAIN queue' : queue'[j] = m
<1> DEFINE K == {queue[n] : n \in DOMAIN queue} \ Calls
<1>1. queue \in Seq(Commands) /\ m \in K
  BY CommandsTyped
<1>2. queue' = Keep(queue, K)
  BY DEF CancelQueuedPrompts, AfterCancel
<1>3. m \in {Keep(queue, K)[n] : n \in DOMAIN Keep(queue, K)}
  <2> HIDE DEF K
  <2>1. {Keep(queue, K)[n] : n \in DOMAIN Keep(queue, K)} = {queue[n] : n \in DOMAIN queue} \cap K
    BY <1>1, KeepMembers
  <2> QED
    BY <1>1, <2>1
<1> QED
  BY <1>2, <1>3

\* A step of the loop or of stop leaves maintenance where it stands, or has executed it.
LEMMA LoopServes ==
  ASSUME IInv, LineInv, NEW m \in Maintenance, InService(m), pc'[m] = "queued",
         LoopStep \/ Checkpoint \/ \E s \in Stoppers : StopBegin(s) \/ StopStep(s)
  PROVE  InService(m)'
<1>1. /\ pc \in [Commands -> CallPcs \cup {"done"}] /\ m \in Commands /\ m \notin Calls
      /\ queue \in Seq(Commands) /\ drained \in Seq(Commands)
      /\ phase # "drain" => drained = <<>>
  BY CommandsTyped DEF IInv, TypeOK, LineInv, Line
<1>2. ASSUME UNCHANGED <<queue, drained>>, phase # "maintenance" \/ UNCHANGED <<phase, current>>
      PROVE  InService(m)'
  BY <1>2 DEF InService
<1>3. ASSUME CancelQueuedPrompts, drained' = drained, phase # "maintenance" \/ UNCHANGED <<phase, current>>
      PROVE  InService(m)'
  BY <1>3, CancelKeepsMaintenance DEF InService
<1>4. ASSUME drained' = queue, phase \notin {"drain", "maintenance"} PROVE InService(m)'
  BY <1>1, <1>4 DEF InService
<1>5. CASE TakeNext
  <2>1. phase = "take" /\ drained' = drained
    BY <1>5 DEF TakeNext
  <2>2. CASE queue' = queue
    BY <1>2, <2>1, <2>2
  <2>3. CASE /\ HasCommand(queue) /\ queue' = Tail(queue)
             /\ (Head(queue) \in Calls \/ (phase' = "maintenance" /\ current' = Head(queue)))
    <3>1. (\E i \in DOMAIN queue : queue[i] = m) => m = Head(queue) \/ \E i \in DOMAIN queue' : queue'[i] = m
      BY <1>1, <2>3, TailLeaves DEF HasCommand
    <3> QED
      BY <1>1, <2>1, <2>3, <3>1 DEF InService
  <2> QED
    BY <1>5, <2>2, <2>3 DEF TakeNext, AfterTakeNext
<1>6. CASE ExecuteMaintenance
  <2>1. UNCHANGED <<queue, drained>> /\ pc' = [pc EXCEPT ![current] = "done"]
    BY <1>6 DEF ExecuteMaintenance
  <2>2. m # current
    BY <1>1, <2>1
  <2> QED
    BY <2>1, <2>2 DEF InService
<1>7. CASE StartTurn
  BY <1>2, <1>3, <1>7 DEF StartTurn
<1>8. CASE AbsorbDrained
  <2>1. phase = "drain" /\ queue' = queue /\ drained # <<>> /\ drained' = Tail(drained)
    BY <1>8 DEF AbsorbDrained
  <2>2. (\E i \in DOMAIN drained : drained[i] = m) => m = Head(drained) \/ \E i \in DOMAIN drained' : drained'[i] = m
    BY <1>1, <2>1, TailLeaves
  <2>3. m # Head(drained)
    BY <1>1, <1>8 DEF AbsorbDrained
  <2> QED
    BY <2>1, <2>2, <2>3 DEF InService
<1>9. CASE ExecutorReturns \/ ChildrenSettle
  BY <1>2, <1>3, <1>4, <1>9 DEF ExecutorReturns, ChildrenSettle, AbsorbOrClose, CloseWindow, Drained
<1>10. CASE DrainDone \/ TurnThrows
  BY <1>2, <1>3, <1>10 DEF DrainDone, TurnThrows
<1>11. CASE FixStatus
  <2>1. phase = "closing" /\ m \notin Cancelled(queue, Maintenance)
    BY <1>1, <1>11 DEF FixStatus
  <2> QED
    BY <1>1, <2>1, CancelledMember DEF InService
<1>12. CASE PrepareCompletion \/ CompleteTurn \/ FailTurn
  BY <1>2, <1>12 DEF PrepareCompletion, CompleteTurn, FailTurn
<1>13. CASE Checkpoint
  BY <1>4, <1>13 DEF Checkpoint, Drained
<1>14. ASSUME NEW s \in Stoppers, StopBegin(s) \/ StopStep(s) PROVE InService(m)'
  BY <1>2, <1>3, <1>14 DEF StopBegin, StopStep, StopRecovers, StopEnd, loop
<1> QED
  BY <1>5, <1>6, <1>7, <1>8, <1>9, <1>10, <1>11, <1>12, <1>13, <1>14 DEF LoopStep

\* What a call does to the line: it joins it at its end.
LEMMA CallsJoin ==
  ASSUME IInv, NEW c \in Calls, Prompt(c) \/ AcceptDelegationResult(c) \/ CallStep(c)
  PROVE  /\ UNCHANGED <<drained, current>> /\ (queue' = queue \/ queue' = Append(queue, c))
         /\ \/ phase' = phase /\ (phase = "idle" => \A d \in Calls : pc'[d] = "queued" => pc[d] = "queued")
            \/ phase = "idle" /\ phase' = "take"
         /\ \A m \in Maintenance : pc'[m] = pc[m]
<1>1. /\ pc \in [Commands -> CallPcs \cup {"done"}] /\ c \in Commands /\ Calls \subseteq Commands
      /\ Maintenance \subseteq Commands /\ Calls \cap Maintenance = {} /\ Sharing(c) \in SUBSET Calls
  BY CommandsTyped, SharingCalls DEF IInv, TypeOK
<1>2. CASE Prompt(c)
  BY <1>1, <1>2 DEF Prompt, loop
<1>3. CASE AcceptDelegationResult(c)
  BY <1>1, <1>3 DEF AcceptDelegationResult, Enqueue, EnqueueCommand
<1>4. CASE Admit(c)
  BY <1>1, <1>4 DEF Admit, Arbitrate, Refuse, Rejected, loop
<1>5. CASE EnsureRunnable(c)
  BY <1>1, <1>5 DEF EnsureRunnable, Fail, Rejected, Move, Submit, Enqueue, EnqueueCommand
<1>6. CASE PromptWithIdentity(c)
  BY <1>1, <1>6 DEF PromptWithIdentity, Fail, Rejected, Move, Submit, Enqueue, EnqueueCommand, Join, Accepted
<1>7. CASE ResumeSubmission(c)
  BY <1>1, <1>7 DEF ResumeSubmission, Fail, Rejected, Submit, Enqueue, EnqueueCommand
<1> QED
  BY <1>2, <1>3, <1>4, <1>5, <1>6, <1>7 DEF CallStep

\* No step of the loop or of stop puts maintenance into the line.
LEMMA LoopEnqueues ==
  ASSUME IInv, NEW c \in Commands, pc'[c] = "queued",
         LoopStep \/ Checkpoint \/ \E s \in Stoppers : StopBegin(s) \/ StopStep(s)
  PROVE  pc[c] = "queued"
<1>1. pc \in [Commands -> CallPcs \cup {"done"}]
  BY DEF IInv, TypeOK
<1>2. \A S : Rejected(S) => pc[c] = "queued"
  BY DEF Rejected
<1>3. \A S, t : Accepted(S, t) => pc[c] = "queued"
  BY DEF Accepted
<1>4. \A status : Settle(status) => pc[c] = "queued"
  BY DEF Settle, WakeOnFinish
<1>5. CASE TakeNext \/ ExecuteMaintenance \/ DrainDone \/ FixStatus \/ Checkpoint
  BY <1>1, <1>5 DEF TakeNext, ExecuteMaintenance, DrainDone, FixStatus, Checkpoint, callers
<1>6. CASE StartTurn \/ AbsorbDrained
  BY <1>1, <1>2, <1>3, <1>6 DEF StartTurn, AbsorbDrained
<1>7. CASE ExecutorReturns \/ ChildrenSettle \/ TurnThrows
  BY <1>2, <1>7 DEF ExecutorReturns, ChildrenSettle, TurnThrows, AbsorbOrClose, CloseWindow
<1>8. CASE PrepareCompletion \/ CompleteTurn \/ FailTurn
  BY <1>4, <1>8 DEF PrepareCompletion, CompleteTurn, FailTurn, Finished, Unacknowledged, callers
<1>9. ASSUME NEW s \in Stoppers, StopBegin(s) \/ StopStep(s) PROVE pc[c] = "queued"
  BY <1>2, <1>4, <1>9 DEF StopBegin, StopStep, StopRecovers, StopEnd, Finished, Unacknowledged, callers
<1> QED
  BY <1>5, <1>6, <1>7, <1>8, <1>9 DEF LoopStep

\* A command that joins the queue is at its end, and nobody leaves.
LEMMA AppendKeeps ==
  ASSUME NEW q \in Seq(Commands), NEW c \in Commands
  PROVE  /\ \A i \in DOMAIN q : i \in DOMAIN Append(q, c) /\ Append(q, c)[i] = q[i]
         /\ \E i \in DOMAIN Append(q, c) : Append(q, c)[i] = c
<1>1. Len(q) + 1 \in DOMAIN Append(q, c) /\ Append(q, c)[Len(q) + 1] = c
  OBVIOUS
<1> QED
  BY <1>1

LEMMA NextServes ==
  ASSUME IInv, LineInv, MaintenanceStands, [Next]_vars
  PROVE  MaintenanceStands'
<1> SUFFICES ASSUME NEW m \in Maintenance, pc'[m] = "queued" PROVE InService(m)'
  BY DEF MaintenanceStands
<1>1. /\ pc \in [Commands -> CallPcs \cup {"done"}] /\ m \in Commands /\ queue \in Seq(Commands)
      /\ Maintenance \subseteq Commands
  BY CommandsTyped DEF IInv, TypeOK
<1>2. CASE LoopStep \/ Checkpoint \/ \E s \in Stoppers : StopBegin(s) \/ StopStep(s)
  BY <1>1, <1>2, LoopEnqueues, LoopServes DEF MaintenanceStands
<1>3. ASSUME NEW c \in Calls, Prompt(c) \/ AcceptDelegationResult(c) \/ CallStep(c) PROVE InService(m)'
  <2> DEFINE Kept(q) == \A i \in DOMAIN queue : i \in DOMAIN q /\ q[i] = queue[i]
  <2>0. Kept(queue) /\ Kept(Append(queue, c))
    BY <1>1, CommandsTyped, AppendKeeps
  <2>1. pc[m] = "queued" /\ Kept(queue')
    BY <1>3, <2>0, CallsJoin
  <2>2. InService(m)
    BY <2>1 DEF MaintenanceStands
  <2> QED
    BY <1>3, <2>1, <2>2, CallsJoin DEF InService
<1>4. ASSUME NEW n \in Maintenance, EnqueueMaintenance(n) PROVE InService(m)'
  <2>1. /\ queue' = Append(queue, n) /\ pc' = [pc EXCEPT ![n] = "queued"] /\ UNCHANGED <<drained, current>>
        /\ (phase = "maintenance" => phase' = phase) /\ n \in Commands
    BY <1>1, <1>4 DEF EnqueueMaintenance, EnqueueCommand
  <2>2. CASE m = n
    BY <1>1, <2>1, <2>2, AppendKeeps DEF InService
  <2>3. CASE m # n
    <3>1. InService(m)
      BY <1>1, <2>1, <2>3 DEF MaintenanceStands
    <3> QED
      BY <1>1, <2>1, <3>1, AppendKeeps DEF InService
  <2> QED
    BY <2>2, <2>3
<1>5. CASE InitializeOccupation \/ UNCHANGED vars
  BY <1>5 DEF InitializeOccupation, vars, callers, loop, MaintenanceStands, InService
<1>6. CASE Crash
  BY <1>1, <1>6 DEF Crash
<1> QED
  BY <1>2, <1>3, <1>4, <1>5, <1>6 DEF Next

\* The loop only goes to sleep when nobody stands in line.
LEMMA SleepsWhenEmpty ==
  ASSUME IInv, LineInv, Standing, MaintenanceStands, TakeNext, phase' = "idle"
  PROVE  \A c \in Commands : pc'[c] # "queued"
<1>1. /\ queue = <<>> /\ drained = <<>> /\ phase = "take" /\ pc' = pc
  <2>1. ~HasCommand(queue) /\ phase = "take" /\ pc' = pc
    BY DEF TakeNext, callers
  <2> QED
    BY <2>1 DEF HasCommand, LineInv, Line
<1>2. DOMAIN queue = {} /\ DOMAIN drained = {}
  BY <1>1
<1> QED
  BY <1>1, <1>2 DEF Standing, InLine, MaintenanceStands, InService, Commands

LEMMA NextAwake ==
  ASSUME IInv, LineInv, Standing, MaintenanceStands, QueueServed, [Next]_vars
  PROVE  QueueServed'
<1> SUFFICES ASSUME phase' = "idle", NEW c \in Commands, pc'[c] = "queued" PROVE FALSE
  BY DEF QueueServed
<1>1. ASSUME pc[c] = "queued", phase = "idle" PROVE FALSE
  BY <1>1 DEF QueueServed
<1>2. CASE TakeNext
  BY <1>2, SleepsWhenEmpty
<1>3. CASE LoopStep /\ ~TakeNext
  BY <1>3 DEF LoopStep, ExecuteMaintenance, StartTurn, AbsorbDrained, DrainDone, ExecutorReturns,
              ChildrenSettle, AbsorbOrClose, CloseWindow, TurnThrows, FixStatus, PrepareCompletion,
              CompleteTurn, FailTurn
<1>4. CASE Checkpoint
  BY <1>4 DEF Checkpoint
<1>5. ASSUME NEW s \in Stoppers, StopBegin(s) \/ StopStep(s) PROVE FALSE
  <2>1. phase' = phase
    BY <1>5 DEF StopBegin, StopStep, StopRecovers, StopEnd, loop
  <2> QED
    BY <1>1, <1>5, <2>1, LoopEnqueues
<1>6. ASSUME NEW d \in Calls, Prompt(d) \/ AcceptDelegationResult(d) \/ CallStep(d) PROVE FALSE
  BY <1>1, <1>6, CallsJoin DEF Commands
<1>7. ASSUME NEW m \in Maintenance, EnqueueMaintenance(m) PROVE FALSE
  BY <1>7 DEF EnqueueMaintenance
<1>8. CASE InitializeOccupation \/ UNCHANGED vars
  BY <1>1, <1>8 DEF InitializeOccupation, vars, callers, loop
<1>9. CASE Crash
  BY <1>9 DEF Crash
<1> QED
  BY <1>2, <1>3, <1>4, <1>5, <1>6, <1>7, <1>8, <1>9 DEF Next

-----------------------------------------------------------------------------
\* What nobody's being forgotten rests on.
ServedInv == IInv /\ ResultsApart /\ LineInv /\ StoreInv /\ Standing /\ MaintenanceStands /\ NobodyForgotten

LEMMA InitServed == ASSUME Init PROVE Standing /\ MaintenanceStands /\ NobodyForgotten
<1>1. /\ \A c \in Commands : pc[c] = "idle"
      /\ \A c \in Calls : c \in Commands
      /\ \A m \in Maintenance : m \in Commands
      /\ \A s \in Stoppers : stop_pc[s] = "idle"
      /\ active_turn = NoTurn /\ stopping = FALSE
  BY DEF Init, Commands
<1>2. Standing /\ MaintenanceStands
  BY <1>1 DEF Standing, MaintenanceStands
<1>3. TurnServed /\ FinishAwaited /\ SharingServed /\ QueueServed /\ StopsServed
  BY <1>1 DEF TurnServed, FinishAwaited, SharingServed, QueueServed, StopsServed
<1> QED
  BY <1>2, <1>3 DEF NobodyForgotten

\* Whoever waits is waited for: the active Turn has somebody to end it, the finish of a Turn that is
\* awaited will come, a shared submission is in progress, the loop does not sleep over a command,
\* and the latest stop opens the Session again.  This is what the fairness of the runtime needs to
\* answer every submission, handle and stop (SessionLoop.ts: deferred_finished,
\* pending_request_handles, ensure_processing, stop).  It holds with every fault, also of the journal.
THEOREM NobodyIsForgotten == Spec => []NobodyForgotten
<1>1. Init => ServedInv
  BY InitLine, InitStores, InitServed DEF ServedInv
<1>2. ASSUME ServedInv, [Next]_vars PROVE ServedInv'
  <2>1. IInv' /\ ResultsApart' /\ LineInv' /\ StoreInv' /\ Standing' /\ MaintenanceStands'
    BY <1>2, NextInv, NextApart, NextLine, NextStores, NextStands, NextServes DEF ServedInv
  <2>2. TurnServed' /\ StopsServed' /\ FinishAwaited' /\ SharingServed' /\ QueueServed'
    BY <1>2, NextServed, NextAwaited, NextShared, NextAwake DEF ServedInv, NobodyForgotten
  <2> QED
    BY <2>1, <2>2 DEF ServedInv, NobodyForgotten
<1>3. ServedInv => NobodyForgotten
  BY DEF ServedInv
<1> QED
  BY <1>1, <1>2, <1>3, PTL DEF Spec

-----------------------------------------------------------------------------
\* Who holds the Session.

\* A Turn is to be recovered, and it is known that nobody executed it to an end unnoticed.
Recovering == recovered_turn_id # NoTurn /\ recovered_turn_id \notin unknown

\* The message of c is part of a Turn of which nobody knows what it did, and which is not recovered.
Unknown(c) == Stored(KeyOf[c]) /\ message[KeyOf[c]].turn \in unknown
Astray(c) == Unknown(c) /\ ~Recovering

\* A prompt in progress holds a lease of its own, of the actor that made it, or belongs to a Turn
\* that is lost: a retry found that Turn running and lost it before it got its handle.
OwnLeases ==
  /\ \A c \in Calls : holder[c] \in {NoActor, ActorOf[c]}
  /\ \A c \in Calls \ Results : pc[c] \in Submitting =>
       holder[c] # NoActor \/ (pc[c] \in {"blocked", "woken", "queued"} /\ Astray(c))
  /\ \A c \in Calls : pc[c] = "joining" => holder[c] = NoActor

\* The calls that got into the Session.
Admitted == Submitting \cup {"joining"}

\* The Turn holds a lease once its prompt is accepted, and so does a Turn that is to be recovered:
\* nobody else can get into the Session before its record is settled.  Before the Session is
\* initialized there is nothing to hold.
TurnLeases ==
  /\ phase \in TurnPhases \ {"persist"} /\ active_turn \notin unknown =>
       \E l \in on_finish : holder[l] # NoActor
  /\ Recovering => recovered_release /\ holder[Recovery] # NoActor
  /\ recovered_release => Recovery \notin on_finish \cup failed_releases
  /\ on_finish \cap failed_releases = {}
  /\ ~initialized =>
       /\ active_turn = NoTurn /\ recovered_turn_id = NoTurn /\ ~recovered_release
       /\ on_finish = {} /\ failed_releases = {}
       /\ \A c \in Calls : pc[c] \notin Admitted

\* A prompt in line is from the actor that holds its lease; without one its Turn is lost.
LineLeases ==
  /\ \A c \in Calls : pc[c] = "queued" =>
       IF holder[c] # NoActor THEN command[c].from = holder[c]
       ELSE c \notin Results => command[c].turn \in unknown
  /\ phase = "persist" => active_turn = command[current].turn

LeaseInv == OwnLeases /\ TurnLeases /\ LineLeases

\* Nothing that is known depends on who owns the Session.
Free == /\ phase \in TurnPhases => active_turn \in unknown
        /\ ~Recovering
        /\ \A c \in Calls : pc[c] = "queued" => holder[c] = NoActor

\* The Session changes hands only when it is free.
OwnerStays == owner' = owner \/ Free'

\* A call that found its request running or settled will find it so, or its Turn is lost.
Joinable == \A c \in Calls : pc[c] = "joining" => Resolvable(KeyOf[c]) \/ Astray(c)

\* Only the end of the active Turn makes a Turn unknown.
LEMMA Remembers ==
  ASSUME Remember
  PROVE  /\ \A t : t \in unknown => t \in unknown'
         /\ \A t : t \in unknown' =>
              t \in unknown \/ (t = active_turn /\ active_turn # NoTurn /\ active_turn' = NoTurn)
         /\ active_turn' = active_turn \/ active_turn = NoTurn => unknown' = unknown
BY DEF Remember, RecordFails

\* What is stored stays as it is.
LEMMA StoredStays ==
  ASSUME IInv, StoreInv, UNCHANGED message \/ \E c \in Calls : Stores(c)
  PROVE  \A k \in Keys : Stored(k) => message'[k] = message[k]
<1>1. ASSUME NEW c \in Calls, Stores(c), NEW k \in Keys, Stored(k) PROVE message'[k] = message[k]
  BY <1>1, StoresOnce
<1> QED
  BY <1>1

\* What is lost stays lost.
LEMMA AstrayStays ==
  ASSUME IInv, StoreInv, Remember, UNCHANGED message \/ \E c \in Calls : Stores(c),
         recovered_turn_id' \in {recovered_turn_id, NoTurn} \/ recovered_turn_id' \in unknown'
  PROVE  /\ Recovering' => Recovering /\ recovered_turn_id' = recovered_turn_id
         /\ \A c \in Calls : Unknown(c) => Unknown(c)'
         /\ \A c \in Calls : Astray(c) => Astray(c)'
<1>1. Recovering' => Recovering /\ recovered_turn_id' = recovered_turn_id
  BY Remembers DEF Recovering
<1>2. ASSUME NEW c \in Calls, Unknown(c) PROVE Unknown(c)'
  <2>1. KeyOf[c] \in Keys /\ Stored(KeyOf[c])
    BY <1>2, LoopAssumption DEF Unknown
  <2>2. message'[KeyOf[c]] = message[KeyOf[c]]
    BY <2>1, StoredStays
  <2> QED
    BY <1>2, <2>2, Remembers DEF Unknown, Stored
<1> QED
  BY <1>1, <1>2 DEF Astray

\* A step that carries the calls on lets leases only end.
LEMMA OwnLeasesKeep ==
  ASSUME OwnLeases, \A c \in Calls : Carries(c) /\ holder'[c] \in {NoActor, holder[c]},
         \A c \in Calls : Astray(c) => Astray(c)'
  PROVE  OwnLeases'
BY DEF OwnLeases, Carries, Working, Submitting

\* Whatever depends on the owner holds a lease.
LEMMA Occupied ==
  IInv /\ LineInv /\ LeaseInv /\ ~Free => \E l \in Leases : holder[l] # NoActor
<1> SUFFICES ASSUME IInv, LineInv, LeaseInv, ~Free PROVE \E l \in Leases : holder[l] # NoActor
  OBVIOUS
<1>1. on_finish \subseteq Leases /\ Calls \subseteq Leases /\ Recovery \in Leases
  BY DEF IInv, TypeOK, Leases
<1>2. CASE phase = "persist" /\ active_turn \notin unknown
  <2>1. current \in Calls \ Results /\ pc[current] = "queued"
    BY <1>2 DEF IInv, LoopOwnsTurn, LineInv, Line, ResultsInTurn
  <2> QED
    BY <1>1, <1>2, <2>1 DEF LeaseInv, LineLeases
<1>3. CASE phase \in TurnPhases \ {"persist"} /\ active_turn \notin unknown
  BY <1>1, <1>3 DEF LeaseInv, TurnLeases
<1>4. CASE Recovering
  BY <1>1, <1>4 DEF LeaseInv, TurnLeases
<1> QED
  BY <1>1, <1>2, <1>3, <1>4 DEF Free

LEMMA OccupiedNext ==
  (IInv /\ LineInv /\ LeaseInv /\ ~Free => \E l \in Leases : holder[l] # NoActor)'
BY Occupied, PTL

\* Who lets the Session go leaves it free.
LEMMA OwnerKept ==
  ASSUME IInv', LineInv', LeaseInv', owner' \in {owner, NoActor}
  PROVE  OwnerStays
<1>1. CASE owner' = owner
  BY <1>1 DEF OwnerStays
<1>2. CASE owner' = NoActor
  <2>1. \A l \in Leases : holder'[l] = NoActor
    BY <1>2 DEF IInv, OccupationConsistent
  <2> QED
    BY <2>1, OccupiedNext DEF OwnerStays
<1> QED
  BY <1>1, <1>2

\* A release at most frees the Session.
LEMMA ReleaseFrees ==
  ASSUME UNCHANGED occupation \/ \E S : Release(S)
  PROVE  owner' \in {owner, NoActor}
BY DEF occupation, Release

\* In a Turn, and for a call that got in, the Session is initialized.
LEMMA InitializedIn ==
  ASSUME TurnLeases, active_turn # NoTurn \/ \E c \in Calls : pc[c] \in Admitted
  PROVE  initialized
BY DEF TurnLeases

\* The steps that end no lease.
LEMMA AsideLeases ==
  ASSUME TurnLeases, TypeOK, Remember, UNCHANGED <<releases, initialized>>,
         \A l \in Leases : holder[l] # NoActor => holder'[l] # NoActor,
         phase' \in TurnPhases \ {"persist"} => phase \in TurnPhases \ {"persist"} /\ active_turn' = active_turn,
         \/ initialized
         \/ active_turn' = active_turn /\ \A c \in Calls : pc'[c] \in Admitted => pc[c] \in Admitted
  PROVE  TurnLeases'
<1>1. /\ on_finish' = on_finish /\ failed_releases' = failed_releases
      /\ recovered_turn_id' = recovered_turn_id /\ recovered_release' = recovered_release
      /\ on_finish \subseteq Leases /\ Recovery \in Leases
  BY LeasesFinite DEF TypeOK, releases
<1>2. phase' \in TurnPhases \ {"persist"} /\ active_turn' \notin unknown' =>
        \E l \in on_finish' : holder'[l] # NoActor
  BY <1>1, Remembers DEF TurnLeases
<1>3. Recovering' => recovered_release' /\ holder'[Recovery] # NoActor
  BY <1>1, Remembers DEF TurnLeases, Recovering
<1> QED
  BY <1>1, <1>2, <1>3 DEF TurnLeases

\* Calls that fail end their leases, or leave them to the active Turn.
LEMMA RejectedLeased ==
  ASSUME StoreInv, TurnLeases, Remember,
         NEW S \in SUBSET Calls, NEW b \in BOOLEAN, RejectedLeases(S, b), \A c \in S : pc[c] \in Working,
         UNCHANGED <<recovered_turn_id, recovered_release, failed_releases, initialized>>, initialized,
         phase' \in TurnPhases \ {"persist"} =>
           \/ phase \in TurnPhases \ {"persist"} /\ active_turn' = active_turn
           \/ Leased(S) # {} \/ active_turn' \in unknown',
         ~b => phase' \notin TurnPhases
  PROVE  TurnLeases'
<1>1. /\ \A l \in Leased(S) : l \in Calls /\ l \in S /\ holder[l] # NoActor /\ l # Recovery
      /\ Recovery \in Leases
  BY LeasesFinite, LoopAssumption DEF Leased
<1>2. Leased(S) \cap failed_releases = {}
  BY <1>1 DEF StoreInv, InCharge
<1>3. CASE b
  <2>1. on_finish' = on_finish \cup Leased(S) /\ holder' = holder
    BY <1>3 DEF RejectedLeases, occupation
  <2>2. phase' \in TurnPhases \ {"persist"} /\ active_turn' \notin unknown' =>
          \E l \in on_finish' : holder'[l] # NoActor
    BY <1>1, <2>1, Remembers DEF TurnLeases
  <2>3. Recovering' => recovered_release' /\ holder'[Recovery] # NoActor
    BY <2>1, Remembers DEF TurnLeases, Recovering
  <2> QED
    BY <1>1, <1>2, <2>1, <2>2, <2>3 DEF TurnLeases
<1>4. CASE ~b
  <2>1. /\ \A l \in Leases : holder'[l] = IF l \in Leased(S) THEN NoActor ELSE holder[l]
        /\ on_finish' = on_finish
    BY <1>4, ReleaseEnds DEF RejectedLeases
  <2>2. Recovering' => recovered_release' /\ holder'[Recovery] # NoActor
    BY <1>1, <2>1, Remembers DEF TurnLeases, Recovering
  <2> QED
    BY <1>4, <2>1, <2>2 DEF TurnLeases
<1> QED
  BY <1>3, <1>4

\* Calls that obtain a handle leave their leases to the active Turn.
LEMMA AcceptedLeased ==
  ASSUME IInv, StoreInv, TurnLeases, Remember,
         NEW S \in SUBSET Calls, AcceptedLeases(S), \A c \in S : pc[c] \in Working,
         UNCHANGED <<failed_releases, initialized, occupation>>, initialized,
         phase' \in TurnPhases \ {"persist"} =>
           \/ phase \in TurnPhases \ {"persist"} /\ active_turn' = active_turn
           \/ Leased(S) # {} \/ active_turn' \in unknown'
  PROVE  TurnLeases'
<1>1. /\ \A l \in Leased(S) : l \in Calls /\ l \in S /\ holder[l] # NoActor /\ l # Recovery
      /\ holder' = holder
  BY LoopAssumption DEF Leased, occupation
<1>2. Leased(S) \cap failed_releases = {}
  BY <1>1 DEF StoreInv, InCharge
<1>3. CASE Leased(S) = {}
  <2>1. on_finish' = on_finish /\ recovered_release' = recovered_release /\ recovered_turn_id' = recovered_turn_id
    BY <1>3 DEF AcceptedLeases, IInv, TypeOK
  <2>2. phase' \in TurnPhases \ {"persist"} /\ active_turn' \notin unknown' =>
          \E l \in on_finish' : holder'[l] # NoActor
    BY <1>1, <1>3, <2>1, Remembers DEF TurnLeases
  <2>3. Recovering' => recovered_release' /\ holder'[Recovery] # NoActor
    BY <1>1, <2>1, Remembers DEF TurnLeases, Recovering
  <2> QED
    BY <1>1, <2>1, <2>2, <2>3 DEF TurnLeases
<1>4. CASE Leased(S) # {}
  <2>1. /\ on_finish' = on_finish \cup Leased(S) \cup (IF recovered_release THEN {Recovery} ELSE {})
        /\ ~recovered_release' /\ recovered_turn_id' = NoTurn
    BY <1>4 DEF AcceptedLeases
  <2>2. on_finish' \cap failed_releases' = {}
    BY <1>2, <2>1 DEF TurnLeases
  <2>3. \E l \in on_finish' : holder'[l] # NoActor
    BY <1>1, <1>4, <2>1
  <2> QED
    BY <2>1, <2>2, <2>3 DEF TurnLeases, Recovering
<1> QED
  BY <1>3, <1>4

\* A request that is answered without its Turn ends the leases that waited for a later Turn.
LEMMA JoinLeased ==
  ASSUME IInv, StoreInv, TurnLeases, Remember, NEW c \in Calls, Join(c),
         pc[c] \in {"resolving", "joining"}, UNCHANGED <<initialized, active_turn>>
  PROVE  TurnLeases'
<1> DEFINE S == Sharing(c)
           t == message[KeyOf[c]].turn
           ended == Leased(S) \cup failed_releases \cup (IF recovered_release THEN {Recovery} ELSE {})
<1>1. /\ S \in SUBSET Calls /\ phase' = phase
      /\ \A d \in S : pc[d] \in Working
  BY SharingCalls, CancelledOrSharing DEF Join, Working
<1>2. initialized
  BY InitializedIn DEF Admitted, Submitting
<1>3. CASE active_turn = t
  <2>1. AcceptedLeases(S) /\ UNCHANGED <<occupation, failed_releases>>
    BY <1>3 DEF Join
  <2> HIDE DEF S
  <2> QED
    BY <1>1, <1>2, <2>1, AcceptedLeased
<1>4. CASE active_turn # t /\ Leased(S) = {}
  <2>1. UNCHANGED <<occupation, releases>>
    BY <1>4 DEF Join
  <2> HIDE DEF S
  <2> QED
    BY <1>1, <1>2, <2>1, AsideLeases DEF IInv, occupation
<1>5. CASE active_turn # t /\ Leased(S) # {}
  <2>1. /\ Release(ended) /\ failed_releases' = {} /\ recovered_release' = FALSE
        /\ recovered_turn_id' = NoTurn /\ on_finish' = on_finish
    BY <1>5 DEF Join
  <2>2. Leased(S) \cap on_finish = {}
    BY <1>1 DEF StoreInv, InCharge, Leased
  <2>3. ended \cap on_finish = {}
    BY <2>2 DEF TurnLeases
  <2> HIDE DEF ended, S
  <2>4. \A l \in on_finish : holder'[l] = holder[l]
    BY <2>1, <2>3, ReleaseEnds DEF IInv, TypeOK
  <2>5. phase' \in TurnPhases \ {"persist"} /\ active_turn' \notin unknown' =>
          \E l \in on_finish' : holder'[l] # NoActor
    BY <1>1, <2>1, <2>4, Remembers DEF TurnLeases
  <2> QED
    BY <1>2, <2>1, <2>5 DEF TurnLeases, Recovering
<1> QED
  BY <1>3, <1>4, <1>5

\* The finish of a Turn ends its leases; that of a recovered Turn stays until it is settled.
LEMMA FinishedLeased ==
  ASSUME TurnLeases, Remember, NEW status, NEW also, Finished(status, also),
         initialized', phase' \notin TurnPhases,
         \/ also = {} /\ UNCHANGED <<recovered_turn_id, recovered_release>>
         \/ recovered_turn_id' = NoTurn /\ ~recovered_release'
  PROVE  TurnLeases'
<1> DEFINE parked == IF \E c \in on_finish \cap Calls : pc[c] = "accepted"
                     THEN failed_releases ELSE {}
<1>1. /\ Release(on_finish \cup parked \cup also) /\ parked \subseteq failed_releases
      /\ failed_releases' = failed_releases \ (parked \cup also) /\ on_finish' = {}
  BY DEF Finished
<1> HIDE DEF parked
<1>2. \A l \in Leases : holder'[l] = IF l \in on_finish \cup parked \cup also THEN NoActor ELSE holder[l]
  BY <1>1, ReleaseEnds
<1>3. CASE also = {} /\ UNCHANGED <<recovered_turn_id, recovered_release>>
  <2>1. Recovering' => Recovering
    BY <1>3, Remembers DEF Recovering
  <2>2. Recovering' => recovered_release' /\ holder'[Recovery] # NoActor
    BY <1>1, <1>2, <1>3, <2>1, LeasesFinite DEF TurnLeases
  <2> QED
    BY <1>1, <1>3, <2>2 DEF TurnLeases
<1>4. CASE recovered_turn_id' = NoTurn /\ ~recovered_release'
  BY <1>1, <1>4 DEF TurnLeases, Recovering
<1> QED
  BY <1>3, <1>4

\* The leases of a Turn that cannot be acknowledged are kept.
LEMMA UnacknowledgedLeased ==
  ASSUME TurnLeases, Remember, Unacknowledged, phase' \notin TurnPhases, initialized,
         UNCHANGED <<initialized, recovered_release>>,
         recovered_turn_id' = recovered_turn_id \/ recovered_turn_id' \in unknown'
  PROVE  TurnLeases'
<1> DEFINE S == {c \in Calls : pc'[c] = "rejected" /\ pc[c] # "rejected"}
<1>1. /\ Release(S) /\ Recovery \notin S
      /\ failed_releases' = failed_releases \cup on_finish /\ on_finish' = {}
  BY LoopAssumption DEF Unacknowledged
<1> HIDE DEF S
<1>2. holder'[Recovery] = holder[Recovery]
  BY <1>1, ReleaseEnds, LeasesFinite
<1>3. Recovering' => Recovering
  BY Remembers DEF Recovering
<1>4. Recovering' => recovered_release' /\ holder'[Recovery] # NoActor
  BY <1>2, <1>3 DEF TurnLeases
<1> QED
  BY <1>1, <1>4 DEF TurnLeases

\* Who stays in line stays bound as it is.
LEMMA LineLeasesKeep ==
  ASSUME IInv', LineInv', LineLeases, Remember, \A c \in Calls : Carries(c),
         phase' = "persist" => \/ phase = "persist" /\ current' = current /\ active_turn' = active_turn
                               \/ active_turn' = command[current'].turn
  PROVE  LineLeases'
<1>1. \A c \in Calls : pc'[c] = "queued" =>
        pc[c] = "queued" /\ holder'[c] = holder[c] /\ command'[c] = command[c]
  BY DEF Carries, Working
<1>2. \A c \in Calls : pc'[c] = "queued" =>
        IF holder'[c] # NoActor THEN command'[c].from = holder'[c]
        ELSE c \notin Results => command'[c].turn \in unknown'
  BY <1>1, Remembers DEF LineLeases
<1>3. phase' = "persist" => current' \in Calls /\ pc'[current'] = "queued"
  BY DEF IInv, LoopOwnsTurn, LineInv, Line
<1>4. phase' = "persist" => active_turn' = command'[current'].turn
  BY <1>1, <1>3 DEF LineLeases
<1> QED
  BY <1>2, <1>4 DEF LineLeases

\* No step of the loop admits anybody.
LEMMA LoopReleases ==
  ASSUME LoopStep
  PROVE  UNCHANGED occupation \/ \E S : Release(S)
<1>1. CASE TakeNext \/ ExecuteMaintenance \/ DrainDone \/ AbsorbDrained \/ FixStatus
  BY <1>1 DEF TakeNext, ExecuteMaintenance, DrainDone, AbsorbDrained, FixStatus
<1>2. CASE StartTurn \/ TurnThrows \/ ExecutorReturns \/ ChildrenSettle
  BY <1>2 DEF StartTurn, TurnThrows, ExecutorReturns, ChildrenSettle, AbsorbOrClose, CloseWindow, RejectedLeases
<1>3. CASE PrepareCompletion \/ CompleteTurn \/ FailTurn
  BY <1>3 DEF PrepareCompletion, CompleteTurn, FailTurn, Finished, Unacknowledged
<1> QED
  BY <1>1, <1>2, <1>3 DEF LoopStep

\* Only a Turn that is lost becomes one to be recovered.
LEMMA LoopRecovers ==
  ASSUME IInv, Remember, LoopStep
  PROVE  recovered_turn_id' \in {recovered_turn_id, NoTurn} \/ recovered_turn_id' \in unknown'
<1>1. CASE TakeNext \/ ExecuteMaintenance \/ DrainDone \/ FixStatus \/ CompleteTurn \/ FailTurn \/ TurnThrows
           \/ ExecutorReturns \/ ChildrenSettle
  BY <1>1 DEF TakeNext, ExecuteMaintenance, DrainDone, FixStatus, CompleteTurn, FailTurn, TurnThrows,
              ExecutorReturns, ChildrenSettle, releases
<1>2. CASE StartTurn \/ AbsorbDrained
  BY <1>2 DEF StartTurn, AbsorbDrained, AcceptedLeases
<1>3. CASE PrepareCompletion
  <2>1. CASE UNCHANGED releases
    BY <2>1 DEF releases
  <2>2. CASE Unacknowledged /\ recovered_turn_id' = active_turn
    <3>1. phase = "sealing" /\ crashes' = crashes /\ active_turn' = NoTurn
      BY <1>3, <2>2 DEF PrepareCompletion, Unacknowledged, Settle
    <3>2. active_turn # NoTurn
      BY <3>1, LoopAssumption DEF IInv, LoopOwnsTurn, TurnPhases
    <3> QED
      BY <2>2, <3>1, <3>2 DEF Remember, RecordFails
  <2> QED
    BY <1>3, <2>1, <2>2 DEF PrepareCompletion
<1> QED
  BY <1>1, <1>2, <1>3 DEF LoopStep

\* What is cancelled was in progress.
LEMMA CancelledWork ==
  ASSUME LineInv
  PROVE  \A c \in CancelledCalls : pc[c] \in Working
BY CancelledOrSharing, CancelledMember DEF LineInv, Line, Working

\* The leases of the calls that a step leaves or takes out of the line.
LEMMA CarriedOwn ==
  ASSUME IInv, StoreInv, OwnLeases, Remember, \A c \in Calls : Carries(c),
         UNCHANGED message \/ \E c \in Calls : Stores(c), UNCHANGED occupation \/ \E S : Release(S),
         recovered_turn_id' \in {recovered_turn_id, NoTurn} \/ recovered_turn_id' \in unknown'
  PROVE  OwnLeases'
<1>1. \A l \in Leases : holder'[l] \in {NoActor, holder[l]}
  BY ReleaseEnds DEF occupation
<1>2. Calls \subseteq Leases
  BY DEF Leases
<1> QED
  BY <1>1, <1>2, OwnLeasesKeep, AstrayStays

\* Where the loop is with the command it starts.
LEMMA LoopPersists ==
  ASSUME LoopStep, phase' = "persist"
  PROVE  TakeNext /\ active_turn' = command[current'].turn
<1>1. TakeNext
  BY DEF LoopStep, TakeNext, ExecuteMaintenance, DrainDone, FixStatus, CompleteTurn, FailTurn, TurnThrows,
         ExecutorReturns, ChildrenSettle, AbsorbOrClose, CloseWindow, StartTurn, AbsorbDrained, PrepareCompletion
<1> QED
  BY <1>1 DEF TakeNext

\* The loop ends leases with their Turn only, and a Turn it starts brings one.
LEMMA LoopTurnLeases ==
  ASSUME IInv, LineInv, StoreInv, LeaseInv, Remember, LoopStep
  PROVE  TurnLeases'
<1> USE DEF LeaseInv
<1>1. phase \in TurnPhases => initialized /\ active_turn \in Keys
  BY InitializedIn, LoopAssumption DEF IInv, LoopOwnsTurn
<1>2. ASSUME UNCHANGED <<occupation, releases, initialized>>,
             phase' \in TurnPhases \ {"persist"} => phase \in TurnPhases \ {"persist"} /\ active_turn' = active_turn,
             initialized \/ (active_turn' = active_turn /\ \A c \in Calls : pc'[c] = pc[c])
      PROVE  TurnLeases'
  BY <1>2, AsideLeases DEF IInv, occupation
<1>3. CASE TakeNext
  <2>1. UNCHANGED <<occupation, releases, initialized, pc>> /\ phase' \notin TurnPhases \ {"persist"}
    BY <1>3 DEF TakeNext, callers, TurnPhases
  <2>2. initialized \/ active_turn' = active_turn
    <3>1. CASE HasCommand(queue) /\ Head(queue) \in Calls
      <4>1. 1 \in DOMAIN queue /\ Head(queue) = queue[1]
        BY <3>1, CommandsTyped DEF HasCommand
      <4>2. pc[Head(queue)] = "queued"
        BY <4>1 DEF LineInv, Line
      <4> QED
        BY <3>1, <4>2, InitializedIn DEF Admitted, Submitting
    <3> QED
      BY <1>3, <3>1 DEF TakeNext, turn
  <2> QED
    BY <1>2, <2>1, <2>2
<1>4. CASE ExecuteMaintenance \/ DrainDone \/ FixStatus
  <2>1. \A c \in Calls : pc'[c] = pc[c]
    BY <1>4, CommandsTyped, CancelledMember DEF ExecuteMaintenance, DrainDone, FixStatus, callers, IInv, TypeOK, LoopOwnsTurn
  <2>2. UNCHANGED <<occupation, releases, initialized, active_turn>>
    BY <1>4 DEF ExecuteMaintenance, DrainDone, FixStatus, turn
  <2>3. phase' \in TurnPhases \ {"persist"} => phase \in TurnPhases \ {"persist"}
    BY <1>4 DEF ExecuteMaintenance, DrainDone, FixStatus, TurnPhases
  <2> QED
    BY <1>2, <2>1, <2>2, <2>3
<1>5. CASE StartTurn
  <2>1. /\ phase = "persist" /\ current \in Calls \ Results /\ pc[current] = "queued"
        /\ current \in Sharing(current) /\ initialized /\ active_turn' = active_turn
    <3>1. phase = "persist" /\ current \in Sharing(current) /\ active_turn' = active_turn
      BY <1>5 DEF StartTurn, Sharing
    <3>2. current \in Calls \ Results /\ pc[current] = "queued"
      BY <3>1 DEF IInv, LoopOwnsTurn, LineInv, Line, ResultsInTurn
    <3> QED
      BY <1>1, <3>1, <3>2 DEF TurnPhases
  <2>2. /\ Sharing(current) \in SUBSET Calls /\ Sharing(current) \cup CancelledCalls \in SUBSET Calls
        /\ \A c \in Sharing(current) : pc[c] \in Working
    BY <2>1, SharingCalls, CancelledAreCalls, CancelledOrSharing DEF Working
  <2>3. holder[current] # NoActor \/ active_turn' \in unknown'
    BY <2>1, Remembers DEF LineLeases
  <2>4. UNCHANGED <<initialized, failed_releases>>
    BY <1>5 DEF StartTurn
  <2>5. CASE AcceptedLeases(Sharing(current)) /\ UNCHANGED occupation
    <3>1. Leased(Sharing(current)) # {} \/ active_turn' \in unknown'
      BY <2>1, <2>3 DEF Leased
    <3> QED
      BY <2>1, <2>2, <2>4, <2>5, <3>1, AcceptedLeased
  <2>6. CASE /\ RejectedLeases(Sharing(current) \cup CancelledCalls, TRUE)
             /\ UNCHANGED <<recovered_turn_id, recovered_release>>
    <3>1. \A c \in Sharing(current) \cup CancelledCalls : pc[c] \in Working
      BY <2>2, CancelledWork
    <3>2. Leased(Sharing(current) \cup CancelledCalls) # {} \/ active_turn' \in unknown'
      BY <2>1, <2>3 DEF Leased
    <3> QED
      BY <2>1, <2>2, <2>4, <2>6, <3>1, <3>2, RejectedLeased
  <2> QED
    BY <1>5, <2>5, <2>6 DEF StartTurn
<1>6. CASE AbsorbDrained
  <2> DEFINE c == Head(drained)
  <2>1. /\ UNCHANGED <<initialized, occupation, failed_releases, phase, active_turn>>
        /\ phase = "drain" /\ drained # <<>> /\ initialized
    BY <1>1, <1>6 DEF AbsorbDrained, turn, TurnPhases
  <2>2. CASE c \in Maintenance /\ UNCHANGED <<recovered_turn_id, recovered_release, on_finish>>
    BY <1>2, <2>1, <2>2 DEF releases, TurnPhases
  <2>3. c \in Calls => Sharing(c) \in SUBSET Calls /\ \A d \in Sharing(c) : pc[d] \in Working
    <3>1. 1 \in DOMAIN drained /\ c = drained[1]
      BY <2>1, CommandsTyped
    <3>2. pc[c] = "queued"
      BY <3>1 DEF LineInv, Line
    <3> QED
      BY <3>2, SharingCalls, CancelledOrSharing DEF Working
  <2>4. CASE c \in Calls /\ AcceptedLeases(Sharing(c))
    BY <2>1, <2>3, <2>4, AcceptedLeased DEF TurnPhases
  <2>5. CASE /\ c \in Calls /\ on_finish' = on_finish \cup Leased(Sharing(c))
             /\ UNCHANGED <<recovered_turn_id, recovered_release>>
    <3>1. RejectedLeases(Sharing(c), TRUE)
      BY <2>1, <2>5 DEF RejectedLeases
    <3> QED
      BY <2>1, <2>3, <2>5, <3>1, RejectedLeased DEF TurnPhases
  <2> QED
    BY <1>6, <2>2, <2>4, <2>5 DEF AbsorbDrained
<1>7. ASSUME RejectedLeases(CancelledCalls, TRUE), phase \in TurnPhases \ {"persist"}, active_turn' = active_turn,
             UNCHANGED <<recovered_turn_id, recovered_release, failed_releases, initialized>>
      PROVE  TurnLeases'
  BY <1>1, <1>7, CancelledAreCalls, CancelledWork, RejectedLeased
<1>8. CASE ExecutorReturns \/ ChildrenSettle
  <2>1. /\ UNCHANGED <<initialized, recovered_turn_id, recovered_release, failed_releases, active_turn>>
        /\ phase \in TurnPhases \ {"persist"}
    BY <1>8 DEF ExecutorReturns, ChildrenSettle, TurnPhases
  <2>2. CASE UNCHANGED <<pc, on_finish, occupation>>
    BY <1>2, <2>1, <2>2 DEF releases
  <2>3. CASE RejectedLeases(CancelledCalls, TRUE)
    BY <1>7, <2>1, <2>3
  <2> QED
    BY <1>8, <2>2, <2>3 DEF ExecutorReturns, ChildrenSettle, AbsorbOrClose, CloseWindow
<1>9. CASE TurnThrows
  BY <1>7, <1>9 DEF TurnThrows, TurnPhases
<1>10. ASSUME NEW status, Finished(status, {}), phase \in {"finishing", "failing"}, phase' = "take",
              UNCHANGED <<initialized, recovered_turn_id, recovered_release>>
       PROVE  TurnLeases'
  <2>1. initialized /\ phase' \notin TurnPhases
    BY <1>1, <1>10 DEF TurnPhases
  <2> QED
    BY <1>10, <2>1, FinishedLeased
<1>11. CASE CompleteTurn
  BY <1>10, <1>11 DEF CompleteTurn
<1>12. ASSUME Unacknowledged, phase \in {"sealing", "failing"}, phase' = "take",
              UNCHANGED <<initialized, recovered_release>>
       PROVE  TurnLeases'
  <2>1. initialized /\ phase' \notin TurnPhases
    BY <1>1, <1>12 DEF TurnPhases
  <2>2. recovered_turn_id' = recovered_turn_id \/ recovered_turn_id' = NoTurn \/ recovered_turn_id' \in unknown'
    BY LoopRecovers
  <2>3. recovered_turn_id' = NoTurn => recovered_turn_id' = recovered_turn_id \/ recovered_turn_id' \in unknown'
    <3>1. CASE PrepareCompletion
      BY <1>1, <1>12, <3>1, LoopAssumption DEF PrepareCompletion, releases, TurnPhases
    <3>2. CASE ~PrepareCompletion
      <4>1. FailTurn
        BY <1>12, <3>2 DEF LoopStep, TakeNext, StartTurn, ExecuteMaintenance, AbsorbDrained, DrainDone, FixStatus,
                           CompleteTurn, TurnThrows, ExecutorReturns, ChildrenSettle
      <4> QED
        BY <4>1 DEF FailTurn
    <3> QED
      BY <3>1, <3>2
  <2> QED
    BY <1>12, <2>1, <2>2, <2>3, UnacknowledgedLeased
<1>13. CASE FailTurn
  BY <1>10, <1>12, <1>13 DEF FailTurn
<1>14. CASE PrepareCompletion
  <2>1. phase = "sealing" /\ UNCHANGED initialized
    BY <1>14 DEF PrepareCompletion
  <2>2. CASE phase' = "finishing" /\ UNCHANGED <<occupation, releases, turn, callers>>
    BY <1>2, <2>1, <2>2 DEF turn, callers, TurnPhases
  <2>3. CASE Unacknowledged /\ phase' = "take" /\ UNCHANGED recovered_release
    BY <1>12, <2>1, <2>3
  <2> QED
    BY <1>14, <2>2, <2>3 DEF PrepareCompletion
<1> QED
  BY <1>3, <1>4, <1>5, <1>6, <1>8, <1>9, <1>11, <1>13, <1>14 DEF LoopStep

LEMMA LoopLeases ==
  ASSUME IInv, IInv', LineInv, LineInv', StoreInv, LeaseInv, Remember, LoopStep
  PROVE  LeaseInv' /\ OwnerStays
<1>1. \A c \in Calls : Carries(c)
  BY LoopStores
<1>2. UNCHANGED message \/ \E c \in Calls : Stores(c)
  BY LoopStores
<1>3. UNCHANGED occupation \/ \E S : Release(S)
  BY LoopReleases
<1>4. OwnLeases'
  BY <1>1, <1>2, <1>3, LoopRecovers, CarriedOwn DEF LeaseInv
<1>5. TurnLeases'
  BY LoopTurnLeases
<1>6. LineLeases'
  BY <1>1, LoopPersists, LineLeasesKeep DEF LeaseInv
<1>7. LeaseInv'
  BY <1>4, <1>5, <1>6 DEF LeaseInv
<1> QED
  BY <1>3, <1>7, ReleaseFrees, OwnerKept

\* Stop ends the leases of what it cancels, and those of the Turn it settles itself.
LEMMA StopLeases ==
  ASSUME IInv, IInv', LineInv, LineInv', StoreInv, LeaseInv, Remember,
         NEW s \in Stoppers, StopBegin(s) \/ StopStep(s)
  PROVE  LeaseInv' /\ OwnerStays
<1>1. (\A c \in Calls : Carries(c)) /\ UNCHANGED message
  BY StopStores
<1>2. UNCHANGED occupation \/ \E S : Release(S)
  BY DEF StopBegin, StopStep, StopEnd, StopRecovers, RejectedLeases, Finished, Unacknowledged
<1>3. recovered_turn_id' \in {recovered_turn_id, NoTurn} /\ phase' = phase /\ current' = current
  BY DEF StopBegin, StopStep, StopEnd, StopRecovers, releases, loop
<1>4. OwnLeases'
  BY <1>1, <1>2, <1>3, CarriedOwn DEF LeaseInv
<1>5. TurnLeases'
  <2>1. CASE StopBegin(s)
    <3>1. /\ UNCHANGED <<initialized, recovered_turn_id, recovered_release, failed_releases, phase>> /\ initialized
          /\ \/ RejectedLeases(CancelledCalls, TRUE) /\ (active_turn # NoTurn => active_turn' = active_turn)
             \/ RejectedLeases(CancelledCalls, FALSE) /\ active_turn = NoTurn
      BY <2>1 DEF StopBegin, loop
    <3>2. active_turn = NoTurn => phase \notin TurnPhases
      BY LoopAssumption DEF IInv, LoopOwnsTurn
    <3>3. CancelledCalls \in SUBSET Calls /\ \A c \in CancelledCalls : pc[c] \in Working
      BY CancelledAreCalls, CancelledWork
    <3>4. CASE RejectedLeases(CancelledCalls, TRUE) /\ (active_turn # NoTurn => active_turn' = active_turn)
      BY <3>1, <3>2, <3>3, <3>4, RejectedLeased DEF LeaseInv
    <3>5. CASE RejectedLeases(CancelledCalls, FALSE) /\ active_turn = NoTurn
      BY <3>1, <3>2, <3>3, <3>5, RejectedLeased DEF LeaseInv
    <3> QED
      BY <3>1, <3>4, <3>5
  <2>2. CASE StopRecovers(s)
    <3>1. active_turn # NoTurn /\ phase' \notin TurnPhases /\ UNCHANGED initialized
      BY <1>3, <2>2, LoopAssumption DEF StopRecovers, IInv, StopOwnsRecovery
    <3>2. initialized
      BY <3>1, InitializedIn DEF LeaseInv
    <3>3. CASE Unacknowledged /\ UNCHANGED <<recovered_turn_id, recovered_release>>
      BY <3>1, <3>2, <3>3, UnacknowledgedLeased DEF LeaseInv
    <3>4. CASE /\ Finished(journal'[active_turn],
                           failed_releases \cup (IF recovered_release THEN {Recovery} ELSE {}))
               /\ recovered_release' = FALSE /\ recovered_turn_id' = NoTurn
      BY <3>1, <3>2, <3>4, FinishedLeased DEF LeaseInv
    <3> QED
      BY <2>2, <3>3, <3>4 DEF StopRecovers
  <2>3. CASE StopEnd(s)
    BY <2>3, AsideLeases DEF StopEnd, LeaseInv, IInv, occupation, callers, turn, loop
  <2> QED
    BY <2>1, <2>2, <2>3 DEF StopStep
<1>6. phase = "persist" => active_turn' = active_turn
  <2>1. CASE StopBegin(s)
    BY <2>1, LoopAssumption DEF StopBegin, turn, IInv, LoopOwnsTurn, TurnPhases
  <2>2. CASE StopRecovers(s)
    BY <2>2 DEF StopRecovers, IInv, StopOwnsRecovery, TurnPhases
  <2>3. CASE StopEnd(s)
    BY <2>3 DEF StopEnd, turn
  <2> QED
    BY <2>1, <2>2, <2>3 DEF StopStep
<1>7. LineLeases'
  BY <1>1, <1>3, <1>6, LineLeasesKeep DEF LeaseInv
<1>8. LeaseInv'
  BY <1>4, <1>5, <1>7 DEF LeaseInv
<1> QED
  BY <1>2, <1>8, ReleaseFrees, OwnerKept

\* One call goes on to v, without a lease only if its Turn is lost.
LEMMA GoesLeases ==
  ASSUME IInv, IInv', LineInv, LineInv', StoreInv, LeaseInv, Remember,
         NEW c \in Calls, NEW v, pc' = [pc EXCEPT ![c] = v], pc[c] # "queued",
         UNCHANGED <<releases, initialized, active_turn, occupation, message, current>>,
         phase' = phase \/ phase' = "take", \A d \in Calls \ {c} : command'[d] = command[d],
         initialized \/ v \notin Admitted,
         \/ c \in Results \/ v \notin Submitting \/ holder[c] # NoActor
         \/ v \in {"blocked", "woken", "queued"} /\ Astray(c),
         v # "joining" \/ holder[c] = NoActor,
         v = "queued" => IF holder[c] # NoActor THEN command'[c].from = holder[c]
                         ELSE c \notin Results => command'[c].turn \in unknown
  PROVE  LeaseInv' /\ OwnerStays
<1>1. pc \in [Commands -> CallPcs \cup {"done"}] /\ Calls \subseteq Commands
  BY CommandsTyped DEF IInv, TypeOK
<1>2. pc'[c] = v /\ (\A d \in Calls \ {c} : pc'[d] = pc[d]) /\ holder' = holder /\ unknown' = unknown
      /\ recovered_turn_id' = recovered_turn_id
  BY <1>1, Remembers DEF occupation, releases
<1>3. \A d \in Calls : Astray(d) => Astray(d)'
  BY <1>2, AstrayStays
<1>4. OwnLeases'
  BY <1>2, <1>3 DEF LeaseInv, OwnLeases
<1>5. TurnLeases'
  BY <1>2, AsideLeases DEF LeaseInv, IInv, TurnPhases
<1>6. phase' = "persist" => phase = "persist" /\ current \in Calls \ {c}
  BY DEF IInv, LoopOwnsTurn, LineInv, Line
<1>7. LineLeases'
  BY <1>2, <1>6 DEF LeaseInv, LineLeases
<1>8. LeaseInv'
  BY <1>4, <1>5, <1>7 DEF LeaseInv
<1> QED
  BY <1>8 DEF OwnerStays, occupation

\* Another actor gets the Session only when nothing depends on its owner.
LEMMA AdmitLeases ==
  ASSUME IInv, IInv', LineInv, LineInv', StoreInv, LeaseInv, Remember, NEW c \in Calls, c \notin Results, Admit(c)
  PROVE  LeaseInv' /\ OwnerStays
<1>1. /\ pc[c] = "reading" /\ holder[c] = NoActor /\ initialized
      /\ UNCHANGED <<releases, initialized, active_turn, phase, command, message, current>>
  BY DEF Admit, turn, loop, durable, IInv, UnleasedBeforeAdmission
<1>2. /\ pc \in [Commands -> CallPcs \cup {"done"}] /\ Calls \subseteq Commands
      /\ holder \in [Leases -> Actors \cup {NoActor}] /\ Calls \subseteq Leases
      /\ ActorOf[c] \in Actors /\ NoActor \notin Actors
  BY CommandsTyped, LeasesFinite, LoopAssumption DEF IInv, TypeOK
<1>3. ASSUME NEW v \in {"rejected", "joining", "waiting"}, pc' = [pc EXCEPT ![c] = v], UNCHANGED occupation
      PROVE  LeaseInv' /\ OwnerStays
  <2>1. /\ pc[c] # "queued" /\ v \notin Submitting /\ initialized /\ holder[c] = NoActor
        /\ UNCHANGED <<releases, initialized, active_turn, occupation, message, current>>
        /\ phase' = phase /\ \A d \in Calls \ {c} : command'[d] = command[d]
    BY <1>1, <1>3 DEF Submitting
  <2> QED
    BY <1>3, <2>1, GoesLeases
<1>4. CASE pc' = [pc EXCEPT ![c] = "preparing"] /\ Acquire(c, ActorOf[c]) /\ CanAcquire(ActorOf[c])
  <2>1. /\ holder'[c] = ActorOf[c] /\ owner' = ActorOf[c]
        /\ \A l \in Leases \ {c} : holder'[l] = holder[l]
        /\ pc'[c] = "preparing" /\ \A d \in Calls \ {c} : pc'[d] = pc[d]
    BY <1>2, <1>4 DEF Acquire
  <2>2. unknown' = unknown /\ \A d \in Calls : Astray(d) => Astray(d)'
    BY <1>1, Remembers, AstrayStays DEF releases
  <2>3. OwnLeases'
    BY <1>2, <2>1, <2>2 DEF LeaseInv, OwnLeases
  <2>4. TurnLeases'
    BY <1>1, <1>2, <2>1, AsideLeases DEF LeaseInv, IInv
  <2>5. phase = "persist" => current \in Calls \ {c}
    BY <1>1 DEF IInv, LoopOwnsTurn, LineInv, Line
  <2>6. LineLeases'
    BY <1>1, <1>2, <2>1, <2>2, <2>5 DEF LeaseInv, LineLeases
  <2>7. CASE owner = NoActor
    <3>1. Free
      BY <2>7, Occupied DEF IInv, OccupationConsistent
    <3>2. Free'
      BY <1>1, <1>2, <2>1, <2>2, <3>1 DEF Free, releases, Recovering
    <3> QED
      BY <2>3, <2>4, <2>6, <3>2 DEF LeaseInv, OwnerStays
  <2> QED
    BY <1>4, <2>1, <2>3, <2>4, <2>6, <2>7 DEF CanAcquire, LeaseInv, OwnerStays
<1>5. CASE Refuse(c)
  <2>1. pc' = [pc EXCEPT ![c] = "rejected"] /\ UNCHANGED occupation
    BY <1>2, <1>5 DEF Refuse, Rejected
  <2> QED
    BY <1>3, <2>1
<1> QED
  BY <1>3, <1>4, <1>5 DEF Admit, Arbitrate

\* A submission that fails lets go of its own leases only.
LEMMA FailLeases ==
  ASSUME IInv, IInv', LineInv, LineInv', StoreInv, LeaseInv, Remember, NEW c \in Calls, Fails(c),
         pc[c] \in Admitted, pc[c] # "queued",
         UNCHANGED <<message, recovered_turn_id, recovered_release, failed_releases, initialized, active_turn, current>>
  PROVE  LeaseInv' /\ OwnerStays
<1>1. PICK S \in {{c}, Sharing(c)} : Fail(S)
  BY DEF Fails
<1>2. S \in SUBSET Calls /\ \A d \in S : pc[d] \in Working
  BY SharingCalls, CancelledOrSharing DEF Working, Submitting, Admitted
<1>3. /\ Rejected(S) /\ RejectedLeases(S, active_turn # NoTurn) /\ phase' = phase /\ command' = command
  BY <1>1 DEF Fail
<1>4. active_turn = NoTurn => phase \notin TurnPhases
  BY LoopAssumption DEF IInv, LoopOwnsTurn
<1>5. UNCHANGED occupation \/ \E T : Release(T)
  BY <1>3 DEF RejectedLeases
<1>6. \A d \in Calls : Carries(d)
  BY <1>2, <1>3, RejectedCarry
<1>7. OwnLeases'
  BY <1>5, <1>6, CarriedOwn DEF LeaseInv
<1>8. initialized
  BY InitializedIn DEF LeaseInv
<1>9. TurnLeases'
  BY <1>2, <1>3, <1>4, <1>8, RejectedLeased DEF LeaseInv
<1>10. LineLeases'
  BY <1>3, <1>6, LineLeasesKeep DEF LeaseInv
<1>11. LeaseInv'
  BY <1>7, <1>9, <1>10 DEF LeaseInv
<1> QED
  BY <1>5, <1>11, ReleaseFrees, OwnerKept

\* Who still submits keeps its lease when a request is answered.
LEMMA JoinsLeases ==
  ASSUME IInv, IInv', LineInv, LineInv', StoreInv, LeaseInv, Remember, NEW c \in Calls, Join(c),
         pc[c] \in {"resolving", "joining"}, UNCHANGED <<message, initialized, active_turn, current>>
  PROVE  LeaseInv' /\ OwnerStays
<1>1. (UNCHANGED occupation \/ \E S : Release(S)) /\ phase' = phase
  BY DEF Join
<1>2. recovered_turn_id' \in {recovered_turn_id, NoTurn}
  BY DEF Join, AcceptedLeases, releases
<1>3. \A d \in Calls : Carries(d)
  BY JoinCarries
<1>4. OwnLeases'
  BY <1>1, <1>2, <1>3, CarriedOwn DEF LeaseInv
<1>5. TurnLeases'
  BY JoinLeased DEF LeaseInv
<1>6. LineLeases'
  BY <1>1, <1>3, LineLeasesKeep DEF LeaseInv
<1>7. LeaseInv'
  BY <1>4, <1>5, <1>6 DEF LeaseInv
<1> QED
  BY <1>1, <1>7, ReleaseFrees, OwnerKept

\* Who has no lease goes with its lost Turn.
LEMMA SubmissionLeases ==
  ASSUME IInv, IInv', LineInv, LineInv', StoreInv, LeaseInv, Remember, NEW c \in Calls \ Results,
         pc[c] \in Admitted, pc[c] # "queued", holder[c] # NoActor \/ Astray(c),
         \/ Move(c, "blocked") \/ Submit(c)
         \/ holder[c] # NoActor /\ \E v \in {"sharing", "resolving"} : Move(c, v),
         UNCHANGED <<message, recovered_turn_id, recovered_release, failed_releases, initialized, active_turn, current>>
  PROVE  LeaseInv' /\ OwnerStays
<1>1. initialized /\ UNCHANGED <<occupation, releases>>
  BY InitializedIn DEF LeaseInv, Move, Submit, releases
<1>2. CASE Submit(c)
  <2>1. pc' = [pc EXCEPT ![c] = "queued"] /\ (phase' = phase \/ phase' = "take")
        /\ command' = [command EXCEPT ![c] =
             [turn |-> IF recovered_turn_id # NoTurn THEN recovered_turn_id
                       ELSE IF Stored(KeyOf[c]) THEN message[KeyOf[c]].turn ELSE KeyOf[c],
              stored |-> Stored(KeyOf[c]), from |-> ActorOf[c]]]
    BY <1>2 DEF Submit, Enqueue, Stored
  <2>2. command \in [Calls -> [turn : Keys \cup {NoTurn}, stored : BOOLEAN, from : Actors \cup {NoActor}]]
    BY DEF IInv, TypeOK
  <2>3. /\ \A d \in Calls \ {c} : command'[d] = command[d]
        /\ command'[c].from = ActorOf[c]
        /\ command'[c].turn = IF recovered_turn_id # NoTurn THEN recovered_turn_id
                              ELSE IF Stored(KeyOf[c]) THEN message[KeyOf[c]].turn ELSE KeyOf[c]
    BY <2>1, <2>2
  <2>4. Astray(c) => command'[c].turn \in unknown
    BY <2>3 DEF Astray, Unknown, Recovering
  <2>5. holder[c] # NoActor => command'[c].from = holder[c]
    BY <2>3 DEF LeaseInv, OwnLeases
  <2> QED
    BY <1>1, <2>1, <2>3, <2>4, <2>5, GoesLeases
<1>3. ASSUME NEW v \in {"blocked", "sharing", "resolving"}, Move(c, v), v = "blocked" \/ holder[c] # NoActor
      PROVE  LeaseInv' /\ OwnerStays
  <2>1. pc' = [pc EXCEPT ![c] = v] /\ phase' = phase /\ command' = command
    BY <1>3 DEF Move
  <2> QED
    BY <1>1, <1>3, <2>1, GoesLeases DEF Submitting
<1> QED
  BY <1>2, <1>3

\* The steps of the calls.
LEMMA CallsLeases ==
  ASSUME IInv, IInv', ResultsApart, LineInv, LineInv', StoreInv, LeaseInv, Joinable, Remember, NEW c \in Calls,
         Prompt(c) \/ AcceptDelegationResult(c) \/ CallStep(c)
  PROVE  LeaseInv' /\ OwnerStays
<1>1. CASE Prompt(c)
  <2>1. /\ pc' = [pc EXCEPT ![c] = "reading"] /\ pc[c] = "idle"
        /\ UNCHANGED <<releases, initialized, active_turn, occupation, message, current, phase, command>>
    BY <1>1 DEF Prompt, durable, turn, loop
  <2> QED
    BY <2>1, GoesLeases DEF Admitted, Submitting
<1>2. CASE AcceptDelegationResult(c)
  <2>1. /\ c \in Results /\ pc[c] = "idle" /\ (phase' = phase \/ phase' = "take")
        /\ UNCHANGED <<releases, initialized, active_turn, occupation, message, current>>
        /\ holder[c] = NoActor
    BY <1>2 DEF AcceptDelegationResult, Enqueue, turn, durable, IInv, UnleasedBeforeAdmission
  <2>2. CASE Enqueue(c, owner) /\ AwaitsResult(c)
    <3>1. active_turn # NoTurn
      BY <2>1, <2>2, LoopAssumption DEF AwaitsResult
    <3>2. initialized
      BY <3>1, InitializedIn DEF LeaseInv
    <3>3. pc' = [pc EXCEPT ![c] = "queued"] /\ \A d \in Calls \ {c} : command'[d] = command[d]
      BY <2>2 DEF Enqueue, IInv, TypeOK
    <3> QED
      BY <2>1, <3>2, <3>3, GoesLeases
  <2>3. CASE command' = command /\ \E v \in {"accepted", "rejected", "saved"} : pc' = [pc EXCEPT ![c] = v]
    BY <2>1, <2>3, GoesLeases DEF Admitted, Submitting
  <2> QED
    BY <1>2, <2>2, <2>3 DEF AcceptDelegationResult
<1>3. CASE Admit(c)
  BY <1>3, AdmitLeases DEF Admit, ResultsApart, ResultPcs
<1>4. ASSUME pc[c] \in {"preparing", "resolving", "joining", "woken"}
      PROVE  c \notin Results /\ pc[c] \in Admitted /\ pc[c] # "queued"
  BY <1>4 DEF ResultsApart, ResultPcs, Admitted, Submitting
<1>5. ASSUME pc[c] \in {"preparing", "resolving"} PROVE holder[c] # NoActor
  BY <1>4, <1>5 DEF LeaseInv, OwnLeases, Submitting
<1>6. CASE EnsureRunnable(c)
  <2>1. /\ pc[c] = "preparing"
        /\ UNCHANGED <<message, recovered_turn_id, recovered_release, failed_releases, initialized, active_turn, current>>
    BY <1>6 DEF EnsureRunnable, durable, turn
  <2>2. CASE Fail({c})
    BY <1>4, <2>1, <2>2, FailLeases DEF Fails
  <2>3. CASE Submit(c) \/ \E v \in {"blocked", "sharing", "resolving"} : Move(c, v)
    BY <1>4, <1>5, <2>1, <2>3, SubmissionLeases
  <2> QED
    BY <1>6, <2>2, <2>3 DEF EnsureRunnable
<1>7. CASE ResumeSubmission(c)
  <2>1. /\ pc[c] = "woken" /\ (Fails(c) \/ Submit(c))
        /\ UNCHANGED <<message, recovered_turn_id, recovered_release, failed_releases, initialized, active_turn, current>>
    BY <1>7 DEF ResumeSubmission, durable, turn, Fails
  <2>2. holder[c] # NoActor \/ Astray(c)
    BY <1>4, <2>1 DEF LeaseInv, OwnLeases, Submitting
  <2> QED
    BY <1>4, <2>1, <2>2, FailLeases, SubmissionLeases
<1>8. CASE PromptWithIdentity(c)
  <2>1. pc[c] \in {"resolving", "joining"} /\ UNCHANGED <<message, initialized, active_turn, current>>
    BY <1>8 DEF PromptWithIdentity, durable, turn
  <2>2. CASE Join(c)
    BY <2>1, <2>2, JoinsLeases
  <2>3. CASE Fails(c) /\ UNCHANGED <<recovered_turn_id, recovered_release, failed_releases>>
    BY <1>4, <2>1, <2>3, FailLeases
  <2>4. CASE /\ ~Resolvable(KeyOf[c]) /\ (Move(c, "blocked") \/ Submit(c))
             /\ UNCHANGED <<recovered_turn_id, recovered_release, failed_releases>>
    <3>1. holder[c] # NoActor \/ Astray(c)
      BY <1>5, <2>1, <2>4 DEF Joinable
    <3> QED
      BY <1>4, <2>1, <2>4, <3>1, SubmissionLeases
  <2> QED
    BY <1>8, <2>2, <2>3, <2>4 DEF PromptWithIdentity, Fails
<1> QED
  BY <1>1, <1>2, <1>3, <1>6, <1>7, <1>8 DEF CallStep

\* Before the Session is initialized nobody holds it.
LEMMA InitializeLeases ==
  ASSUME IInv, IInv', LineInv, LineInv', LeaseInv, Remember, InitializeOccupation
  PROVE  LeaseInv'
<1>1. /\ on_finish = {} /\ failed_releases = {} /\ ~recovered_release /\ active_turn = NoTurn
      /\ recovered_turn_id = NoTurn /\ initialized' /\ (\A c \in Calls : pc[c] \notin Admitted)
      /\ UNCHANGED <<pc, phase, on_finish, failed_releases, active_turn>>
  BY DEF InitializeOccupation, LeaseInv, TurnLeases, loop, callers, turn
<1>2. phase \notin TurnPhases
  BY <1>1, LoopAssumption DEF IInv, LoopOwnsTurn
<1>3. \A c \in Calls : holder'[c] = holder[c] /\ holder[c] = NoActor
  BY LeasesFinite, LoopAssumption DEF InitializeOccupation, occupation, Acquire, IInv, TypeOK, UnleasedBeforeAdmission
<1>4. OwnLeases' /\ LineLeases'
  BY <1>1, <1>2, <1>3 DEF OwnLeases, LineLeases, Admitted, Submitting, TurnPhases
<1>5. CASE UNCHANGED <<recovered_turn_id, recovered_release>>
  <2>1. TurnLeases'
    BY <1>1, <1>2, <1>5 DEF TurnLeases, Recovering
  <2> QED
    BY <1>4, <2>1 DEF LeaseInv
<1>6. CASE recovered_release' /\ \E a : Acquire(Recovery, a)
  <2>1. holder'[Recovery] # NoActor
    <3>1. PICK a : Acquire(Recovery, a)
      BY <1>6
    <3>2. references' = references + 1 /\ holder' \in [Leases -> Actors \cup {NoActor}]
          /\ references \in Nat /\ owner' = a /\ Recovery \in Leases
      BY <3>1 DEF Acquire, IInv, TypeOK, Leases
    <3>3. a # NoActor
      BY <3>2 DEF IInv, OccupationConsistent
    <3>4. holder' = [holder EXCEPT ![Recovery] = a] /\ holder \in [Leases -> Actors \cup {NoActor}]
      BY <3>1 DEF Acquire, IInv, TypeOK
    <3> QED
      BY <3>2, <3>3, <3>4
  <2>2. TurnLeases'
    BY <1>1, <1>2, <1>6, <2>1 DEF TurnLeases, Recovering
  <2> QED
    BY <1>4, <2>2 DEF LeaseInv
<1> QED
  BY <1>5, <1>6 DEF InitializeOccupation

\* After a crash there are no leases.
LEMMA CrashLeases ==
  ASSUME IInv, Crash
  PROVE  LeaseInv' /\ Free'
<1>1. /\ \A l \in Leases : holder'[l] = NoActor
      /\ Calls \subseteq Leases
      /\ \A c \in Calls : pc'[c] \in {"idle", "rejected", "saved", "done", "lost", "accepted"}
      /\ phase' = "idle" /\ recovered_turn_id' = NoTurn /\ ~recovered_release' /\ ~initialized'
      /\ on_finish' = {} /\ failed_releases' = {} /\ active_turn' = NoTurn
  BY LeasesFinite, CommandsTyped DEF Crash
<1>2. OwnLeases' /\ LineLeases'
  BY <1>1 DEF OwnLeases, LineLeases, Submitting
<1>3. TurnLeases' /\ Free'
  BY <1>1 DEF TurnLeases, Free, TurnPhases, Recovering, Admitted, Submitting
<1> QED
  BY <1>2, <1>3 DEF LeaseInv

\* Every step: the Session changes hands only when it is free, or when it is initialized.
LEMMA NextLeases ==
  ASSUME IInv, ResultsApart, LineInv, StoreInv, LeaseInv, Joinable, Next, Remember
  PROVE  LeaseInv' /\ (OwnerStays \/ InitializeOccupation)
<1>1. IInv' /\ LineInv'
  BY NextInv, NextLine
<1>2. CASE LoopStep
  BY <1>1, <1>2, LoopLeases
<1>3. ASSUME NEW c \in Calls, Prompt(c) \/ AcceptDelegationResult(c) \/ CallStep(c)
      PROVE LeaseInv' /\ OwnerStays
  BY <1>1, <1>3, CallsLeases
<1>4. ASSUME NEW s \in Stoppers, StopBegin(s) \/ StopStep(s) PROVE LeaseInv' /\ OwnerStays
  BY <1>1, <1>4, StopLeases
<1>5. CASE Checkpoint \/ \E m \in Maintenance : EnqueueMaintenance(m)
  <2>1. /\ UNCHANGED <<occupation, releases, initialized, active_turn, command, message, current>>
        /\ phase' \in TurnPhases \ {"persist"} => phase \in TurnPhases \ {"persist"}
        /\ phase' = "persist" => phase = "persist"
    BY <1>5 DEF Checkpoint, EnqueueMaintenance, turn, loop, callers, durable, TurnPhases
  <2>2. \A c \in Calls : pc'[c] = pc[c]
    BY <1>5, CommandsTyped DEF Checkpoint, EnqueueMaintenance, callers, IInv, TypeOK
  <2>3. unknown' = unknown /\ \A c \in Calls : Astray(c) => Astray(c)'
    BY <2>1, Remembers, AstrayStays DEF releases
  <2>4. OwnLeases'
    BY <2>1, <2>2, <2>3 DEF LeaseInv, OwnLeases, occupation
  <2>5. TurnLeases'
    BY <2>1, <2>2, AsideLeases DEF LeaseInv, IInv, occupation
  <2>6. LineLeases'
    BY <2>1, <2>2, <2>3 DEF LeaseInv, LineLeases, occupation
  <2> QED
    BY <2>1, <2>4, <2>5, <2>6 DEF LeaseInv, OwnerStays, occupation
<1>6. CASE InitializeOccupation
  BY <1>1, <1>6, InitializeLeases
<1>7. CASE Crash
  BY <1>7, CrashLeases DEF OwnerStays
<1> QED
  BY <1>2, <1>3, <1>4, <1>5, <1>6, <1>7 DEF Next

-----------------------------------------------------------------------------
\* Whose a Turn is.

Ended(t) == journal[t] # "none"

\* What a Turn without a record holds can only be the end of the history, and once the Session is
\* initialized it is the active Turn or the one to be recovered, unless that Turn is lost.
RecordInv ==
  /\ \A k \in Keys : Stored(k) /\ ~Ended(message[k].turn) /\ message[k].turn \notin unknown =>
       /\ history # <<>> /\ message[history[Len(history)]].turn = message[k].turn
       /\ initialized => message[k].turn \in {active_turn, recovered_turn_id}
  /\ Recovering /\ active_turn # NoTurn => active_turn = recovered_turn_id
  /\ Recovering /\ active_turn = NoTurn =>
       \A c \in Calls : pc[c] = "queued" => command[c].turn = recovered_turn_id

\* A submission whose message is stored belongs to the Turn to be recovered, or to one without a
\* record; one that waits for the end of a Turn, to one that is lost.  A message that can have no
\* Turn, because nobody can have submitted it before, is not stored.
Unresolved == {"preparing", "sharing", "resolving"}

InRecovery(c) ==
  Stored(KeyOf[c]) /\ Recovering =>
    message[KeyOf[c]].turn = recovered_turn_id \/ ~Ended(message[KeyOf[c]].turn)

SubmissionInv ==
  /\ \A c \in Calls : pc[c] \in Unresolved => InRecovery(c)
  /\ \A c \in Calls : pc[c] \in {"blocked", "woken"} => (Stored(KeyOf[c]) => Unknown(c))
  /\ \A c \in Calls \ Identified : pc[c] \in Working \ {"queued"} => ~Stored(KeyOf[c])
  /\ Joinable

\* A Turn is known by the message that started it.
Opened == {"run", "drain", "children", "closing", "sealing", "finishing"}

TurnStored ==
  /\ \A k \in Keys : Stored(k) => Stored(message[k].turn)
  /\ recovered_turn_id # NoTurn => Stored(recovered_turn_id)
  /\ phase \in Opened => Stored(active_turn)
  /\ \A c \in Calls : pc[c] = "queued" => command[c].turn = KeyOf[c] \/ Stored(command[c].turn)

\* What is stored of turn t is from the owner of the Session.
ByOwner(t) == \A k \in Keys : Stored(k) /\ message[k].turn = t => message[k].from = owner

\* A result in line is the owner's.  The Turn a prompt in line starts, if none is active, is the owner's.
BoundToOwner(c) ==
  /\ c \in Results /\ active_turn \notin unknown => command[c].from = owner
  /\ active_turn = NoTurn /\ command[c].turn \notin unknown => ByOwner(command[c].turn)

OwnerInv ==
  /\ phase \in TurnPhases /\ active_turn \notin unknown => ByOwner(active_turn)
  /\ Recovering => ByOwner(recovered_turn_id)
  /\ \A c \in Calls : pc[c] = "queued" => BoundToOwner(c)

\* The message of a prompt in line, if it is stored, is part of the active Turn or of one that has no
\* record, unless its Turn is lost.
BoundToTurn(c) ==
  Stored(KeyOf[c]) /\ ~Unknown(c) =>
    IF active_turn = NoTurn THEN ~Ended(message[KeyOf[c]].turn) ELSE message[KeyOf[c]].turn = active_turn

LineBound == \A c \in Calls : pc[c] = "queued" => BoundToTurn(c)

AuthorInv ==
  /\ RecordInv /\ SubmissionInv /\ TurnStored /\ OwnerInv /\ LineBound
  /\ KnownTurnHasOneAuthor /\ AcceptedIsStored

\* A result in line waits for the active Turn.
LEMMA QueuedResults ==
  IInv /\ LineInv /\ Standing =>
    \A c \in Results : pc[c] = "queued" => active_turn \in Keys /\ phase \in TurnPhases
BY QueuedResult

LEMMA QueuedResultsNext ==
  (IInv /\ LineInv /\ Standing =>
    \A c \in Results : pc[c] = "queued" => active_turn \in Keys /\ phase \in TurnPhases)'
BY QueuedResults, PTL

\* In a free Session nothing that is known has an owner.
LEMMA FreeOwner ==
  ASSUME IInv', LineInv', Standing', LeaseInv', Free'
  PROVE  OwnerInv'
<1>1. ASSUME NEW c \in Results, pc'[c] = "queued" PROVE active_turn' \in Keys /\ active_turn' \in unknown'
  BY <1>1, QueuedResultsNext DEF Free
<1>2. ASSUME NEW c \in Calls, pc'[c] = "queued" PROVE BoundToOwner(c)'
  <2>1. CASE c \in Results
    BY <1>1, <1>2, <2>1, LoopAssumption DEF BoundToOwner
  <2>2. CASE c \notin Results
    BY <1>2, <2>2 DEF BoundToOwner, Free, LeaseInv, LineLeases
  <2> QED
    BY <2>1, <2>2
<1> QED
  BY <1>2 DEF Free, OwnerInv

-----------------------------------------------------------------------------
\* The steps that carry the calls on.

\* What happens to the active Turn and to the one to be recovered.
Stays ==
  /\ active_turn' = active_turn
  /\ \/ recovered_turn_id' = recovered_turn_id
     \/ recovered_turn_id' = NoTurn /\ (active_turn # NoTurn \/ Ended(recovered_turn_id) \/ ~Recovering)
  /\ phase' \in TurnPhases => phase \in TurnPhases
  /\ phase' = "persist" => phase = "persist" /\ current' = current
  /\ phase' \in Opened => phase \in Opened \/ message'[active_turn] # NoMessage

Opens ==
  /\ active_turn = NoTurn /\ active_turn' = command[current'].turn /\ active_turn' \in Keys
  /\ current' \in Calls /\ pc[current'] = "queued" /\ phase' = "persist"
  /\ UNCHANGED <<message, recovered_turn_id, pc>>

Reopens ==
  /\ active_turn = NoTurn /\ active_turn' = recovered_turn_id /\ recovered_turn_id # NoTurn
  /\ phase' \notin TurnPhases /\ UNCHANGED <<message, recovered_turn_id>>
  /\ \A c \in Calls : pc'[c] # "queued"

Settles ==
  /\ active_turn \in Keys /\ active_turn' = NoTurn
  /\ journal'[active_turn] # "none" \/ active_turn \in unknown'
  /\ \/ recovered_turn_id' \in {recovered_turn_id, NoTurn}
     \/ recovered_turn_id' = active_turn /\ active_turn \in unknown' /\ phase \in Opened
  /\ phase' \notin TurnPhases /\ UNCHANGED message
  /\ \A c \in Calls : pc'[c] # "queued"

\* A call obtains a handle on the Turn of its stored message, or that Turn is lost.
HandleKnown(c) ==
  pc'[c] = "accepted" =>
    \/ pc[c] = "accepted" /\ handle'[c] = handle[c]
    \/ /\ message'[KeyOf[c]] # NoMessage
       /\ message'[KeyOf[c]].turn = handle'[c] \/ message'[KeyOf[c]].turn \in unknown'

Onward ==
  /\ \A c \in Calls : Carries(c) /\ HandleKnown(c)
  /\ \/ UNCHANGED <<message, history>>
     \/ /\ \E c \in Calls : Stores(c) /\ (phase = "persist" => c = current)
        /\ phase \in Opened \cup {"persist"} /\ Stays /\ UNCHANGED journal
  /\ \A t \in Keys : journal'[t] # journal[t] => t = active_turn /\ journal'[t] # "none"
  /\ UNCHANGED initialized /\ OwnerStays /\ Remember
  /\ Stays \/ Opens \/ Reopens \/ Settles

\* What is lost stays lost, and nothing is recovered that was not.
LEMMA OnwardLost ==
  ASSUME IInv, StoreInv, Onward
  PROVE  /\ \A t : t \in unknown => t \in unknown'
         /\ active_turn' = active_turn \/ active_turn = NoTurn => unknown' = unknown
         /\ Recovering' => Recovering /\ recovered_turn_id' = recovered_turn_id
         /\ \A c \in Calls : Unknown(c) => Unknown(c)'
         /\ \A c \in Calls : Astray(c) => Astray(c)'
<1>1. recovered_turn_id' \in {recovered_turn_id, NoTurn} \/ recovered_turn_id' \in unknown'
  BY DEF Onward, Stays, Opens, Reopens, Settles
<1>2. Remember /\ (UNCHANGED message \/ \E c \in Calls : Stores(c))
  BY DEF Onward
<1> QED
  BY <1>1, <1>2, Remembers, AstrayStays

\* What is stored stays; what is new is of the active Turn and, unless that is lost, from the owner.
LEMMA OnwardStored ==
  ASSUME IInv, LeaseInv, StoreInv, AuthorInv, Onward
  PROVE  /\ \A k \in Keys : Stored(k) => message'[k] = message[k] /\ message'[k] # NoMessage
         /\ \A k \in Keys : message'[k] # NoMessage /\ message'[k] # message[k] =>
              /\ ~Stored(k) /\ message'[k].turn = active_turn
              /\ active_turn \notin unknown => message'[k].from = owner
              /\ history' # <<>> /\ history'[Len(history')] = k
              /\ phase \in TurnPhases /\ phase \in Opened \cup {"persist"} /\ Stays /\ UNCHANGED journal
              /\ \E c \in Calls : /\ KeyOf[c] = k /\ pc[c] = "queued" /\ pc'[c] \notin Working
                                  /\ phase = "persist" => c = current
         /\ \A t \in Keys : Ended(t) => journal'[t] # "none"
<1>1. /\ message \in [Keys -> [turn : Keys, from : Actors] \cup {NoMessage}] /\ history \in Seq(Keys)
      /\ KeyOf \in [Calls -> Keys] /\ Calls \subseteq Leases
  BY LoopAssumption DEF IInv, TypeOK, Leases
<1>2. \A t \in Keys : Ended(t) => journal'[t] # "none"
  BY DEF Onward, Ended
<1>3. ASSUME NEW c \in Calls, Stores(c)
      PROVE  /\ ~Stored(KeyOf[c]) /\ pc[c] = "queued" /\ pc'[c] \notin Working
             /\ message'[KeyOf[c]].turn = active_turn
             /\ active_turn \notin unknown => message'[KeyOf[c]].from = owner
             /\ history' # <<>> /\ history'[Len(history')] = KeyOf[c]
             /\ \A k \in Keys \ {KeyOf[c]} : message'[k] = message[k]
  <2>1. pc[c] = "queued" /\ ~Stored(KeyOf[c])
    BY <1>3, StoresOnce DEF Stores
  <2>2. ASSUME active_turn \notin unknown PROVE command[c].from = owner
    <3>1. CASE c \in Results
      BY <2>1, <2>2, <3>1 DEF AuthorInv, OwnerInv, BoundToOwner
    <3>2. CASE c \notin Results
      <4>1. holder[c] # NoActor
        BY <2>1, <3>2 DEF LeaseInv, OwnLeases, Submitting, Astray, Unknown
      <4>2. command[c].from = holder[c]
        BY <2>1, <4>1 DEF LeaseInv, LineLeases
      <4> QED
        BY <1>1, <4>1, <4>2 DEF IInv, OccupationConsistent
    <3> QED
      BY <3>1, <3>2
  <2>3. message'[KeyOf[c]] = [turn |-> active_turn, from |-> command[c].from]
    BY <1>1, <1>3 DEF Stores
  <2>4. history' = Append(history, KeyOf[c]) /\ KeyOf[c] \in Keys
    BY <1>1, <1>3 DEF Stores
  <2>5. history' # <<>> /\ history'[Len(history')] = KeyOf[c]
    BY <1>1, <2>4
  <2>6. message'[KeyOf[c]].turn = active_turn /\ (active_turn \notin unknown => message'[KeyOf[c]].from = owner)
    BY <2>2, <2>3
  <2> QED
    BY <1>3, <2>1, <2>5, <2>6, StoresOnce DEF Stores
<1>4. phase \in Opened \cup {"persist"} => phase \in TurnPhases
  BY DEF Opened, TurnPhases
<1> QED
  BY <1>2, <1>3, <1>4 DEF Onward, Stored

\* The message that a step stores.
LEMMA OnwardNew ==
  ASSUME IInv, LeaseInv, StoreInv, AuthorInv, Onward, NEW k \in Keys, message'[k] # NoMessage, ~Stored(k)
  PROVE  /\ message'[k].turn = active_turn /\ (active_turn \notin unknown => message'[k].from = owner)
         /\ phase \in TurnPhases /\ phase \in Opened \cup {"persist"} /\ Stays /\ UNCHANGED journal
         /\ \E c \in Calls : /\ KeyOf[c] = k /\ pc[c] = "queued" /\ pc'[c] \notin Working
                             /\ phase = "persist" => c = current
<1>1. message'[k] # message[k]
  BY DEF Stored
<1> QED
  BY <1>1, OnwardStored

\* Nobody else stores the message of a submission in charge.
LEMMA OnwardKept ==
  ASSUME IInv, LeaseInv, StoreInv, AuthorInv, Onward,
         NEW c \in Calls, pc[c] \in Storing, pc'[c] \in Working, message'[KeyOf[c]] # NoMessage
  PROVE  Stored(KeyOf[c]) /\ message'[KeyOf[c]] = message[KeyOf[c]]
<1>1. KeyOf[c] \in Keys
  BY LoopAssumption
<1>2. ASSUME ~Stored(KeyOf[c]) PROVE FALSE
  <2>1. PICK d \in Calls : KeyOf[d] = KeyOf[c] /\ pc[d] = "queued" /\ pc'[d] \notin Working
    BY <1>1, <1>2, OnwardNew
  <2>2. d # c
    BY <2>1
  <2> QED
    BY <1>2, <2>1, <2>2 DEF StoreInv, InCharge, Storing, Stored
<1> QED
  BY <1>1, <1>2, OnwardStored

\* A message is only stored in the Turn that is active, and a Turn is only left with a record, or lost.
LEMMA OnwardRecords ==
  ASSUME IInv, LineInv, LeaseInv, StoreInv, AuthorInv, Onward
  PROVE  RecordInv'
<1>1. /\ message \in [Keys -> [turn : Keys, from : Actors] \cup {NoMessage}] /\ NoTurn \notin Keys
      /\ history \in Seq(Keys) /\ recovered_turn_id \in Keys \cup {NoTurn} /\ active_turn \in Keys \cup {NoTurn}
  BY LoopAssumption DEF IInv, TypeOK
<1>2. phase \in TurnPhases => active_turn \in Keys
  BY DEF IInv, LoopOwnsTurn
<1>3. \A k \in Keys : Stored(k) => message[k].turn \in Keys
  BY <1>1 DEF Stored, NoMessage
<1>4. initialized' = initialized /\ (Stays \/ Opens \/ Reopens \/ Settles)
      /\ (UNCHANGED <<message, history>> \/ phase \in TurnPhases)
  BY DEF Onward, Opened, TurnPhases
<1>5. ASSUME NEW k \in Keys, message'[k] # NoMessage, journal'[message'[k].turn] = "none",
             message'[k].turn \notin unknown'
      PROVE  /\ history' # <<>> /\ message'[history'[Len(history')]].turn = message'[k].turn
             /\ initialized' => message'[k].turn \in {active_turn', recovered_turn_id'}
  <2>1. CASE UNCHANGED <<message, history>>
    <3> DEFINE t == message[k].turn
    <3>1. Stored(k) /\ ~Ended(t) /\ t \in Keys /\ t \notin unknown
      BY <1>3, <1>5, <2>1, OnwardStored, OnwardLost DEF Stored
    <3>2. /\ history # <<>> /\ message[history[Len(history)]].turn = t
          /\ initialized => t \in {active_turn, recovered_turn_id}
      BY <3>1 DEF AuthorInv, RecordInv
    <3> HIDE DEF t
    <3>3. journal'[t] = "none" /\ message'[k].turn = t /\ t \notin unknown'
      BY <1>5, <2>1 DEF t
    <3>4. t = recovered_turn_id => Recovering /\ (active_turn # NoTurn => active_turn = t)
      BY <1>1, <3>1 DEF Recovering, AuthorInv, RecordInv
    <3>5. t \in {active_turn, recovered_turn_id} => t \in {active_turn', recovered_turn_id'}
      <4>1. CASE Stays
        BY <1>1, <3>1, <3>4, <4>1 DEF Stays
      <4>2. CASE Opens \/ Reopens
        BY <1>1, <3>1, <4>2 DEF Opens, Reopens
      <4>3. CASE Settles
        BY <1>1, <3>1, <3>3, <3>4, <4>3 DEF Settles
      <4> QED
        BY <1>4, <4>1, <4>2, <4>3
    <3> QED
      BY <1>4, <2>1, <3>2, <3>3, <3>5
  <2>2. CASE ~UNCHANGED <<message, history>>
    <3>1. PICK c \in Calls : Stores(c)
      BY <2>2 DEF Onward
    <3>2. Stays /\ journal' = journal /\ active_turn \in Keys
      BY <1>2, <1>4, <2>2 DEF Onward
    <3>3. initialized
      BY <1>1, <3>2, InitializedIn DEF LeaseInv
    <3>4. /\ KeyOf[c] \in Keys /\ message'[KeyOf[c]].turn = active_turn
          /\ \A j \in Keys \ {KeyOf[c]} : message'[j] = message[j]
          /\ history' = Append(history, KeyOf[c])
      BY <3>1, StoresOnce, LoopAssumption DEF Stores
    <3>5. history' # <<>> /\ history'[Len(history')] = KeyOf[c]
      BY <1>1, <3>4
    <3>6. message'[k].turn = active_turn
      <4>1. CASE k = KeyOf[c]
        BY <3>4, <4>1
      <4>2. CASE k # KeyOf[c]
        <5>1. message'[k] = message[k]
          BY <3>4, <4>2
        <5>2. Stored(k) /\ ~Ended(message[k].turn) /\ message[k].turn \notin unknown /\ message[k].turn \in Keys
          BY <1>3, <1>5, <3>2, <5>1, OnwardLost DEF Stored, Ended
        <5>3. message[k].turn \in {active_turn, recovered_turn_id}
          BY <3>3, <5>2 DEF AuthorInv, RecordInv
        <5>4. message[k].turn = recovered_turn_id => message[k].turn = active_turn
          BY <1>1, <3>2, <5>2 DEF Recovering, AuthorInv, RecordInv
        <5> QED
          BY <5>1, <5>3, <5>4
      <4> QED
        BY <4>1, <4>2
    <3> QED
      BY <3>2, <3>4, <3>5, <3>6 DEF Stays
  <2> QED
    BY <2>1, <2>2
<1>6. ASSUME Recovering' PROVE Recovering /\ recovered_turn_id' = recovered_turn_id
  BY <1>6, OnwardLost
<1>7. ASSUME Recovering', active_turn' # NoTurn PROVE active_turn' = recovered_turn_id'
  <2>1. CASE Stays
    BY <1>6, <1>7, <2>1 DEF Stays, AuthorInv, RecordInv
  <2>2. CASE Opens
    BY <1>6, <1>7, <2>2 DEF Opens, AuthorInv, RecordInv
  <2>3. CASE Reopens \/ Settles
    BY <1>6, <1>7, <2>3 DEF Reopens, Settles
  <2> QED
    BY <1>4, <2>1, <2>2, <2>3
<1>8. ASSUME NEW c \in Calls, pc'[c] = "queued", active_turn' = NoTurn, Recovering'
      PROVE  command'[c].turn = recovered_turn_id'
  <2>1. pc[c] = "queued" /\ command'[c] = command[c]
    BY <1>8 DEF Onward, Carries, Working
  <2>2. Stays
    BY <1>1, <1>4, <1>8 DEF Opens, Reopens, Settles
  <2> QED
    BY <1>6, <1>8, <2>1, <2>2 DEF Stays, AuthorInv, RecordInv
<1> QED
  BY <1>5, <1>7, <1>8 DEF RecordInv, Stored, Ended

\* Nobody but the submission in charge of a key stores its message.
LEMMA OnwardCalls ==
  ASSUME IInv, LineInv, LeaseInv, StoreInv, AuthorInv, Onward
  PROVE  SubmissionInv'
<1>1. /\ message \in [Keys -> [turn : Keys, from : Actors] \cup {NoMessage}] /\ NoTurn \notin Keys
      /\ recovered_turn_id \in Keys \cup {NoTurn} /\ active_turn \in Keys \cup {NoTurn}
      /\ KeyOf \in [Calls -> Keys]
  BY LoopAssumption DEF IInv, TypeOK
<1>2. phase \in TurnPhases => active_turn \in Keys
  BY DEF IInv, LoopOwnsTurn
<1>3. \A c \in Calls : Carries(c)
  BY DEF Onward
<1>4. (Stays \/ Opens \/ Reopens \/ Settles) /\ \A t \in Keys : journal'[t] # journal[t] => t = active_turn
  BY DEF Onward
<1>5. ASSUME Recovering' PROVE /\ Recovering /\ recovered_turn_id' = recovered_turn_id
                               /\ active_turn # NoTurn => active_turn = recovered_turn_id
  BY <1>5, OnwardLost DEF AuthorInv, RecordInv
<1>6. ASSUME NEW c \in Calls, pc'[c] \in Unresolved PROVE InRecovery(c)'
  <2> SUFFICES ASSUME message'[KeyOf[c]] # NoMessage, Recovering'
               PROVE  \/ message'[KeyOf[c]].turn = recovered_turn_id'
                      \/ journal'[message'[KeyOf[c]].turn] = "none"
    BY DEF InRecovery, Stored, Ended
  <2>1. pc[c] \in Unresolved /\ KeyOf[c] \in Keys
    BY <1>1, <1>3, <1>6 DEF Carries, Working, Unresolved
  <2>2. CASE Stored(KeyOf[c])
    <3> DEFINE t == message[KeyOf[c]].turn
    <3>1. message'[KeyOf[c]].turn = t /\ t \in Keys
      BY <1>1, <2>1, <2>2, OnwardStored DEF Stored, NoMessage
    <3>2. t = recovered_turn_id \/ ~Ended(t)
      BY <1>5, <2>1, <2>2 DEF AuthorInv, SubmissionInv, InRecovery
    <3> HIDE DEF t
    <3> QED
      BY <1>1, <1>4, <1>5, <3>1, <3>2 DEF Ended
  <2>3. CASE ~Stored(KeyOf[c])
    <3>1. message'[KeyOf[c]].turn = active_turn /\ active_turn \in Keys
      BY <1>2, <2>1, <2>3, OnwardNew
    <3> QED
      BY <1>1, <1>5, <3>1
  <2> QED
    BY <2>2, <2>3
<1>7. ASSUME NEW c \in Calls, pc'[c] \in {"blocked", "woken"}, message'[KeyOf[c]] # NoMessage PROVE Unknown(c)'
  <2>1. pc[c] \in {"blocked", "woken"} /\ pc'[c] \in Working
    BY <1>3, <1>7 DEF Carries, Working
  <2>2. Stored(KeyOf[c])
    BY <1>7, <2>1, OnwardKept DEF Storing
  <2> QED
    BY <2>1, <2>2, OnwardLost DEF AuthorInv, SubmissionInv
<1>8. ASSUME NEW c \in Calls \ Identified, pc'[c] \in Working \ {"queued"} PROVE message'[KeyOf[c]] = NoMessage
  <2>1. pc[c] \in Working \ {"queued"}
    BY <1>3, <1>8 DEF Carries, Working
  <2>2. ~Stored(KeyOf[c])
    BY <2>1 DEF AuthorInv, SubmissionInv
  <2> SUFFICES ASSUME message'[KeyOf[c]] # NoMessage PROVE FALSE
    OBVIOUS
  <2>3. KeyOf[c] \in Keys
    BY <1>1
  <2>4. PICK d \in Calls : KeyOf[d] = KeyOf[c] /\ pc[d] = "queued"
    BY <2>2, <2>3, OnwardNew
  <2> QED
    BY <2>1, <2>4, LoopAssumption
<1>9. ASSUME NEW c \in Calls, pc'[c] = "joining" PROVE (Resolvable(KeyOf[c]) \/ Astray(c))'
  <2>1. pc[c] = "joining" /\ KeyOf[c] \in Keys
    BY <1>1, <1>3, <1>9 DEF Carries, Working
  <2>2. CASE Astray(c)
    BY <2>2, OnwardLost
  <2>3. CASE ~Astray(c)
    <3> DEFINE t == message[KeyOf[c]].turn
    <3>1. Stored(KeyOf[c]) /\ (active_turn = t \/ Ended(t))
      BY <2>1, <2>3 DEF AuthorInv, SubmissionInv, Joinable, Resolvable, Stored, Ended
    <3>2. t \in Keys /\ message'[KeyOf[c]] = message[KeyOf[c]] /\ message'[KeyOf[c]] # NoMessage
      BY <1>1, <2>1, <3>1, OnwardStored DEF Stored, NoMessage
    <3> HIDE DEF t
    <3>3. message'[KeyOf[c]].turn = t
      BY <3>2 DEF t
    <3>4. active_turn = t =>
            active_turn' = t \/ journal'[t] # "none" \/ t \in unknown'
      BY <1>1, <1>4, <3>2 DEF Stays, Opens, Reopens, Settles
    <3>5. Ended(t) => journal'[t] # "none"
      BY <3>2, OnwardStored
    <3>6. CASE active_turn' = t \/ journal'[t] # "none"
      BY <3>2, <3>3, <3>6 DEF Resolvable
    <3>7. CASE active_turn = t /\ t \in unknown'
      <4>1. ~Recovering'
        BY <1>1, <1>5, <3>2, <3>7 DEF Recovering
      <4> QED
        BY <3>2, <3>3, <3>7, <4>1 DEF Astray, Unknown, Stored
    <3> QED
      BY <3>1, <3>4, <3>5, <3>6, <3>7
  <2> QED
    BY <2>2, <2>3
<1> QED
  BY <1>6, <1>7, <1>8, <1>9 DEF SubmissionInv, Stored, Joinable

\* Who is queued is bound to a Turn.
LEMMA StandsBound ==
  ASSUME IInv, Standing, NEW c \in Calls, pc[c] = "queued"
  PROVE  command[c].turn \in Keys /\ command[c].from \in Actors
<1>1. InLine(c)
  BY DEF Standing
<1> QED
  BY <1>1 DEF InLine, IInv, CommandsBound, QueueBound, Bound

\* The first message of a Turn is the one with its identity.
LEMMA OnwardTurns ==
  ASSUME IInv, LineInv, LineInv', IInv', Standing, LeaseInv, StoreInv, AuthorInv, Onward
  PROVE  TurnStored'
<1>1. /\ message \in [Keys -> [turn : Keys, from : Actors] \cup {NoMessage}] /\ NoTurn \notin Keys
      /\ recovered_turn_id \in Keys \cup {NoTurn} /\ active_turn \in Keys \cup {NoTurn}
      /\ KeyOf \in [Calls -> Keys]
  BY LoopAssumption DEF IInv, TypeOK
<1>2. /\ phase \in TurnPhases => active_turn \in Keys
      /\ phase = "persist" => current \in Calls /\ pc[current] = "queued"
  BY DEF IInv, LoopOwnsTurn, LineInv, Line
<1>3. \A c \in Calls : pc'[c] = "queued" => pc[c] = "queued" /\ command'[c] = command[c]
  BY DEF Onward, Carries, Working
<1>4. Stays \/ Opens \/ Reopens \/ Settles
  BY DEF Onward
<1>5. \A k \in Keys : Stored(k) => message[k].turn \in Keys
  BY <1>1 DEF Stored, NoMessage
<1>6. ASSUME NEW k \in Keys, message'[k] # NoMessage PROVE message'[message'[k].turn] # NoMessage
  <2>1. CASE Stored(k)
    <3>1. message[k].turn \in Keys /\ Stored(message[k].turn) /\ message'[k] = message[k]
      BY <1>5, <2>1, OnwardStored DEF AuthorInv, TurnStored
    <3> QED
      BY <3>1, OnwardStored
  <2>2. CASE ~Stored(k)
    <3>1. /\ message'[k].turn = active_turn /\ active_turn \in Keys
          /\ phase \in Opened \cup {"persist"}
          /\ phase = "persist" => k = KeyOf[current]
      <4>1. PICK c \in Calls : KeyOf[c] = k /\ (phase = "persist" => c = current)
        BY <1>6, <2>2, OnwardNew
      <4>2. message'[k].turn = active_turn /\ phase \in TurnPhases /\ phase \in Opened \cup {"persist"}
        BY <1>6, <2>2, OnwardNew
      <4> QED
        BY <1>2, <4>1, <4>2
    <3>2. CASE phase \in Opened
      <4>1. Stored(active_turn)
        BY <3>2 DEF AuthorInv, TurnStored
      <4> QED
        BY <3>1, <4>1, OnwardStored
    <3>3. CASE phase = "persist"
      <4>1. active_turn = k \/ Stored(active_turn)
        BY <1>2, <3>1, <3>3 DEF AuthorInv, TurnStored, LeaseInv, LineLeases
      <4> QED
        BY <1>6, <3>1, <4>1, OnwardStored
    <3> QED
      BY <3>1, <3>2, <3>3
  <2> QED
    BY <2>1, <2>2
<1>7. ASSUME recovered_turn_id' # NoTurn PROVE message'[recovered_turn_id'] # NoMessage
  <2>1. recovered_turn_id' = recovered_turn_id \/ (recovered_turn_id' = active_turn /\ phase \in Opened)
    BY <1>4, <1>7 DEF Stays, Opens, Reopens, Settles
  <2>2. recovered_turn_id' \in Keys /\ Stored(recovered_turn_id')
    BY <1>1, <1>7, <2>1 DEF AuthorInv, TurnStored
  <2> QED
    BY <2>2, OnwardStored
<1>8. ASSUME phase' \in Opened PROVE message'[active_turn'] # NoMessage
  <2>1. Stays
    BY <1>4, <1>8 DEF Opens, Reopens, Settles, Opened, TurnPhases
  <2>2. CASE phase \in Opened
    <3>1. Stored(active_turn) /\ active_turn \in Keys
      BY <1>2, <2>2 DEF AuthorInv, TurnStored, Opened, TurnPhases
    <3>2. message'[active_turn] # NoMessage
      BY <3>1, OnwardStored
    <3> QED
      BY <2>1, <3>2 DEF Stays
  <2> QED
    BY <1>8, <2>1, <2>2 DEF Stays
<1>9. ASSUME NEW c \in Calls, pc'[c] = "queued"
      PROVE  command'[c].turn = KeyOf[c] \/ message'[command'[c].turn] # NoMessage
  <2>1. command[c].turn = KeyOf[c] \/ Stored(command[c].turn)
    BY <1>3, <1>9 DEF AuthorInv, TurnStored
  <2>2. command[c].turn \in Keys
    BY <1>3, <1>9, StandsBound
  <2>3. Stored(command[c].turn) => message'[command[c].turn] # NoMessage
    BY <2>2, OnwardStored
  <2> QED
    BY <1>3, <1>9, <2>1, <2>3
<1> QED
  BY <1>6, <1>7, <1>8, <1>9 DEF TurnStored, Stored

\* Whatever is stored, a Turn that was the owner's stays the owner's.
LEMMA OnwardByOwner ==
  ASSUME IInv, LeaseInv, StoreInv, AuthorInv, Onward, owner' = owner, NEW t, t \notin unknown, ByOwner(t)
  PROVE  ByOwner(t)'
<1> SUFFICES ASSUME NEW k \in Keys, message'[k] # NoMessage, message'[k].turn = t
             PROVE  message'[k].from = owner
  BY DEF ByOwner, Stored
<1>1. CASE Stored(k)
  BY <1>1, OnwardStored DEF ByOwner
<1>2. CASE ~Stored(k)
  BY <1>2, OnwardNew
<1> QED
  BY <1>1, <1>2

\* What is bound to the owner stays so as long as the owner stays.
LEMMA OnwardOwner ==
  ASSUME IInv, IInv', LineInv, LineInv', Standing, Standing', LeaseInv, LeaseInv', StoreInv, AuthorInv, Onward
  PROVE  OwnerInv'
<1>1. NoTurn \notin Keys /\ Results \subseteq Calls
  BY LoopAssumption
<1>2. \A c \in Calls : pc'[c] = "queued" => pc[c] = "queued" /\ command'[c] = command[c]
  BY DEF Onward, Carries, Working
<1>3. Stays \/ Opens \/ Reopens \/ Settles
  BY DEF Onward
<1>4. \A t : t \in unknown => t \in unknown'
  BY OnwardLost
<1>5. CASE Free'
  BY <1>5, FreeOwner
<1>6. CASE owner' = owner
  <2>1. ASSUME phase' \in TurnPhases, active_turn' \notin unknown' PROVE ByOwner(active_turn)'
    <3>1. CASE Stays
      <4>1. active_turn' = active_turn /\ phase \in TurnPhases /\ active_turn \notin unknown
        BY <1>4, <2>1, <3>1 DEF Stays
      <4>2. ByOwner(active_turn)
        BY <4>1 DEF AuthorInv, OwnerInv
      <4>3. ASSUME NEW t, t = active_turn PROVE ByOwner(t)'
        BY <1>6, <4>1, <4>2, <4>3, OnwardByOwner
      <4> QED
        BY <4>1, <4>3 DEF ByOwner
    <3>2. CASE Opens
      <4>1. ByOwner(active_turn')
        BY <1>4, <2>1, <3>2 DEF Opens, AuthorInv, OwnerInv, BoundToOwner
      <4> QED
        BY <1>6, <3>2, <4>1 DEF Opens, ByOwner, Stored
    <3> QED
      BY <1>3, <2>1, <3>1, <3>2 DEF Reopens, Settles
  <2>2. ASSUME Recovering' PROVE ByOwner(recovered_turn_id)'
    <3>1. Recovering /\ recovered_turn_id' = recovered_turn_id
      BY <2>2, OnwardLost
    <3>2. ByOwner(recovered_turn_id) /\ recovered_turn_id \notin unknown
      BY <3>1 DEF AuthorInv, OwnerInv, Recovering
    <3>3. ASSUME NEW t, t = recovered_turn_id PROVE ByOwner(t)'
      BY <1>6, <3>2, <3>3, OnwardByOwner
    <3> QED
      BY <3>1, <3>3 DEF ByOwner
  <2>3. ASSUME NEW c \in Calls, pc'[c] = "queued" PROVE BoundToOwner(c)'
    <3>1. pc[c] = "queued" /\ command'[c] = command[c] /\ BoundToOwner(c)
      BY <1>2, <2>3 DEF AuthorInv, OwnerInv
    <3>2. Stays \/ Opens
      BY <1>3, <2>3 DEF Reopens, Settles
    <3>3. ASSUME c \in Results, active_turn' \notin unknown' PROVE command'[c].from = owner'
      <4>1. active_turn # NoTurn
        BY <1>1, <3>1, <3>3, QueuedResult
      <4>2. active_turn \notin unknown
        BY <1>4, <3>2, <3>3, <4>1 DEF Stays, Opens
      <4> QED
        BY <1>6, <3>1, <3>3, <4>2 DEF BoundToOwner
    <3>4. ASSUME active_turn' = NoTurn, command'[c].turn \notin unknown' PROVE ByOwner(command[c].turn)'
      <4>1. active_turn = NoTurn /\ command[c].turn \notin unknown
        BY <1>1, <1>4, <3>1, <3>2, <3>4 DEF Stays, Opens
      <4>2. ByOwner(command[c].turn)
        BY <3>1, <4>1 DEF BoundToOwner
      <4>3. ASSUME NEW t, t = command[c].turn PROVE ByOwner(t)'
        BY <1>6, <4>1, <4>2, <4>3, OnwardByOwner
      <4> QED
        BY <3>1, <4>3 DEF ByOwner
    <3> QED
      BY <3>3, <3>4 DEF BoundToOwner
  <2> QED
    BY <2>1, <2>2, <2>3 DEF OwnerInv
<1> QED
  BY <1>5, <1>6 DEF Onward, OwnerStays

\* A message in line stays in its Turn.
LEMMA OnwardBound ==
  ASSUME IInv, LineInv, Standing, LeaseInv, StoreInv, AuthorInv, Onward
  PROVE  LineBound'
<1>1. /\ message \in [Keys -> [turn : Keys, from : Actors] \cup {NoMessage}] /\ NoTurn \notin Keys
      /\ recovered_turn_id \in Keys \cup {NoTurn} /\ KeyOf \in [Calls -> Keys]
  BY LoopAssumption DEF IInv, TypeOK
<1>2. \A c \in Calls : pc'[c] = "queued" => pc[c] = "queued" /\ command'[c] = command[c]
  BY DEF Onward, Carries, Working
<1>3. Stays \/ Opens \/ Reopens \/ Settles
  BY DEF Onward
<1>4. ASSUME NEW c \in Calls, pc'[c] = "queued", message'[KeyOf[c]] # NoMessage, ~Unknown(c)'
      PROVE  IF active_turn' = NoTurn THEN journal'[message'[KeyOf[c]].turn] = "none"
             ELSE message'[KeyOf[c]].turn = active_turn'
  <2> DEFINE t == message[KeyOf[c]].turn
  <2>1. pc[c] = "queued" /\ (Stays \/ Opens)
    BY <1>2, <1>3, <1>4 DEF Reopens, Settles
  <2>2. Stored(KeyOf[c]) /\ message'[KeyOf[c]] = message[KeyOf[c]]
    BY <1>4, <2>1, OnwardKept DEF Storing, Working
  <2>3. ~Unknown(c)
    BY <1>4, OnwardLost
  <2>4. message'[KeyOf[c]].turn = t /\ t \in Keys /\ KeyOf[c] \in Keys /\ t \notin unknown
    BY <1>1, <2>2, <2>3 DEF Stored, NoMessage, Unknown
  <2>5. IF active_turn = NoTurn THEN ~Ended(t) ELSE t = active_turn
    BY <2>1, <2>2, <2>3 DEF AuthorInv, LineBound, BoundToTurn
  <2>6. CASE Stays /\ active_turn = NoTurn
    <3> HIDE DEF t
    <3>1. journal'[t] = journal[t]
      BY <1>1, <2>4, <2>6 DEF Onward
    <3> QED
      BY <2>4, <2>5, <2>6, <3>1 DEF Stays, Ended
  <2>7. CASE Stays /\ active_turn # NoTurn
    BY <2>4, <2>5, <2>7 DEF Stays
  <2>8. CASE Opens
    <3>1. ~Ended(t) /\ initialized
      BY <2>1, <2>5, <2>8, InitializedIn DEF Opens, LeaseInv, Admitted, Submitting
    <3>2. t \in {active_turn, recovered_turn_id}
      BY <2>2, <2>4, <3>1 DEF AuthorInv, RecordInv
    <3> HIDE DEF t
    <3>3. t = recovered_turn_id /\ Recovering
      BY <1>1, <2>4, <2>8, <3>2 DEF Opens, Recovering
    <3>4. active_turn' = recovered_turn_id
      BY <2>8, <3>3 DEF AuthorInv, RecordInv, Opens
    <3> QED
      BY <1>1, <2>4, <3>3, <3>4
  <2> QED
    BY <2>1, <2>6, <2>7, <2>8
<1> QED
  BY <1>4 DEF LineBound, BoundToTurn, Stored, Ended

\* A step that goes on so keeps what is known of the authors.
LEMMA OnwardKeeps ==
  ASSUME IInv, IInv', LineInv, LineInv', Standing, Standing', LeaseInv, LeaseInv', StoreInv, AuthorInv, Onward
  PROVE  AuthorInv'
<1>1. /\ message \in [Keys -> [turn : Keys, from : Actors] \cup {NoMessage}] /\ NoTurn \notin Keys
      /\ KeyOf \in [Calls -> Keys]
  BY LoopAssumption DEF IInv, TypeOK
<1>2. \A t : t \in unknown => t \in unknown'
  BY OnwardLost
<1>3. KnownTurnHasOneAuthor'
  <2> SUFFICES ASSUME NEW j \in Keys, NEW k \in Keys, message'[j] # NoMessage,
                      message'[j].turn = message'[k].turn, message'[j].turn \notin unknown'
               PROVE  message'[j].from = message'[k].from
    BY DEF KnownTurnHasOneAuthor
  <2>1. message'[k] # NoMessage
    <3>1. message' \in [Keys -> [turn : Keys, from : Actors] \cup {NoMessage}]
      BY DEF IInv, TypeOK
    <3> QED
      BY <1>1, <3>1 DEF NoMessage
  <2>2. CASE Stored(j) /\ Stored(k)
    <3>1. message'[j] = message[j] /\ message'[k] = message[k] /\ message[j].turn \notin unknown
      BY <1>2, <2>2, OnwardStored
    <3> QED
      BY <2>2, <3>1 DEF AuthorInv, KnownTurnHasOneAuthor, Stored
  <2>3. ASSUME NEW n \in {j, k}, ~Stored(n)
        PROVE  message'[j].from = message'[k].from
    <3>1. message'[j].turn = active_turn /\ phase \in TurnPhases
      BY <2>1, <2>3, OnwardNew
    <3>2. active_turn \notin unknown
      BY <1>2, <3>1
    <3>3. ASSUME NEW i \in {j, k} PROVE message'[i].from = owner
      <4>1. CASE ~Stored(i)
        BY <2>1, <3>2, <3>3, <4>1, OnwardNew
      <4>2. CASE Stored(i)
        <5>1. i \in Keys /\ message'[i].turn = active_turn /\ message'[i] = message[i]
          BY <3>1, <3>3, <4>2, OnwardStored
        <5> QED
          BY <3>1, <3>2, <4>2, <5>1 DEF AuthorInv, OwnerInv, ByOwner
      <4> QED
        BY <4>1, <4>2
    <3> QED
      BY <3>3
  <2> QED
    BY <2>2, <2>3
<1>4. AcceptedIsStored'
  <2> SUFFICES ASSUME NEW c \in Calls, pc'[c] = "accepted"
               PROVE  /\ message'[KeyOf[c]] # NoMessage
                      /\ message'[KeyOf[c]].turn # handle'[c] => message'[KeyOf[c]].turn \in unknown'
    BY DEF AcceptedIsStored
  <2>1. HandleKnown(c) /\ KeyOf[c] \in Keys
    BY <1>1 DEF Onward
  <2>2. CASE pc[c] = "accepted" /\ handle'[c] = handle[c]
    <3>1. Stored(KeyOf[c]) /\ (message[KeyOf[c]].turn # handle[c] => message[KeyOf[c]].turn \in unknown)
      BY <2>2 DEF AuthorInv, AcceptedIsStored, Stored
    <3>2. message'[KeyOf[c]] = message[KeyOf[c]] /\ message'[KeyOf[c]] # NoMessage
      BY <2>1, <3>1, OnwardStored
    <3> QED
      BY <1>2, <2>2, <3>1, <3>2
  <2> QED
    BY <2>1, <2>2 DEF HandleKnown
<1> QED
  BY <1>3, <1>4, OnwardRecords, OnwardCalls, OnwardTurns, OnwardOwner, OnwardBound DEF AuthorInv
-----------------------------------------------------------------------------
\* The steps of the loop and of stop go on so.

\* What the loop records is the end of the active Turn.
LEMMA SealedOnly ==
  ASSUME IInv, \/ UNCHANGED journal \/ \E status \in Statuses : Seal(status)
  PROVE  \A t \in Keys : journal'[t] # journal[t] => t = active_turn /\ journal'[t] # "none"
BY DEF IInv, TypeOK, Seal, Statuses

\* Nobody stands in line when a Turn ends.
LEMMA NobodyQueued ==
  ASSUME IInv, LineInv, Standing, NEW status, Settle(status),
         \/ phase \in {"closing", "sealing", "finishing", "failing"}
         \/ phase \notin TurnPhases /\ active_turn # NoTurn
  PROVE  \A c \in Calls : pc[c] # "queued" /\ pc'[c] # "queued"
<1>1. \A c \in Calls : pc[c] # "queued"
  BY NobodyInLine DEF Standing
<1> QED
  BY <1>1, SettledGoes DEF Working

\* The prompt that is accepted is stored in the active Turn, and so are the calls that share it.
LEMMA PersistKnown ==
  ASSUME IInv, StoreInv, AuthorInv, Remember, active_turn' = active_turn,
         NEW c \in Calls, pc[c] = "queued", active_turn \in Keys,
         Persist(c, TRUE), Accepted(Sharing(c), active_turn)
  PROVE  (\A d \in Calls : HandleKnown(d)) /\ message'[KeyOf[c]] # NoMessage
<1>1. /\ message \in [Keys -> [turn : Keys, from : Actors] \cup {NoMessage}] /\ NoTurn \notin Keys
      /\ KeyOf \in [Calls -> Keys]
  BY LoopAssumption DEF IInv, TypeOK
<1>2. /\ message'[KeyOf[c]] # NoMessage
      /\ message'[KeyOf[c]].turn = active_turn \/ message'[KeyOf[c]].turn \in unknown'
  <2>1. CASE command[c].stored
    <3>1. Stored(KeyOf[c]) /\ message' = message
      BY <2>1 DEF StoreInv, KnowsStored, Stored, Persist, durable
    <3>2. message[KeyOf[c]].turn = active_turn \/ message[KeyOf[c]].turn \in unknown
      BY <1>1, <3>1 DEF AuthorInv, LineBound, BoundToTurn, Unknown
    <3> QED
      BY <3>1, <3>2, Remembers DEF Stored
  <2>2. CASE ~command[c].stored
    <3>1. message'[KeyOf[c]] = [turn |-> active_turn, from |-> command[c].from]
      BY <1>1, <2>2 DEF Persist
    <3> QED
      BY <1>1, <3>1 DEF NoMessage
  <2> QED
    BY <2>1, <2>2
<1>3. ASSUME NEW d \in Calls PROVE HandleKnown(d)
  <2>1. /\ d \in Commands
        /\ pc'[d] = IF d \in Sharing(c) THEN "accepted" ELSE pc[d]
        /\ handle'[d] = IF d \in Sharing(c) THEN active_turn ELSE handle[d]
        /\ d \in Sharing(c) => KeyOf[d] = KeyOf[c]
    BY DEF Accepted, Commands, Sharing
  <2> QED
    BY <1>2, <2>1 DEF HandleKnown
<1> QED
  BY <1>2, <1>3

\* No call is accepted.
LEMMA NoneAccepted ==
  ASSUME handle' = handle, \A c \in Calls : pc'[c] = "accepted" => pc[c] = "accepted"
  PROVE  \A c \in Calls : HandleKnown(c)
BY DEF HandleKnown

\* Whom a step rejects or lets wait it does not accept.
LEMMA RejectsAccept ==
  ASSUME NEW S, Rejected(S)
  PROVE  \A c \in Calls : pc'[c] = "accepted" => pc[c] = "accepted"
BY DEF Rejected, Commands

LEMMA SettleAccepts ==
  ASSUME NEW status, Settle(status)
  PROVE  \A c \in Calls : pc'[c] = "accepted" => pc[c] = "accepted"
BY DEF Settle, WakeOnFinish, Commands

LEMMA SettleHandles == ASSUME NEW status, Settle(status) PROVE handle' = handle
BY DEF Settle

\* The steps of the loop.
LEMMA LoopOnward ==
  ASSUME IInv, IInv', LineInv, LineInv', Standing, LeaseInv, StoreInv, AuthorInv, Remember, LoopStep
  PROVE  Onward
<1>1. (\A c \in Calls : Carries(c)) /\ OwnerStays /\ Remember /\ initialized' = initialized
  BY LoopStores, LoopLeases DEF LoopStep, TakeNext, ExecuteMaintenance, DrainDone, AbsorbDrained, FixStatus,
     StartTurn, TurnThrows, ExecutorReturns, ChildrenSettle, PrepareCompletion, CompleteTurn, FailTurn
<1>2. /\ phase \in TurnPhases => active_turn \in Keys
      /\ NoTurn \notin Keys /\ pc \in [Commands -> CallPcs \cup {"done"}] /\ Calls \subseteq Commands
      /\ Calls \cap Maintenance = {}
  BY CommandsTyped, LoopAssumption DEF IInv, LoopOwnsTurn, TypeOK
\* A step that stores, records and settles nothing.
<1>3. ASSUME UNCHANGED <<durable, handle, active_turn, recovered_turn_id>>,
             \A c \in Calls : pc'[c] = "accepted" => pc[c] = "accepted",
             phase' \in TurnPhases => phase \in TurnPhases, phase' # "persist",
             phase' \in Opened => phase \in Opened
      PROVE  Onward
  <2>1. Stays
    BY <1>3 DEF Stays
  <2>2. UNCHANGED <<message, history, journal>>
    BY <1>3 DEF durable
  <2> QED
    BY <1>1, <1>3, <2>1, <2>2, NoneAccepted DEF Onward
<1>4. CASE TakeNext
  <2>1. CASE phase' = "persist"
    <3>1. /\ HasCommand(queue) /\ Head(queue) \in Calls /\ current' = Head(queue)
          /\ active_turn' = command[Head(queue)].turn /\ phase = "take"
          /\ UNCHANGED <<durable, pc, handle, recovered_turn_id>>
      BY <1>4, <2>1 DEF TakeNext, releases, callers
    <3>2. 1 \in DOMAIN queue /\ Head(queue) = queue[1]
      BY <3>1, CommandsTyped DEF HasCommand
    <3>3. pc[Head(queue)] = "queued" /\ InLine(Head(queue))
      BY <3>2 DEF LineInv, Line, InLine
    <3>4. active_turn = NoTurn
      BY <3>1, <3>3, NobodyInLine DEF TurnPhases
    <3>5. Opens
      BY <2>1, <3>1, <3>3, <3>4, StandsBound DEF Opens, durable
    <3> QED
      BY <1>1, <3>1, <3>5, NoneAccepted DEF Onward, durable
  <2>2. CASE phase' # "persist"
    BY <1>3, <1>4, <2>2 DEF TakeNext, releases, callers, turn, TurnPhases, Opened
  <2> QED
    BY <2>1, <2>2
<1>5. CASE ExecuteMaintenance \/ DrainDone \/ FixStatus
  <2>1. \A c \in Calls : pc'[c] = "accepted" => pc[c] = "accepted"
    BY <1>2, <1>5 DEF ExecuteMaintenance, DrainDone, FixStatus, callers, IInv, LoopOwnsTurn
  <2> QED
    BY <1>3, <1>5, <2>1 DEF ExecuteMaintenance, DrainDone, FixStatus, TurnPhases, Opened, turn, releases, callers
<1>6. CASE ExecutorReturns \/ ChildrenSettle \/ TurnThrows
  <2>1. (UNCHANGED pc \/ Rejected(CancelledCalls)) /\ UNCHANGED <<durable, handle, active_turn, recovered_turn_id>>
    BY <1>6 DEF ExecutorReturns, ChildrenSettle, TurnThrows, AbsorbOrClose, CloseWindow
  <2>2. \A c \in Calls : pc'[c] = "accepted" => pc[c] = "accepted"
    BY <2>1, RejectsAccept
  <2>3. /\ phase \in TurnPhases /\ phase' # "persist"
        /\ phase' \in Opened => phase \in Opened
    BY <1>6 DEF ExecutorReturns, ChildrenSettle, TurnThrows, AbsorbOrClose, CloseWindow, TurnPhases, Opened
  <2> QED
    BY <1>3, <2>1, <2>2, <2>3
<1>7. CASE StartTurn
  <2>1. /\ phase = "persist" /\ current \in Calls \ Results /\ pc[current] = "queued" /\ active_turn \in Keys
        /\ active_turn' = active_turn /\ journal' = journal /\ current \in Sharing(current)
        /\ current \in Commands
    BY <1>2, <1>7 DEF StartTurn, Persist, durable, IInv, LoopOwnsTurn, LineInv, Line, ResultsInTurn, TurnPhases, Sharing
  <2>2. ASSUME UNCHANGED <<message, history>> \/ Stores(current), Stays, \A c \in Calls : HandleKnown(c)
        PROVE  Onward
    BY <1>1, <2>1, <2>2 DEF Onward
  <2>3. CASE /\ Persist(current, TRUE) /\ Accepted(Sharing(current), active_turn)
             /\ AcceptedLeases(Sharing(current)) /\ phase' = "run"
    <3>1. pc'[current] \notin Working
      BY <2>1, <2>3 DEF Accepted, Working
    <3>2. UNCHANGED <<message, history>> \/ Stores(current)
      BY <2>1, <2>3, <3>1, PersistStores
    <3>3. message'[active_turn] # NoMessage
      <4>1. active_turn = KeyOf[current] \/ Stored(active_turn)
        BY <2>1 DEF AuthorInv, TurnStored, LeaseInv, LineLeases
      <4>2. message'[KeyOf[current]] # NoMessage
        BY <2>1, <2>3, PersistKnown
      <4> QED
        BY <2>1, <3>2, <4>1, <4>2, StoredStays DEF Stored
    <3>4. Stays
      BY <1>2, <2>1, <2>3, <3>3 DEF Stays, AcceptedLeases, TurnPhases
    <3> QED
      BY <2>1, <2>2, <2>3, <3>2, <3>4, PersistKnown
  <2>4. ASSUME NEW saved \in BOOLEAN, Persist(current, saved),
               Rejected(Sharing(current) \cup CancelledCalls), phase' = "failing",
               UNCHANGED <<handle, recovered_turn_id>>
        PROVE  Onward
    <3>1. pc'[current] \notin Working
      BY <2>1, <2>4 DEF Rejected, Working
    <3>2. UNCHANGED <<message, history>> \/ Stores(current)
      BY <2>1, <2>4, <3>1, PersistStores
    <3>3. Stays
      BY <2>1, <2>4 DEF Stays, TurnPhases, Opened
    <3> QED
      BY <2>2, <2>4, <3>2, <3>3, RejectsAccept, NoneAccepted
  <2> QED
    BY <1>7, <2>3, <2>4 DEF StartTurn
<1>8. CASE AbsorbDrained
  <2> DEFINE c == Head(drained)
  <2>1. /\ phase = "drain" /\ drained # <<>> /\ active_turn \in Keys
        /\ UNCHANGED <<phase, active_turn, journal>>
    BY <1>2, <1>8 DEF AbsorbDrained, Persist, durable, turn, TurnPhases
  <2>2. CASE c \in Maintenance
    <3>1. pc' = [pc EXCEPT ![c] = "done"] /\ UNCHANGED <<durable, handle, recovered_turn_id>>
      BY <1>2, <1>8, <2>2 DEF AbsorbDrained
    <3>2. \A d \in Calls : pc'[d] = "accepted" => pc[d] = "accepted"
      BY <1>2, <2>2, <3>1
    <3> QED
      BY <1>3, <2>1, <3>1, <3>2
  <2>3. c \in Calls => /\ pc[c] = "queued" /\ c \in Sharing(c) /\ c \in Commands
                       /\ (c \in Results => active_turn = TargetOf[c])
    <3>1. 1 \in DOMAIN drained /\ c = drained[1]
      BY <2>1, CommandsTyped
    <3>2. c \in Results => c \in Cancelled(drained, Results)
      BY <3>1, CancelledMember
    <3> QED
      BY <1>2, <3>1, <3>2 DEF LineInv, Line, ResultsInTurn, Sharing
  <2>4. ASSUME c \in Calls, NEW d \in Calls, d = c, UNCHANGED <<message, history>> \/ Stores(d), Stays,
               \A e \in Calls : HandleKnown(e)
        PROVE  Onward
    BY <1>1, <2>1, <2>4 DEF Onward, Opened
  <2>5. ASSUME recovered_turn_id' = recovered_turn_id \/ recovered_turn_id' = NoTurn PROVE Stays
    BY <1>2, <2>1, <2>5 DEF Stays
  <2>6. CASE /\ c \in Calls /\ Persist(c, TRUE) /\ Accepted(Sharing(c), active_turn)
             /\ AcceptedLeases(Sharing(c))
    <3>1. pc'[c] \notin Working
      BY <2>3, <2>6 DEF Accepted, Working
    <3>2. UNCHANGED <<message, history>> \/ Stores(c)
      BY <2>1, <2>3, <2>6, <3>1, PersistStores
    <3>3. Stays
      BY <2>5, <2>6 DEF AcceptedLeases
    <3> HIDE DEF c
    <3> QED
      BY <2>1, <2>3, <2>4, <2>6, <3>2, <3>3, PersistKnown
  <2>7. ASSUME c \in Calls, NEW saved \in BOOLEAN, Persist(c, saved), Rejected(Sharing(c)),
               UNCHANGED <<handle, recovered_turn_id>>
        PROVE  Onward
    <3>1. pc'[c] \notin Working
      BY <2>3, <2>7 DEF Rejected, Working
    <3>2. UNCHANGED <<message, history>> \/ Stores(c)
      BY <2>1, <2>3, <2>7, <3>1, PersistStores
    <3>3. \A e \in Calls : HandleKnown(e)
      BY <2>7, RejectsAccept, NoneAccepted
    <3> HIDE DEF c
    <3> QED
      BY <2>4, <2>5, <2>7, <3>2, <3>3
  <2> QED
    BY <1>8, <2>2, <2>6, <2>7 DEF AbsorbDrained
\* The end of the active Turn.
<1>9. ASSUME NEW status, Settle(status), phase \in {"sealing", "finishing", "failing"}, phase' = "take",
             UNCHANGED <<message, history>>,
             UNCHANGED journal \/ \E st \in Statuses : Seal(st),
             journal'[active_turn] # "none" \/ active_turn \in unknown',
             \/ recovered_turn_id' = recovered_turn_id
             \/ recovered_turn_id' = active_turn /\ active_turn \in unknown' /\ phase = "sealing"
      PROVE  Onward
  <2>1. \A c \in Calls : pc'[c] # "queued"
    BY <1>9, NobodyQueued
  <2>2. active_turn \in Keys /\ active_turn' = NoTurn
    BY <1>2, <1>9 DEF TurnPhases, Settle
  <2>3. Settles
    BY <1>9, <2>1, <2>2 DEF Settles, TurnPhases, Opened
  <2>4. \A c \in Calls : HandleKnown(c)
    BY <1>9, SettleAccepts, NoneAccepted, SettleHandles
  <2> QED
    BY <1>1, <1>9, <2>3, <2>4, SealedOnly DEF Onward
<1>10. journal \in [Keys -> Statuses \cup {"none"}] /\ "none" \notin Statuses
  BY DEF IInv, TypeOK, Statuses
<1>11. ASSUME NEW status \in Statuses, Seal(status), active_turn \in Keys
       PROVE  journal'[active_turn] # "none" /\ UNCHANGED <<message, history>>
  BY <1>10, <1>11 DEF Seal
<1>12. CASE CompleteTurn
  <2>1. PICK status : Finished(status, {})
    BY <1>12 DEF CompleteTurn
  <2>2. journal[active_turn] # "none"
    BY <1>10, <1>12 DEF CompleteTurn, IInv, LoopOwnsTurn
  <2> QED
    BY <1>9, <1>12, <2>1, <2>2 DEF CompleteTurn, Finished, durable
<1>13. CASE FailTurn
  <2>1. /\ phase = "failing" /\ phase' = "take" /\ UNCHANGED <<recovered_turn_id, crashes>>
        /\ active_turn \in Keys
    BY <1>2, <1>13 DEF FailTurn, TurnPhases
  <2>2. CASE \E st \in Statuses : Seal(st) /\ \E status : Finished(status, {})
    BY <1>9, <1>11, <2>1, <2>2 DEF Finished
  <2>3. CASE Unacknowledged /\ UNCHANGED durable
    <3>1. Settle("unacknowledged") /\ active_turn' = NoTurn
      BY <2>3 DEF Unacknowledged, Settle
    <3>2. journal'[active_turn] # "none" \/ active_turn \in unknown'
      BY <1>2, <2>1, <3>1 DEF Remember, RecordFails
    <3> QED
      BY <1>9, <2>1, <2>3, <3>1, <3>2 DEF durable
  <2>4. (IF aborted THEN "stopped" ELSE "failed") \in Statuses
    BY DEF Statuses
  <2> QED
    BY <1>13, <2>2, <2>3, <2>4 DEF FailTurn
<1>14. CASE PrepareCompletion
  <2>1. phase = "sealing" /\ active_turn \in Keys /\ seal \in Statuses
    BY <1>2, <1>14 DEF PrepareCompletion, IInv, LoopOwnsTurn, TurnPhases
  <2>2. CASE Seal(seal) /\ phase' = "finishing" /\ UNCHANGED <<releases, turn, callers>>
    <3>1. Stays /\ UNCHANGED <<message, history>>
      BY <2>1, <2>2 DEF Stays, releases, turn, TurnPhases, Opened, Seal
    <3> QED
      BY <1>1, <2>1, <2>2, <3>1, SealedOnly, NoneAccepted DEF Onward, callers
  <2>3. CASE /\ Seal(seal) \/ UNCHANGED durable
             /\ recovered_turn_id' = active_turn /\ Unacknowledged /\ phase' = "take" /\ UNCHANGED crashes
    <3>1. Settle("unacknowledged") /\ active_turn' = NoTurn
      BY <2>3 DEF Unacknowledged, Settle
    <3>2. active_turn \in unknown'
      BY <1>2, <2>1, <2>3, <3>1 DEF Remember, RecordFails
    <3>3. UNCHANGED <<message, history>> /\ (UNCHANGED journal \/ \E st \in Statuses : Seal(st))
      BY <2>1, <2>3 DEF Seal, durable
    <3> QED
      BY <1>9, <2>1, <2>3, <3>1, <3>2, <3>3
  <2> QED
    BY <1>14, <2>2, <2>3 DEF PrepareCompletion
<1> QED
  BY <1>4, <1>5, <1>6, <1>7, <1>8, <1>12, <1>13, <1>14 DEF LoopStep

\* The steps of stop: it reopens the Turn to be recovered, and settles it.
LEMMA StopOnward ==
  ASSUME IInv, IInv', LineInv, LineInv', Standing, LeaseInv, StoreInv, AuthorInv, Remember,
         NEW s \in Stoppers, StopBegin(s) \/ StopStep(s)
  PROVE  Onward
<1>1. (\A c \in Calls : Carries(c)) /\ OwnerStays /\ Remember /\ UNCHANGED <<message, history, initialized>>
  BY StopStores, StopLeases DEF StopBegin, StopStep, StopRecovers, StopEnd
<1>2. /\ phase \in TurnPhases => active_turn \in Keys
      /\ NoTurn \notin Keys /\ Calls \subseteq Commands /\ UNCHANGED <<phase, current>>
  BY CommandsTyped, LoopAssumption DEF IInv, LoopOwnsTurn, StopBegin, StopStep, StopRecovers, StopEnd, loop
<1>3. CASE StopBegin(s)
  <2>1. /\ UNCHANGED <<journal, handle, recovered_turn_id, loop>>
        /\ Rejected(CancelledCalls) /\ CancelQueuedPrompts
    BY <1>3 DEF StopBegin, durable
  <2>2. \A c \in Calls : HandleKnown(c)
    BY <2>1, RejectsAccept, NoneAccepted
  <2>3. CASE active_turn' = active_turn
    <3>1. Stays
      BY <1>2, <2>1, <2>3 DEF Stays
    <3> QED
      BY <1>1, <2>1, <2>2, <3>1 DEF Onward
  <2>4. CASE active_turn = NoTurn /\ recovered_turn_id # NoTurn /\ active_turn' = recovered_turn_id
    <3>1. phase \notin TurnPhases
      BY <1>2, <2>4
    <3>2. ASSUME NEW c \in Calls PROVE pc'[c] # "queued"
      <4>1. CASE c \in CancelledCalls
        BY <2>1, <4>1 DEF Rejected, Commands
      <4>2. CASE c \notin CancelledCalls
        <5>1. drained = <<>> /\ phase # "persist"
          BY <3>1 DEF LineInv, Line, TurnPhases
        <5>2. ~InLine(c)
          BY <2>1, <4>2, <5>1, CancelLeaves DEF InLine
        <5> QED
          BY <2>1, <4>2, <5>2 DEF Standing, Rejected, Commands
      <4> QED
        BY <4>1, <4>2
    <3>3. Reopens
      BY <1>1, <1>2, <2>1, <2>4, <3>1, <3>2 DEF Reopens
    <3> QED
      BY <1>1, <2>1, <2>2, <3>3 DEF Onward
  <2> QED
    BY <1>3, <2>3, <2>4 DEF StopBegin, turn
<1>4. CASE StopRecovers(s)
  <2>1. active_turn \in Keys /\ phase \notin TurnPhases /\ UNCHANGED crashes
    BY <1>4 DEF StopRecovers, IInv, StopOwnsRecovery
  <2>2. ASSUME NEW status, Settle(status), UNCHANGED journal \/ \E st \in Statuses : Seal(st),
               journal'[active_turn] # "none" \/ active_turn \in unknown',
               recovered_turn_id' \in {recovered_turn_id, NoTurn}
        PROVE  Onward
    <3>1. \A c \in Calls : pc'[c] # "queued"
      BY <1>2, <2>1, <2>2, NobodyQueued
    <3>2. Settles
      BY <1>1, <1>2, <2>1, <2>2, <3>1 DEF Settles, Settle
    <3>3. \A c \in Calls : HandleKnown(c)
      BY <2>2, SettleAccepts, SettleHandles, NoneAccepted
    <3> QED
      BY <1>1, <2>2, <3>2, <3>3, SealedOnly DEF Onward
  <2>3. CASE Seal("stopped") /\ recovered_turn_id' = NoTurn /\ \E status : Settle(status)
    <3>1. "stopped" \in Statuses
      BY DEF Statuses
    <3>2. journal'[active_turn] # "none"
      BY <2>1, <2>3 DEF IInv, TypeOK, Seal, Statuses
    <3> QED
      BY <2>2, <2>3, <3>1, <3>2
  <2>4. CASE Unacknowledged /\ UNCHANGED <<durable, recovered_turn_id>>
    <3>1. Settle("unacknowledged") /\ active_turn' = NoTurn /\ UNCHANGED journal
      BY <2>4 DEF Unacknowledged, Settle, durable
    <3>2. journal'[active_turn] # "none" \/ active_turn \in unknown'
      BY <1>2, <2>1, <3>1 DEF Remember, RecordFails
    <3> QED
      BY <2>2, <2>4, <3>1, <3>2
  <2> QED
    BY <1>4, <2>3, <2>4 DEF StopRecovers, Finished
<1>5. CASE StopEnd(s)
  <2>1. Stays /\ UNCHANGED <<journal, handle, pc>>
    BY <1>2, <1>5 DEF StopEnd, Stays, durable, releases, turn, callers
  <2> QED
    BY <1>1, <2>1, NoneAccepted DEF Onward
<1> QED
  BY <1>3, <1>4, <1>5 DEF StopStep

\* A checkpoint only moves the queue, and maintenance only stands in line.
LEMMA AsideOnward ==
  ASSUME IInv, StoreInv, Remember, Checkpoint \/ \E m \in Maintenance : EnqueueMaintenance(m)
  PROVE  Onward
<1>1. /\ UNCHANGED <<durable, initialized, occupation, releases, active_turn, command, handle, current>>
      /\ phase' = phase \/ (phase = "run" /\ phase' = "drain") \/ phase' = "take"
  BY DEF Checkpoint, EnqueueMaintenance, turn, callers, loop
<1>2. \A c \in Calls : pc'[c] = pc[c]
  BY CommandsTyped DEF Checkpoint, EnqueueMaintenance, callers, IInv, TypeOK
<1>3. \A c \in Calls : Carries(c) /\ HandleKnown(c)
  BY <1>1, <1>2, CarriedAside DEF releases, HandleKnown
<1>4. Stays
  BY <1>1 DEF Stays, releases, TurnPhases, Opened
<1> QED
  BY <1>1, <1>3, <1>4 DEF Onward, durable, occupation, OwnerStays

\* A submission that fails.
LEMMA FailOnward ==
  ASSUME IInv, StoreInv, Remember, OwnerStays, NEW c \in Calls, Fails(c),
         UNCHANGED <<durable, initialized, handle, active_turn, recovered_turn_id, failed_releases, current>>
  PROVE  Onward
<1>1. PICK S \in {{c}, Sharing(c)} : Fail(S)
  BY DEF Fails
<1>2. S \in SUBSET Calls /\ Rejected(S) /\ RejectedLeases(S, active_turn # NoTurn) /\ UNCHANGED <<command, phase>>
  BY <1>1, SharingCalls DEF Fail
<1>3. \A d \in Calls : Carries(d) /\ HandleKnown(d)
  BY <1>2, RejectedCarry, RejectsAccept, NoneAccepted
<1>4. Stays
  BY <1>2 DEF Stays
<1> QED
  BY <1>3, <1>4 DEF Onward, durable

\* A request that is answered takes no Turn away that is to be recovered.
LEMMA JoinOnward ==
  ASSUME IInv, StoreInv, LeaseInv, AuthorInv, Remember, OwnerStays, NEW c \in Calls, Join(c),
         pc[c] \in {"resolving", "joining"}, Resolvable(KeyOf[c]),
         UNCHANGED <<durable, initialized, active_turn, current>>
  PROVE  Onward
<1> DEFINE S == Sharing(c)
           t == message[KeyOf[c]].turn
<1>1. /\ message \in [Keys -> [turn : Keys, from : Actors] \cup {NoMessage}] /\ NoTurn \notin Keys
      /\ KeyOf[c] \in Keys
  BY LoopAssumption DEF IInv, TypeOK
<1>2. Stored(KeyOf[c]) /\ t \in Keys /\ (active_turn = t \/ Ended(t))
  BY <1>1 DEF Resolvable, Stored, Ended, NoMessage
<1>3. Accepted(S, t) /\ phase' = phase
  BY DEF Join
<1>4. \A d \in Calls : HandleKnown(d)
  BY <1>2, <1>3 DEF HandleKnown, Accepted, Commands, Sharing, Stored, durable
<1>5. CASE active_turn = t
  <2>1. recovered_turn_id' \in {recovered_turn_id, NoTurn} /\ active_turn # NoTurn
    BY <1>1, <1>2, <1>5 DEF Join, AcceptedLeases
  <2>2. Stays
    BY <1>3, <2>1 DEF Stays
  <2> QED
    BY <1>4, <2>2, JoinCarries DEF Onward, durable
<1>6. CASE active_turn # t
  <2>1. \/ recovered_turn_id' = recovered_turn_id
        \/ recovered_turn_id' = NoTurn /\ Leased(S) # {}
    BY <1>6 DEF Join, releases
  <2>2. ASSUME NEW d \in Leased(S), Recovering, ~Ended(recovered_turn_id) PROVE FALSE
    <3>1. d \in Calls /\ KeyOf[d] = KeyOf[c] /\ pc[d] \in Unresolved
      <4>1. d \in S /\ holder[d] # NoActor
        BY <2>2 DEF Leased
      <4>2. pc[d] # "joining"
        BY <4>1 DEF LeaseInv, OwnLeases, Sharing
      <4> QED
        BY <4>1, <4>2 DEF Sharing, Unresolved
    <3>2. InRecovery(d)
      BY <3>1 DEF AuthorInv, SubmissionInv
    <3> QED
      BY <1>2, <1>6, <2>2, <3>1, <3>2 DEF InRecovery
  <2>3. Stays
    BY <1>3, <2>1, <2>2 DEF Stays
  <2> QED
    BY <1>4, <2>3, JoinCarries DEF Onward, durable
<1> QED
  BY <1>5, <1>6

-----------------------------------------------------------------------------
\* The steps of one call.

\* A stored message that cannot be answered belongs to the Turn to be recovered, or is lost.
LEMMA UnansweredRecovered ==
  ASSUME IInv, AuthorInv, initialized, NEW k \in Keys, Stored(k), ~Resolvable(k), message[k].turn \notin unknown
  PROVE  active_turn = NoTurn /\ ~Ended(message[k].turn) /\ message[k].turn = recovered_turn_id
<1>1. message \in [Keys -> [turn : Keys, from : Actors] \cup {NoMessage}] /\ NoTurn \notin Keys
  BY LoopAssumption DEF IInv, TypeOK
<1>2. message[k].turn \in Keys
  BY <1>1 DEF Stored, NoMessage
<1>3. ~Ended(message[k].turn) /\ message[k].turn # active_turn
  BY DEF Stored, Resolvable, Ended
<1>4. message[k].turn = recovered_turn_id
  BY <1>3 DEF AuthorInv, RecordInv
<1>5. Recovering
  BY <1>1, <1>2, <1>4 DEF Recovering
<1> QED
  BY <1>3, <1>4, <1>5 DEF AuthorInv, RecordInv

\* What a prompt is bound to when it gets into the line.
GetsInLine(c) ==
  /\ c \in Results /\ active_turn \notin unknown => owner' = owner /\ command'[c].from = owner
  /\ command'[c].turn = KeyOf[c] \/ Stored(command'[c].turn)
  /\ active_turn = NoTurn /\ command'[c].turn \notin unknown => ByOwner(command'[c].turn)
  /\ active_turn = NoTurn /\ Recovering => command'[c].turn = recovered_turn_id
  /\ Stored(KeyOf[c]) /\ ~Unknown(c) => active_turn = NoTurn /\ ~Ended(message[KeyOf[c]].turn)

\* One call goes to v, and nothing is stored, recorded or settled.
GoesTo(c, v) ==
  /\ pc[c] # "queued" /\ pc' = [pc EXCEPT ![c] = v]
  /\ UNCHANGED <<durable, initialized, active_turn, recovered_turn_id, current>>
  /\ phase' = phase \/ (phase = "idle" /\ phase' = "take")
  /\ \A d \in Calls \ {c} : command'[d] = command[d] /\ handle'[d] = handle[d]
  /\ OwnerStays
  /\ v = "joining" => Resolvable(KeyOf[c]) \/ Astray(c)
  /\ v \in Unresolved => InRecovery(c)
  /\ v \in {"blocked", "woken"} => (Stored(KeyOf[c]) => Unknown(c))
  /\ c \notin Identified /\ v \in Working \ {"queued"} => ~Stored(KeyOf[c])
  /\ v = "queued" => GetsInLine(c)
  /\ v = "accepted" => Stored(KeyOf[c]) /\ handle'[c] = message[KeyOf[c]].turn

\* A call that goes on alone keeps what is known of the authors.
LEMMA GoesToKeeps ==
  ASSUME IInv, IInv', LineInv, LineInv', Standing', LeaseInv', AuthorInv, Remember,
         NEW c \in Calls, NEW v, GoesTo(c, v)
  PROVE  AuthorInv'
<1>1. /\ pc'[c] = v /\ \A d \in Calls \ {c} : pc'[d] = pc[d]
      /\ \A d \in Calls \ {c} : command'[d] = command[d] /\ handle'[d] = handle[d]
  BY CommandsTyped DEF GoesTo, IInv, TypeOK
<1>2. /\ UNCHANGED <<message, history, journal, initialized, active_turn, recovered_turn_id, current, unknown>>
      /\ phase' = phase \/ phase' = "take"
  BY Remembers DEF GoesTo, durable
<1>3. /\ Recovering' <=> Recovering
      /\ \A d \in Calls : (Unknown(d)' <=> Unknown(d)) /\ (Astray(d)' <=> Astray(d))
  BY <1>2 DEF Recovering, Unknown, Astray, Stored
<1>4. RecordInv'
  BY <1>1, <1>2, <1>3 DEF GoesTo, GetsInLine, AuthorInv, RecordInv, Stored, Ended
<1>5. SubmissionInv'
  BY <1>1, <1>2, <1>3 DEF GoesTo, AuthorInv, SubmissionInv, InRecovery, Stored, Ended, Joinable, Resolvable
<1>6. TurnStored'
  BY <1>1, <1>2 DEF GoesTo, GetsInLine, AuthorInv, TurnStored, Stored, Opened
<1>7. OwnerInv'
  <2>1. CASE Free'
    BY <2>1, FreeOwner
  <2>2. CASE owner' = owner
    <3>1. ASSUME NEW t PROVE ByOwner(t) => ByOwner(t)'
      BY <1>2, <2>2 DEF ByOwner, Stored
    <3>2. phase' \in TurnPhases /\ active_turn' \notin unknown' => ByOwner(active_turn)'
      BY <1>2, <3>1 DEF AuthorInv, OwnerInv, TurnPhases, ByOwner
    <3>3. Recovering' => ByOwner(recovered_turn_id)'
      BY <1>2, <1>3, <3>1 DEF AuthorInv, OwnerInv, ByOwner
    <3>4. ASSUME NEW d \in Calls, pc'[d] = "queued" PROVE BoundToOwner(d)'
      <4>1. CASE d = c
        BY <1>1, <1>2, <2>2, <3>4, <4>1 DEF GoesTo, GetsInLine, BoundToOwner, ByOwner, Stored
      <4>2. CASE d # c
        BY <1>1, <1>2, <2>2, <3>4, <4>2 DEF AuthorInv, OwnerInv, BoundToOwner, ByOwner, Stored
      <4> QED
        BY <4>1, <4>2
    <3> QED
      BY <3>2, <3>3, <3>4 DEF OwnerInv
  <2> QED
    BY <2>1, <2>2 DEF GoesTo, OwnerStays
<1>8. LineBound'
  BY <1>1, <1>2, <1>3 DEF GoesTo, GetsInLine, AuthorInv, LineBound, BoundToTurn, Stored, Ended
<1>9. KnownTurnHasOneAuthor'
  BY <1>2 DEF AuthorInv, KnownTurnHasOneAuthor
<1>10. AcceptedIsStored'
  BY <1>1, <1>2 DEF GoesTo, AuthorInv, AcceptedIsStored, Stored
<1> QED
  BY <1>4, <1>5, <1>6, <1>7, <1>8, <1>9, <1>10 DEF AuthorInv

\* A prompt gets into the line only for a Turn of the owner, for a Turn of its own, or for one that is lost.
LEMMA EnqueueGoes ==
  ASSUME IInv, AuthorInv, OwnerStays, NEW c \in Calls, NEW from, Enqueue(c, from), pc[c] # "queued",
         Stored(KeyOf[c]) => Unknown(c) \/ (initialized /\ ~Resolvable(KeyOf[c])),
         c \in Results => from = owner,
         UNCHANGED <<durable, initialized, active_turn, recovered_turn_id, current, occupation, handle>>
  PROVE  GoesTo(c, "queued")
<1>1. /\ message \in [Keys -> [turn : Keys, from : Actors] \cup {NoMessage}] /\ NoTurn \notin Keys
      /\ command \in [Calls -> [turn : Keys \cup {NoTurn}, stored : BOOLEAN, from : Actors \cup {NoActor}]]
      /\ KeyOf[c] \in Keys
  BY LoopAssumption DEF IInv, TypeOK
<1> DEFINE k == KeyOf[c]
           t == IF recovered_turn_id # NoTurn THEN recovered_turn_id ELSE IF Stored(k) THEN message[k].turn ELSE k
<1>2. /\ command' = [command EXCEPT ![c] = [turn |-> t, stored |-> Stored(k), from |-> from]]
      /\ pc' = [pc EXCEPT ![c] = "queued"]
      /\ phase' = phase \/ (phase = "idle" /\ phase' = "take")
  BY DEF Enqueue, Stored
<1>3. Stored(k) /\ ~Unknown(c) =>
        active_turn = NoTurn /\ ~Ended(message[k].turn) /\ message[k].turn = recovered_turn_id
  BY <1>1, UnansweredRecovered DEF Unknown
<1>4. Stored(k) /\ ~Unknown(c) => recovered_turn_id # NoTurn
  BY <1>1, <1>3 DEF Stored, NoMessage
<1>5. t = k \/ Stored(t)
  BY <1>1 DEF AuthorInv, TurnStored
<1>6. t \notin unknown => ByOwner(t)
  <2>1. CASE recovered_turn_id # NoTurn
    BY <2>1 DEF AuthorInv, OwnerInv, Recovering
  <2>2. CASE recovered_turn_id = NoTurn
    <3>1. CASE Stored(k)
      BY <1>4, <2>2, <3>1 DEF Unknown
    <3>2. CASE ~Stored(k)
      BY <2>2, <3>2 DEF ByOwner, AuthorInv, TurnStored
    <3> QED
      BY <3>1, <3>2
  <2> QED
    BY <2>1, <2>2
<1>7. recovered_turn_id # NoTurn => t = recovered_turn_id
  OBVIOUS
<1> HIDE DEF t
<1>8. /\ command'[c].turn = t /\ command'[c].from = from
      /\ \A d \in Calls \ {c} : command'[d] = command[d] /\ handle'[d] = handle[d]
  <2>1. command'[c] = [turn |-> t, stored |-> Stored(k), from |-> from]
    BY <1>1, <1>2
  <2> QED
    BY <1>1, <1>2, <2>1
<1>9. GetsInLine(c)
  BY <1>3, <1>5, <1>6, <1>7, <1>8 DEF GetsInLine, occupation, Recovering
<1> QED
  BY <1>2, <1>8, <1>9 DEF GoesTo, Unresolved, Working

\* A call that is neither accepted nor queued by this step.
Moves(c, v) ==
  /\ pc[c] \in Working \ {"queued"} /\ pc' = [pc EXCEPT ![c] = v]
  /\ UNCHANGED <<durable, initialized, active_turn, recovered_turn_id, current, phase, command, handle>>

LEMMA MoveGoes ==
  ASSUME AuthorInv, OwnerStays, NEW c \in Calls, NEW v, Moves(c, v), v \notin {"queued", "accepted"},
         v = "joining" => Resolvable(KeyOf[c]),
         v \in Unresolved => InRecovery(c),
         v \in {"blocked", "woken"} => (Stored(KeyOf[c]) => Unknown(c))
  PROVE  GoesTo(c, v)
BY DEF Moves, GoesTo, AuthorInv, SubmissionInv

\* The admission lets nobody submit for a Turn that has a record.
LEMMA AdmitGoes ==
  ASSUME IInv, AuthorInv, OwnerStays, NEW c \in Calls, Admit(c)
  PROVE  \E v : GoesTo(c, v)
<1>1. /\ pc[c] \in Working \ {"queued"} /\ c \in Commands
      /\ UNCHANGED <<durable, initialized, active_turn, recovered_turn_id, current, phase, command, handle>>
  BY CommandsTyped DEF Admit, Working, turn, loop, releases
<1>2. CASE Refuse(c)
  <2>1. pc' = [pc EXCEPT ![c] = "rejected"]
    BY <1>1, <1>2 DEF Refuse, Rejected, IInv, TypeOK
  <2>2. Moves(c, "rejected")
    BY <1>1, <2>1 DEF Moves
  <2> QED
    BY <2>2, MoveGoes DEF Unresolved
<1>3. CASE pc' = [pc EXCEPT ![c] = "joining"] /\ Resolvable(KeyOf[c])
  <2>1. Moves(c, "joining")
    BY <1>1, <1>3 DEF Moves
  <2> QED
    BY <1>3, <2>1, MoveGoes DEF Unresolved
<1>4. CASE pc' = [pc EXCEPT ![c] = "waiting"]
  <2>1. Moves(c, "waiting")
    BY <1>1, <1>4 DEF Moves
  <2> QED
    BY <2>1, MoveGoes DEF Unresolved
<1>5. CASE pc' = [pc EXCEPT ![c] = "preparing"] /\ (c \in Identified => ~Resolvable(KeyOf[c]))
  <2>1. c \notin Identified => ~Stored(KeyOf[c])
    BY <1>1 DEF AuthorInv, SubmissionInv
  <2>2. InRecovery(c)
    BY <1>5, <2>1 DEF InRecovery, Resolvable, Stored, Ended
  <2>3. Moves(c, "preparing")
    BY <1>1, <1>5 DEF Moves
  <2> QED
    BY <2>2, <2>3, MoveGoes
<1> QED
  BY <1>2, <1>3, <1>4, <1>5 DEF Admit, Arbitrate

\* A result is queued when it is not stored, and answered when it is.
LEMMA DeliveryGoes ==
  ASSUME IInv, AuthorInv, OwnerStays, NEW c \in Calls, AcceptDelegationResult(c)
  PROVE  \E v : GoesTo(c, v)
<1>1. /\ c \in Identified /\ pc[c] = "idle"
      /\ UNCHANGED <<durable, initialized, active_turn, recovered_turn_id, current, occupation>>
  BY LoopAssumption DEF AcceptDelegationResult, turn, releases
<1>2. CASE Enqueue(c, owner) /\ message[KeyOf[c]] = NoMessage /\ handle' = handle
  BY <1>1, <1>2, EnqueueGoes DEF Stored
<1>3. CASE /\ message[KeyOf[c]] # NoMessage /\ handle' = [handle EXCEPT ![c] = message[KeyOf[c]].turn]
           /\ pc' = [pc EXCEPT ![c] = IF message[KeyOf[c]].turn = TargetOf[c] THEN "accepted" ELSE "rejected"]
           /\ UNCHANGED <<command, phase>>
  <2>1. /\ handle'[c] = message[KeyOf[c]].turn /\ \A d \in Calls \ {c} : handle'[d] = handle[d]
        /\ Stored(KeyOf[c])
    BY <1>3 DEF IInv, TypeOK, Stored
  <2>2. ASSUME NEW v \in {"accepted", "rejected"}, pc' = [pc EXCEPT ![c] = v] PROVE GoesTo(c, v)
    BY <1>1, <1>3, <2>1, <2>2 DEF GoesTo, Unresolved, Working
  <2> QED
    BY <1>3, <2>2
<1>4. CASE pc' = [pc EXCEPT ![c] = "saved"] /\ UNCHANGED <<command, phase, handle>>
  <2>1. Moves(c, "saved")
    BY <1>1, <1>4 DEF Moves, Working
  <2> QED
    BY <2>1, MoveGoes DEF Unresolved
<1> QED
  BY <1>2, <1>3, <1>4 DEF AcceptDelegationResult

\* A submission that cannot be answered waits for the Turn that is closing, or gets into the line.
LEMMA SubmissionGoes ==
  ASSUME IInv, LeaseInv, AuthorInv, OwnerStays, NEW c \in Calls \ Results,
         pc[c] \in Admitted, pc[c] # "queued",
         \/ Move(c, "blocked") /\ Closing
         \/ Submit(c),
         Stored(KeyOf[c]) => Unknown(c) \/ ~Resolvable(KeyOf[c]),
         UNCHANGED <<durable, initialized, active_turn, recovered_turn_id, current, handle>>
  PROVE  \E v : GoesTo(c, v)
<1>1. initialized /\ KeyOf[c] \in Keys
  BY InitializedIn, LoopAssumption DEF LeaseInv
<1>2. CASE Submit(c)
  <2>1. Enqueue(c, ActorOf[c]) /\ UNCHANGED occupation
    BY <1>2 DEF Submit
  <2> QED
    BY <1>1, <2>1, EnqueueGoes
<1>3. CASE Move(c, "blocked") /\ Closing
  <2>1. Stored(KeyOf[c]) => Unknown(c)
    BY <1>1, <1>3, UnansweredRecovered DEF Closing, Unknown
  <2>2. Moves(c, "blocked")
    BY <1>3 DEF Moves, Move, Working, Admitted, Submitting
  <2> QED
    BY <2>1, <2>2, MoveGoes DEF Unresolved
<1> QED
  BY <1>2, <1>3

\* The steps of the calls.
LEMMA CallsAuthors ==
  ASSUME IInv, IInv', ResultsApart, LineInv, LineInv', Standing, Standing', StoreInv, LeaseInv, LeaseInv',
         AuthorInv, Remember, NEW c \in Calls, Prompt(c) \/ AcceptDelegationResult(c) \/ CallStep(c)
  PROVE  AuthorInv'
<1>1. OwnerStays
  BY CallsLeases DEF AuthorInv, SubmissionInv
<1>2. ASSUME \E v : GoesTo(c, v) PROVE AuthorInv'
  BY <1>2, GoesToKeeps
<1>3. CASE Prompt(c)
  <2>1. /\ pc[c] = "idle" /\ pc' = [pc EXCEPT ![c] = "reading"]
        /\ UNCHANGED <<durable, initialized, active_turn, recovered_turn_id, current, phase, command, handle>>
    BY <1>3 DEF Prompt, turn, loop, releases
  <2>2. Moves(c, "reading")
    BY <2>1 DEF Moves, Working
  <2> QED
    BY <1>1, <1>2, <2>2, MoveGoes DEF Unresolved
<1>4. CASE AcceptDelegationResult(c)
  BY <1>1, <1>2, <1>4, DeliveryGoes
<1>5. CASE Admit(c)
  BY <1>1, <1>2, <1>5, AdmitGoes
<1>6. CASE EnsureRunnable(c)
  <2>1. /\ pc[c] = "preparing" /\ c \notin Results
        /\ UNCHANGED <<durable, initialized, active_turn, recovered_turn_id, failed_releases, current, handle>>
    BY <1>6 DEF EnsureRunnable, turn, ResultsApart, ResultPcs
  <2>2. CASE Fail({c})
    <3>1. Fails(c)
      BY <2>2 DEF Fails
    <3> QED
      BY <1>1, <2>1, <3>1, FailOnward, OnwardKeeps
  <2>3. CASE c \notin Identified /\ ((Move(c, "blocked") /\ Closing) \/ Submit(c))
    <3>1. ~Stored(KeyOf[c])
      BY <2>1, <2>3 DEF AuthorInv, SubmissionInv, Working
    <3> QED
      BY <1>1, <1>2, <2>1, <2>3, <3>1, SubmissionGoes DEF Admitted, Submitting
  <2>4. ASSUME NEW v \in {"sharing", "resolving"}, Move(c, v) PROVE AuthorInv'
    <3>1. InRecovery(c)
      BY <2>1 DEF AuthorInv, SubmissionInv, Unresolved
    <3>2. Moves(c, v)
      BY <2>1, <2>4 DEF Moves, Move, Working
    <3> QED
      BY <1>1, <1>2, <2>4, <3>1, <3>2, MoveGoes
  <2> QED
    BY <1>6, <2>2, <2>3, <2>4 DEF EnsureRunnable
<1>7. CASE ResumeSubmission(c)
  <2>1. /\ pc[c] = "woken" /\ c \notin Results /\ (Stored(KeyOf[c]) => Unknown(c))
        /\ UNCHANGED <<durable, initialized, active_turn, recovered_turn_id, failed_releases, current, handle>>
    BY <1>7 DEF ResumeSubmission, turn, ResultsApart, ResultPcs, AuthorInv, SubmissionInv
  <2>2. CASE Fails(c)
    BY <1>1, <2>1, <2>2, FailOnward, OnwardKeeps
  <2>3. CASE Submit(c)
    BY <1>1, <1>2, <2>1, <2>3, SubmissionGoes DEF Admitted, Submitting
  <2> QED
    BY <1>7, <2>2, <2>3 DEF ResumeSubmission, Fails
<1>8. CASE PromptWithIdentity(c)
  <2>1. /\ pc[c] \in {"resolving", "joining"} /\ c \notin Results
        /\ UNCHANGED <<durable, initialized, active_turn, current>>
    BY <1>8 DEF PromptWithIdentity, turn, ResultsApart, ResultPcs
  <2>2. CASE Join(c) /\ Resolvable(KeyOf[c])
    BY <1>1, <2>1, <2>2, JoinOnward, OnwardKeeps
  <2>3. CASE Fails(c) /\ UNCHANGED <<recovered_turn_id, failed_releases, handle>>
    BY <1>1, <2>1, <2>3, FailOnward, OnwardKeeps
  <2>4. CASE /\ ~Resolvable(KeyOf[c]) /\ ((Move(c, "blocked") /\ Closing) \/ Submit(c))
             /\ UNCHANGED <<recovered_turn_id, failed_releases, handle>>
    BY <1>1, <1>2, <2>1, <2>4, SubmissionGoes DEF Admitted, Submitting
  <2> QED
    BY <1>8, <2>2, <2>3, <2>4 DEF PromptWithIdentity, Fails
<1> QED
  BY <1>3, <1>4, <1>5, <1>6, <1>7, <1>8 DEF CallStep

-----------------------------------------------------------------------------
\* The Session opens, the process starts again, and every step.

\* The Turn to be recovered is the last of the history, and its author gets the Session.
LEMMA InitializeAuthors ==
  ASSUME IInv, ResultsApart, LineInv, Standing, LeaseInv, AuthorInv, Remember, InitializeOccupation
  PROVE  AuthorInv'
<1>1. /\ active_turn = NoTurn /\ recovered_turn_id = NoTurn /\ \A c \in Calls : pc[c] \notin Admitted
      /\ UNCHANGED <<message, history, journal, active_turn, phase, current, pc, command, handle>>
  BY DEF InitializeOccupation, LeaseInv, TurnLeases, loop, callers, turn, durable
<1>2. unknown' = unknown
  BY <1>1, Remembers
<1>3. phase \notin TurnPhases /\ \A c \in Calls : pc[c] \notin Unresolved \cup {"blocked", "woken", "queued", "joining"}
  BY <1>1, LoopAssumption DEF IInv, LoopOwnsTurn, Unresolved, Admitted, Submitting
<1>4. SubmissionInv' /\ LineBound' /\ KnownTurnHasOneAuthor' /\ AcceptedIsStored'
  BY <1>1, <1>2, <1>3 DEF AuthorInv, SubmissionInv, LineBound, Joinable, Working, KnownTurnHasOneAuthor,
     AcceptedIsStored, Stored
<1> DEFINE latest == message[history[Len(history)]]
<1>5. CASE history # <<>> /\ journal[latest.turn] = "none"
  <2>1. recovered_turn_id' = latest.turn /\ owner' = latest.from
    BY <1>5 DEF InitializeOccupation, Acquire
  <2>2. Len(history) \in DOMAIN history /\ history[Len(history)] \in Keys
    BY <1>5 DEF IInv, TypeOK
  <2>3. Stored(history[Len(history)])
    BY <2>2 DEF IInv, HistoryStored, Stored
  <2>4. RecordInv'
    BY <1>1, <1>2, <1>3, <2>1 DEF AuthorInv, RecordInv, Stored, Ended
  <2>5. TurnStored'
    BY <1>1, <1>3, <2>1, <2>2, <2>3 DEF AuthorInv, TurnStored, Stored, Opened, TurnPhases
  <2>6. latest.turn \notin unknown =>
          \A k \in Keys : Stored(k) /\ message[k].turn = latest.turn => message[k].from = latest.from
    BY <2>2, <2>3 DEF AuthorInv, KnownTurnHasOneAuthor, Stored
  <2>7. OwnerInv'
    BY <1>1, <1>2, <1>3, <2>1, <2>6 DEF OwnerInv, ByOwner, Stored, Recovering
  <2> QED
    BY <1>4, <2>4, <2>5, <2>7 DEF AuthorInv
<1>6. CASE ~(history # <<>> /\ journal[latest.turn] = "none")
  <2>1. recovered_turn_id' = NoTurn
    BY <1>1, <1>6 DEF InitializeOccupation
  <2>2. RecordInv'
    BY <1>1, <1>2, <1>6, <2>1 DEF AuthorInv, RecordInv, Stored, Ended, Recovering
  <2>3. TurnStored' /\ OwnerInv'
    BY <1>1, <1>3, <2>1 DEF AuthorInv, TurnStored, OwnerInv, Stored, Opened, TurnPhases, Recovering
  <2> QED
    BY <1>4, <2>2, <2>3 DEF AuthorInv
<1> QED
  BY <1>5, <1>6

\* A crash leaves what is stored and what is lost, and nobody in progress.
LEMMA CrashAuthors ==
  ASSUME IInv, AuthorInv, Remember, Crash
  PROVE  AuthorInv'
<1>1. /\ UNCHANGED <<message, history, journal, handle>>
      /\ ~initialized' /\ active_turn' = NoTurn /\ recovered_turn_id' = NoTurn /\ phase' = "idle"
  BY DEF Crash, durable
<1>2. ASSUME NEW c \in Calls
      PROVE  pc'[c] = "lost" \/ (pc'[c] = pc[c] /\ pc[c] \notin Working \ {"idle"})
  <2>1. pc'[c] = IF \/ pc[c] \in {"idle", "rejected", "saved", "done", "lost"}
                    \/ c \in Calls /\ pc[c] = "accepted" /\ outcome[c] # "pending"
                 THEN pc[c] ELSE "lost"
    BY CommandsTyped DEF Crash
  <2> QED
    BY <2>1 DEF Working
<1>3. crashes' # crashes
  BY DEF Crash, IInv, TypeOK
<1>4. unknown' = unknown
  BY <1>3 DEF Remember, RecordFails
<1>5. \A c \in Calls : pc'[c] # "queued"
  BY <1>2 DEF Working
<1>6. RecordInv' /\ TurnStored' /\ OwnerInv' /\ LineBound'
  BY <1>1, <1>4, <1>5 DEF AuthorInv, RecordInv, TurnStored, OwnerInv, LineBound, Stored, Ended, Opened,
     TurnPhases, Recovering
<1>7. SubmissionInv'
  BY <1>1, <1>2 DEF AuthorInv, SubmissionInv, Joinable, Unresolved, Working, Stored
<1>8. KnownTurnHasOneAuthor' /\ AcceptedIsStored'
  BY <1>1, <1>2, <1>4 DEF AuthorInv, KnownTurnHasOneAuthor, AcceptedIsStored
<1> QED
  BY <1>6, <1>7, <1>8 DEF AuthorInv

\* Every step, from the initial state on.
LEMMA NextAuthors ==
  ASSUME IInv, ResultsApart, LineInv, Standing, StoreInv, LeaseInv, LeaseInv', AuthorInv, Next, Remember
  PROVE  AuthorInv'
<1>1. IInv' /\ LineInv' /\ Standing'
  BY NextInv, NextLine, NextStands
<1>2. ASSUME Onward PROVE AuthorInv'
  BY <1>1, <1>2, OnwardKeeps
<1>3. CASE LoopStep
  BY <1>1, <1>2, <1>3, LoopOnward
<1>4. ASSUME NEW c \in Calls, Prompt(c) \/ AcceptDelegationResult(c) \/ CallStep(c) PROVE AuthorInv'
  BY <1>1, <1>4, CallsAuthors
<1>5. ASSUME NEW s \in Stoppers, StopBegin(s) \/ StopStep(s) PROVE AuthorInv'
  BY <1>1, <1>2, <1>5, StopOnward
<1>6. CASE Checkpoint \/ \E m \in Maintenance : EnqueueMaintenance(m)
  BY <1>2, <1>6, AsideOnward
<1>7. CASE InitializeOccupation
  BY <1>7, InitializeAuthors
<1>8. CASE Crash
  BY <1>8, CrashAuthors
<1> QED
  BY <1>3, <1>4, <1>5, <1>6, <1>7, <1>8 DEF Next

LEMMA InitAuthors == ASSUME Init PROVE Standing /\ LeaseInv /\ AuthorInv
<1>1. /\ \A k \in Keys : message[k] = NoMessage
      /\ \A c \in Calls : pc[c] = "idle" /\ holder[c] = NoActor
      /\ ~initialized /\ active_turn = NoTurn /\ recovered_turn_id = NoTurn /\ ~recovered_release
      /\ phase = "idle" /\ on_finish = {} /\ failed_releases = {} /\ KeyOf \in [Calls -> Keys]
  BY LeasesFinite, LoopAssumption DEF Init, Commands
<1>2. Standing
  BY <1>1 DEF Standing
<1>3. LeaseInv
  BY <1>1 DEF LeaseInv, OwnLeases, TurnLeases, LineLeases, Submitting, Admitted, TurnPhases, Recovering
<1>4. RecordInv /\ TurnStored /\ OwnerInv /\ LineBound
  BY <1>1 DEF RecordInv, TurnStored, OwnerInv, LineBound, Stored, Opened, TurnPhases, Recovering
<1>5. SubmissionInv /\ KnownTurnHasOneAuthor /\ AcceptedIsStored
  BY <1>1 DEF SubmissionInv, Unresolved, Joinable, Stored, KnownTurnHasOneAuthor, AcceptedIsStored
<1> QED
  BY <1>2, <1>3, <1>4, <1>5 DEF AuthorInv

\* A step in which nothing happens.
LEMMA StutterAuthors ==
  ASSUME LeaseInv, AuthorInv, UNCHANGED <<vars, unknown>>
  PROVE  LeaseInv' /\ AuthorInv'
<1>1. /\ UNCHANGED <<message, history, journal, initialized, active_turn, recovered_turn_id, recovered_release,
                     failed_releases, on_finish, phase, current, pc, command, handle, owner, holder>>
      /\ unknown' = unknown
  BY DEF vars, durable, occupation, releases, turn, loop, callers
<1>2. /\ Recovering' <=> Recovering
      /\ \A c \in Calls : (Unknown(c)' <=> Unknown(c)) /\ (Astray(c)' <=> Astray(c))
  BY <1>1 DEF Recovering, Unknown, Astray, Stored
<1>3. LeaseInv'
  BY <1>1, <1>2 DEF LeaseInv, OwnLeases, TurnLeases, LineLeases
<1>4. RecordInv' /\ TurnStored'
  BY <1>1, <1>2 DEF AuthorInv, RecordInv, TurnStored, Stored, Ended
<1>5. SubmissionInv' /\ LineBound'
  BY <1>1, <1>2 DEF AuthorInv, SubmissionInv, InRecovery, Joinable, Resolvable, LineBound, BoundToTurn, Stored, Ended
<1>6. OwnerInv'
  BY <1>1, <1>2 DEF AuthorInv, OwnerInv, BoundToOwner, ByOwner, Stored
<1>7. KnownTurnHasOneAuthor' /\ AcceptedIsStored'
  BY <1>1 DEF AuthorInv, KnownTurnHasOneAuthor, AcceptedIsStored
<1> QED
  BY <1>3, <1>4, <1>5, <1>6, <1>7 DEF AuthorInv

\* What the authors of stored messages rest on.
AuthorsInv == IInv /\ ResultsApart /\ LineInv /\ StoreInv /\ Standing /\ LeaseInv /\ AuthorInv

LEMMA AuthorsInvariant == AuthorSpec => []AuthorsInv
<1>1. AuthorInit => AuthorsInv
  BY InitLine, InitStores, InitAuthors DEF AuthorInit, AuthorsInv
<1>2. ASSUME AuthorsInv, [AuthorNext]_<<vars, unknown>> PROVE AuthorsInv'
  <2>1. [Next]_vars
    BY <1>2 DEF AuthorNext
  <2>2. IInv' /\ ResultsApart' /\ LineInv' /\ StoreInv' /\ Standing'
    BY <1>2, <2>1, NextInv, NextApart, NextLine, NextStores, NextStands DEF AuthorsInv
  <2>3. CASE Next /\ Remember
    <3>1. LeaseInv'
      BY <1>2, <2>3, NextLeases DEF AuthorsInv, AuthorInv, SubmissionInv
    <3> QED
      BY <1>2, <2>2, <2>3, <3>1, NextAuthors DEF AuthorsInv
  <2>4. CASE UNCHANGED <<vars, unknown>>
    BY <1>2, <2>2, <2>4, StutterAuthors DEF AuthorsInv
  <2> QED
    BY <1>2, <2>3, <2>4 DEF AuthorNext
<1> QED
  BY <1>1, <1>2, PTL DEF AuthorSpec

\* A Turn holds the input of one author unless nobody knows what became of it: the Session changes
\* hands only when nothing that is known depends on its owner, a Turn that is to be recovered keeps it
\* for the author of its messages, and a message of an unfinished Turn is only ever submitted for that
\* Turn (SessionOccupation.acquire, initialize_occupation, enqueue_prompt).  Whatever fails, only a
\* Turn whose own record was reported as not written is excepted.
THEOREM TurnsHaveOneAuthor == AuthorSpec => []KnownTurnHasOneAuthor
<1>1. AuthorsInv => KnownTurnHasOneAuthor
  BY DEF AuthorsInv, AuthorInv
<1> QED
  BY <1>1, AuthorsInvariant, PTL

\* Whoever has a handle finds its message stored, and in the Turn of the handle or in one that was
\* lost and is taken up by that Turn, also a retry that shared a submission, one that joined a Turn it
\* found, and one that was merged into the active Turn (execute_prompt_command,
\* prompt_with_identity, accept_delegation_result).
THEOREM AcceptedAreStored == AuthorSpec => []AcceptedIsStored
<1>1. AuthorsInv => AcceptedIsStored
  BY DEF AuthorsInv, AuthorInv
<1> QED
  BY <1>1, AuthorsInvariant, PTL
=============================================================================
