----------------------------- MODULE SessionLoop -----------------------------
(***************************************************************************)
(* One Session of packages/agent: the loop that is the only consumer of    *)
(* the Session queue and the only owner of the active Turn                 *)
(* (SessionLoop.ts), with the occupation that arbitrates between callers   *)
(* (SessionOccupation.ts), the closing of a Turn (SessionTurnCompletion.ts,*)
(* SessionCompletionJournal.ts) and stop.                                  *)
(*                                                                         *)
(* A step of the model is what the code does between two awaits that do    *)
(* I/O.  Continuations that only wait for an already settled promise run   *)
(* before any such I/O answers; the guard Quiet gives them that priority.  *)
(***************************************************************************)
EXTENDS SessionQueue

CONSTANTS
  Calls,        \* the calls callers ever make: prompt() and accept_delegation_result()
  Results,      \* those of them that deliver the result of a delegation
  Maintenance,  \* maintenance commands (configuration changes, compaction)
  Stoppers,     \* calls of stop()
  Actors,       \* who can speak in the Session
  Keys,         \* identities of user messages; the Turn a message starts has its identity
  KeyOf,        \* the message identity a call carries (request_id) or is given
  ActorOf,      \* who makes the call
  Identified,   \* the calls that carry a request_id
  TargetOf,     \* the Turn a delegation result belongs to
  Faults,       \* which faults of storage, model and caller the environment has
  MaxCrashes,   \* how often the process may stop and start again
  Recovery,     \* the lease of the Turn found unfinished after a restart
  NoActor, NoTurn

FaultKinds == {"not_runnable", "persist", "internal", "journal", "late_journal", "failure_journal"}

ASSUME LoopAssumption ==
  /\ IsFiniteSet(Calls) /\ Results \subseteq Identified /\ Identified \subseteq Calls
  /\ IsFiniteSet(Maintenance) /\ Maintenance \cap Calls = {}
  /\ KeyOf \in [Calls -> Keys] /\ ActorOf \in [Calls -> Actors]
  /\ TargetOf \in [Results -> Keys]
  /\ \A c \in Calls \ Identified, d \in Calls : KeyOf[c] = KeyOf[d] => c = d
  \* The request_id of a delivery is made of its delegation, which one Turn has asked for.
  /\ \A c \in Results, d \in Calls : KeyOf[c] = KeyOf[d] => d \in Results /\ TargetOf[c] = TargetOf[d]
  /\ Recovery \notin Calls /\ NoActor \notin Actors /\ NoTurn \notin Keys
  /\ Faults \subseteq FaultKinds /\ MaxCrashes \in Nat

Leases   == Calls \cup {Recovery}
Commands == Calls \cup Maintenance
Statuses == {"completed", "failed", "stopped"}
NoMessage == [turn |-> NoTurn, from |-> NoActor]

VARIABLES
  \* on disk
  message,            \* canonical user message of a key: its Turn and its author
  history,            \* the keys of those messages in the order they were appended
  journal,            \* completion journal: the status a Turn ended with, or "none"
  \* SessionLoop fields
  initialized,        \* occupation_initialized has settled
  queue,              \* SessionQueue
  pending_prompt_count,
  active_turn, aborted, closing, recovered_turn_id, recovered_release,
  failed_releases,    \* leases kept because a Turn could not be acknowledged
  on_finish,          \* leases waiting for deferred_finished of the active Turn
  stopping, stop_generation,
  \* SessionOccupation
  owner, references,
  holder,             \* the actor of a lease whose release has not run, else NoActor
  \* the asynchronous functions in progress
  phase,              \* where process_loop is
  current,            \* the command it executes
  drained,            \* commands taken from the queue by a checkpoint
  result,             \* what the executor returned
  seal,               \* the status prepare_session_completion is writing
  pc, gen,            \* where a call is, and the stop generation it captured
  command,            \* the Turn and the stored message an enqueued prompt is bound to
  handle, outcome,    \* the Turn of an accepted call and how it settled
  stop_pc, stop_gen,  \* where a stop is, and its generation
  crashes

durable    == <<message, history, journal>>
occupation == <<owner, references, holder>>
releases   == <<recovered_turn_id, recovered_release, failed_releases, on_finish>>
turn       == <<active_turn, aborted, closing>>
loop       == <<phase, current, drained, result, seal>>
callers    == <<pc, gen, command, handle, outcome>>
stops      == <<stopping, stop_generation, stop_pc, stop_gen>>
vars == <<durable, initialized, queue, pending_prompt_count, occupation, releases,
          turn, loop, callers, stops, crashes>>

-----------------------------------------------------------------------------
\* Who waits for whom.

\* Only settled promises are pending: nothing that answers I/O may run before them.
Quiet == phase # "take" /\ \A c \in Calls : pc[c] # "woken"

\* The calls that receive what the submission of c receives (pending_request_handles).
Sharing(c) ==
  {c} \cup {d \in Calls : pc[d] = "sharing" /\ KeyOf[d] = KeyOf[c] /\ holder[c] # NoActor}

\* Mistake: a retry does not look for the first submission of its request_id.
RetryUnshared(k) == {}

\* The first submission of this request_id, while it is not accepted.
PendingHandle(k) ==
  {c \in Identified : /\ KeyOf[c] = k /\ holder[c] # NoActor
                      /\ pc[c] \in {"resolving", "blocked", "woken", "queued"}}

-----------------------------------------------------------------------------
\* SessionOccupation.acquire and the release functions it returns.

\* Mistake: the occupation is only looked at while a Turn is active.
ArbitrateActiveOnly(a) == owner \in {NoActor, a} \/ active_turn = NoTurn

CanAcquire(a) == owner \in {NoActor, a}

\* Mistake: a second lease of the same actor is not counted.
AcquireOnce(l, a) ==
  /\ owner' = a
  /\ references' = IF owner = a THEN references ELSE references + 1
  /\ holder' = [holder EXCEPT ![l] = a]

Acquire(l, a) ==
  /\ owner' = a
  /\ references' = references + 1
  /\ holder' = [holder EXCEPT ![l] = a]

\* A release runs once and only for its own occupation.
Release(S) ==
  LET running == {l \in S : holder[l] # NoActor}
  IN  /\ references' = references - Cardinality(running)
      /\ owner' = IF references' = 0 THEN NoActor ELSE owner
      /\ holder' = [l \in Leases |-> IF l \in running THEN NoActor ELSE holder[l]]

Leased(S) == {c \in S : holder[c] # NoActor}

-----------------------------------------------------------------------------
\* What happens to the calls when a promise they wait for settles.

\* The catch of submit_normalized_prompt: the lease follows the active Turn, if there is one.
RejectedLeases(S, turn_is_active) ==
  IF turn_is_active
  THEN /\ on_finish' = on_finish \cup Leased(S)
       /\ UNCHANGED occupation
  ELSE /\ Release(Leased(S))
       /\ UNCHANGED on_finish

\* pending_prompt_count after n prompts have left the queue.
CountWithout(n) == IF pending_prompt_count < n THEN 0 ELSE pending_prompt_count - n

\* cancel() of every queued prompt, and with it of the calls that share it.
CancelledCalls == UNION {Sharing(c) : c \in Cancelled(queue, Calls)}

\* Mistake: the prompts are cancelled and still counted.
CancelUncounted ==
  /\ queue' = AfterCancel(queue, Calls)
  /\ UNCHANGED pending_prompt_count

CancelQueuedPrompts ==
  /\ queue' = AfterCancel(queue, Calls)
  /\ pending_prompt_count' = CountWithout(Cardinality(Cancelled(queue, Calls)))

\* Mistake: the lease recovery left is forgotten when a prompt resumes the Turn.
RecoveryForgotten(S) ==
  /\ on_finish' = on_finish \cup Leased(S)
  /\ recovered_release' = (recovered_release /\ Leased(S) = {})
  /\ recovered_turn_id' = IF Leased(S) = {} THEN recovered_turn_id ELSE NoTurn

\* The calls of S obtain a handle on turn t: their leases, and the one recovery left,
\* now end with that Turn.
AcceptedLeases(S) ==
  /\ on_finish' = on_finish \cup Leased(S)
                   \cup (IF recovered_release /\ Leased(S) # {} THEN {Recovery} ELSE {})
  /\ recovered_release' = (recovered_release /\ Leased(S) = {})
  /\ recovered_turn_id' = IF Leased(S) = {} THEN recovered_turn_id ELSE NoTurn

Accepted(S, t) ==
  /\ pc' = [c \in Commands |-> IF c \in S THEN "accepted" ELSE pc[c]]
  /\ handle' = [c \in Calls |-> IF c \in S THEN t ELSE handle[c]]

Rejected(S) == pc' = [c \in Commands |-> IF c \in S THEN "rejected" ELSE pc[c]]

\* Mistake: the finish of the Turn only wakes the submissions that hold a lease.
WakeBlockedOnly(c, acknowledged) ==
  IF pc[c] = "blocked" THEN IF acknowledged THEN "woken" ELSE "rejected" ELSE pc[c]

\* The pc of every call after deferred_finished of the active Turn settles.
WakeOnFinish(c, acknowledged) ==
  CASE pc[c] = "waiting" -> IF acknowledged THEN "reading" ELSE "rejected"
    [] pc[c] = "blocked" -> IF acknowledged THEN "woken" ELSE "rejected"
    [] pc[c] = "sharing" /\ ~acknowledged
         /\ (\E d \in PendingHandle(KeyOf[c]) : pc[d] = "blocked") -> "rejected"
    [] OTHER -> pc[c]

\* Mistake: only the prompt that started the Turn settles with it.
SettlesStarter(c) ==
  pc[c] = "accepted" /\ outcome[c] = "pending" /\ handle[c] = active_turn /\ KeyOf[c] = active_turn

\* A handle settles with the Turn it was given for.
SettlesNow(c) == pc[c] = "accepted" /\ outcome[c] = "pending" /\ handle[c] = active_turn

\* Mistake: a stop waits for a Turn whose finish nobody tells it.
WakeRecovering(s) == IF stop_pc[s] = "recovering" THEN "woken" ELSE stop_pc[s]

\* Every stop that waits for the active Turn.
WakeStop(s) == IF stop_pc[s] \in {"waiting", "recovering"} THEN "woken" ELSE stop_pc[s]

Settle(status) ==
  /\ outcome' = [c \in Calls |-> IF SettlesNow(c) THEN status ELSE outcome[c]]
  /\ pc' = [c \in Commands |-> WakeOnFinish(c, status # "unacknowledged")]
  /\ gen' = [c \in Calls |-> IF pc[c] = "waiting" THEN stop_generation ELSE gen[c]]
  /\ stop_pc' = [s \in Stoppers |-> WakeStop(s)]
  /\ active_turn' = NoTurn
  /\ UNCHANGED <<command, handle>>

\* deferred_finished resolves: the leases of the Turn end, and with an accepted call
\* those of earlier Turns that could not be acknowledged.
Finished(status, also) ==
  LET settled == \E c \in on_finish \cap Calls : pc[c] = "accepted"
      parked  == IF settled THEN failed_releases ELSE {}
  IN  /\ Settle(status)
      /\ Release(on_finish \cup parked \cup also)
      /\ failed_releases' = failed_releases \ (parked \cup also)
      /\ on_finish' = {}

\* deferred_finished rejects: nobody knows what the Turn did, its leases are kept.
Unacknowledged ==
  /\ Settle("unacknowledged")
  /\ Release({c \in Calls : pc'[c] = "rejected" /\ pc[c] # "rejected"})
  /\ failed_releases' = failed_releases \cup on_finish
  /\ on_finish' = {}

-----------------------------------------------------------------------------
\* Submission: prompt, submit_normalized_prompt, submit_prompt, prompt_with_identity.

NoCommand == [turn |-> NoTurn, stored |-> FALSE, from |-> NoActor]

Init ==
  /\ message = [k \in Keys |-> NoMessage] /\ history = <<>>
  /\ journal = [t \in Keys |-> "none"]
  /\ initialized = FALSE /\ queue = <<>> /\ pending_prompt_count = 0
  /\ active_turn = NoTurn /\ aborted = FALSE /\ closing = FALSE
  /\ recovered_turn_id = NoTurn /\ recovered_release = FALSE
  /\ failed_releases = {} /\ on_finish = {}
  /\ stopping = FALSE /\ stop_generation = 0
  /\ owner = NoActor /\ references = 0 /\ holder = [l \in Leases |-> NoActor]
  /\ phase = "idle" /\ current = NoTurn /\ drained = <<>> /\ result = "none" /\ seal = "none"
  /\ pc = [c \in Commands |-> "idle"] /\ gen = [c \in Calls |-> 0]
  /\ command = [c \in Calls |-> NoCommand]
  /\ handle = [c \in Calls |-> NoTurn] /\ outcome = [c \in Calls |-> "pending"]
  /\ stop_pc = [s \in Stoppers |-> "idle"] /\ stop_gen = [s \in Stoppers |-> 0]
  /\ crashes = 0

\* initialize_occupation: a Turn whose last message has no completion record is still owed.
InitializeOccupation ==
  /\ ~initialized /\ initialized' = TRUE
  /\ LET latest == message[history[Len(history)]]
     IN IF history # <<>> /\ journal[latest.turn] = "none"
        THEN /\ recovered_turn_id' = latest.turn /\ recovered_release' = TRUE
             /\ Acquire(Recovery, latest.from)
        ELSE UNCHANGED <<recovered_turn_id, recovered_release, occupation>>
  /\ UNCHANGED <<durable, queue, pending_prompt_count, failed_releases, on_finish, turn, loop,
                 callers, stops, crashes>>

Prompt(c) ==
  /\ Quiet /\ c \notin Results /\ pc[c] = "idle"
  /\ pc' = [pc EXCEPT ![c] = "reading"]
  /\ gen' = [gen EXCEPT ![c] = stop_generation]
  /\ UNCHANGED <<durable, initialized, queue, pending_prompt_count, occupation, releases, turn,
                 loop, command, handle, outcome, stops, crashes>>

\* resolve_idempotent_prompt would return a handle for the stored message of k.
Resolvable(k) ==
  /\ message[k] # NoMessage
  /\ \/ active_turn = message[k].turn
     \/ journal[message[k].turn] # "none"

OtherAuthor(c) == message[KeyOf[c]] # NoMessage /\ message[KeyOf[c]].from # ActorOf[c]

Cancelling(c) == stopping \/ gen[c] # stop_generation

Closing == closing /\ active_turn # NoTurn

\* The call fails before it holds anything.
Refuse(c) == Rejected({c}) /\ UNCHANGED <<gen, occupation>>

\* Mistake: the occupation is acquired before the closing Turn is waited for.
AcquireWhileClosing(c) ==
  \/ /\ Cancelling(c) \/ ~CanAcquire(ActorOf[c])
     /\ Refuse(c)
  \/ /\ ~Cancelling(c) /\ CanAcquire(ActorOf[c])
     /\ pc' = [pc EXCEPT ![c] = IF Closing THEN "waiting" ELSE "preparing"]
     /\ Acquire(c, ActorOf[c])
     /\ UNCHANGED gen

\* The admission by occupation; a closing Turn of the same actor is waited for.
Arbitrate(c) ==
  \/ /\ Cancelling(c) \/ ~CanAcquire(ActorOf[c])
     /\ Refuse(c)
  \/ /\ ~Cancelling(c) /\ CanAcquire(ActorOf[c]) /\ Closing
     /\ pc' = [pc EXCEPT ![c] = "waiting"]
     /\ UNCHANGED <<gen, occupation>>
  \/ /\ ~Cancelling(c) /\ CanAcquire(ActorOf[c]) /\ ~Closing
     /\ pc' = [pc EXCEPT ![c] = "preparing"]
     /\ Acquire(c, ActorOf[c])
     /\ UNCHANGED gen

\* Lookup of the request_id, then, without an await, the admission.
Admit(c) ==
  /\ Quiet /\ initialized /\ pc[c] = "reading"
  /\ \/ /\ c \in Identified /\ OtherAuthor(c)
        /\ Refuse(c)
     \/ /\ c \in Identified /\ ~OtherAuthor(c) /\ Resolvable(KeyOf[c])
        /\ pc' = [pc EXCEPT ![c] = "joining"]
        /\ gen' = [gen EXCEPT ![c] = stop_generation]
        /\ UNCHANGED occupation
     \/ /\ c \in Identified => ~OtherAuthor(c) /\ ~Resolvable(KeyOf[c])
        /\ Arbitrate(c)
  /\ UNCHANGED <<durable, initialized, queue, pending_prompt_count, releases, turn, loop,
                 command, handle, outcome, stops, crashes>>

\* Mistake: a prompt is bound to the recovered Turn and to nothing else.
EnqueueUnbound(c, from) ==
  /\ queue' = EnqueueCommand(queue, c)
  /\ pending_prompt_count' = pending_prompt_count + 1
  /\ command' = [command EXCEPT ![c] =
       [turn |-> recovered_turn_id, stored |-> message[KeyOf[c]] # NoMessage, from |-> from]]
  /\ pc' = [pc EXCEPT ![c] = "queued"]
  /\ phase' = IF phase = "idle" THEN "take" ELSE phase

\* enqueue_prompt and ensure_processing.
Enqueue(c, from) ==
  LET k == KeyOf[c]
      stored == message[k] # NoMessage
  IN  /\ queue' = EnqueueCommand(queue, c)
      /\ pending_prompt_count' = pending_prompt_count + 1
      /\ command' = [command EXCEPT ![c] =
           [turn |-> IF recovered_turn_id # NoTurn THEN recovered_turn_id
                     ELSE IF stored THEN message[k].turn ELSE k,
            stored |-> stored, from |-> from]]
      /\ pc' = [pc EXCEPT ![c] = "queued"]
      /\ phase' = IF phase = "idle" THEN "take" ELSE phase

\* Submissions fail after admission: one of its own, or one in charge with the calls that share it.
Fail(S) ==
  /\ Rejected(S)
  /\ RejectedLeases(S, active_turn # NoTurn)
  /\ UNCHANGED <<queue, pending_prompt_count, command, phase>>

Move(c, to) ==
  /\ pc' = [pc EXCEPT ![c] = to]
  /\ UNCHANGED <<queue, pending_prompt_count, command, phase, occupation, on_finish>>

Submit(c) == Enqueue(c, ActorOf[c]) /\ UNCHANGED <<occupation, on_finish>>

\* submit_prompt after ensure_runnable.
EnsureRunnable(c) ==
  /\ Quiet /\ pc[c] = "preparing"
  /\ \/ (Cancelling(c) \/ "not_runnable" \in Faults) /\ Fail({c})
     \/ /\ ~Cancelling(c) /\ c \notin Identified
        /\ IF Closing THEN Move(c, "blocked") ELSE Submit(c)
     \/ /\ ~Cancelling(c) /\ c \in Identified
        /\ Move(c, IF PendingHandle(KeyOf[c]) # {} THEN "sharing" ELSE "resolving")
  /\ UNCHANGED <<durable, initialized, recovered_turn_id, recovered_release, failed_releases,
                 turn, current, drained, result, seal, gen, handle, outcome, stops, crashes>>

\* prompt_with_identity when the request is already running or already settled.
Join(c) ==
  LET S == Sharing(c)
      t == message[KeyOf[c]].turn
  IN  /\ Accepted(S, t)
      /\ \/ /\ active_turn = t
            /\ AcceptedLeases(S)
            /\ UNCHANGED <<occupation, failed_releases, outcome>>
         \/ /\ active_turn # t
            /\ outcome' = [d \in Calls |-> IF d \in S THEN journal[t] ELSE outcome[d]]
            /\ IF Leased(S) = {}
               THEN UNCHANGED <<occupation, releases>>
               ELSE /\ Release(Leased(S) \cup failed_releases
                              \cup (IF recovered_release THEN {Recovery} ELSE {}))
                    /\ failed_releases' = {} /\ recovered_release' = FALSE
                    /\ recovered_turn_id' = NoTurn /\ UNCHANGED on_finish
      /\ UNCHANGED <<queue, pending_prompt_count, command, phase>>

PromptWithIdentity(c) ==
  /\ Quiet /\ pc[c] \in {"resolving", "joining"}
  /\ \/ ~OtherAuthor(c) /\ Resolvable(KeyOf[c]) /\ Join(c)
     \/ /\ OtherAuthor(c) \/ (~Resolvable(KeyOf[c]) /\ Cancelling(c))
        /\ Fail(Sharing(c))
        /\ UNCHANGED <<recovered_turn_id, recovered_release, failed_releases, handle, outcome>>
     \/ /\ ~OtherAuthor(c) /\ ~Resolvable(KeyOf[c]) /\ ~Cancelling(c)
        /\ IF Closing THEN Move(c, "blocked") ELSE Submit(c)
        /\ UNCHANGED <<recovered_turn_id, recovered_release, failed_releases, handle, outcome>>
  /\ UNCHANGED <<durable, initialized, turn, current, drained, result, seal, gen, stops, crashes>>

\* Mistake: the submission goes on without asking whether it was stopped meanwhile.
ResumeStopped(c) ==
  /\ pc[c] = "woken"
  /\ Submit(c)
  /\ UNCHANGED <<durable, initialized, recovered_turn_id, recovered_release, failed_releases,
                 turn, current, drained, result, seal, gen, handle, outcome, stops, crashes>>

\* The continuation of a submission that waited for the closing Turn.
ResumeSubmission(c) ==
  /\ pc[c] = "woken"
  /\ IF Cancelling(c) THEN Fail(Sharing(c)) ELSE Submit(c)
  /\ UNCHANGED <<durable, initialized, recovered_turn_id, recovered_release, failed_releases,
                 turn, current, drained, result, seal, gen, handle, outcome, stops, crashes>>

\* Mistake: any Turn that takes input takes the result.
AwaitsAnyTurn(c) == owner # NoActor /\ ~stopping /\ ~closing

\* The Turn that delegated is running and takes input.
AwaitsResult(c) == owner # NoActor /\ ~stopping /\ ~closing /\ active_turn = TargetOf[c]

\* accept_delegation_result: only into the Turn that delegated, else the result is kept outside.
\* SessionDelegations.launch makes one delivery of a result at a time.
AcceptDelegationResult(c) ==
  /\ Quiet /\ c \in Results /\ pc[c] = "idle"
  /\ \A d \in Results : KeyOf[d] = KeyOf[c] => pc[d] # "queued"
  /\ \/ /\ message[KeyOf[c]] # NoMessage
        /\ pc' = [pc EXCEPT ![c] = IF message[KeyOf[c]].turn = TargetOf[c] THEN "accepted"
                                   ELSE "rejected"]
        /\ handle' = [handle EXCEPT ![c] = message[KeyOf[c]].turn]
        /\ UNCHANGED <<queue, pending_prompt_count, command, phase>>
     \/ /\ message[KeyOf[c]] = NoMessage
        /\ AwaitsResult(c)
        /\ Enqueue(c, owner)
        /\ UNCHANGED handle
     \/ /\ message[KeyOf[c]] = NoMessage
        /\ ~AwaitsResult(c)
        /\ pc' = [pc EXCEPT ![c] = "saved"]
        /\ UNCHANGED <<queue, pending_prompt_count, command, phase, handle>>
  /\ UNCHANGED <<durable, initialized, occupation, releases, turn, current, drained, result, seal,
                 gen, outcome, stops, crashes>>

EnqueueMaintenance(m) ==
  /\ Quiet /\ m \in Maintenance /\ pc[m] = "idle"
  /\ pc' = [pc EXCEPT ![m] = "queued"]
  /\ queue' = EnqueueCommand(queue, m)
  /\ phase' = IF phase = "idle" THEN "take" ELSE phase
  /\ UNCHANGED <<durable, initialized, pending_prompt_count, occupation, releases, turn, current,
                 drained, result, seal, gen, command, handle, outcome, stops, crashes>>

-----------------------------------------------------------------------------
\* process_loop and the Turn it runs.

TakeNext ==
  /\ phase = "take" /\ \A c \in Calls : pc[c] # "woken"
  /\ \/ /\ ~HasCommand(queue)
        /\ phase' = "idle"
        /\ UNCHANGED <<queue, pending_prompt_count, turn, current>>
     \/ /\ HasCommand(queue) /\ Head(queue) \in Maintenance
        /\ phase' = "maintenance" /\ current' = Head(queue) /\ queue' = AfterTakeNext(queue)
        /\ UNCHANGED <<pending_prompt_count, turn>>
     \/ /\ HasCommand(queue) /\ Head(queue) \in Calls
        /\ phase' = "persist" /\ current' = Head(queue) /\ queue' = AfterTakeNext(queue)
        /\ pending_prompt_count' = CountWithout(1)
        /\ active_turn' = command[Head(queue)].turn /\ aborted' = FALSE /\ closing' = FALSE
  /\ UNCHANGED <<durable, initialized, occupation, releases, drained, result, seal, callers,
                 stops, crashes>>

\* execute_maintenance_command: with no active Turn, and whatever it answers.
ExecuteMaintenance ==
  /\ Quiet /\ phase = "maintenance"
  /\ pc' = [pc EXCEPT ![current] = "done"]
  /\ phase' = "take" /\ current' = NoTurn
  /\ UNCHANGED <<durable, initialized, queue, pending_prompt_count, occupation, releases, turn,
                 drained, result, seal, gen, command, handle, outcome, stops, crashes>>

\* Mistake: a merged message is stored as a Turn of its own.
PersistOwnTurn(c, saved) ==
  IF saved /\ ~command[c].stored
  THEN /\ message' = [message EXCEPT ![KeyOf[c]] =
                        [turn |-> KeyOf[c], from |-> command[c].from]]
       /\ history' = Append(history, KeyOf[c])
       /\ UNCHANGED journal
  ELSE UNCHANGED durable

\* persist_prompt_message, unless the message is already stored.
Persist(c, saved) ==
  IF saved /\ ~command[c].stored
  THEN /\ message' = [message EXCEPT ![KeyOf[c]] =
                        [turn |-> active_turn, from |-> command[c].from]]
       /\ history' = Append(history, KeyOf[c])
       /\ UNCHANGED journal
  ELSE UNCHANGED durable

\* The prompt that starts the Turn is stored before its caller gets a handle.
StartTurn ==
  /\ Quiet /\ phase = "persist"
  /\ LET S == Sharing(current) IN
     \/ /\ Persist(current, TRUE)
        /\ Accepted(S, active_turn) /\ AcceptedLeases(S)
        /\ phase' = "run"
        /\ UNCHANGED <<queue, pending_prompt_count, occupation, closing>>
     \/ /\ "persist" \in Faults
        /\ \E saved \in BOOLEAN : Persist(current, saved)
        /\ Rejected(S \cup CancelledCalls) /\ RejectedLeases(S \cup CancelledCalls, TRUE)
        /\ CancelQueuedPrompts /\ closing' = TRUE
        /\ phase' = "failing"
        /\ UNCHANGED <<handle, recovered_turn_id, recovered_release>>
  /\ current' = NoTurn
  /\ UNCHANGED <<initialized, active_turn, aborted, failed_releases, drained, result, seal, gen,
                 command, outcome, stops, crashes>>

\* drain_queued_inputs at a step of the executor.
Checkpoint ==
  /\ Quiet /\ phase = "run" /\ HasCommand(queue)
  /\ phase' = "drain" /\ drained' = Drained(queue) /\ queue' = AfterDrain(queue)
  /\ UNCHANGED <<durable, initialized, pending_prompt_count, occupation, releases, turn, current,
                 result, seal, callers, stops, crashes>>

\* The head of what was drained: a maintenance command, or a prompt that joins the Turn.
AbsorbDrained ==
  /\ Quiet /\ phase = "drain" /\ drained # <<>>
  /\ LET c == Head(drained) IN
     \/ /\ c \in Maintenance
        /\ pc' = [pc EXCEPT ![c] = "done"]
        /\ UNCHANGED <<durable, pending_prompt_count, handle, recovered_turn_id,
                       recovered_release, on_finish>>
     \/ /\ c \in Calls
        /\ Persist(c, TRUE)
        /\ Accepted(Sharing(c), active_turn) /\ AcceptedLeases(Sharing(c))
        /\ pending_prompt_count' = CountWithout(1)
     \/ /\ c \in Calls /\ "persist" \in Faults
        /\ \E saved \in BOOLEAN : Persist(c, saved)
        /\ Rejected(Sharing(c)) /\ on_finish' = on_finish \cup Leased(Sharing(c))
        /\ pending_prompt_count' = CountWithout(1)
        /\ UNCHANGED <<handle, recovered_turn_id, recovered_release>>
  /\ drained' = Tail(drained)
  /\ UNCHANGED <<initialized, queue, occupation, failed_releases, turn, phase, current, result,
                 seal, gen, command, outcome, stops, crashes>>

DrainDone ==
  /\ Quiet /\ phase = "drain" /\ drained = <<>>
  /\ phase' = "run"
  /\ UNCHANGED <<durable, initialized, queue, pending_prompt_count, occupation, releases, turn,
                 current, drained, result, seal, callers, stops, crashes>>

\* The queue is looked at once more and closed without an await in between.
CloseWindow(res) ==
  /\ closing' = TRUE /\ result' = res /\ phase' = "closing"
  /\ IF res = "failure" \/ aborted
     THEN CancelQueuedPrompts /\ Rejected(CancelledCalls) /\ RejectedLeases(CancelledCalls, TRUE)
     ELSE UNCHANGED <<queue, pending_prompt_count, pc, on_finish, occupation>>
  /\ UNCHANGED drained

\* Mistake: the Turn closes without a last look at the queue.
CloseUnlooked(may_close) ==
  \/ /\ ~aborted /\ pending_prompt_count > 0
     /\ phase' = "drain" /\ drained' = Drained(queue) /\ queue' = AfterDrain(queue)
     /\ UNCHANGED <<closing, result, pending_prompt_count, pc, on_finish, occupation>>
  \/ /\ aborted \/ may_close
     /\ CloseWindow("success")

\* A checkpoint of execute_prompt_turn, or its end.
AbsorbOrClose(may_close) ==
  \/ /\ ~aborted /\ pending_prompt_count > 0
     /\ phase' = "drain" /\ drained' = Drained(queue) /\ queue' = AfterDrain(queue)
     /\ UNCHANGED <<closing, result, pending_prompt_count, pc, on_finish, occupation>>
  \/ /\ aborted \/ (pending_prompt_count = 0 /\ may_close)
     /\ CloseWindow("success")

ExecutorReturns ==
  /\ Quiet /\ phase = "run"
  /\ \/ AbsorbOrClose(TRUE)
     \/ /\ ~aborted /\ pending_prompt_count = 0   \* child work of this Turn is not settled
        /\ phase' = "children"
        /\ UNCHANGED <<closing, result, queue, pending_prompt_count, pc, on_finish, drained,
                       occupation>>
     \/ CloseWindow("failure")
  /\ UNCHANGED <<durable, initialized, recovered_turn_id, recovered_release, failed_releases,
                 active_turn, aborted, current, seal, gen, command, handle, outcome, stops, crashes>>

\* SessionChildWorkLifecycle.wait returns: input, abort, or the children are done.
ChildrenSettle ==
  /\ Quiet /\ phase = "children"
  /\ AbsorbOrClose(TRUE)
  /\ UNCHANGED <<durable, initialized, recovered_turn_id, recovered_release, failed_releases,
                 active_turn, aborted, current, seal, gen, command, handle, outcome, stops, crashes>>

\* The catch of execute_prompt_command, for any error but CompletionPersistenceError.  The first
\* run has a catch of its own; what it leads to, a failure and a throw while closing, is the same.
TurnThrows ==
  /\ Quiet /\ "internal" \in Faults
  /\ phase \in {"run", "children", "closing", "sealing", "finishing"}
  /\ closing' = TRUE /\ phase' = "failing"
  /\ CancelQueuedPrompts /\ Rejected(CancelledCalls) /\ RejectedLeases(CancelledCalls, TRUE)
  /\ UNCHANGED <<durable, initialized, recovered_turn_id, recovered_release, failed_releases,
                 active_turn, aborted, current, drained, result, seal, gen, command, handle,
                 outcome, stops, crashes>>

\* The remaining maintenance is executed, then the status of the Turn is fixed.
FixStatus ==
  /\ Quiet /\ phase = "closing"
  /\ queue' = AfterDrainMaintenance(queue, Maintenance)
  /\ pc' = [c \in Commands |-> IF c \in Cancelled(queue, Maintenance) THEN "done" ELSE pc[c]]
  /\ seal' = IF aborted THEN "stopped" ELSE IF result = "success" THEN "completed" ELSE "failed"
  /\ phase' = "sealing"
  /\ UNCHANGED <<durable, initialized, pending_prompt_count, occupation, releases, turn, current,
                 drained, result, gen, command, handle, outcome, stops, crashes>>

\* Mistake: preparing a completion again overwrites the record.
SealAgain(status) ==
  /\ journal' = [journal EXCEPT ![active_turn] = status]
  /\ UNCHANGED <<message, history>>

\* SessionCompletions.prepare never overwrites a record.
Seal(status) ==
  /\ journal' = [journal EXCEPT ![active_turn] = IF @ = "none" THEN status ELSE @]
  /\ UNCHANGED <<message, history>>

\* prepare_session_completion; CompletionPersistenceError leaves the Turn to be recovered.
PrepareCompletion ==
  /\ Quiet /\ phase = "sealing"
  /\ \/ /\ Seal(seal) /\ phase' = "finishing"
        /\ UNCHANGED <<queue, pending_prompt_count, occupation, releases, turn, callers, stops>>
     \/ /\ \/ "journal" \in Faults /\ UNCHANGED durable
           \/ "late_journal" \in Faults /\ Seal(seal)
        /\ recovered_turn_id' = active_turn /\ closing' = TRUE
        /\ Unacknowledged
        /\ phase' = "take"
        /\ UNCHANGED <<queue, pending_prompt_count, recovered_release, aborted, stopping,
                       stop_generation, stop_gen>>
  /\ UNCHANGED <<initialized, current, drained, result, seal, crashes>>

\* Mistake: the caller is told what the executor returned, not what is recorded.
CompleteUnread ==
  /\ Quiet /\ phase = "finishing"
  /\ Finished(seal, {})
  /\ phase' = "take"
  /\ UNCHANGED <<durable, initialized, queue, pending_prompt_count, recovered_turn_id,
                 recovered_release, aborted, closing, current, drained, result, seal, stopping,
                 stop_generation, stop_gen, crashes>>

\* complete_session_turn: the record, not the executor, says how the Turn ended.
CompleteTurn ==
  /\ Quiet /\ phase = "finishing"
  /\ Finished(journal[active_turn], {})
  /\ phase' = "take"
  /\ UNCHANGED <<durable, initialized, queue, pending_prompt_count, recovered_turn_id,
                 recovered_release, aborted, closing, current, drained, result, seal, stopping,
                 stop_generation, stop_gen, crashes>>

\* fail_active_turn: an earlier record stands, otherwise the failure is recorded.
FailTurn ==
  /\ Quiet /\ phase = "failing"
  /\ \/ /\ Seal(IF aborted THEN "stopped" ELSE "failed")
        /\ Finished(journal'[active_turn], {})
     \/ /\ "failure_journal" \in Faults
        /\ Unacknowledged
        /\ UNCHANGED durable
  /\ phase' = "take"
  /\ UNCHANGED <<initialized, queue, pending_prompt_count, recovered_turn_id, recovered_release, aborted, closing, current,
                 drained, result, seal, stopping, stop_generation, stop_gen, crashes>>

-----------------------------------------------------------------------------
\* stop, and the end of the process.

StopBegin(s) ==
  /\ Quiet /\ initialized /\ stop_pc[s] = "idle"
  /\ stopping' = TRUE /\ stop_generation' = stop_generation + 1
  /\ stop_gen' = [stop_gen EXCEPT ![s] = stop_generation']
  /\ CancelQueuedPrompts /\ Rejected(CancelledCalls)
  /\ \/ /\ active_turn = NoTurn /\ recovered_turn_id # NoTurn
        /\ active_turn' = recovered_turn_id /\ aborted' = TRUE /\ closing' = TRUE
        /\ RejectedLeases(CancelledCalls, TRUE)
        /\ stop_pc' = [stop_pc EXCEPT ![s] = "recovering"]
     \/ /\ active_turn # NoTurn
        /\ aborted' = TRUE
        /\ RejectedLeases(CancelledCalls, TRUE)
        /\ stop_pc' = [stop_pc EXCEPT ![s] = "waiting"]
        /\ UNCHANGED <<active_turn, closing>>
     \/ /\ active_turn = NoTurn /\ recovered_turn_id = NoTurn
        /\ RejectedLeases(CancelledCalls, FALSE)
        /\ stop_pc' = [stop_pc EXCEPT ![s] = "woken"]
        /\ UNCHANGED turn
  /\ UNCHANGED <<durable, initialized, recovered_turn_id, recovered_release, failed_releases, loop,
                 gen, command, handle, outcome, crashes>>

\* The recovered Turn nobody resumed is failed by stop itself.
StopRecovers(s) ==
  /\ Quiet /\ stop_pc[s] = "recovering"
  /\ \/ /\ Seal("stopped")
        /\ Finished(journal'[active_turn],
                    failed_releases \cup (IF recovered_release THEN {Recovery} ELSE {}))
        /\ recovered_release' = FALSE /\ recovered_turn_id' = NoTurn
     \/ /\ "failure_journal" \in Faults
        /\ Unacknowledged
        /\ UNCHANGED <<durable, recovered_turn_id, recovered_release>>
  /\ UNCHANGED <<initialized, queue, pending_prompt_count, aborted, closing, loop, stopping,
                 stop_generation, stop_gen, crashes>>

\* Mistake: a stop that returns leaves the Session stopping.
StopStays(s) ==
  /\ Quiet /\ stop_pc[s] = "woken"
  /\ stop_pc' = [stop_pc EXCEPT ![s] = "done"]
  /\ UNCHANGED <<durable, initialized, queue, pending_prompt_count, occupation, releases, turn,
                 loop, callers, stopping, stop_generation, stop_gen, crashes>>

\* The finally of stop: only the latest stop opens the Session again.  It does not wait for the
\* Turn when interactions.cancel_all fails.
StopEnd(s) ==
  /\ Quiet
  /\ stop_pc[s] = "woken" \/ ("internal" \in Faults /\ stop_pc[s] = "waiting")
  /\ stop_pc' = [stop_pc EXCEPT ![s] = "done"]
  /\ stopping' = (stopping /\ stop_gen[s] # stop_generation)
  /\ UNCHANGED <<durable, initialized, queue, pending_prompt_count, occupation, releases, turn,
                 loop, callers, stop_generation, stop_gen, crashes>>

\* The process stops and starts again with what is on disk.
Crash ==
  /\ Quiet /\ crashes < MaxCrashes /\ crashes' = crashes + 1
  /\ initialized' = FALSE /\ queue' = <<>> /\ pending_prompt_count' = 0
  /\ active_turn' = NoTurn /\ aborted' = FALSE /\ closing' = FALSE
  /\ recovered_turn_id' = NoTurn /\ recovered_release' = FALSE
  /\ failed_releases' = {} /\ on_finish' = {}
  /\ stopping' = FALSE /\ stop_generation' = 0
  /\ owner' = NoActor /\ references' = 0 /\ holder' = [l \in Leases |-> NoActor]
  /\ phase' = "idle" /\ current' = NoTurn /\ drained' = <<>> /\ result' = "none" /\ seal' = "none"
  /\ pc' = [c \in Commands |->
       IF \/ pc[c] \in {"idle", "rejected", "saved", "done", "lost"}
          \/ c \in Calls /\ pc[c] = "accepted" /\ outcome[c] # "pending"
       THEN pc[c] ELSE "lost"]
  /\ gen' = [c \in Calls |-> 0] /\ command' = [c \in Calls |-> NoCommand]
  /\ stop_pc' = [s \in Stoppers |-> IF stop_pc[s] = "idle" THEN "idle" ELSE "done"]
  /\ stop_gen' = [s \in Stoppers |-> 0]
  /\ UNCHANGED <<durable, handle, outcome>>

-----------------------------------------------------------------------------
LoopStep ==
  \/ TakeNext \/ ExecuteMaintenance \/ StartTurn \/ AbsorbDrained \/ DrainDone
  \/ ExecutorReturns \/ ChildrenSettle \/ TurnThrows \/ FixStatus \/ PrepareCompletion
  \/ CompleteTurn \/ FailTurn

CallStep(c) == Admit(c) \/ EnsureRunnable(c) \/ PromptWithIdentity(c) \/ ResumeSubmission(c)

StopStep(s) == StopRecovers(s) \/ StopEnd(s)

Next ==
  \/ InitializeOccupation \/ LoopStep \/ Checkpoint \/ Crash
  \/ \E c \in Calls : Prompt(c) \/ AcceptDelegationResult(c) \/ CallStep(c)
  \/ \E m \in Maintenance : EnqueueMaintenance(m)
  \/ \E s \in Stoppers : StopBegin(s) \/ StopStep(s)

\* Promises settle and the executor, the model behind it and the storage answer: the runtime
\* schedules them.  Callers, stops and crashes are free not to happen.
Fairness ==
  /\ WF_vars(InitializeOccupation) /\ WF_vars(LoopStep)
  /\ \A c \in Calls : WF_vars(CallStep(c))
  /\ \A s \in Stoppers : WF_vars(StopRecovers(s) \/ (stop_pc[s] = "woken" /\ StopEnd(s)))

Spec == Init /\ [][Next]_vars
FairSpec == Spec /\ Fairness

-----------------------------------------------------------------------------
\* Every variable has a value the fields of the code can have.
CallPcs == {"idle", "reading", "joining", "waiting", "preparing", "sharing", "resolving",
            "blocked", "woken", "queued", "accepted", "rejected", "saved", "lost"}
Phases == {"idle", "take", "maintenance", "persist", "run", "drain", "children", "closing",
           "sealing", "finishing", "failing"}

\* Those in which the loop has an active Turn.
TurnPhases == {"persist", "run", "drain", "children", "closing", "sealing", "finishing", "failing"}

TypeOK ==
  /\ message \in [Keys -> [turn : Keys, from : Actors] \cup {NoMessage}]
  /\ history \in Seq(Keys) /\ journal \in [Keys -> Statuses \cup {"none"}]
  /\ initialized \in BOOLEAN /\ queue \in Seq(Commands) /\ pending_prompt_count \in Nat
  /\ active_turn \in Keys \cup {NoTurn} /\ aborted \in BOOLEAN /\ closing \in BOOLEAN
  /\ recovered_turn_id \in Keys \cup {NoTurn} /\ recovered_release \in BOOLEAN
  /\ failed_releases \subseteq Leases /\ on_finish \subseteq Leases
  /\ stopping \in BOOLEAN /\ stop_generation \in Nat
  /\ owner \in Actors \cup {NoActor} /\ references \in Nat
  /\ holder \in [Leases -> Actors \cup {NoActor}]
  /\ phase \in Phases /\ current \in Commands \cup {NoTurn} /\ drained \in Seq(Commands)
  /\ result \in {"none", "success", "failure"} /\ seal \in Statuses \cup {"none"}
  /\ pc \in [Commands -> CallPcs \cup {"done"}] /\ gen \in [Calls -> Nat]
  /\ command \in [Calls -> [turn : Keys \cup {NoTurn}, stored : BOOLEAN,
                            from : Actors \cup {NoActor}]]
  /\ handle \in [Calls -> Keys \cup {NoTurn}]
  /\ outcome \in [Calls -> Statuses \cup {"pending", "unacknowledged"}]
  /\ stop_pc \in [Stoppers -> {"idle", "waiting", "recovering", "woken", "done"}]
  /\ stop_gen \in [Stoppers -> Nat] /\ crashes \in 0 .. MaxCrashes

\* The occupation counts exactly the releases that have not run, all of one actor, and the
\* Session is free exactly when there is none (SessionOccupation.ts: a late release can
\* neither free a newer occupation nor be missing).
OccupationConsistent ==
  /\ references = Cardinality({l \in Leases : holder[l] # NoActor})
  /\ \A l \in Leases : holder[l] \in {NoActor, owner}
  /\ references = 0 <=> owner = NoActor

\* Somebody will run every outstanding release: the submission in progress, the finish of
\* the active Turn, the recovery of an unfinished Turn or the end of a later Turn.  A lease
\* that nobody holds would leave the Session busy for ever.
NoLeaseLost ==
  \A l \in Leases : holder[l] # NoActor =>
    \/ l \in Calls /\ pc[l] \in {"preparing", "sharing", "resolving", "blocked", "woken",
                                  "queued"}
    \/ l \in on_finish /\ active_turn # NoTurn
    \/ l \in failed_releases
    \/ l = Recovery /\ recovered_release

\* A Turn holds the input of one author only: while nobody knows what a Turn did, its leases keep
\* everybody else out (SessionLoop.ts:230).
OneAuthorPerTurn ==
  \A j, k \in Keys :
    message[j] # NoMessage /\ message[j].turn = message[k].turn => message[j].from = message[k].from

\* A request is stored once, however often and whenever it is submitted again.  The loop must
\* see to it: message_id is the primary key of the storage, a second insert fails and takes
\* the Turn of the retry with it.
StoredOnce == \A i, j \in DOMAIN history : history[i] = history[j] => i = j

\* A delegation result is only ever part of the Turn that delegated.
ResultStaysInItsTurn ==
  \A c \in Results : message[KeyOf[c]] # NoMessage => message[KeyOf[c]].turn = TargetOf[c]

\* has_pending_prompt tells the truth: the counter and the queue are updated in different
\* places, and the loop of execute_prompt_turn ends on the counter.
PendingCountExact ==
  pending_prompt_count =
    Cardinality(Cancelled(queue, Calls)) + Cardinality(Cancelled(drained, Calls))

\* What is queued will be seen, and by a Turn that may: it was admitted after the latest stop, and
\* between the last look at the queue and the end of the Turn no prompt gets into it.
QueuedIsCurrent ==
  /\ \A c \in Cancelled(queue, Calls) \ Results : gen[c] = stop_generation
  /\ Closing => Cancelled(queue, Calls) = {}

\* A caller is told what the completion journal says, also when stop, a late failure or a
\* restart comes between the executor and the handle.
SettledAsRecorded ==
  \A c \in Calls : outcome[c] \in Statuses => journal[handle[c]] = outcome[c]

\* The loop keeps the promise of the completion records: a Turn ends once, and what is recorded of
\* it is final, whatever retries, stops, failed acknowledgements and restarts follow.
Promise == INSTANCE CompletionJournal WITH
  Turns <- Keys, Results <- Statuses, NoResult <- "none", recorded <- journal,
  Recipients <- {}, told <- {}
KeepsPromise == Promise!Spec

\* Nobody waits for what does not come.  The active Turn has the loop, or a stop, to end it; a
\* submission that found the Turn closing, a handle and a stop wait for a Turn that is there; a retry
\* shares a submission that is still in progress; the loop is awake while anything is queued; and a
\* Session that is stopping has a latest stop that will open it again.  Each of these waits ends
\* with one promise of another function (SessionLoop.ts: deferred_finished, ensure_processing,
\* pending_request_handles, the finally of stop).
TurnServed ==
  active_turn # NoTurn => phase \in TurnPhases \/ \E s \in Stoppers : stop_pc[s] = "recovering"

FinishAwaited ==
  /\ \A c \in Calls : pc[c] \in {"waiting", "blocked"} => Closing
  /\ \A c \in Calls \ Results : pc[c] = "accepted" /\ outcome[c] = "pending" =>
       active_turn # NoTurn /\ handle[c] = active_turn

SharingServed == \A c \in Calls : pc[c] = "sharing" => PendingHandle(KeyOf[c]) # {}

QueueServed == \A c \in Commands : pc[c] = "queued" => phase # "idle"

StopsServed ==
  /\ \A s \in Stoppers : stop_pc[s] \in {"waiting", "recovering"} => active_turn # NoTurn /\ aborted
  /\ stopping => \E s \in Stoppers : /\ stop_pc[s] \in {"waiting", "recovering", "woken"}
                                     /\ stop_gen[s] = stop_generation

NobodyForgotten == TurnServed /\ FinishAwaited /\ SharingServed /\ QueueServed /\ StopsServed

\* Every submission is answered, and the handle of one that is accepted settles.
CallerAnswered ==
  /\ \A c \in Calls : pc[c] \in {"reading", "queued"} ~> pc[c] \in {"accepted", "rejected", "lost"}
  /\ \A c \in Calls \ Results : pc[c] = "accepted" ~> outcome[c] # "pending" \/ pc[c] = "lost"

\* Every stop returns, and after the last of them the Session is open again.
StopReturns ==
  /\ \A s \in Stoppers : stop_pc[s] # "idle" ~> stop_pc[s] = "done"
  /\ stopping ~> ~stopping
=============================================================================
