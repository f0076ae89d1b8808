# A formal model of Downcity's agent runtime

This directory holds TLA+ specifications of the stateful core of this repository, the TLC
configurations that model-check them, and proofs checked by TLAPS. The subjects are
`src/packages/agent` (how a Session admits prompts, runs Turns, asks the user, delegates work and
survives failures and restarts; how completed Turns are recorded and their recipients notified; how a
Group lets members answer) and the settlement of AI usage in `src/packages/federation` with the
credits service it charges. Paths below are relative to `src/packages/agent/src` unless they start
with `src/`.

    tlc -workers 2 -config loop_safety.cfg MCSessionAuthors     # model-check one configuration
    tlapm SessionLoopProofs.tla                                 # check the proofs of a module

## 1. The system

An Agent owns Sessions. Callers send prompts to a Session; a Session executes at most one Turn at a
time, in which a model is called and uses tools; a Turn's result is written to a completion record
before the Turn closes, and handlers registered by the host are told of it afterwards. A Turn may
delegate work to child Sessions and ask the user questions. Group Sessions dispatch one message to
several member Sessions. The federation services charge for the use of models.

| Part | State | Operations | Interacts with | What makes it correct |
|---|---|---|---|---|
| Session queue (`session/loop/SessionQueue.ts`) | FIFO of prompts and maintenance commands | enqueue, take, drain, drain maintenance, cancel | used by the loop only | order kept, nothing lost or repeated |
| Session loop (`session/loop/SessionLoop.ts`) | queue, active Turn, input window, occupation, recovered Turn, stop generation | prompt, accept_delegation_result, maintenance, checkpoint, stop | callers await submissions and handles; the executor calls checkpoints; storage, journal | one author per Turn, every lease returned, retries idempotent, nothing queued that nobody takes, callers told what is recorded |
| Occupation (`session/loop/SessionOccupation.ts`) | actor, number of leases | acquire, release | loop | counts exactly the leases still held |
| Turn completion (`session/loop/SessionTurnCompletion.ts`, `SessionCompletionJournal.ts`) | - | complete, fail, prepare | loop, completion records | the recorded result is final and is what everyone sees |
| Completion delivery (`agent/SessionCompletions.ts`) | record files, delivery operations, running handlers, scan, timer | prepare, commit, deliver, scan, suspend, resume | called by the loop; calls handlers of the host | delivered in the end, never two calls at once, nothing marked that was not handled |
| Delegations (`agent/SessionDelegations.ts`) | records of child work | submit, launch, run, cancel, resume | parent and child Session | a result reaches its Turn once, cancellation reaches all children |
| Interactions (`session/messages/SessionInteractions.ts`) | open questions, receipts of private answers, chain of operations | request, respond, submit, cancel all | tools, users, stop | one answer for tool, user and message; no question left open |
| Group Sessions (`group/GroupSession.ts`, `GroupDispatchRuntime.ts`) | pending messages and their checkpoint, revision, loop, rounds | prompt, dispatch round, supersede, stop, restore | member Sessions | only a current decision starts members, no input is lost, rounds end |
| Executor (`session/runner/SessionExecutor.ts`) | counters of the model loop | steps, retries, recoveries, context advances, last step | loop, model, tools, interactions | bounded, ends, sees every merged input |
| AI settlement (`src/packages/federation/src/service/ai`) | usage records, jobs, leases; the cards and transactions of the credits service | settle, process, maintain | database, credits service | each use is charged once and decided once |

Hard behaviours, by part (`PROJECT.json` lists them with their lines under `hazards`): submissions
of several callers interleave with the closing of a Turn and with stops; leases are handed between
four holders; a counter is kept beside the queue; the process can stop between storing a prompt and
recording its result, and between recording and delivering; writes can fail after taking effect;
handlers ignore timeouts; scans act on records they read earlier; operations of one work come from a
tool call, a timer, a scan and a closing Turn at once; answers, stops and new questions race; a prompt
arrives while the dispatch of a Group is deciding; a lease expires while its holder goes on charging.

## 2. Plan and status

| Step | Modules | Status |
|---|---|---|
| 1. Session queue and loop | `SessionQueue`, `SessionLoop`, `SessionAuthors`; proofs in `SessionQueueProofs`, `SessionLoopProofs`, `SessionLoopCallsProofs` | checked; safety and refinement proved |
| 2. Recording and delivery | `CompletionJournal` (abstract), `SessionCompletions`; `SessionCompletionsProofs` | checked; safety and refinement proved |
| 3. Delegated work | `DelegatedWork` (abstract), `SessionDelegations`; `SessionDelegationsProofs` | checked; safety and refinement proved |
| 4. Group dispatch | `GroupSession`; `GroupSessionProofs` | checked; safety proved |
| 5. Questions to the user | `SessionInteractions` | checked and proved within 6 |
| 6. Tool loop | `SessionExecutor`, composed with 5; `SessionExecutorProofs` | checked; safety proved |
| 7. AI settlement | `Wallet` (abstract), `CreditsLedger`, `AISettlement`; `AISettlementProofs` | checked; safety and refinement proved |

Every safety property of the runs that pass has a theorem, with every fault of its model. Liveness
stays with TLC.

## 3. Modules

A step of a model is what the code does between two awaits that perform I/O or wait for a callback.
Node.js runs such a stretch without interruption, so steps of different asynchronous functions
interleave exactly there. Continuations that only wait for an already settled promise run before
any I/O answers; in `SessionLoop` the guard `Quiet` gives them that priority.

Definitions introduced by a comment `Mistake:` are not part of the specification. Each is a variant
of the definition after it with a plausible programming error; substituted for that definition it
makes TLC find the property violated that guards against the error (`mutants` in `PROJECT.json`).

An MC module that explores several situations in one run has one variable that chooses the situation
in the initial state and never changes (`scenario`, `calm`, `faulty`, `restarts`, `talks`). It only
narrows what the component may do; the component's own module never sees it.

### SessionQueue, SessionQueueProofs
`SessionQueue.ts` as operators on sequences. The filters are written with `Keep`, defined by the
rank of the wanted positions instead of recursively, so that facts about it can be proved;
`MCSessionLoop` compares it with the library's `SelectSeq`. `restore_front` is not modelled: it runs
when a command throws out of `execute_command`, which no command does.

### SessionLoop, SessionAuthors, SessionLoopProofs, SessionLoopCallsProofs
The state follows the fields of the class: `queue`, `pending_prompt_count`, `active_turn` with
`aborted` and `closing` (`input_window_closed`), `recovered_turn_id`, `recovered_release`,
`failed_releases`, `stopping`, `stop_generation`; the occupation's `owner` and `references`, and
`holder`, which says for each release function whether it has run. `message` and `history` are the
canonical messages on disk, `journal` the completion records. The asynchronous functions in
progress are `phase`/`current`/`drained` (`process_loop` and what it calls), `pc`/`gen`/`command`
(each call of `prompt` or `accept_delegation_result`), and `stop_pc`/`stop_gen` (each `stop`).

| Action | Code |
|---|---|
| `InitializeOccupation` | `initialize_occupation`: an unfinished Turn in the history takes a lease for its author |
| `Prompt`, `Admit` | `submit_normalized_prompt`: lookup of the request_id, wait for a closing Turn, arbitration |
| `EnsureRunnable`, `ResumeSubmission`, `PromptWithIdentity` | `submit_prompt`, `prompt_with_identity`: shared retries, stop generation, joining the Turn of a stored message |
| `AcceptDelegationResult` | `accept_delegation_result` |
| `EnqueueMaintenance`, `TakeNext`, `ExecuteMaintenance` | `enqueue_command`, `process_loop` |
| `StartTurn`, `AbsorbDrained`, `DrainDone`, `Checkpoint` | `execute_prompt_command`, `persist_prompt_message`, the checkpoint callbacks of `create_turn_context` |
| `ExecutorReturns`, `ChildrenSettle`, `FixStatus`, `TurnThrows` | `execute_prompt_turn` |
| `PrepareCompletion`, `CompleteTurn`, `FailTurn` | `prepare_session_completion`, `complete_session_turn`, `fail_active_turn` |
| `StopBegin`, `StopRecovers`, `StopEnd` | `stop` |
| `Crash` | the process stops; what is on disk stays |

The executor is one asynchronous call that may drain input at checkpoints and returns success or
failure. Children of a Turn are the wait before it closes. Faults are switched on per configuration:
`not_runnable` (the Session's configuration rejects the prompt), `persist` (storing a message fails
or its caller has gone), `internal` (an exception inside the Turn), `journal` (the record is not
written), `late_journal` (it is written and a failure is reported all the same), `failure_journal`
(recording a failure fails). An exception may end a Turn in any of its phases; a stop whose cancellation
of questions rejects ends there, before the Turn has; a retry whose own preparation fails takes only
itself out, not the calls that share its submission.

What a call looks up before it is admitted (`SessionLoop.ts:336`, `357`-`365`, `965`, `968`) is read in
one step with its admission. The code awaits each lookup. What is not explored therefore: a Turn that is
resumed and recorded between two lookups of one retry, so that the late answer lets the retry be queued
although its Turn has a result by then.

`SessionAuthors` adds to `SessionLoop` one history variable, `unknown`: the Turns whose record was reported
as not written at an end of theirs. Of these the code does not know what they did, and it gives no
guarantee that survives (section 4, `loop_mixed_authors`). `KnownTurnHasOneAuthor` and `AcceptedIsStored`
are the promise to everybody else, under the same faults and beside such Turns.

### CompletionJournal
The abstract promise shared by the loop and the delivery: the result of a Turn is recorded once and
never changes, and recipients are told of recorded results only. `KeepsPromise` in `SessionLoop` maps
`recorded` to `journal` (nobody is told by the loop); in `SessionCompletions` it maps `recorded` to
the results in the files and `told` to the handlers that have returned.

### SessionCompletions, SessionCompletionsProofs
`record` are the files. `preparing`, `active`, `running` (`running_handlers`), `scanning`, `timer`
and `suspended` are the fields of the class. An operation in `active` has its own copy of the record,
as the code has, and so has a scan that has read a record and not yet acted on it (`scanning.read`),
and a commit between its read and its write (`seen`). `turn` says where each Turn is in its use of
`prepare` and `commit`; a Turn that had not closed before a restart may be executed again. `gone` are
recipients a restarted host does not register any more. `retry_at` is abstracted to `"due"` and
`"later"`, and `Elapse` is the passing of the backoff. `calls` and `done` record what happened outside:
handlers that run, handlers that have returned successfully. `Suspend` turns every wait for a handler
into a failed one in the same step, so the early return of `deliver` after a successful call under
suspension, which needs both in the same tick, does not occur.

### DelegatedWork, SessionDelegations, SessionDelegationsProofs
`SessionDelegations.ts`, and `SessionChildWorkLifecycle.ts` for the Turn that asks. `record` and
`closed` are files; `op` (`active`), `aborted` (`cancellations`), `scan`, `timer`, `suspended` are
fields; `tool`, `turn`, `inbox` and `child` are what the two Sessions do, in the terms of
`SessionLoop`: the Turn that asked takes results at its checkpoints only, and every prompt with the
request_id of a work joins one Turn. An operation goes through the awaits of `run`, `execute_work`,
`deliver` and `launch`'s `finally`; a cancellation (`cancel`) through list, save, stop and wait, with
and without suppressing the delivery. All records belong to one Turn. `KeepsPromise` maps the result
in the file, the inbox of the Turn, and whether the Turn goes on to `DelegatedWork`: one result, told at
most once, only while the Turn is open. The Turn that asked ends in two steps, because the code looks at
its works and closes afterwards (`"closing"`): a stop may cancel beside a Turn that has made its last
check (`StopCancels`), and the record of the end may fail (`ClosingFails`, `TurnUnrecorded`). A Turn with
the status `"failed"` was ended by `fail_active_turn`, whatever its record says; one whose failure was not
recorded is interrupted and may be taken up again (`again`), and then takes the results that were kept back.
Left out: `send` (two records that share the Session of a work), the recursion of stop over
grandchildren (each level is `cancel` and `stop` again), archive, failures of `cancel` itself,
of the reads of a scan (one of the timer is scheduled again) and of `resume` (which rejects to the host), and
scans that last longer than the second of the timer, which finds one running and does nothing.

### GroupSession, GroupSessionProofs
`GroupSession.ts` and `GroupDispatchRuntime.ts`. `pending` and its `checkpoint` on disk change in
mutations, which run one after the other (`chain`); a prompt, the loop and a stop wait for theirs by
counting the mutations ahead (`wait`). `revision` is `input_revision`, which the dispatch runtime's
generation follows. The loop reads a batch, asks the strategy, starts the members chosen and hands
over their replies. Ids of replies are reused once nobody knows them. Abstracted: of the history only
the pending ids remain; the Session of a member exists or not, which is left open; repeated paths are
left open once there has been a round; of a dispatch turn's records only the awaits they cause. When a
failure report of a member cannot be stored, the other members are no longer awaited, as in the code.
Left out: dispose, rename and titles, events, forwarding of interactions, two concurrent openings.

### SessionInteractions, SessionExecutor, SessionExecutorProofs
`SessionInteractions` are the questions of a Turn: `pending` (`pending_by_id`), the `message` that
shows them, the promise of the tool (`result`), `receipts` of private answers, and `chain`
(`mutation_chain`), whose first operation runs through the awaits of an answer or of `cancel_all`.
`SessionExecutor` extends it by one Turn of `run_tool_loop`: `turn` holds the locals of the loop and of
the functions it calls, `requests` counts what is sent to the model. Each await of `SessionExecutor.ts`,
`ContextRetry.ts`, `ModelRequestRunner.ts` and `ModelStepRunner.ts` is an action: checkpoint, input,
request, backoff, each tool, finishing the step, recovery from an incomplete response, the last step,
catch, advance. A Turn that answers in its last allowed step still gets the last step without tools
(`Leave`), as in the code. A tool asks at most one question at a time; a question that cannot be stored
marks its id `"refused"`. Left out: contents of messages and context, token usage, what a restart does
with a pending question, secrets, the approval mode.

### Wallet, CreditsLedger, AISettlement, AISettlementProofs
`AISettlement` are the jobs (`job`: status, lease token, whether its time has come), the usage records
and the calls of `process_settlement` with the copy of the job and the balances they read before they
act (`call`). A call comes from an execution, from a message (which may be lost, late or doubled, so it
may come at any time) or from the maintenance. `CreditsLedger` are the cards and transactions of one
user in the credits service, changed by groups of commands: each group is atomic, as the database runs
it, and is built command by command in the order of the code (insert the transaction, move the cards
under a marker, verify, apply or undo). A statement may fail before or after it has taken effect, a
lease expires under a live holder (`MaxEvents`), a process stops. `W!Spec` is the promise of `Wallet`:
charges whole, at most once, within what is there. Its `Expire` lets the balance shrink by any amount at
any time, as the cards of a user do; that no debit happens without a transaction is therefore said by
`LedgerExact`, not by `KeepsWallet`. The removal of expired cards is a group of its own
(`CleanUp`), run by the maintenance and before a top-up. `Usages` are those the runtime writes itself: their
payloads parse and can be charged. Others would stay retryable for ever
(`src/packages/federation/src/service/ai/AIUsageRepository.ts:96`), and `EventuallyDecided` does not speak of them. The
maintenance takes any job that is due, not the first 20 (`list_due`).
Left out: pricing, gifts and codes, other users, the provider of the payments.

## 4. What the configurations check

Every configuration sets `CHECK_DEADLOCK FALSE`: when all calls of an instance are made and answered
the system is idle, which is no error.

| Configuration | Instance | Shows |
|---|---|---|
| `loop_safety` | all six fault kinds; seven groups of calls, each on its own. With a stop: a prompt and its retry with a stolen request_id or with a guest, and a prompt with a delegation result delivered twice and maintenance. Without one: a prompt, its retry, an anonymous prompt and a guest. With a restart: a prompt, its retry and a guest; with a stop as well, the prompt and its retry, and the prompt and the guest | the occupation counts its leases and none is lost, nothing queued predates the latest stop, results stay in their Turn, the counter equals the queue, a request is stored once, a handle stands for a stored message, callers are told what is recorded, a Turn whose execution is known has one author; `KeepsPromise` |
| `loop_liveness` | two prompts with two overlapping stops, or with a stop and a restart; or a prompt, a delegation result, maintenance and a stop; or a prompt and its retry with a stop; with internal errors and failing records | nobody waits for what will not come, every submission is answered, handles settle, stops return, the Session opens again |
| `completions_delivery` | one Turn with a handler and a callback and one restart that may lose recipients; either two failures of the kinds the retry is meant for, or one of seven faults, a suspend or a spurious resume, slow scans | no handler is called twice at once; what the file calls delivered was handled; `KeepsPromise`; in the calm situation every recipient handles the record in the end |
| `delegations` | one work of a Turn that waits for it or not; one failure anywhere, one restart, stop of the work or suspension; the Turn may fail or be stopped before and after its last check, its end may go unrecorded, and it may be resumed | a Turn that ended left nothing to deliver; the file tells the truth about the delivery; cancelled results never enter; `KeepsPromise`; works are settled in the end |
| `settlement` | two calls, two usages on one wallet with a permanent and an expiring card and top-ups; or one usage with a fault and a lease that expires under its holder | the ledger adds up; completed is paid; decisions are final; `KeepsWallet`; every job is decided |
| `group` | two prompts, any number of stops; two members and a failing write, or one member and a crash | no input lost, none returns after a stop, all of it handled, the loop comes to rest |
| `executor` | two steps and a last one, two tools a step, two attempts, one recovery, one advanced context, a prompt; or the same without retries, with two questions, two answers and two stops | tool, user and message agree on an answer; bounded requests; the Turn ends or waits for a visible question |

Five configurations expect a violation; each shows a disagreement between the code and what a comment
in it says (`findings` in `PROJECT.json` quotes them): `loop_mixed_authors` (a Turn whose failure could
not be recorded is resumed by a retry while another author is let in), `completions_replay` (a scan calls recipients
that have acknowledged), `settlement_rejected` (a user is charged for a job that has been rejected),
`group_outdated` (a round starts without a prompt that is being saved), `executor_stop` (a tool asks
after stop has cancelled the questions, and the stop waits for ever).

Why these bounds are enough to be interesting: the conflicts of the loop are between two submissions
and one Turn that starts or closes, plus a third call that shares or steals the identity of one of
them; one restart separates "before" from "after", and a second finds the same disk. Two faults of the
delivery suffice for a timeout followed by a failing retry or a failing save. The operations of a work
conflict with each other and with its Turn, not with another work, whose records and signals are its
own. Two calls of the settlement are a holder and the one that takes over its lease; a third finds what
the second left; with credits of at most two and amounts of one and two a wallet can be too small, be
enough from one card, or need both. Two rounds and two members let a member answer a reply and be
superseded in between. A question is answered twice and stopped twice, so each pair of operations of
`chain` occurs in both orders. The bounds are `MaxCrashes`, `MaxFaults`, `MaxFailures`, `MaxHosted`,
`MaxEvents`, `MaxAnswers`, `MaxPrompts`, `MaxCalls`, the finite sets of tokens and reply ids (both are
reused), and `MaxCredits`/`MaxActive` of the ledger, which stand for the code's own limits on cards, as
`MaxRounds`, `MaxSteps`, `MaxRecoveries`, `MaxAttempts` and `MaxAdvances` stand for limits in the code.

`OneAuthorPerTurn` is what `session/loop/SessionLoop.ts:230` says: the occupation is kept when the end of a
Turn cannot be recorded, so that an unknown execution is not covered by a new actor. `loop_mixed_authors`
needs four calls, `internal` and `failure_journal`, neither stop nor restart, and 29 states: a retry finds
its Turn running and goes on without a lease (`:207`); the failure of that Turn cannot be recorded, and its
leases are kept (`:237`); another Turn of the same actor ends and releases them (`:236`); the retry is
queued and resumes the unfinished Turn while the Session is free, and a prompt of a second actor is admitted
and merged into it. `KnownTurnHasOneAuthor` says, of `loop_safety` and by proof, that only
Turns of this kind are concerned.
`EventuallyHandled` excepts runs in which a write failed: the code then waits for the next prompt.

### Fairness
Everywhere: weak fairness of what the runtime schedules (continuations after I/O), given that models,
members, handlers and storage answer; callers, stops, users, faults and restarts may never happen.
`SessionLoop`: initialization, the loop, each submission and each stop in progress.
`SessionCompletions`: also handlers returning, the timer and the backoff; the calm situation leaves out
the faults `read` (a record that cannot be read is passed over on purpose), `late_prepare` and `notify`
(the record then waits for the retry of the request or for a restart), suspension, and scans slower than
the timer of one second. `SessionDelegations`: the operations, the backoff, Turns that run end and, once
closing, succeed or fail, the timer; a suspended host owes nothing. `GroupSession`: prompts returning, mutations, the loop, stops,
members answering, and `Restore`: the host opens the Group again after a crash. `AISettlement`: each
call and the passing of leases and retry times, weakly; the maintenance strongly, because it is started
periodically (`src/packages/federation/src/service/ai/AISettlementRuntime.ts:317`) and only has to find a free call infinitely often; messages
are not assumed. `SessionExecutor`: the Turn, the chain of operations and stops; users need not answer,
which is why `EndsOrAsks` lets the Turn wait for a question that is visible and can be answered.

## 5. What is proved

All theorems hold for every value of the constants under the assumptions named in the modules:
`LoopAssumption`, `CompletionsAssumption`, `DelegationsAssumption`, `GroupAssumption`,
`InteractionAssumption`, `ExecutorAssumption`, `SettlementAssumption`, `LedgerAssumption`. Most of them
only say which constants are sets or numbers. Those that say something of the code: the request_id of an
anonymous prompt is its own, and that of a delegation result is made of the delegation, which one Turn
has asked for (`agent/SessionDelegations.ts:345`); a top-up that opens a card opens its own
(`src/packages/implementations/services/src/credits/service.ts:219`); cards expire at different times.
The theorems about `SessionLoop` and `SessionAuthors` assume nothing about `Faults`.

| Module | Theorem | Property |
|---|---|---|
| `SessionQueueProofs` | `KeepIsFilter` | `Keep` returns exactly the wanted commands in queue order |
| `SessionLoopProofs` | `LoopTyped`, `OccupationSafe` | `TypeOK`, `OccupationConsistent` |
| | `LoopKeepsPromise` | `SessionLoop` implements `CompletionJournal` |
| `SessionLoopCallsProofs` | `PromptsAreCounted`, `QueueIsCurrent` | `PendingCountExact`, `QueuedIsCurrent` |
| | `CallersToldTheRecord` | `SettledAsRecorded` |
| | `LeasesAreKept` | `NoLeaseLost` |
| | `RequestsAreStoredOnce`, `ResultsStayInTheirTurn` | `StoredOnce`, `ResultStaysInItsTurn` |
| | `TurnsHaveOneAuthor`, `AcceptedAreStored` | `KnownTurnHasOneAuthor`, `AcceptedIsStored`, of `AuthorSpec` |
| | `NobodyIsForgotten` | `NobodyForgotten` |
| `SessionCompletionsProofs` | `DeliveryTypes`, `CallsDoNotOverlap`, `DeliveredWasHandled` | `TypeOK`, `NoConcurrentCall`, `DeliveredIsDone` |
| | `FilesKeepPromise` | `SessionCompletions` implements `CompletionJournal` |
| `SessionDelegationsProofs` | `DelegationTypes`, `TurnsEndSettled`, `DeliveriesAreTrue` | `TypeOK`, `TurnEndsSettled`, `DeliveryIsTrue` |
| | `CancelledResultsStayOut` | `CancelledNeverEnters` |
| | `WorkKeepsPromise` | `SessionDelegations` implements `DelegatedWork` |
| `GroupSessionProofs` | `GroupTypes`, `ReturnedIsStored`, `StoppedStaysOut` | `TypeOK`, `NothingLost`, `NothingAfterStop` |
| `SessionExecutorProofs` | `ExecutorTypes`, `RequestsBounded`, `OneAnswer` | `TypeOK`, `BoundedRequests`, `AnswersAgree` |
| `AISettlementProofs` | `SettlementPaid`, `DecisionIsFinal` | `CompletedIsPaid`, `DecidedOnce` |
| | `SettlementTypes`, `LedgerAddsUp` | `TypeOK`, `LedgerExact` |
| | `CardsAreAWallet` | `AISettlement` implements `Wallet` |

**The loop.** `TypeOK` and `OccupationConsistent` are not inductive: from an arbitrary well-typed state
the loop could start a Turn from a command bound to no Turn, or close a Turn that does not exist, or two
holders could release one lease. `IInv` adds who may hold a lease before admission
(`UnleasedBeforeAdmission`), that the loop has an active Turn in every phase of a Turn and a status
when it records one (`LoopOwnsTurn`), that queued and drained prompts are bound (`CommandsBound`), that
a stop which fails a recovered Turn is alone with it (`StopOwnsRecovery`), and that the history lists
stored messages. There is one lemma per action, resting on lemmas about acquiring and releasing
leases, cancelling, accepting, and ending a Turn.
The refinement uses `LoopOwnsTurn` and `StopOwnsRecovery` to know that whatever is recorded is a
status of an existing Turn.

**The callers of the loop** rest on `IInv` and four arguments, which `CallsInv` puts together.
*The line* (`LineInv`): a command stands in one place, in the queue, in the batch being absorbed or with
the loop, so that counting commands and counting elements of sequences agree; and the window of a Turn is
closed before the loop looks at the queue for the last time. *What is told* (`ToldInv`): a caller is told
only after it was accepted and its Turn has a record, and a record is final. *The leases*: a submission that
lets go of its lease has released it or handed it on (`HandedOn`) to its Turn, to the recovery or to the
leases of a failed Turn, and each of these hands on in turn. *The store* (`StoreInv`): until the message of
a key is stored at most one submission is in charge of the key (`InCharge`), and whoever comes later finds
the message (`KnowsStored`).

**The authors.** `AuthorsInv` adds what keeps messages of two actors apart as long as it is known what
their Turns did. Only the end of the active Turn makes a Turn unknown (`Remembers`), and what is said of the
active Turn, of the one to be recovered (`Recovering`) and of the line is said of those that are known. A
submission that is queued stands in the line, in the queue, in the batch being absorbed or with the loop
(`Standing`). A prompt in progress holds a lease, unless its Turn was lost while it looked it up (`Astray`);
an active Turn, and one that is to be recovered, hold a lease; a queued prompt is of the actor whose lease
it holds (`OwnLeases`, `TurnLeases`, `LineLeases`, together `LeaseInv`). So the Session changes hands only when
nothing that is known depends on its owner (`Free`, `OwnerStays`). A Turn without a record that is known is
the last of the history and is active or to be recovered (`RecordInv`), and while a Turn is to be recovered
a submission whose message is stored belongs to that Turn or to one without a record (`SubmissionInv`). A
Turn is known by its first message (`TurnStored`), what is active, recovered or in the line is the owner's
(`OwnerInv`), and a stored prompt in the line goes to the Turn it is part of (`LineBound`). None of these
survives a step alone. Instead of a proof per action and conjunct, each action is shown to be of one of a few
kinds: it leaves the active Turn, opens, reopens or settles it (`Stays`, `Opens`, `Reopens`, `Settles` within
`Onward`), or moves one submission along (`GoesTo`, `GetsInLine`); the invariant is then carried over each
kind once. Initialization and the crash are cases of their own.

**Nobody is forgotten.** `NobodyForgotten` is what liveness rests on and holds without fairness, with every
fault: whoever waits, waits for something that is in progress. An active Turn is served by the loop, or
by the one stop that fails it (`TurnServed`, `StopsServed`): the loop takes a command only when
no Turn is active, because nobody stands in line while a stop fails a recovered Turn. A call or a handle
begins to wait only for the Turn that is active after its step, and ending a Turn wakes all who
wait (`FinishAwaited`). Calls that joined a submission end with it, because it is answered together with
all of them (`SharingServed`). A command that waits stands in the line, and the loop sleeps only when the line is empty
(`QueueServed`): the enqueue and the end of `process_loop` never miss each other. `ServedInv` combines
these with `LineInv`, `StoreInv` and `Standing`. That what is in progress ends is left to fairness, and to TLC.

**The delivery.** `DeliveryInv` adds to the types that the calls in progress are exactly those counted as
running (`CallsCounted`), that whoever works for a Turn finds its record (`RecordedFirst`), and that every copy of a record, in an operation, a scan or a commit, is true (`CopiesTrue`): its result is the one
in the file and what it calls delivered was handled. An old copy that is saved over a newer one may
therefore repeat a call, which is the finding `completions_replay`, but cannot invent one.

**Delegated work.** `DelegationInv` relates each step of an operation to the record, the result and the
inbox of the Turn (`AllOperated`), says that tool calls, scans and cancellations find the record they
work on (`RecordedFirst`), that results are suppressed only once the Turn takes no more of them (`CancelsWhileClosing`), and what is
already settled at each step of closing (`Closing`). A check for a result may be outdated only within the Turn
that made it, or in one that is taken up again. The refinement maps each step to one of one work, or of the Turn.

**The Group.** `GroupInv` says who waits for each mutation of the chain and that only the first has begun
(`Entries`, `Ordered`), that a saved prompt which nobody has handled or dropped is pending in memory and on
disk (`Stored`), what is left after a crash (`Down`), and where members and replies are at each await of the
loop, so that the round after the last one starts nobody (`InRound`).

**The settlement.** First, every group of commands of the ledger keeps the transactions that are
applied (`ChargeKeeps`, `TopUpKeeps`). `IInv` then says what a call knows at each await: that it has
recorded the usage before it charges, and that the usage is paid for when it comes to complete the job.
Leases do not occur in it: that a completed job is paid for does not depend on them, only the converse
does, which is what the finding `settlement_rejected` is about. Decisions are final because every
update of a job is conditional on its status or on a token that a decided job no longer has.

**The ledger.** `LedgerInv` says that what a card holds is the sum of its entries, that a card other than
the primary one has entries only if a top-up that opened it is applied, and that a transaction which is
absent has left no trace. A group of commands either applies its transaction on all cards it names
(`Applies`) or changes nothing (`Same`), whatever has changed since the call read the balances: the
markers and the verification of the code are what this rests on. `SettleInv` adds the types of the calls.
How a charge is divided over the cards is one more sum: what is taken from the cards that expire before one
and what it can give add up to the amount. For `KeepsWallet` the live cards are summed: a group moves the
balance by the amount of its charge or top-up, or not at all, and what expires is lost. Sums are folds of the
community modules; where a fact about all sets of cards is needed, a smallest set that contradicts it is
taken instead of an induction (`SumUnfolds`).

**The executor.** `RequestInv` pays for requests with steps: `advances * Budget + steps * MaxAttempts +
attempt` bounds what was sent (`Spent`), a finished step pays for its attempts (`StepPays`), a run that
is given up for its whole budget (`RunPays`); `Within` is what keeps a run in its budget at each await.

**The questions.** `AnswersAgree` is not inductive: it does not say that an operation which has stored
an answer is still the one that resolves the promise. `AnswerInv` adds that only the first operation of
the chain has begun (`Serial`), that what it has stored is what the message says and its question still
waits (`Fits`), that a waiting question has no result and a question shown as pending waits (`Waiting`),
and that a question being stored is neither answered nor cancelled (`Asking`). That the first of the
questions exists needs the least member of a set of naturals, which `SessionQueueProofs` gets from ranks.

Only model-checked: all liveness, since fairness and ENABLED are outside the prover's reach. So is
induction over data with an operator parameter; `Keep` is characterised by positions and sums by counterexamples for that reason.

## 6. What is not modelled

Within the loop: history imported by a fork or without an author, Sessions without completion records,
Powers a caller grants to a prompt, abort signals except as a submission or a write that fails, events
for the UI, contents of messages and titles. Within the delivery: contents of events, so that an older
copy of an event replacing a newer one is not visible; attempt counts; the length of the backoff;
`settle`, which only waits. Storage is assumed atomic and durable per call. What the other modules leave
out is said with them in section 3.

Hazards that the models do not cover, besides those with a note in `PROJECT.json`:
`initialize_occupation` keeps its promise when it rejects, so one failed read leaves the Session unusable
until the process restarts (`session/loop/SessionLoop.ts:260`); a record
that could not be read once does not count as pending (`agent/SessionCompletions.ts:236`), a resume while
Turns close may let a scan find a record before its commit (`:88`), and a prepared record without
recipients keeps the timer polling after a restart (`:231`); a cancellation
whose signal an ending operation forgets before it is saved lets the next operation prompt the stopped work,
which is stopped when its handle is recorded (`agent/SessionDelegations.ts:199`, `307`), against what `:255`
and `:265` say; the model contains this, and no property forbids it; a work
whose Session cannot be prepared is left pending without a timer although its tool call has failed
(`agent/SessionDelegations.ts:94`); a Group whose write failed waits for the next prompt
(`group/GroupSession.ts:282`).

Outside: AI image jobs (a provider's polling protocol; their settlement is the one modelled here),
facades and wiring (`Agent.ts`, `Session.ts`), SQL and file storage, transports, shells and workspaces,
the hosted services other than the settlement, powers and other implementations, the CLI and the user
interfaces: mostly I/O around external systems, rendering or plain data, without state whose
interleavings a model would add to what is here.
