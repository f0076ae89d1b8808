----------------------------- MODULE AISettlement -----------------------------
(***************************************************************************)
(* The settlement of AI usage: AISettlementRuntime.ts,                     *)
(* AIUsageRepository.ts and the charge of CreditsService it makes.  Every  *)
(* execution leaves a job in the database; a call of process_settlement    *)
(* takes a lease on it, writes the usage record, charges the user and      *)
(* decides the job.  The call comes from the execution itself, from a      *)
(* message of the queue or from the periodic maintenance; several of them  *)
(* run at a time, in different processes, and each may die anywhere.       *)
(*                                                                         *)
(* A step is what a call does between two answers of the database.         *)
(***************************************************************************)
EXTENDS CreditsLedger

CONSTANTS
  Callers,       \* the calls that run at a time
  Usages,        \* the usage_ids; those in Charges have something to charge
  Tokens,        \* lease tokens
  Faults,        \* "database": a statement fails, before or after it has taken effect;
                 \* "crash": the process of a call stops
  MaxFaults,     \* how often they happen
  MaxEvents,     \* how often a lease expires while its holder goes on
  NoToken, NoUsage

ASSUME SettlementAssumption ==
  /\ Charges \subseteq Usages /\ NoUsage \notin Usages
  /\ NoToken \notin Tokens
  /\ Faults \subseteq {"database", "crash"}
  /\ MaxFaults \in Nat /\ MaxEvents \in Nat

VARIABLES
  \* the database
  job,         \* the job of a usage: its status, its lease, and whether its time has come
               \* (next_attempt_at or lease_expires_at has passed)
  recorded,    \* the usages with a usage record
  ledger, past,
  call,        \* a call: the await it is in, its usage, the job as it has read it, its lease,
               \* what it has read of the cards or takes from each, how it decides; the rest of the list
               \* of the maintenance
  faults, events

database == <<job, recorded, ledger, past>>
vars == <<database, call, faults, events>>

Fault(kind) == kind \in Faults /\ faults < MaxFaults /\ faults' = faults + 1

NoJob   == [status |-> "absent", token |-> NoToken, due |-> FALSE]
Unread  == -1
Unseen  == [c \in Cards |-> Unread]
Idle    == [at |-> "idle", usage |-> NoUsage, read |-> NoJob, token |-> NoToken, cards |-> Unseen,
            verdict |-> "none", todo |-> {}]

Init ==
  /\ job = [u \in Usages |-> NoJob] /\ recorded = {}
  /\ ledger = EmptyLedger /\ past = {}
  /\ call = [w \in Callers |-> Idle]
  /\ faults = 0 /\ events = 0

Decided(u) == job[u].status \in {"completed", "rejected"}

\* Mistake: a job whose lease has expired is left to its holder.
DueUnclaimed(u) == job[u].due /\ job[u].status \in {"pending", "retryable"}

\* What process_settlement takes on and list_due_settlements lists.
Due(u) == job[u].due /\ job[u].status \in {"pending", "retryable", "processing"}

Goto(w, at) == call' = [call EXCEPT ![w].at = at]

\* A call returns; the maintenance goes on with its list.
Return(w) ==
  call' = [call EXCEPT ![w] =
    IF @.todo = {} THEN Idle ELSE [Idle EXCEPT !.at = "next", !.todo = call[w].todo]]

\* A call throws, and so does the maintenance.
Throw(w) == call' = [call EXCEPT ![w] = Idle]

-----------------------------------------------------------------------------
\* Where calls come from.

Process(w, u) == call' = [call EXCEPT ![w] = [Idle EXCEPT !.at = "selecting", !.usage = u]]

\* settle_execution creates the job; the process may stop before it goes on with it.
SettleExecution(w, u) ==
  /\ call[w].at = "idle" /\ job[u] = NoJob
  /\ job' = [job EXCEPT ![u] = [status |-> "pending", token |-> NoToken, due |-> TRUE]]
  /\ Process(w, u)
  /\ UNCHANGED <<recorded, ledger, past, faults, events>>

\* The action settlement/process.  A job that is to be retried sends a message that calls it, but
\* the message may be lost, late or delivered twice: the call may come at any time, or never.
Deliver(w, u) ==
  /\ call[w].at = "idle" /\ job[u] # NoJob
  /\ Process(w, u)
  /\ UNCHANGED <<database, faults, events>>

\* recover_due_settlements
Maintain(w) ==
  /\ call[w].at = "idle" /\ \E u \in Usages : Due(u)
  /\ call' = [call EXCEPT ![w] = [Idle EXCEPT !.at = "next", !.todo = {u \in Usages : Due(u)}]]
  /\ UNCHANGED <<database, faults, events>>

MaintainNext(w) ==
  /\ call[w].at = "next"
  /\ \E u \in call[w].todo :
       call' = [call EXCEPT ![w].at = "selecting", ![w].usage = u, ![w].todo = @ \ {u}]
  /\ UNCHANGED <<database, faults, events>>

-----------------------------------------------------------------------------
\* process_settlement

Select(w) ==
  /\ call[w].at = "selecting"
  /\ LET u == call[w].usage IN
     IF Due(u) THEN call' = [call EXCEPT ![w].at = "claiming", ![w].read = job[u]] ELSE Return(w)
  /\ UNCHANGED <<database, faults, events>>

InUse == {job[u].token : u \in Usages} \cup {call[w].token : w \in Callers}
           \cup {call[w].read.token : w \in Callers}
FreshToken == CHOOSE t \in Tokens \ InUse : TRUE

Matches(w) ==
  LET current == job[call[w].usage] read == call[w].read
  IN  current.status = read.status /\ current.token = read.token

\* A new random token; Tokens is as many as are in use at a time, and one more.
Lease(w) ==
  /\ Tokens \ InUse # {}
  /\ job' = [job EXCEPT ![call[w].usage] = [status |-> "processing", token |-> FreshToken, due |-> FALSE]]

\* claim_job: the lease is taken if the job has the status and the lease it was read with.
Claim(w) ==
  /\ call[w].at = "claiming"
  /\ IF Matches(w)
     THEN /\ Lease(w)
          /\ call' = [call EXCEPT ![w].at = "recording", ![w].token = FreshToken, ![w].read = NoJob]
     ELSE Return(w) /\ UNCHANGED job
  /\ UNCHANGED <<recorded, ledger, past, faults, events>>

\* The usage record, and whether there is something to charge.
Record(w) ==
  /\ call[w].at = "recording"
  /\ recorded' = recorded \cup {call[w].usage}
  /\ Goto(w, IF call[w].usage \in Charges THEN "finding" ELSE "completing")
  /\ UNCHANGED <<job, ledger, past, faults, events>>

-----------------------------------------------------------------------------
\* charge

Applied(u) == ledger.tx[u] = "applied"
NotCharged(w, verdict) == call' = [call EXCEPT ![w].at = "failing", ![w].verdict = verdict, ![w].cards = Unseen]

Find(w) ==
  /\ call[w].at = "finding"
  /\ Goto(w, IF Applied(call[w].usage) THEN "completing" ELSE "allocating")
  /\ UNCHANGED <<database, faults, events>>

AllRead(w) == \A c \in Cards : call[w].cards[c] # Unread

\* allocate_cards reads both kinds of cards at the same time, read_available_credits the Primary
\* Card first; what has expired is deleted on the way.
ReadPrimary(w) ==
  /\ call[w].at \in {"allocating", "weighing"} /\ call[w].cards[Primary] = Unread
  /\ call' = [call EXCEPT ![w].cards[Primary] = ledger.credits[Primary]]
  /\ UNCHANGED <<database, faults, events>>

ReadEphemeral(w) ==
  /\ \/ call[w].at = "allocating"
     \/ call[w].at = "weighing" /\ call[w].cards[Primary] # Unread
  /\ \E c \in Cards \ {Primary} : call[w].cards[c] = Unread
  /\ ledger' = DeleteExpired(ledger, past)
  /\ call' = [call EXCEPT ![w].cards = [c \in Cards |->
       IF c = Primary THEN @[c] ELSE IF Live(ledger, past, c) THEN ledger.credits[c] ELSE 0]]
  /\ UNCHANGED <<job, recorded, past, faults, events>>

\* allocate_cards returns; without enough credits the answer is 402.
Allocate(w) ==
  /\ call[w].at = "allocating" /\ AllRead(w)
  /\ LET amount == Amount[call[w].usage]
         seen   == call[w].cards
     IN  IF Short(seen, amount) THEN NotCharged(w, "rejected")
         ELSE call' = [call EXCEPT ![w].at = "debiting", ![w].cards = Allocation(seen, amount)]
  /\ UNCHANGED <<database, faults, events>>

TakeCredits(w) == ledger' = ChargeBatch(ledger, call[w].usage, call[w].cards, past)

DebitCards(w) ==
  /\ call[w].at = "debiting"
  /\ TakeCredits(w)
  /\ call' = [call EXCEPT ![w].at = "verifying", ![w].cards = Unseen]
  /\ UNCHANGED <<job, recorded, past, faults, events>>

\* Mistake: the charge counts as made when its group of commands has run.
VerifyTrusts(w) ==
  /\ call[w].at = "verifying"
  /\ Goto(w, "completing")
  /\ UNCHANGED <<database, faults, events>>

Verify(w) ==
  /\ call[w].at = "verifying"
  /\ Goto(w, IF Applied(call[w].usage) THEN "completing" ELSE "weighing")
  /\ UNCHANGED <<database, faults, events>>

\* Without enough credits the answer is 402, otherwise 409: the cards have changed meanwhile.
Weigh(w) ==
  /\ call[w].at = "weighing" /\ AllRead(w)
  /\ NotCharged(w, IF Short(call[w].cards, Amount[call[w].usage]) THEN "rejected" ELSE "retryable")
  /\ UNCHANGED <<database, faults, events>>

-----------------------------------------------------------------------------
\* The decision.

\* Mistake: whoever finishes decides the job.
DecideAnyway(w, status) ==
  job' = [job EXCEPT ![call[w].usage] = [status |-> status, token |-> NoToken, due |-> FALSE]]

\* Only the call whose lease the job has decides it.
Decide(w, status) ==
  LET u == call[w].usage IN
  job' = [job EXCEPT ![u] =
    IF @.status = "processing" /\ @.token = call[w].token
    THEN [status |-> status, token |-> NoToken, due |-> FALSE] ELSE @]

Complete(w) ==
  /\ call[w].at = "completing"
  /\ Decide(w, "completed") /\ Return(w)
  /\ UNCHANGED <<recorded, ledger, past, faults, events>>

\* The error path of process_settlement.
Fail(w) ==
  /\ call[w].at = "failing"
  /\ Decide(w, call[w].verdict) /\ Return(w)
  /\ UNCHANGED <<recorded, ledger, past, faults, events>>

-----------------------------------------------------------------------------
\* What goes wrong.

\* A statement fails; inside the try the job is to be retried.
StatementFails(w) ==
  /\ call[w].at \notin {"idle", "next"} /\ Fault("database")
  /\ IF call[w].at \in {"selecting", "claiming", "failing"} THEN Throw(w) ELSE NotCharged(w, "retryable")
  /\ UNCHANGED <<database, events>>

\* It fails when it has taken effect.
AnswerLost(w) ==
  /\ Fault("database")
  /\ \/ call[w].at = "claiming" /\ Matches(w) /\ Lease(w) /\ Throw(w) /\ UNCHANGED ledger
     \/ /\ call[w].at = "debiting"
        /\ TakeCredits(w) /\ NotCharged(w, "retryable") /\ UNCHANGED job
     \/ /\ call[w].at = "completing"
        /\ Decide(w, "completed") /\ NotCharged(w, "retryable") /\ UNCHANGED ledger
  /\ UNCHANGED <<recorded, past, events>>

\* The process of a call stops.
Crash(w) ==
  /\ call[w].at # "idle" /\ Fault("crash")
  /\ Throw(w)
  /\ UNCHANGED <<database, events>>

-----------------------------------------------------------------------------
\* Time, and the rest of the wallet.

Held(u) == \E w \in Callers : call[w].usage = u /\ call[w].token = job[u].token

\* The time of a retry comes, or a lease expires; only a slow holder goes on after it.
Elapse(u) ==
  /\ job[u].status \in {"retryable", "processing"} /\ ~job[u].due
  /\ job' = [job EXCEPT ![u].due = TRUE]
  /\ IF job[u].status = "processing" /\ Held(u)
     THEN events < MaxEvents /\ events' = events + 1 ELSE UNCHANGED events
  /\ UNCHANGED <<recorded, ledger, past, call, faults>>

\* Cards expire in their order.
CardExpires(c) ==
  /\ c # Primary /\ c \notin past
  /\ \A e \in Cards : Expiry[e] < Expiry[c] => e \in past
  /\ past' = past \cup {c}
  /\ UNCHANGED <<job, recorded, ledger, call, faults, events>>

\* cleanup_expired_cards is a group of its own: the maintenance of the service runs it, and so does a
\* top-up some time before its own group.
CleanUp ==
  /\ ledger' = DeleteExpired(ledger, past)
  /\ UNCHANGED <<job, recorded, past, call, faults, events>>

\* A top-up, tried as often as its caller likes.
TopUp(t) ==
  /\ ledger' = TopUpBatch(ledger, t, past)
  /\ UNCHANGED <<job, recorded, past, call, faults, events>>

-----------------------------------------------------------------------------
Step(w) ==
  \/ MaintainNext(w) \/ Select(w) \/ Claim(w) \/ Record(w) \/ Find(w)
  \/ ReadPrimary(w) \/ ReadEphemeral(w) \/ Allocate(w) \/ DebitCards(w) \/ Verify(w) \/ Weigh(w)
  \/ Complete(w) \/ Fail(w)

Next ==
  \/ \E w \in Callers, u \in Usages : SettleExecution(w, u) \/ Deliver(w, u)
  \/ \E w \in Callers : Maintain(w) \/ Step(w) \/ StatementFails(w) \/ AnswerLost(w) \/ Crash(w)
  \/ \E u \in Usages : Elapse(u)
  \/ \E c \in Cards : CardExpires(c)
  \/ CleanUp \/ \E t \in TopUps : TopUp(t)

Spec == Init /\ [][Next]_vars

\* Calls go on, time passes, and the host calls the maintenance periodically.
Fairness ==
  /\ \A w \in Callers : WF_vars(Step(w))
  /\ \A u \in Usages : WF_vars(Elapse(u))
  /\ SF_vars(\E w \in Callers : Maintain(w))
FairSpec == Spec /\ Fairness

-----------------------------------------------------------------------------
Statuses == {"absent", "pending", "processing", "retryable", "completed", "rejected"}
Jobs == [status : Statuses, token : Tokens \cup {NoToken}, due : BOOLEAN]
Awaits == {"idle", "next", "selecting", "claiming", "recording", "finding", "allocating", "debiting",
           "verifying", "weighing", "completing", "failing"}
Ledgers ==
  [row : [Cards -> BOOLEAN], credits : [Cards -> Nat], marker : [Cards -> Keys \cup {NoTx}],
   tx : [Keys -> {"absent", "pending", "applied"}], entries : SUBSET [key : Keys, card : Cards, delta : Int]]
Calls ==
  [at : Awaits, usage : Usages \cup {NoUsage}, read : Jobs, token : Tokens \cup {NoToken},
   cards : [Cards -> Int], verdict : {"none", "rejected", "retryable"},
   todo : SUBSET Usages]

\* Every variable keeps the shape its table or field has.
TypeOK ==
  /\ job \in [Usages -> Jobs] /\ recorded \subseteq Usages
  /\ ledger \in Ledgers /\ past \subseteq Cards \ {Primary}
  /\ call \in [Callers -> Calls]
  /\ faults \in 0..MaxFaults /\ events \in 0..MaxEvents

Total(entries) == SumFunction([x \in entries |-> x.delta])
EntriesOf(k) == {x \in ledger.entries : x.key = k}

\* After every group of commands the card of a row holds what its entries add up to, the entries of a
\* transaction add up to it, and no transaction that was not applied has left anything behind
\* (service.ts:354-404): the commands that take back what a group could not finish take back all of it.
LedgerExact ==
  /\ \A c \in Cards : ledger.row[c] =>
       ledger.credits[c] = Total({x \in ledger.entries : x.card = c})
  /\ \A k \in Keys :
       \/ ledger.tx[k] = "absent" /\ EntriesOf(k) = {}
       \/ /\ ledger.tx[k] = "applied"
          /\ Total(EntriesOf(k)) = IF k \in Charges THEN -Amount[k] ELSE Amount[k]
  /\ \A c \in Cards : ledger.marker[c] = NoTx

\* A job that is completed has its usage record and, if there is something to charge, its charge
\* (AIUsageRepository.ts:95-112), whoever of the calls that worked on it has charged.
CompletedIsPaid ==
  \A u \in Usages : job[u].status = "completed" => u \in recorded /\ (u \in Charges => Applied(u))

\* A job that is rejected was not charged (AIUsageRepository.ts:114, :131: "rejected" stands for
\* insufficient credits).
RejectedIsUnpaid ==
  \A u \in Charges : job[u].status = "rejected" => ~Applied(u)

\* A job is decided once: a call that lost its lease cannot decide it again
\* (AIUsageRepository.ts:101, :122).
DecidedOnce == [][\A u \in Usages : Decided(u) => job'[u] = job[u]]_vars

\* The cards of the user, for all the calls that read them before others change them, are a
\* wallet: a usage is charged once, whole and within what is there, however often it is settled.
W == INSTANCE Wallet WITH
  balance <- Available(ledger, past),
  charged <- {u \in Charges : Applied(u)},
  funded  <- {t \in TopUps : ledger.tx[t] = "applied"}
KeepsWallet == W!Spec

\* A job that was created is decided, with or without the messages (AISettlementRuntime.ts:317).
\* Usages are those whose payload the repository can read and charge (AIUsageRepository.ts:96, 98);
\* one that it cannot is retried for ever.
EventuallyDecided == \A u \in Usages : job[u] # NoJob ~> Decided(u)
===============================================================================
