-------------------------- MODULE AISettlementProofs --------------------------
(***************************************************************************)
(* For any number of calls, usages and cards, and any faults: a job that   *)
(* is completed was paid, and a job that is decided stays as it is; the    *)
(* tables of the Credits add up; and they implement the wallet.            *)
(*                                                                         *)
(* None of it needs the leases.  A call that completes a job has seen the  *)
(* transaction applied, a transaction that is applied stays applied, and   *)
(* an update of a job finds only a job that is being processed.  A group   *)
(* of commands either applies its transaction, and then on every card it   *)
(* names, or leaves the tables as it found them, whatever the calls that   *)
(* prepared it have read.                                                  *)
(***************************************************************************)
EXTENDS AISettlement, FiniteSetTheorems, TLAPS

-----------------------------------------------------------------------------
\* The ledger: what is applied stays applied.

LedgerShape(d) ==
  /\ DOMAIN d = {"row", "credits", "marker", "tx", "entries"}
  /\ DOMAIN d.tx = Keys

Keeps(d, next) ==
  LedgerShape(next) /\ \A k \in Keys : d.tx[k] = "applied" => next.tx[k] = "applied"

\* Keeping is transitive.
LEMMA KeepsTransitive ==
  ASSUME NEW a, NEW b, NEW c, Keeps(a, b), Keeps(b, c)
  PROVE  Keeps(a, c)
BY DEF Keeps

\* A key gets a transaction only if it has none.
LEMMA InsertKeeps ==
  ASSUME NEW d, NEW k \in Keys, LedgerShape(d)
  PROVE  Keeps(d, InsertTransaction(d, k))
BY DEF Keeps, LedgerShape, InsertTransaction

\* A change of the cards is no change of the transactions.
LEMMA MoveKeeps ==
  ASSUME NEW d, NEW k, NEW delta, NEW hit, LedgerShape(d)
  PROVE  Keeps(d, Move(d, k, delta, hit))
BY DEF Keeps, LedgerShape, Move

\* What follows the change of the cards touches the transaction only while it is pending.
LEMMA ConcludeKeeps ==
  ASSUME NEW d, NEW k \in Keys, NEW delta, LedgerShape(d)
  PROVE  Keeps(d, Conclude(d, k, delta))
<1>1. \A x : LedgerShape(x) => Keeps(x, ClearMarkers(x, k))
  BY DEF Keeps, LedgerShape, ClearMarkers
<1>2. Pending(d, k) => Keeps(d, Apply(d, k, delta))
  BY DEF Keeps, LedgerShape, Apply, Pending
<1>3. Pending(d, k) => Keeps(d, Undo(d, k, delta))
  BY DEF Keeps, LedgerShape, Undo, Pending
<1>4. QED
  BY <1>1, <1>2, <1>3 DEF Conclude, Keeps

\* Deleting cards that have expired keeps every transaction.
LEMMA DeleteKeeps ==
  ASSUME NEW d, LedgerShape(d)
  PROVE  Keeps(d, DeleteExpired(d, past))
BY DEF Keeps, LedgerShape, DeleteExpired

\* A group of commands that charges keeps what was applied before it.
LEMMA ChargeKeeps ==
  ASSUME NEW d, NEW k \in Keys, NEW allocation, LedgerShape(d)
  PROVE  Keeps(d, ChargeBatch(d, k, allocation, past))
<1> DEFINE delta  == [c \in {c \in Cards : allocation[c] > 0} |-> -allocation[c]]
           begun  == InsertTransaction(d, k)
           taken  == Debit(begun, k, delta, past)
<1>1. Keeps(d, begun)
  BY InsertKeeps
<1>2. Keeps(begun, taken)
  BY <1>1, MoveKeeps DEF Debit, Keeps
<1>3. Keeps(taken, Conclude(taken, k, delta))
  BY <1>2, ConcludeKeeps DEF Keeps
<1>4. QED
  BY <1>1, <1>2, <1>3, KeepsTransitive DEF ChargeBatch

\* So does a group that tops up or creates a card.
LEMMA TopUpKeeps ==
  ASSUME NEW d, NEW k \in Keys, LedgerShape(d)
  PROVE  Keeps(d, TopUpBatch(d, k, past))
<1> DEFINE delta == [c \in {CardOf[k]} |-> Amount[k]]
           clean == IF k \in Opens THEN DeleteExpired(d, past) ELSE d
           begun == InsertTransaction(clean, k)
<1>0. Keeps(d, clean) /\ LedgerShape(clean)
  BY DeleteKeeps DEF Keeps
<1>1. Keeps(d, clean) /\ Keeps(clean, begun)
  BY <1>0, InsertKeeps
<1>2. \A x : Keeps(begun, x) => Keeps(d, Conclude(x, k, delta))
  BY <1>1, ConcludeKeeps, KeepsTransitive DEF Keeps
<1>3. Keeps(begun, Credit(begun, k, delta, past))
  BY <1>1, MoveKeeps DEF Credit, Keeps
<1>4. Keeps(begun, CreateCard(begun, k, delta, past))
  <2> DEFINE opened == [begun EXCEPT !.row[CardOf[k]] = TRUE]
  <2>1. Keeps(begun, opened)
    BY <1>1 DEF Keeps, LedgerShape
  <2>2. Keeps(opened, Move(opened, k, delta, {CardOf[k]}))
    <3>1. LedgerShape(opened)
      BY <2>1 DEF Keeps
    <3>2. QED
      BY ONLY <3>1, MoveKeeps
  <2>3. Keeps(begun, begun)
    BY <1>1 DEF Keeps
  <2>4. QED
    BY <2>1, <2>2, <2>3, KeepsTransitive DEF CreateCard
<1>5. QED
  BY <1>2, <1>3, <1>4 DEF TopUpBatch

-----------------------------------------------------------------------------
\* The inductive invariant.

JobShape ==
  /\ DOMAIN job = Usages
  /\ \A u \in Usages : DOMAIN job[u] = {"status", "token", "due"}

CallShape ==
  /\ DOMAIN call = Callers
  /\ \A w \in Callers : DOMAIN call[w] = {"at", "usage", "read", "token", "cards", "verdict", "todo"}

Paid(u) == u \in recorded /\ (u \in Charges => Applied(u))

\* What a call knows at its await.
CallTrue(w) ==
  /\ call[w].todo \subseteq Usages
  /\ call[w].at \notin {"idle", "next"} => call[w].usage \in Usages
  /\ call[w].at = "claiming" => call[w].read.status \in {"pending", "retryable", "processing"}
  /\ call[w].at \in {"finding", "allocating", "debiting", "verifying", "weighing"} =>
       call[w].usage \in recorded \cap Charges
  /\ call[w].at = "completing" => Paid(call[w].usage)
  /\ call[w].at = "failing" => call[w].verdict \in {"rejected", "retryable"}

IInv ==
  /\ JobShape /\ CallShape /\ LedgerShape(ledger)
  /\ \A w \in Callers : CallTrue(w)
  /\ CompletedIsPaid

\* The invariant holds at first.
LEMMA InitHolds == Init => IInv
BY SettlementAssumption
   DEF Init, IInv, JobShape, CallShape, LedgerShape, CallTrue, CompletedIsPaid, NoJob, Idle, EmptyLedger

\* Usage records and applied transactions stay.
Grows == recorded \subseteq recorded' /\ Keeps(ledger, ledger')

\* What is paid stays paid.
LEMMA PaidStays ==
  ASSUME IInv, Grows, NEW u \in Usages, Paid(u)
  PROVE  Paid(u)'
BY SettlementAssumption DEF Grows, Keeps, Paid, Applied, Keys

\* What another call knows stays true.
LEMMA OtherCallsStay ==
  ASSUME IInv, Grows, NEW w \in Callers, call'[w] = call[w]
  PROVE  CallTrue(w)'
<1>1. call[w].at = "completing" => Paid(call[w].usage)'
  BY PaidStays DEF IInv, CallTrue
<1>2. recorded \cap Charges \subseteq recorded' \cap Charges
  BY DEF Grows
<1>3. QED
  BY <1>1, <1>2 DEF IInv, CallTrue, Paid, Applied

\* A step of one call: what is left to show.
LEMMA StepHolds ==
  ASSUME IInv, Grows, JobShape', CallShape',
         NEW w \in Callers, \A v \in Callers \ {w} : call'[v] = call[v], CallTrue(w)',
         \A u \in Usages : job'[u].status = "completed" => job[u].status = "completed" \/ Paid(u)'
  PROVE  IInv'
<1>1. \A v \in Callers : CallTrue(v)'
  BY OtherCallsStay
<1>2. CompletedIsPaid'
  BY PaidStays DEF IInv, CompletedIsPaid, Paid, Applied
<1>3. QED
  BY <1>1, <1>2 DEF IInv, Grows, Keeps

-----------------------------------------------------------------------------
\* The steps of one call.

\* A ledger that does not change keeps what is applied.
LEMMA LedgerStays == ASSUME IInv, ledger' = ledger PROVE Keeps(ledger, ledger')
BY DEF IInv, Keeps

\* A call that goes on or ends without a statement that changes a table.
LEMMA ReadHolds ==
  ASSUME IInv, UNCHANGED database, NEW w \in Callers, CallShape', CallTrue(w)',
         \A v \in Callers \ {w} : call'[v] = call[v]
  PROVE  IInv'
<1>1. Grows /\ JobShape'
  BY LedgerStays DEF Grows, database, IInv, JobShape
<1>2. QED
  BY <1>1, StepHolds DEF database

\* A call of process_settlement knows its usage.
LEMMA ProcessHolds ==
  ASSUME IInv, NEW w \in Callers, NEW u \in Usages, Process(w, u)
  PROVE  CallShape' /\ CallTrue(w)' /\ \A v \in Callers \ {w} : call'[v] = call[v]
BY DEF IInv, Process, CallShape, CallTrue, Idle

\* A call that returns or throws knows nothing but its list.
LEMMA ReturnHolds ==
  ASSUME IInv, NEW w \in Callers, Return(w) \/ Throw(w)
  PROVE  CallShape' /\ CallTrue(w)' /\ \A v \in Callers \ {w} : call'[v] = call[v]
<1>1. call'[w].at \in {"idle", "next"} /\ call'[w].todo \subseteq call[w].todo
  <2>1. \/ call'[w] = Idle
        \/ call'[w] = [Idle EXCEPT !.at = "next", !.todo = call[w].todo]
    BY DEF IInv, Return, Throw, CallShape
  <2>2. CASE call'[w] = Idle
    BY ONLY <2>2 DEF Idle
  <2>3. CASE call'[w] = [Idle EXCEPT !.at = "next", !.todo = call[w].todo]
    BY ONLY <2>3 DEF Idle
  <2>4. QED
    BY <2>1, <2>2, <2>3
<1>2. call[w].todo \subseteq Usages
  BY DEF IInv, CallTrue
<1>3. CallTrue(w)'
  BY ONLY <1>1, <1>2 DEF CallTrue
<1>4. CallShape' /\ \A v \in Callers \ {w} : call'[v] = call[v]
  BY DEF IInv, Return, Throw, CallShape, Idle
<1>5. QED
  BY <1>3, <1>4

\* A call that could not charge knows how it is to decide.
LEMMA NotChargedHolds ==
  ASSUME IInv, NEW w \in Callers, NEW verdict \in {"rejected", "retryable"}, NotCharged(w, verdict),
         call[w].usage \in Usages
  PROVE  CallShape' /\ CallTrue(w)' /\ \A v \in Callers \ {w} : call'[v] = call[v]
<1>1. CallShape' /\ \A v \in Callers \ {w} : call'[v] = call[v]
  BY DEF IInv, NotCharged, CallShape
<1>2. /\ call'[w].at = "failing" /\ call'[w].verdict = verdict
      /\ call'[w].usage = call[w].usage /\ call'[w].todo = call[w].todo
  BY DEF IInv, NotCharged, CallShape
<1>3. call[w].todo \subseteq Usages
  BY DEF IInv, CallTrue
<1>4. CallTrue(w)'
  BY ONLY <1>2, <1>3, call[w].usage \in Usages, verdict \in {"rejected", "retryable"} DEF CallTrue
<1>5. QED
  BY <1>1, <1>4

\* The invariant is kept when a call is delivered.
LEMMA DeliverHolds == ASSUME IInv, NEW w \in Callers, NEW u \in Usages, Deliver(w, u) PROVE IInv'
BY ProcessHolds, ReadHolds DEF Deliver

\* It is kept by the maintenance.
LEMMA MaintainHolds ==
  ASSUME IInv, NEW w \in Callers, Maintain(w) \/ MaintainNext(w)
  PROVE  IInv'
<1>1. CallShape' /\ \A v \in Callers \ {w} : call'[v] = call[v]
  BY DEF IInv, CallShape, Maintain, MaintainNext, Idle
<1>2. CASE Maintain(w)
  <2>1. CallTrue(w)'
    BY <1>2 DEF IInv, CallShape, CallTrue, Maintain, Idle
  <2>2. QED
    BY <1>1, <1>2, <2>1, ReadHolds DEF Maintain
<1>3. CASE MaintainNext(w)
  <2>1. PICK u \in call[w].todo :
          call' = [call EXCEPT ![w].at = "selecting", ![w].usage = u, ![w].todo = @ \ {u}]
    BY <1>3 DEF MaintainNext
  <2>2. call'[w].at = "selecting" /\ call'[w].usage = u /\ call'[w].todo = call[w].todo \ {u}
    BY <2>1 DEF IInv, CallShape
  <2>3. call[w].todo \subseteq Usages
    BY DEF IInv, CallTrue
  <2>4. CallTrue(w)'
    BY ONLY <2>2, <2>3, u \in call[w].todo DEF CallTrue
  <2>5. QED
    BY <1>1, <1>3, <2>4, ReadHolds DEF MaintainNext
<1>4. QED
  BY <1>2, <1>3

\* A job that is created is not completed.
LEMMA SettleExecutionHolds ==
  ASSUME IInv, NEW w \in Callers, NEW u \in Usages, SettleExecution(w, u)
  PROVE  IInv'
<1>1. JobShape' /\ Grows
  BY LedgerStays DEF IInv, JobShape, SettleExecution, Grows
<1>2. \A v \in Usages : job'[v].status = "completed" => job[v].status = "completed"
  BY DEF IInv, JobShape, SettleExecution
<1>3. QED
  BY <1>1, <1>2, ProcessHolds, StepHolds DEF SettleExecution

\* A call that takes a job on has read it undecided.
LEMMA SelectHolds == ASSUME IInv, NEW w \in Callers, Select(w) PROVE IInv'
<1>1. CASE Due(call[w].usage)
  <2>1. CallShape' /\ \A v \in Callers \ {w} : call'[v] = call[v]
    BY <1>1 DEF IInv, CallShape, Select
  <2>2. CallTrue(w)'
    BY <1>1 DEF IInv, CallShape, CallTrue, Select, Due
  <2>3. QED
    BY <2>1, <2>2, ReadHolds DEF Select
<1>2. CASE ~Due(call[w].usage)
  BY <1>2, ReturnHolds, ReadHolds DEF Select
<1>3. QED
  BY <1>1, <1>2

\* A lease completes no job.
LEMMA LeaseHolds ==
  ASSUME IInv, NEW w \in Callers, call[w].usage \in Usages, Lease(w)
  PROVE  JobShape' /\ \A u \in Usages : job'[u].status = "completed" => job[u].status = "completed"
BY DEF IInv, JobShape, Lease

\* The invariant is kept when a job is claimed.
LEMMA ClaimHolds == ASSUME IInv, NEW w \in Callers, Claim(w) PROVE IInv'
<1>1. Grows /\ call[w].usage \in Usages
  BY LedgerStays DEF IInv, CallTrue, Claim, Grows
<1>2. CASE Matches(w)
  <2>1. CallShape' /\ CallTrue(w)' /\ \A v \in Callers \ {w} : call'[v] = call[v]
    BY <1>1, <1>2 DEF IInv, CallShape, CallTrue, Claim
  <2>2. QED
    BY <1>1, <1>2, <2>1, LeaseHolds, StepHolds DEF Claim
<1>3. CASE ~Matches(w)
  BY <1>1, <1>3, ReturnHolds, ReadHolds DEF Claim, database
<1>4. QED
  BY <1>2, <1>3

\* A usage that goes on has its record.
LEMMA RecordHolds == ASSUME IInv, NEW w \in Callers, Record(w) PROVE IInv'
<1>1. Grows /\ JobShape'
  BY LedgerStays DEF IInv, JobShape, Record, Grows
<1>2. CallShape' /\ \A v \in Callers \ {w} : call'[v] = call[v]
  BY DEF IInv, CallShape, Record, Goto
<1>3. CallTrue(w)'
  BY DEF IInv, CallShape, CallTrue, Record, Goto, Paid
<1>4. QED
  BY <1>1, <1>2, <1>3, StepHolds DEF Record

\* The steps of a charge that change no table but, perhaps, delete cards that have expired.
LEMMA ChargeReadHolds ==
  ASSUME IInv, NEW w \in Callers,
         Find(w) \/ ReadPrimary(w) \/ ReadEphemeral(w) \/ Allocate(w) \/ Verify(w) \/ Weigh(w)
  PROVE  IInv'
<1>1. Grows /\ JobShape'
  BY LedgerStays, DeleteKeeps
     DEF IInv, JobShape, Find, ReadPrimary, ReadEphemeral, Allocate, Verify, Weigh, database, Grows
<1>2. CallShape' /\ \A v \in Callers \ {w} : call'[v] = call[v]
  BY DEF IInv, CallShape, Find, ReadPrimary, ReadEphemeral, Allocate, Verify, Weigh, Goto, NotCharged
<1>3. CallTrue(w)'
  <2>1. CASE Find(w) \/ Verify(w)
    BY <2>1 DEF IInv, CallShape, CallTrue, Find, Verify, Goto, Paid, Applied, database
  <2>2. CASE ReadPrimary(w) \/ ReadEphemeral(w)
    BY <2>2 DEF IInv, CallShape, CallTrue, ReadPrimary, ReadEphemeral, database
  <2>3. CASE Allocate(w) \/ Weigh(w)
    BY <2>3 DEF IInv, CallShape, CallTrue, Allocate, Weigh, NotCharged, database
  <2>4. QED
    BY <2>1, <2>2, <2>3
<1>4. QED
  BY <1>1, <1>2, <1>3, StepHolds
     DEF Find, ReadPrimary, ReadEphemeral, Allocate, Verify, Weigh, database

\* The charge of a call keeps what is applied.
LEMMA TakeKeeps ==
  ASSUME IInv, NEW w \in Callers, call[w].at = "debiting", TakeCredits(w)
  PROVE  Keeps(ledger, ledger')
BY ChargeKeeps DEF IInv, CallTrue, TakeCredits, Keys

\* The invariant is kept when the charge is sent.
LEMMA DebitHolds == ASSUME IInv, NEW w \in Callers, DebitCards(w) PROVE IInv'
<1>1. Grows /\ JobShape'
  BY TakeKeeps DEF IInv, JobShape, DebitCards, Grows
<1>2. CallShape' /\ \A v \in Callers \ {w} : call'[v] = call[v]
  BY DEF IInv, CallShape, DebitCards
<1>3. CallTrue(w)'
  BY DEF IInv, CallShape, CallTrue, DebitCards
<1>4. QED
  BY <1>1, <1>2, <1>3, StepHolds DEF DebitCards

\* A call decides its job as completed only if the usage is paid.
LEMMA DecideHolds ==
  ASSUME IInv, NEW w \in Callers, NEW status, call[w].usage \in Usages, Decide(w, status),
         status = "completed" => Paid(call[w].usage)
  PROVE  /\ JobShape'
         /\ \A u \in Usages : job'[u].status = "completed" => job[u].status = "completed" \/ Paid(u)
BY DEF IInv, JobShape, Decide

\* A call completes only what it has paid.
LEMMA CompleteHolds == ASSUME IInv, NEW w \in Callers, Complete(w) PROVE IInv'
<1>1. Grows /\ call[w].usage \in Usages /\ Paid(call[w].usage)
  BY LedgerStays DEF IInv, CallTrue, Complete, Grows
<1>2. \A u \in Usages : Paid(u) => Paid(u)'
  BY <1>1, PaidStays
<1>3. QED
  BY <1>1, <1>2, DecideHolds, ReturnHolds, StepHolds DEF Complete

\* A call that fails does not complete its job.
LEMMA FailHolds == ASSUME IInv, NEW w \in Callers, Fail(w) PROVE IInv'
<1>1. Grows /\ call[w].usage \in Usages /\ call[w].verdict # "completed"
  BY LedgerStays DEF IInv, CallTrue, Fail, Grows
<1>2. \A u \in Usages : Paid(u) => Paid(u)'
  BY <1>1, PaidStays
<1>3. QED
  BY <1>1, <1>2, DecideHolds, ReturnHolds, StepHolds DEF Fail

-----------------------------------------------------------------------------
\* What goes wrong, time and the rest of the wallet.

\* A statement that fails makes a call give up or fail.
LEMMA StatementFailsHolds == ASSUME IInv, NEW w \in Callers, StatementFails(w) PROVE IInv'
<1>1. call[w].usage \in Usages /\ UNCHANGED database
  BY DEF IInv, CallTrue, StatementFails
<1>2. Throw(w) \/ NotCharged(w, "retryable")
  BY DEF StatementFails
<1>3. QED
  BY <1>1, <1>2, ReturnHolds, NotChargedHolds, ReadHolds

\* A statement whose answer is lost has kept the invariant too.
LEMMA AnswerLostHolds == ASSUME IInv, NEW w \in Callers, AnswerLost(w) PROVE IInv'
<1>1. call[w].usage \in Usages /\ UNCHANGED <<recorded, past>>
  BY DEF IInv, CallTrue, AnswerLost
<1>2. CASE call[w].at = "claiming" /\ Lease(w) /\ Throw(w) /\ UNCHANGED ledger
  <2>1. Grows
    BY <1>1, <1>2, LedgerStays DEF Grows
  <2>2. QED
    BY <1>1, <1>2, <2>1, LeaseHolds, ReturnHolds, StepHolds
<1>3. CASE call[w].at = "debiting" /\ TakeCredits(w) /\ NotCharged(w, "retryable") /\ UNCHANGED job
  <2>1. Grows /\ JobShape'
    BY <1>1, <1>3, TakeKeeps DEF Grows, IInv, JobShape
  <2>2. QED
    BY <1>1, <1>3, <2>1, NotChargedHolds, StepHolds
<1>4. CASE /\ call[w].at = "completing" /\ Decide(w, "completed")
           /\ NotCharged(w, "retryable") /\ UNCHANGED ledger
  <2>1. Grows /\ Paid(call[w].usage)
    BY <1>1, <1>4, LedgerStays DEF Grows, IInv, CallTrue
  <2>2. \A u \in Usages : Paid(u) => Paid(u)'
    BY <2>1, PaidStays
  <2>3. QED
    BY <1>1, <1>4, <2>1, <2>2, DecideHolds, NotChargedHolds, StepHolds
<1>5. QED
  BY <1>2, <1>3, <1>4 DEF AnswerLost

\* A call that stops knows nothing.
LEMMA CrashHolds == ASSUME IInv, NEW w \in Callers, Crash(w) PROVE IInv'
BY ReturnHolds, ReadHolds DEF Crash

\* A step that no call takes.
LEMMA NoCallHolds ==
  ASSUME IInv, Grows, JobShape', UNCHANGED call,
         \A u \in Usages : job'[u].status = job[u].status
  PROVE  IInv'
<1>1. CallShape' /\ \A w \in Callers : CallTrue(w)'
  BY OtherCallsStay DEF IInv, CallShape
<1>2. CompletedIsPaid'
  BY PaidStays DEF IInv, CompletedIsPaid, Paid, Applied
<1>3. QED
  BY <1>1, <1>2 DEF IInv, Grows, Keeps

\* Time changes no status.
LEMMA ElapseHolds == ASSUME IInv, NEW u \in Usages, Elapse(u) PROVE IInv'
<1>1. Grows
  BY LedgerStays DEF Elapse, Grows
<1>2. JobShape' /\ \A v \in Usages : job'[v].status = job[v].status
  BY DEF IInv, JobShape, Elapse
<1>3. QED
  BY <1>1, <1>2, NoCallHolds DEF Elapse

\* Cards that expire or are deleted and top-ups keep what is applied.
LEMMA WalletHolds ==
  ASSUME IInv, (\E c \in Cards : CardExpires(c)) \/ CleanUp \/ (\E t \in TopUps : TopUp(t))
  PROVE  IInv'
<1>1. UNCHANGED <<job, recorded, call>>
  BY DEF CardExpires, CleanUp, TopUp
<1>2. CASE \E c \in Cards : CardExpires(c)
  <2>1. Grows
    BY <1>1, <1>2, LedgerStays DEF CardExpires, Grows
  <2>2. QED
    BY <1>1, <2>1, NoCallHolds DEF IInv, JobShape
<1>3. CASE \E t \in TopUps : TopUp(t)
  <2>1. Keeps(ledger, ledger')
    BY <1>3, TopUpKeeps DEF TopUp, IInv, Keys
  <2>2. QED
    BY <1>1, <2>1, NoCallHolds DEF IInv, JobShape, Grows
<1>4. CASE CleanUp
  <2>1. Keeps(ledger, ledger')
    BY <1>4, DeleteKeeps DEF CleanUp, IInv
  <2>2. QED
    BY <1>1, <2>1, NoCallHolds DEF IInv, JobShape, Grows
<1>5. QED
  BY <1>2, <1>3, <1>4

\* A step of nobody keeps the invariant.
LEMMA StutterHolds == ASSUME IInv, UNCHANGED vars PROVE IInv'
<1>1. Grows /\ JobShape'
  BY LedgerStays DEF vars, database, Grows, IInv, JobShape
<1>2. QED
  BY <1>1, NoCallHolds DEF vars, database

\* Every step keeps the invariant.
LEMMA NextHolds == IInv /\ [Next]_vars => IInv'
<1> SUFFICES ASSUME IInv, [Next]_vars PROVE IInv'
  OBVIOUS
<1>1. CASE \E w \in Callers, u \in Usages : SettleExecution(w, u) \/ Deliver(w, u)
  BY <1>1, SettleExecutionHolds, DeliverHolds
<1>2. CASE \E w \in Callers : Maintain(w) \/ Step(w) \/ StatementFails(w) \/ AnswerLost(w) \/ Crash(w)
  <2>1. PICK w \in Callers : Maintain(w) \/ Step(w) \/ StatementFails(w) \/ AnswerLost(w) \/ Crash(w)
    BY <1>2
  <2>2. CASE Step(w)
    BY <2>2, MaintainHolds, SelectHolds, ClaimHolds, RecordHolds, ChargeReadHolds, DebitHolds,
       CompleteHolds, FailHolds DEF Step
  <2>3. QED
    BY <2>1, <2>2, MaintainHolds, StatementFailsHolds, AnswerLostHolds, CrashHolds
<1>3. CASE \E u \in Usages : Elapse(u)
  BY <1>3, ElapseHolds
<1>4. CASE (\E c \in Cards : CardExpires(c)) \/ CleanUp \/ (\E t \in TopUps : TopUp(t))
  BY <1>4, WalletHolds
<1>5. CASE UNCHANGED vars
  BY <1>5, StutterHolds
<1>6. QED
  BY <1>1, <1>2, <1>3, <1>4, <1>5 DEF Next

-----------------------------------------------------------------------------
\* The inductive invariant holds in every behaviour, whatever fails.
THEOREM SettlementInvariant == Spec => []IInv
BY InitHolds, NextHolds, PTL DEF Spec

\* A completed job has its usage record and its charge (process_settlement and the statements of
\* AIUsageRepository).
THEOREM SettlementPaid == Spec => []CompletedIsPaid
<1>1. IInv => CompletedIsPaid
  BY DEF IInv
<1>2. QED
  BY <1>1, SettlementInvariant, PTL

-----------------------------------------------------------------------------
\* A decision is final.

\* claim_job takes no job that is decided: it takes the job as it was read.
LEMMA LeaseSpares ==
  ASSUME IInv, NEW w \in Callers, call[w].at = "claiming", Matches(w), Lease(w),
         NEW u \in Usages, Decided(u)
  PROVE  job'[u] = job[u]
<1>1. call[w].usage # u
  BY DEF IInv, CallTrue, Matches, Decided
<1>2. QED
  BY <1>1 DEF Lease, IInv, JobShape

\* An update of a job finds no job that is decided.
LEMMA DecideSpares ==
  ASSUME IInv, NEW w \in Callers, NEW status, Decide(w, status), NEW u \in Usages, Decided(u)
  PROVE  job'[u] = job[u]
BY DEF Decide, IInv, JobShape, Decided

\* No step of a call changes a decided job.
LEMMA StepSpares ==
  ASSUME IInv, NEW w \in Callers,
         Maintain(w) \/ Step(w) \/ StatementFails(w) \/ AnswerLost(w) \/ Crash(w),
         NEW u \in Usages, Decided(u)
  PROVE  job'[u] = job[u]
<1>1. CASE Claim(w)
  BY <1>1, LeaseSpares DEF Claim
<1>2. CASE Complete(w) \/ Fail(w)
  BY <1>2, DecideSpares DEF Complete, Fail
<1>3. CASE AnswerLost(w)
  BY <1>3, LeaseSpares, DecideSpares DEF AnswerLost
<1>4. CASE MaintainNext(w) \/ Select(w) \/ Record(w) \/ Find(w) \/ ReadPrimary(w) \/ ReadEphemeral(w)
  BY <1>4 DEF MaintainNext, Select, Record, Find, ReadPrimary, ReadEphemeral, database
<1>5. CASE Allocate(w) \/ DebitCards(w) \/ Verify(w) \/ Weigh(w)
  BY <1>5 DEF Allocate, DebitCards, Verify, Weigh, database
<1>6. CASE Maintain(w) \/ StatementFails(w) \/ Crash(w)
  BY <1>6 DEF Maintain, StatementFails, Crash, database
<1>7. QED
  BY <1>1, <1>2, <1>3, <1>4, <1>5, <1>6 DEF Step

\* No step changes a decided job.
LEMMA NextSpares ==
  ASSUME IInv, [Next]_vars, NEW u \in Usages, Decided(u)
  PROVE  job'[u] = job[u]
<1>1. CASE \E w \in Callers, v \in Usages : SettleExecution(w, v) \/ Deliver(w, v)
  <2>1. job[u] # NoJob
    BY DEF Decided, NoJob
  <2>2. QED
    BY <1>1, <2>1 DEF SettleExecution, Deliver, database, IInv, JobShape
<1>2. CASE \E w \in Callers : Maintain(w) \/ Step(w) \/ StatementFails(w) \/ AnswerLost(w) \/ Crash(w)
  BY <1>2, StepSpares
<1>3. CASE \E v \in Usages : Elapse(v)
  <2>1. PICK v \in Usages : Elapse(v)
    BY <1>3
  <2>2. v # u
    BY <2>1 DEF Elapse, Decided
  <2>3. QED
    BY <2>1, <2>2 DEF Elapse, IInv, JobShape
<1>4. CASE (\E c \in Cards : CardExpires(c)) \/ CleanUp \/ (\E t \in TopUps : TopUp(t)) \/ UNCHANGED vars
  BY <1>4 DEF CardExpires, CleanUp, TopUp, vars, database
<1>5. QED
  BY <1>1, <1>2, <1>3, <1>4 DEF Next

\* No step changes a job that is decided: neither a call that lost its lease nor one that reads
\* the job too late (claim_job and the guarded updates of AIUsageRepository).
THEOREM DecisionIsFinal == Spec => DecidedOnce
<1>1. IInv /\ [Next]_vars => [\A u \in Usages : Decided(u) => job'[u] = job[u]]_vars
  BY NextSpares
<1>2. QED
  BY <1>1, SettlementInvariant, PTL DEF Spec, DecidedOnce

-----------------------------------------------------------------------------
\* Sums: what SumFunctionOnSet of the community modules comes to, by the smallest set for which it would not.

\* Among subsets of a finite set there is one that has no smaller one among them.
LEMMA SmallestSet ==
  ASSUME NEW S, IsFiniteSet(S), NEW T, T \subseteq SUBSET S, T # {}
  PROVE  \E x \in T : \A y \in T : y \subseteq x => y = x
<1>1. IsWellFoundedOn(StrictSubsetOrdering(S), SUBSET S)
  BY FS_StrictSubsetOrderingWellFounded, FS_FiniteSubsetsOfFinite
<1>2. PICK x \in T : \A y \in T : ~ (<<y, x>> \in StrictSubsetOrdering(S))
  BY <1>1, WFMin
<1>3. ASSUME NEW y \in T, y \subseteq x PROVE y = x
  <2>1. y \in SUBSET S /\ x \in SUBSET S
    OBVIOUS
  <2>2. y # x => <<y, x>> \in StrictSubsetOrdering(S)
    BY <1>3, <2>1 DEF StrictSubsetOrdering
  <2> QED
    BY <1>2, <2>2
<1> QED
  BY <1>3

Adds(f, S, g) ==
  g = [s \in SUBSET S |-> IF s = {} THEN 0 ELSE LET x == CHOOSE x \in s : TRUE IN f[x] + g[s \ {x}]]

\* A sum is given by a function that adds one element at a time.
LEMMA SumAdds ==
  ASSUME NEW f, NEW S
  PROVE SumFunctionOnSet(f, S) = (CHOOSE g : Adds(f, S, g))[S]
BY DEF SumFunctionOnSet, FoldFunctionOnSet, MapThenFoldSet, Adds

\* One step of a sum.
SumStep(f, v, s) == IF s = {} THEN 0 ELSE f[CHOOSE x \in s : TRUE] + v[s \ {CHOOSE x \in s : TRUE}]

\* Such a function is what it takes a step to be.
LEMMA AddsStep ==
  ASSUME NEW f, NEW S, NEW g
  PROVE  Adds(f, S, g) <=> g = [s \in SUBSET S |-> SumStep(f, g, s)]
BY DEF Adds, SumStep

\* There is only one such function.
LEMMA AddsUnique ==
  ASSUME NEW f, NEW S, IsFiniteSet(S), NEW g, NEW h, Adds(f, S, g), Adds(f, S, h)
  PROVE  \A s \in SUBSET S : g[s] = h[s]
<1> DEFINE T == {s \in SUBSET S : g[s] # h[s]}
<1> SUFFICES ASSUME T # {} PROVE FALSE
  OBVIOUS
<1>0. T \subseteq SUBSET S
  OBVIOUS
<1>1. PICK s \in T : \A r \in T : r \subseteq s => r = s
  <2> HIDE DEF T
  <2> QED
    BY <1>0, SmallestSet
<1>2. g[s] = SumStep(f, g, s) /\ h[s] = SumStep(f, h, s)
  BY AddsStep
<1>3. s # {}
  BY <1>2 DEF SumStep
<1>4. PICK x \in s : x = CHOOSE y \in s : TRUE
  BY <1>3
<1>5. g[s \ {x}] = h[s \ {x}]
  <2>1. s \ {x} \in SUBSET S /\ s \ {x} \subseteq s /\ s \ {x} # s
    BY <1>4
  <2> QED
    BY <1>1, <2>1
<1> QED
  BY <1>2, <1>3, <1>4, <1>5 DEF SumStep

\* The sums themselves are one: there is such a function.
LEMMA SumUnfolds ==
  ASSUME NEW f, NEW S, IsFiniteSet(S)
  PROVE  Adds(f, S, [s \in SUBSET S |-> SumFunctionOnSet(f, s)])
<1> DEFINE v == [s \in SUBSET S |-> SumFunctionOnSet(f, s)]
           T == {s \in SUBSET S : v[s] # SumStep(f, v, s)}
<1> SUFFICES ASSUME T # {} PROVE FALSE
  BY AddsStep
<1>0. T \subseteq SUBSET S
  OBVIOUS
<1>1. PICK s \in T : \A r \in T : r \subseteq s => r = s
  <2> HIDE DEF T
  <2> QED
    BY <1>0, SmallestSet
<1>2. s \in SUBSET S /\ IsFiniteSet(s) /\ v[s] # SumStep(f, v, s)
  BY FS_Subset
<1>3. \A r \in SUBSET s : r # s => v[r] = SumStep(f, v, r)
  BY <1>1, <1>2
<1>4. \A r \in SUBSET s : r # {} => (CHOOSE y \in r : TRUE) \in r
  OBVIOUS
<1> HIDE DEF v, T
<1> DEFINE h == [r \in SUBSET s |-> IF r = s THEN SumStep(f, v, s) ELSE v[r]]
<1>5. \A r \in SUBSET s : h[r] = SumStep(f, h, r)
  <2> SUFFICES ASSUME NEW r \in SUBSET s PROVE h[r] = SumStep(f, h, r)
    OBVIOUS
  <2>1. SumStep(f, h, r) = SumStep(f, v, r)
    <3>1. CASE r = {}
      BY <3>1 DEF SumStep
    <3>2. CASE r # {}
      <4>1. PICK x \in r : x = CHOOSE y \in r : TRUE
        BY <1>4, <3>2
      <4>2. r \ {x} \in SUBSET s /\ r \ {x} # s
        BY <4>1
      <4>3. h[r \ {x}] = v[r \ {x}]
        BY <4>2
      <4> QED
        BY <3>2, <4>1, <4>3 DEF SumStep
    <3> QED
      BY <3>1, <3>2
  <2> QED
    BY <1>3, <2>1
<1>6. Adds(f, s, h)
  BY <1>5, AddsStep
<1>7. Adds(f, s, CHOOSE g : Adds(f, s, g))
  BY <1>6
<1>8. (CHOOSE g : Adds(f, s, g))[s] = h[s]
  BY <1>2, <1>6, <1>7, AddsUnique
<1>9. v[s] = (CHOOSE g : Adds(f, s, g))[s]
  BY <1>2, SumAdds DEF v
<1> QED
  BY <1>2, <1>8, <1>9

\* A sum over all but one, and that one.
LEMMA SumOfNone ==
  ASSUME NEW f
  PROVE  SumFunctionOnSet(f, {}) = 0
<1> DEFINE v == [s \in SUBSET {} |-> SumFunctionOnSet(f, s)]
<1>1. v = [s \in SUBSET {} |-> SumStep(f, v, s)]
  BY FS_EmptySet, SumUnfolds, AddsStep
<1>2. v[{}] = SumFunctionOnSet(f, {})
  OBVIOUS
<1> HIDE DEF v
<1>3. v[{}] = SumStep(f, v, {})
  BY <1>1
<1> QED
  BY <1>2, <1>3 DEF SumStep

\* The first element of a sum, as CHOOSE gives it.
LEMMA SumFirst ==
  ASSUME NEW f, NEW S, IsFiniteSet(S), S # {}
  PROVE  LET a == CHOOSE x \in S : TRUE
         IN  a \in S /\ SumFunctionOnSet(f, S) = f[a] + SumFunctionOnSet(f, S \ {a})
<1> DEFINE a == CHOOSE x \in S : TRUE
           v == [s \in SUBSET S |-> SumFunctionOnSet(f, s)]
<1>1. a \in S
  OBVIOUS
<1> HIDE DEF v
<1>2. v = [s \in SUBSET S |-> SumStep(f, v, s)]
  BY SumUnfolds, AddsStep DEF v
<1>3. v[S] = SumStep(f, v, S)
  BY <1>2
<1>4. v[S \ {a}] = SumFunctionOnSet(f, S \ {a}) /\ v[S] = SumFunctionOnSet(f, S)
  BY DEF v
<1> QED
  BY <1>1, <1>3, <1>4 DEF SumStep

Summable(f, s) ==
  /\ SumFunctionOnSet(f, s) \in Int
  /\ \A x \in s : SumFunctionOnSet(f, s) = f[x] + SumFunctionOnSet(f, s \ {x})

\* A sum of integers is one, and any element may be taken out of it.
LEMMA SumPeels ==
  ASSUME NEW S, IsFiniteSet(S), NEW f, \A x \in S : f[x] \in Int
  PROVE  Summable(f, S)
<1> DEFINE T == {s \in SUBSET S : ~Summable(f, s)}
<1> SUFFICES ASSUME T # {} PROVE FALSE
  OBVIOUS
<1>0. T \subseteq SUBSET S
  OBVIOUS
<1>1. PICK s \in T : \A r \in T : r \subseteq s => r = s
  <2> HIDE DEF T
  <2> QED
    BY <1>0, SmallestSet
<1>2. s \subseteq S /\ IsFiniteSet(s) /\ ~Summable(f, s)
  BY FS_Subset
<1>3. \A r \in SUBSET s : r # s => Summable(f, r)
  BY <1>1, <1>2
<1> HIDE DEF T
<1>4. s # {}
  BY <1>2, SumOfNone DEF Summable
<1> DEFINE a == CHOOSE x \in s : TRUE
<1>5. a \in s /\ SumFunctionOnSet(f, s) = f[a] + SumFunctionOnSet(f, s \ {a})
  BY <1>2, <1>4, SumFirst
<1> HIDE DEF a
<1>6. SumFunctionOnSet(f, s \ {a}) \in Int /\ f[a] \in Int
  BY <1>2, <1>3, <1>5 DEF Summable
<1>7. ASSUME NEW x \in s, x # a PROVE SumFunctionOnSet(f, s) = f[x] + SumFunctionOnSet(f, s \ {x})
  <2> DEFINE rest == SumFunctionOnSet(f, (s \ {a}) \ {x})
  <2>1. SumFunctionOnSet(f, s \ {a}) = f[x] + rest
    <3>1. s \ {a} \in SUBSET s /\ s \ {a} # s /\ x \in s \ {a}
      BY <1>5, <1>7
    <3> QED
      BY <1>3, <3>1 DEF Summable
  <2>2. SumFunctionOnSet(f, s \ {x}) = f[a] + rest
    <3>1. s \ {x} \in SUBSET s /\ s \ {x} # s /\ a \in s \ {x}
      BY <1>5, <1>7
    <3>2. (s \ {x}) \ {a} = (s \ {a}) \ {x}
      OBVIOUS
    <3> QED
      BY <1>3, <3>1, <3>2 DEF Summable
  <2>3. rest \in Int /\ f[x] \in Int
    <3>1. (s \ {a}) \ {x} \in SUBSET s /\ (s \ {a}) \ {x} # s
      BY <1>5
    <3> QED
      BY <1>2, <1>3, <3>1 DEF Summable
  <2> HIDE DEF rest
  <2> QED
    BY <1>5, <1>6, <2>1, <2>2, <2>3
<1>8. SumFunctionOnSet(f, s) \in Int
  BY <1>5, <1>6
<1> QED
  BY <1>2, <1>5, <1>7, <1>8 DEF Summable

\* Equal summands, equal sums.
LEMMA SumAgrees ==
  ASSUME NEW S, IsFiniteSet(S), NEW f, NEW g, \A x \in S : f[x] \in Int /\ g[x] = f[x]
  PROVE  SumFunctionOnSet(g, S) = SumFunctionOnSet(f, S)
<1> DEFINE T == {s \in SUBSET S : SumFunctionOnSet(g, s) # SumFunctionOnSet(f, s)}
<1> SUFFICES ASSUME T # {} PROVE FALSE
  OBVIOUS
<1>0. T \subseteq SUBSET S
  OBVIOUS
<1>1. PICK s \in T : \A r \in T : r \subseteq s => r = s
  <2> HIDE DEF T
  <2> QED
    BY <1>0, SmallestSet
<1>2. s \subseteq S /\ IsFiniteSet(s) /\ SumFunctionOnSet(g, s) # SumFunctionOnSet(f, s)
  BY FS_Subset
<1>3. PICK x \in s : TRUE
  BY <1>2, SumOfNone
<1>4. SumFunctionOnSet(g, s \ {x}) = SumFunctionOnSet(f, s \ {x})
  BY <1>1, <1>2
<1>5. Summable(f, s) /\ Summable(g, s)
  BY <1>2, SumPeels
<1> QED
  BY <1>2, <1>4, <1>5 DEF Summable

\* The sum of a sum of two.
LEMMA SumShifts ==
  ASSUME NEW S, IsFiniteSet(S), NEW f, NEW d, NEW g,
         \A x \in S : f[x] \in Int /\ d[x] \in Int /\ g[x] = f[x] + d[x]
  PROVE  SumFunctionOnSet(g, S) = SumFunctionOnSet(f, S) + SumFunctionOnSet(d, S)
<1> DEFINE T == {s \in SUBSET S : SumFunctionOnSet(g, s) # SumFunctionOnSet(f, s) + SumFunctionOnSet(d, s)}
<1> SUFFICES ASSUME T # {} PROVE FALSE
  OBVIOUS
<1>0. T \subseteq SUBSET S
  OBVIOUS
<1>1. PICK s \in T : \A r \in T : r \subseteq s => r = s
  <2> HIDE DEF T
  <2> QED
    BY <1>0, SmallestSet
<1>2. /\ s \subseteq S /\ IsFiniteSet(s)
      /\ SumFunctionOnSet(g, s) # SumFunctionOnSet(f, s) + SumFunctionOnSet(d, s)
  BY FS_Subset
<1>3. PICK x \in s : TRUE
  <2>1. s # {}
    <3> SUFFICES ASSUME s = {} PROVE FALSE
      OBVIOUS
    <3>1. SumFunctionOnSet(f, s) = 0 /\ SumFunctionOnSet(d, s) = 0 /\ SumFunctionOnSet(g, s) = 0
      BY SumOfNone
    <3>2. 0 = 0 + 0
      OBVIOUS
    <3> HIDE DEF T
    <3> QED
      BY ONLY <1>2, <3>1, <3>2, Zenon
  <2> QED
    BY <2>1
<1>4. SumFunctionOnSet(g, s \ {x}) = SumFunctionOnSet(f, s \ {x}) + SumFunctionOnSet(d, s \ {x})
  BY <1>1, <1>2
<1>5. Summable(f, s) /\ Summable(g, s) /\ Summable(d, s)
  BY <1>2, SumPeels
<1>6. Summable(f, s \ {x}) /\ Summable(d, s \ {x})
  <2>1. IsFiniteSet(s \ {x}) /\ s \ {x} \subseteq S
    BY <1>2, FS_RemoveElement
  <2> HIDE DEF T
  <2> QED
    BY <2>1, SumPeels
<1>7. f[x] \in Int /\ d[x] \in Int /\ g[x] = f[x] + d[x]
  BY <1>2
<1> HIDE DEF T
<1> DEFINE fs == SumFunctionOnSet(f, s)
           ds == SumFunctionOnSet(d, s)
           gs == SumFunctionOnSet(g, s)
           fr == SumFunctionOnSet(f, s \ {x})
           dr == SumFunctionOnSet(d, s \ {x})
<1>8. gs = g[x] + (fr + dr) /\ fs = f[x] + fr /\ ds = d[x] + dr /\ fr \in Int /\ dr \in Int
  BY <1>4, <1>5, <1>6 DEF Summable
<1>9. gs # fs + ds
  BY <1>2
<1> HIDE DEF fs, ds, gs, fr, dr
<1> QED
  BY <1>7, <1>8, <1>9

\* A sum over two sets that share nothing.
LEMMA SumSplits ==
  ASSUME NEW A, NEW B, IsFiniteSet(A), IsFiniteSet(B), A \cap B = {},
         NEW f, \A x \in A \cup B : f[x] \in Int
  PROVE  SumFunctionOnSet(f, A \cup B) = SumFunctionOnSet(f, A) + SumFunctionOnSet(f, B)
<1> DEFINE T == {s \in SUBSET B :
                   SumFunctionOnSet(f, A \cup s) # SumFunctionOnSet(f, A) + SumFunctionOnSet(f, s)}
<1> SUFFICES ASSUME T # {} PROVE FALSE
  OBVIOUS
<1>0. T \subseteq SUBSET B
  OBVIOUS
<1>1. PICK s \in T : \A r \in T : r \subseteq s => r = s
  <2> HIDE DEF T
  <2> QED
    BY <1>0, SmallestSet
<1>2. /\ s \subseteq B /\ IsFiniteSet(s)
      /\ SumFunctionOnSet(f, A \cup s) # SumFunctionOnSet(f, A) + SumFunctionOnSet(f, s)
  BY FS_Subset
<1>3. PICK x \in s : TRUE
  <2>1. A \cup {} = A
    OBVIOUS
  <2>2. SumFunctionOnSet(f, A) \in Int
    BY SumPeels DEF Summable
  <2> QED
    BY <1>2, <2>1, <2>2, SumOfNone
<1>4. SumFunctionOnSet(f, A \cup (s \ {x})) = SumFunctionOnSet(f, A) + SumFunctionOnSet(f, s \ {x})
  BY <1>1, <1>2
<1>5. Summable(f, s) /\ Summable(f, A) /\ Summable(f, s \ {x})
  BY <1>2, SumPeels, FS_Subset
<1>6. Summable(f, A \cup s)
  <2>1. IsFiniteSet(A \cup s)
    BY <1>2, FS_Union
  <2> QED
    BY <1>2, <2>1, SumPeels
<1>7. (A \cup s) \ {x} = A \cup (s \ {x})
  BY <1>2
<1> HIDE DEF T
<1> DEFINE sa == SumFunctionOnSet(f, A)
           bs == SumFunctionOnSet(f, s)
           br == SumFunctionOnSet(f, s \ {x})
           us == SumFunctionOnSet(f, A \cup s)
<1>8. us = f[x] + (sa + br) /\ bs = f[x] + br /\ f[x] \in Int /\ sa \in Int /\ br \in Int
  BY <1>2, <1>4, <1>5, <1>6, <1>7 DEF Summable
<1>9. us # sa + bs
  BY <1>2
<1> DEFINE fx == f[x]
<1>10. fx \in Int /\ us = fx + (sa + br) /\ bs = fx + br /\ sa \in Int /\ br \in Int
  BY <1>8
<1> HIDE DEF sa, bs, br, us, fx
<1>11. us = sa + bs
  BY ONLY <1>10
<1> QED
  BY <1>9, <1>11

\* A sum of what is not negative is not negative, and a part of it is not more.
LEMMA SumNatural ==
  ASSUME NEW S, IsFiniteSet(S), NEW f, \A x \in S : f[x] \in Nat
  PROVE  SumFunctionOnSet(f, S) \in Nat
<1> DEFINE T == {s \in SUBSET S : SumFunctionOnSet(f, s) \notin Nat}
<1> SUFFICES ASSUME T # {} PROVE FALSE
  OBVIOUS
<1>0. T \subseteq SUBSET S
  OBVIOUS
<1>1. PICK s \in T : \A r \in T : r \subseteq s => r = s
  <2> HIDE DEF T
  <2> QED
    BY <1>0, SmallestSet
<1>2. s \subseteq S /\ IsFiniteSet(s) /\ SumFunctionOnSet(f, s) \notin Nat
  BY FS_Subset
<1>3. PICK x \in s : TRUE
  BY <1>2, SumOfNone
<1>4. SumFunctionOnSet(f, s \ {x}) \in Nat
  BY <1>1, <1>2
<1>5. Summable(f, s)
  BY <1>2, SumPeels
<1> QED
  BY <1>2, <1>4, <1>5 DEF Summable

\* A sum of one.
LEMMA SumOfOne ==
  ASSUME NEW f, NEW x, f[x] \in Int
  PROVE  SumFunctionOnSet(f, {x}) = f[x]
<1>1. IsFiniteSet({x}) /\ {x} \ {x} = {}
  BY FS_Singleton
<1>2. Summable(f, {x})
  BY <1>1, SumPeels
<1> QED
  BY <1>1, <1>2, SumOfNone DEF Summable

\* A sum of zeros.
LEMMA SumOfZeros ==
  ASSUME NEW S, IsFiniteSet(S), NEW f, \A x \in S : f[x] = 0
  PROVE  SumFunctionOnSet(f, S) = 0
<1> DEFINE all == SumFunctionOnSet(f, S)
<1>1. all = all + all
  BY SumShifts
<1>2. all \in Int
  BY SumPeels DEF Summable
<1> HIDE DEF all
<1>3. all = 0
  BY <1>1, <1>2
<1> QED
  BY <1>3 DEF all

\* The summands that are zero do not count.
LEMMA SumOfSome ==
  ASSUME NEW S, IsFiniteSet(S), NEW R \in SUBSET S, NEW f,
         \A x \in S : f[x] \in Int, \A x \in S \ R : f[x] = 0
  PROVE  SumFunctionOnSet(f, S) = SumFunctionOnSet(f, R)
<1>1. IsFiniteSet(R) /\ IsFiniteSet(S \ R) /\ S = R \cup (S \ R) /\ R \cap (S \ R) = {}
  BY FS_Subset
<1>2. SumFunctionOnSet(f, S) = SumFunctionOnSet(f, R) + SumFunctionOnSet(f, S \ R)
  BY <1>1, SumSplits
<1>3. SumFunctionOnSet(f, S \ R) = 0
  BY <1>1, SumOfZeros
<1>4. SumFunctionOnSet(f, R) \in Int
  BY <1>1, SumPeels DEF Summable
<1> QED
  BY <1>2, <1>3, <1>4

-----------------------------------------------------------------------------
\* What entries add up to.

\* What entries add up to is a sum over them.
LEMMA TotalIsSum ==
  ASSUME NEW E, IsFiniteSet(E), NEW h, \A x \in E : x.delta \in Int /\ h[x] = x.delta
  PROVE  Total(E) = SumFunctionOnSet(h, E) /\ Total(E) \in Int
<1> DEFINE e == [x \in E |-> x.delta]
<1>1. Total(E) = SumFunctionOnSet(e, E)
  BY DEF Total, SumFunction
<1>2. \A x \in E : h[x] \in Int /\ e[x] = h[x]
  OBVIOUS
<1> HIDE DEF e
<1>3. SumFunctionOnSet(e, E) = SumFunctionOnSet(h, E) /\ SumFunctionOnSet(h, E) \in Int
  BY <1>2, SumAgrees, SumPeels DEF Summable
<1> QED
  BY <1>1, <1>3

\* No entries add up to nothing.
LEMMA TotalOfNone == Total({}) = 0
<1>1. DOMAIN [x \in {} |-> x.delta] = {}
  OBVIOUS
<1> QED
  BY <1>1, SumOfNone DEF Total, SumFunction

\* Entries that are added to others.
LEMMA TotalSplits ==
  ASSUME NEW E, NEW F, IsFiniteSet(E), IsFiniteSet(F), E \cap F = {},
         \A x \in E \cup F : x.delta \in Int
  PROVE  Total(E \cup F) = Total(E) + Total(F)
<1> DEFINE h == [x \in E \cup F |-> x.delta]
<1>1. \A x \in E \cup F : h[x] = x.delta
  OBVIOUS
<1>2. IsFiniteSet(E \cup F)
  BY FS_Union
<1> HIDE DEF h
<1>3. /\ Total(E) = SumFunctionOnSet(h, E) /\ Total(F) = SumFunctionOnSet(h, F)
      /\ Total(E \cup F) = SumFunctionOnSet(h, E \cup F)
  BY <1>1, <1>2, TotalIsSum
<1>4. \A x \in E \cup F : h[x] \in Int
  BY <1>1
<1> QED
  BY <1>3, <1>4, SumSplits

Entry(k, c, n) == [key |-> k, card |-> c, delta |-> n]
EntriesFor(k, delta, s) == {Entry(k, c, delta[c]) : c \in s}

\* One entry for each card: they add up to what the cards are to change by.
LEMMA EntriesTotal ==
  ASSUME NEW S, IsFiniteSet(S), NEW k, NEW delta, \A c \in S : delta[c] \in Int
  PROVE  IsFiniteSet(EntriesFor(k, delta, S)) /\ Total(EntriesFor(k, delta, S)) = SumFunctionOnSet(delta, S)
<1> DEFINE T == {s \in SUBSET S : ~ (/\ IsFiniteSet(EntriesFor(k, delta, s))
                                     /\ Total(EntriesFor(k, delta, s)) = SumFunctionOnSet(delta, s))}
<1> SUFFICES ASSUME T # {} PROVE FALSE
  OBVIOUS
<1>0. T \subseteq SUBSET S
  OBVIOUS
<1>1. PICK s \in T : \A r \in T : r \subseteq s => r = s
  <2> HIDE DEF T
  <2> QED
    BY <1>0, SmallestSet
<1>2. /\ s \subseteq S /\ IsFiniteSet(s)
      /\ ~ (/\ IsFiniteSet(EntriesFor(k, delta, s))
            /\ Total(EntriesFor(k, delta, s)) = SumFunctionOnSet(delta, s))
  BY FS_Subset
<1>3. PICK x \in s : TRUE
  <2>1. EntriesFor(k, delta, {}) = {}
    BY DEF EntriesFor
  <2> HIDE DEF T
  <2> QED
    BY <1>2, <2>1, TotalOfNone, SumOfNone, FS_EmptySet
<1> DEFINE rest == EntriesFor(k, delta, s \ {x})
           new  == Entry(k, x, delta[x])
<1>4. IsFiniteSet(rest) /\ Total(rest) = SumFunctionOnSet(delta, s \ {x})
  BY <1>1, <1>2
<1> HIDE DEF T
<1>5. EntriesFor(k, delta, s) = rest \cup {new} /\ rest \cap {new} = {}
  BY DEF EntriesFor, Entry
<1>6. \A e \in rest \cup {new} : e.delta \in Int
  BY <1>2 DEF EntriesFor, Entry
<1>7. IsFiniteSet({new}) /\ new.delta = delta[x]
  BY FS_Singleton DEF Entry
<1> HIDE DEF rest, new
<1>8. Total({new}) = delta[x]
  <2> DEFINE h == [e \in {new} |-> e.delta]
  <2>1. h[new] = delta[x] /\ delta[x] \in Int
    BY <1>2, <1>7
  <2> HIDE DEF h
  <2>2. Total({new}) = SumFunctionOnSet(h, {new})
    BY <1>7, <2>1, TotalIsSum
  <2> QED
    BY <2>1, <2>2, SumOfOne
<1>9. Total(rest \cup {new}) = Total(rest) + delta[x] /\ IsFiniteSet(rest \cup {new})
  BY <1>4, <1>5, <1>6, <1>7, <1>8, TotalSplits, FS_Union
<1>10. Summable(delta, s) /\ SumFunctionOnSet(delta, s \ {x}) \in Int
  BY <1>2, SumPeels, FS_RemoveElement DEF Summable
<1>11. SumFunctionOnSet(delta, s) = delta[x] + SumFunctionOnSet(delta, s \ {x}) /\ delta[x] \in Int
  BY <1>2, <1>10 DEF Summable
<1>12. Total(rest) + delta[x] = SumFunctionOnSet(delta, s)
  BY <1>4, <1>10, <1>11
<1> QED
  BY <1>2, <1>5, <1>9, <1>12

-----------------------------------------------------------------------------
\* The tables, and the commands of a group.

\* The tables in the middle of a group of commands.
Tables ==
  [row : [Cards -> BOOLEAN], credits : [Cards -> Int], marker : [Cards -> Keys \cup {NoTx}],
   tx : [Keys -> {"absent", "pending", "applied"}], entries : SUBSET [key : Keys, card : Cards, delta : Int]]

OnCard(d, c) == {x \in d.entries : x.card = c}
OfKey(d, k)  == {x \in d.entries : x.key = k}
Opened(d, c) == \E t \in Opens : CardOf[t] = c /\ d.tx[t] = "applied"

\* Between two groups of commands: every card of a row holds what its entries add up to, one without
\* a row nothing; a card that has entries was created by a top-up that was applied; the entries of a
\* transaction add up to it, and there is nothing of a transaction that was not applied.
LedgerInv(d) ==
  /\ d \in Ledgers /\ IsFiniteSet(d.entries)
  /\ \A c \in Cards :
       /\ d.marker[c] = NoTx
       /\ d.row[c] => d.credits[c] = Total(OnCard(d, c))
       /\ ~d.row[c] => d.credits[c] = 0
       /\ c # Primary /\ (d.row[c] \/ OnCard(d, c) # {}) => Opened(d, c)
  /\ \A k \in Keys :
       \/ d.tx[k] = "absent" /\ OfKey(d, k) = {}
       \/ d.tx[k] = "applied" /\ Total(OfKey(d, k)) = IF k \in Charges THEN -Amount[k] ELSE Amount[k]

\* Nothing has changed.
Same(d, next) ==
  /\ next \in Tables
  /\ next.row = d.row /\ next.credits = d.credits /\ next.marker = d.marker
  /\ next.tx = d.tx /\ next.entries = d.entries

\* A transaction was applied to the cards of a set.
Applies(d, k, delta, D, next) ==
  /\ d.tx[k] = "absent" /\ next \in Tables
  /\ next.tx = [d.tx EXCEPT ![k] = "applied"]
  /\ next.entries = d.entries \cup EntriesFor(k, delta, D)
  /\ \A c \in Cards :
       /\ next.row[c] = (d.row[c] \/ (c \in D /\ k \in Opens))
       /\ next.credits[c] = IF c \in D THEN d.credits[c] + delta[c] ELSE d.credits[c]
       /\ next.marker[c] = NoTx
  /\ \A c \in D : next.row[c]

\* The tables in the middle of the group of a key that had no transaction: the cards of hit were
\* changed and marked.
Midway(d, k, delta, hit, x) ==
  /\ x \in Tables /\ x.tx = [d.tx EXCEPT ![k] = "pending"] /\ x.entries = d.entries
  /\ \A c \in Cards :
       /\ x.row[c] = (d.row[c] \/ (c \in hit /\ k \in Opens))
       /\ x.credits[c] = IF c \in hit THEN d.credits[c] + delta[c] ELSE d.credits[c]
       /\ x.marker[c] = IF c \in hit THEN k ELSE NoTx
  /\ \A c \in hit : x.row[c] /\ (k \in Opens => ~d.row[c])

\* The commands keep the shape of the tables.
LEMMA InsertTables ==
  ASSUME NEW d \in Tables, NEW k \in Keys, NEW x, x = InsertTransaction(d, k)
  PROVE  /\ x \in Tables
         /\ x.row = d.row /\ x.credits = d.credits /\ x.marker = d.marker /\ x.entries = d.entries
         /\ x.tx = [d.tx EXCEPT ![k] = IF @ = "absent" THEN "pending" ELSE @]
BY DEF Tables, InsertTransaction

\* What MoveStatement of a group writes to the cards and their markers.
LEMMA MoveTables ==
  ASSUME NEW d \in Tables, NEW k \in Keys, NEW delta, NEW hit \in SUBSET Cards,
         \A c \in hit : delta[c] \in Int, NEW x, x = Move(d, k, delta, hit)
  PROVE  /\ x \in Tables
         /\ x.row = d.row /\ x.entries = d.entries /\ x.tx = d.tx
         /\ \A c \in Cards :
              /\ x.credits[c] = IF c \in hit THEN d.credits[c] + delta[c] ELSE d.credits[c]
              /\ x.marker[c] = IF c \in hit THEN k ELSE d.marker[c]
<1>1. [c \in Cards |-> IF c \in hit THEN d.credits[c] + delta[c] ELSE d.credits[c]] \in [Cards -> Int]
  BY DEF Tables
<1>2. [c \in Cards |-> IF c \in hit THEN k ELSE d.marker[c]] \in [Cards -> Keys \cup {NoTx}]
  BY DEF Tables
<1> QED
  BY <1>1, <1>2 DEF Tables, Move

\* Clearing the markers of a transaction touches nothing else.
LEMMA ClearTables ==
  ASSUME NEW d \in Tables, NEW k \in Keys, NEW x, x = ClearMarkers(d, k)
  PROVE  /\ x \in Tables
         /\ x.row = d.row /\ x.credits = d.credits /\ x.entries = d.entries /\ x.tx = d.tx
         /\ \A c \in Cards : x.marker[c] = IF d.marker[c] = k THEN NoTx ELSE d.marker[c]
BY DEF Tables, ClearMarkers

\* A transaction that is applied gets an entry for each card it has marked.
LEMMA ApplyTables ==
  ASSUME NEW d \in Tables, NEW k \in Keys, NEW delta, DOMAIN delta \subseteq Cards,
         \A c \in DOMAIN delta : delta[c] \in Int, NEW x, x = Apply(d, k, delta)
  PROVE  /\ x \in Tables
         /\ x.row = d.row /\ x.credits = d.credits /\ x.marker = d.marker
         /\ x.entries = d.entries \cup EntriesFor(k, delta, Marked(d, k, delta))
         /\ x.tx = [d.tx EXCEPT ![k] = "applied"]
<1>1. NewEntries(d, k, delta) = EntriesFor(k, delta, Marked(d, k, delta))
  BY DEF NewEntries, EntriesFor, Entry
<1>2. NewEntries(d, k, delta) \subseteq [key : Keys, card : Cards, delta : Int]
  BY DEF NewEntries, Marked
<1> QED
  BY <1>1, <1>2 DEF Tables, Apply

\* A transaction that is undone gives every card it has marked what it took back.
LEMMA UndoTables ==
  ASSUME NEW d \in Tables, NEW k \in Keys, NEW delta, DOMAIN delta \subseteq Cards,
         \A c \in DOMAIN delta : delta[c] \in Int, NEW x, x = Undo(d, k, delta)
  PROVE  /\ x \in Tables
         /\ x.entries = d.entries /\ x.marker = d.marker
         /\ x.tx = [d.tx EXCEPT ![k] = "absent"]
         /\ \A c \in Cards :
              /\ x.credits[c] = IF c \in Marked(d, k, delta) THEN d.credits[c] - delta[c] ELSE d.credits[c]
              /\ x.row[c] = (d.row[c] /\ (k \in Opens => c \notin Marked(d, k, delta)))
<1> DEFINE hit == Marked(d, k, delta)
<1>1. hit \subseteq Cards /\ \A c \in hit : delta[c] \in Int
  BY DEF Marked
<1> DEFINE credits == [c \in Cards |-> IF c \in hit THEN d.credits[c] - delta[c] ELSE d.credits[c]]
           row == [c \in Cards |-> d.row[c] /\ (k \in Opens => c \notin hit)]
           tx  == [d.tx EXCEPT ![k] = "absent"]
<1>2. x = [d EXCEPT !.tx = tx, !.credits = credits, !.row = row]
  BY DEF Undo
<1> HIDE DEF hit
<1>3. /\ credits \in [Cards -> Int] /\ row \in [Cards -> BOOLEAN]
      /\ tx \in [Keys -> {"absent", "pending", "applied"}]
  BY <1>1 DEF Tables
<1>4. \A c \in Cards :
        /\ credits[c] = IF c \in hit THEN d.credits[c] - delta[c] ELSE d.credits[c]
        /\ row[c] = (d.row[c] /\ (k \in Opens => c \notin hit))
  OBVIOUS
<1> HIDE DEF credits, row, tx
<1>5. /\ x \in Tables
      /\ x.entries = d.entries /\ x.marker = d.marker
      /\ x.tx = tx
      /\ x.credits = credits /\ x.row = row
  BY <1>2, <1>3 DEF Tables
<1> QED
  BY <1>4, <1>5 DEF hit, tx

\* What follows the change of the cards applies the transaction or leaves everything as it was.
LEMMA GroupConcludes ==
  ASSUME NEW d, LedgerInv(d), NEW k \in Keys, d.tx[k] = "absent",
         NEW delta, DOMAIN delta \subseteq Cards, \A c \in DOMAIN delta : delta[c] \in Int,
         NEW hit \in SUBSET DOMAIN delta, NEW x, Midway(d, k, delta, hit, x)
  PROVE  \/ hit = DOMAIN delta /\ Applies(d, k, delta, hit, Conclude(x, k, delta))
         \/ hit # DOMAIN delta /\ Same(d, Conclude(x, k, delta))
<1>1. k # NoTx
  BY LedgerAssumption
<1>2. /\ d \in Ledgers /\ x \in Tables /\ \A c \in Cards : d.marker[c] = NoTx
  BY DEF LedgerInv, Midway
<1>3. Marked(x, k, delta) = hit
  BY <1>1, <1>2 DEF Marked, Midway
<1>4. Pending(x, k)
  BY <1>2 DEF Pending, Midway, Ledgers
<1>5. CASE hit = DOMAIN delta
  <2> DEFINE y == Apply(x, k, delta)
             z == ClearMarkers(y, k)
  <2>1. Conclude(x, k, delta) = z
    BY <1>3, <1>4, <1>5 DEF Conclude
  <2>2. /\ y \in Tables
        /\ y.row = x.row /\ y.credits = x.credits /\ y.marker = x.marker
        /\ y.entries = x.entries \cup EntriesFor(k, delta, hit)
        /\ y.tx = [x.tx EXCEPT ![k] = "applied"]
    BY <1>2, <1>3, ApplyTables
  <2> HIDE DEF y
  <2>3. /\ z \in Tables
        /\ z.row = y.row /\ z.credits = y.credits /\ z.entries = y.entries /\ z.tx = y.tx
        /\ \A c \in Cards : z.marker[c] = IF y.marker[c] = k THEN NoTx ELSE y.marker[c]
    BY <2>2, ClearTables
  <2> HIDE DEF z
  <2>4. z.tx = [d.tx EXCEPT ![k] = "applied"]
    BY <1>2, <2>2, <2>3 DEF Midway, Ledgers
  <2>5. Applies(d, k, delta, hit, z)
    BY <2>2, <2>3, <2>4 DEF Applies, Midway
  <2> QED
    BY <1>5, <2>1, <2>5
<1>6. CASE hit # DOMAIN delta
  <2> DEFINE y == Undo(x, k, delta)
             z == ClearMarkers(y, k)
  <2>1. Conclude(x, k, delta) = z
    BY <1>3, <1>4, <1>6 DEF Conclude
  <2>2. /\ y \in Tables
        /\ y.entries = x.entries /\ y.marker = x.marker
        /\ y.tx = [x.tx EXCEPT ![k] = "absent"]
        /\ \A c \in Cards :
             /\ y.credits[c] = IF c \in hit THEN x.credits[c] - delta[c] ELSE x.credits[c]
             /\ y.row[c] = (x.row[c] /\ (k \in Opens => c \notin hit))
    BY <1>2, <1>3, UndoTables
  <2> HIDE DEF y
  <2>3. /\ z \in Tables
        /\ z.row = y.row /\ z.credits = y.credits /\ z.entries = y.entries /\ z.tx = y.tx
        /\ \A c \in Cards : z.marker[c] = IF y.marker[c] = k THEN NoTx ELSE y.marker[c]
    BY <2>2, ClearTables
  <2> HIDE DEF z
  <2>4. z.tx = d.tx
    BY <1>2, <2>2, <2>3 DEF Midway, Ledgers
  <2>5. \A c \in Cards : z.row[c] = d.row[c]
    <3>1. \A c \in Cards : d.row[c] \in BOOLEAN /\ x.row[c] \in BOOLEAN
      BY <1>2 DEF Ledgers, Tables
    <3> QED
      BY <2>2, <2>3, <3>1 DEF Midway
  <2>6. \A c \in Cards : z.credits[c] = d.credits[c]
    <3>1. \A c \in Cards : d.credits[c] \in Int /\ (c \in hit => delta[c] \in Int)
      BY <1>2 DEF Ledgers
    <3> QED
      BY <2>2, <2>3, <3>1 DEF Midway
  <2>7. \A c \in Cards : z.marker[c] = d.marker[c]
    BY <1>2, <2>2, <2>3 DEF Midway
  <2>8. z.row = d.row /\ z.credits = d.credits /\ z.marker = d.marker
    <3>1. /\ z.row \in [Cards -> BOOLEAN] /\ d.row \in [Cards -> BOOLEAN]
          /\ z.credits \in [Cards -> Int] /\ d.credits \in [Cards -> Nat]
          /\ z.marker \in [Cards -> Keys \cup {NoTx}] /\ d.marker \in [Cards -> Keys \cup {NoTx}]
      BY <1>2, <2>3 DEF Ledgers, Tables
    <3> QED
      BY <2>5, <2>6, <2>7, <3>1
  <2>9. z.entries = d.entries
    BY <2>2, <2>3 DEF Midway
  <2> QED
    BY <1>6, <2>1, <2>3, <2>4, <2>8, <2>9 DEF Same
<1> QED
  BY <1>5, <1>6

\* A group whose transaction is applied already changes nothing.
LEMMA GroupRepeated ==
  ASSUME NEW d, LedgerInv(d), NEW k \in Keys, d.tx[k] = "applied", NEW delta, NEW x, Same(d, x)
  PROVE  Same(d, Conclude(x, k, delta))
<1>1. d \in Ledgers /\ \A c \in Cards : d.marker[c] = NoTx /\ k # NoTx
  BY LedgerAssumption DEF LedgerInv
<1>2. x \in Tables /\ Conclude(x, k, delta) = ClearMarkers(x, k)
  BY DEF Same, Conclude, Pending
<1> DEFINE z == ClearMarkers(x, k)
<1>3. /\ z \in Tables
      /\ z.row = x.row /\ z.credits = x.credits /\ z.entries = x.entries /\ z.tx = x.tx
      /\ \A c \in Cards : z.marker[c] = IF x.marker[c] = k THEN NoTx ELSE x.marker[c]
  BY <1>2, ClearTables
<1> HIDE DEF z
<1>4. z.marker = d.marker
  <2>1. z.marker \in [Cards -> Keys \cup {NoTx}] /\ d.marker \in [Cards -> Keys \cup {NoTx}]
    BY <1>1, <1>3 DEF Ledgers, Tables
  <2>2. \A c \in Cards : z.marker[c] = d.marker[c]
    BY <1>1, <1>3 DEF Same
  <2> QED
    BY <2>1, <2>2
<1>5. Same(d, z)
  BY <1>3, <1>4 DEF Same
<1> QED
  BY <1>2, <1>5 DEF z

-----------------------------------------------------------------------------
\* What a group comes to.

\* Tables that have not changed keep the invariant.
LEMMA SameHolds ==
  ASSUME NEW d, LedgerInv(d), NEW next, Same(d, next)
  PROVE  LedgerInv(next)
<1>1. next \in Ledgers
  BY DEF LedgerInv, Same, Ledgers, Tables
<1>2. /\ \A c \in Cards : OnCard(next, c) = OnCard(d, c) /\ Opened(next, c) = Opened(d, c)
      /\ \A k \in Keys : OfKey(next, k) = OfKey(d, k)
  BY DEF Same, OnCard, OfKey, Opened
<1> QED
  BY <1>1, <1>2 DEF LedgerInv, Same

\* So do tables a transaction was applied to, when its changes add up to it and leave no card with
\* less than nothing.
LEMMA AppliesHolds ==
  ASSUME NEW d, LedgerInv(d), NEW k \in Keys, NEW D \in SUBSET Cards,
         NEW delta, \A c \in D : delta[c] \in Int,
         NEW next, Applies(d, k, delta, D, next),
         SumFunctionOnSet(delta, D) = IF k \in Charges THEN -Amount[k] ELSE Amount[k],
         \A c \in D : d.credits[c] + delta[c] >= 0,
         \A c \in D : d.row[c] \/ k \in Opens,
         k \in Opens => \A c \in D : CardOf[k] = c
  PROVE  LedgerInv(next)
<1> DEFINE new == EntriesFor(k, delta, D)
<1>1. IsFiniteSet(new) /\ Total(new) = SumFunctionOnSet(delta, D)
  BY LedgerAssumption, FS_Subset, EntriesTotal
<1>2. /\ d \in Ledgers /\ IsFiniteSet(d.entries) /\ OfKey(d, k) = {}
      /\ d.tx \in [Keys -> {"absent", "pending", "applied"}]
      /\ d.entries \subseteq [key : Keys, card : Cards, delta : Int]
      /\ \A x \in d.entries : x.key # k
  BY DEF LedgerInv, Applies, OfKey, Ledgers
<1>3. \A x \in new : x.key = k /\ x.card \in D /\ x = Entry(k, x.card, delta[x.card])
  BY DEF EntriesFor, Entry
<1>4. \A c \in D : /\ Entry(k, c, delta[c]) \in new
                 /\ Entry(k, c, delta[c]).card = c /\ Entry(k, c, delta[c]).delta = delta[c]
  BY DEF EntriesFor, Entry
<1>5. new \subseteq [key : Keys, card : Cards, delta : Int]
  BY DEF EntriesFor, Entry
<1>6. next.entries = d.entries \cup new /\ IsFiniteSet(next.entries)
  <2>1. next.entries = d.entries \cup new
    BY DEF Applies
  <2> HIDE DEF new
  <2>2. IsFiniteSet(d.entries \cup new)
    BY ONLY <1>1, <1>2, FS_Union
  <2> QED
    BY <2>1, <2>2
<1> HIDE DEF new
<1>7. next \in Ledgers
  <2>1. \A c \in Cards : d.credits[c] \in Nat /\ next.credits[c] \in Nat
    <3>1. \A c \in Cards : d.credits[c] \in Nat
      BY <1>2 DEF Ledgers
    <3> QED
      BY <3>1 DEF Applies
  <2>2. next.credits \in [Cards -> Nat]
    <3>1. next.credits \in [Cards -> Int]
      BY DEF Applies, Tables
    <3> QED
      BY <2>1, <3>1
  <2> QED
    BY <2>2 DEF Applies, Tables, Ledgers
<1>8. \A j \in Keys : next.tx[j] = IF j = k THEN "applied" ELSE d.tx[j]
  BY <1>2 DEF Applies
<1>9. ASSUME NEW j \in Keys
      PROVE  \/ next.tx[j] = "absent" /\ OfKey(next, j) = {}
             \/ /\ next.tx[j] = "applied"
                /\ Total(OfKey(next, j)) = IF j \in Charges THEN -Amount[j] ELSE Amount[j]
  <2>1. CASE j = k
    <3>1. OfKey(next, k) = new
      BY <1>2, <1>3, <1>6 DEF OfKey
    <3> QED
      BY <1>1, <1>8, <2>1, <3>1
  <2>2. CASE j # k
    <3>1. OfKey(next, j) = OfKey(d, j)
      BY <1>3, <1>6, <2>2 DEF OfKey
    <3> QED
      BY <1>8, <2>2, <3>1 DEF LedgerInv
  <2> QED
    BY <2>1, <2>2
<1>10. ASSUME NEW c \in Cards
       PROVE  /\ next.marker[c] = NoTx
              /\ next.row[c] => next.credits[c] = Total(OnCard(next, c))
              /\ ~next.row[c] => next.credits[c] = 0
              /\ c # Primary /\ (next.row[c] \/ OnCard(next, c) # {}) => Opened(next, c)
  <2>1. Opened(d, c) => Opened(next, c)
    BY <1>8, LedgerAssumption DEF Opened, Keys
  <2>2. /\ next.marker[c] = NoTx
        /\ d.row[c] => d.credits[c] = Total(OnCard(d, c))
        /\ ~d.row[c] => d.credits[c] = 0
        /\ c # Primary /\ (d.row[c] \/ OnCard(d, c) # {}) => Opened(d, c)
    BY DEF LedgerInv, Applies
  <2>3. CASE c \notin D
    <3>1. OnCard(next, c) = OnCard(d, c)
      BY <1>3, <1>6, <2>3 DEF OnCard
    <3>2. next.row[c] = d.row[c] /\ next.credits[c] = d.credits[c] /\ d.row[c] \in BOOLEAN
      BY <1>2, <2>3 DEF Applies, Ledgers
    <3> QED
      BY <2>1, <2>2, <3>1, <3>2
  <2>4. CASE c \in D
    <3> DEFINE mine == Entry(k, c, delta[c])
    <3>1. OnCard(next, c) = OnCard(d, c) \cup {mine} /\ OnCard(d, c) \cap {mine} = {}
      <4>1. mine \in new /\ mine.card = c /\ mine.key = k
        BY <1>3, <1>4, <2>4
      <4>2. \A x \in new : x.card = c => x = mine
        BY <1>3
      <4> HIDE DEF mine
      <4> QED
        BY <1>2, <1>6, <4>1, <4>2 DEF OnCard
    <3>2. Total(OnCard(next, c)) = Total(OnCard(d, c)) + delta[c]
      <4>1. IsFiniteSet(OnCard(d, c)) /\ \A x \in OnCard(d, c) : x.delta \in Int
        BY <1>2, FS_Subset DEF OnCard
      <4>2. mine.delta = delta[c] /\ delta[c] \in Int
        BY <1>4, <2>4
      <4> HIDE DEF mine
      <4>3. IsFiniteSet({mine})
        BY FS_Singleton
      <4>4. Total({mine}) = delta[c]
        <5> DEFINE h == [x \in {mine} |-> x.delta]
        <5>1. h[mine] = delta[c]
          BY <4>2
        <5>2. \A x \in {mine} : x.delta \in Int /\ h[x] = x.delta
          BY <4>2
        <5> HIDE DEF h
        <5>3. Total({mine}) = SumFunctionOnSet(h, {mine})
          BY <4>3, <5>2, TotalIsSum
        <5> QED
          BY <4>2, <5>1, <5>3, SumOfOne
      <4>5. \A x \in OnCard(d, c) \cup {mine} : x.delta \in Int
        BY <4>1, <4>2
      <4>6. Total(OnCard(d, c) \cup {mine}) = Total(OnCard(d, c)) + Total({mine})
        BY <3>1, <4>1, <4>3, <4>5, TotalSplits
      <4> QED
        BY <3>1, <4>4, <4>6
    <3>3. next.row[c] /\ next.credits[c] = d.credits[c] + delta[c]
      BY <2>4 DEF Applies
    <3>4. d.credits[c] = Total(OnCard(d, c))
      <4>1. CASE d.row[c]
        BY <2>2, <4>1
      <4>2. CASE ~d.row[c]
        <5>1. k \in Opens /\ CardOf[k] = c /\ c # Primary
          BY <2>4, <4>2, LedgerAssumption
        <5>2. ~Opened(d, c)
          BY <5>1, LedgerAssumption DEF Opened, Applies
        <5> QED
          BY <2>2, <4>2, <5>1, <5>2, TotalOfNone
      <4> QED
        BY <4>1, <4>2
    <3>5. c # Primary => Opened(next, c)
      <4>1. CASE d.row[c]
        BY <2>1, <2>2, <4>1
      <4>2. CASE ~d.row[c]
        BY <1>8, <2>4, <4>2 DEF Opened
      <4> QED
        BY <4>1, <4>2
    <3> QED
      BY <2>2, <3>2, <3>3, <3>4, <3>5
  <2> QED
    BY <2>3, <2>4
<1> QED
  BY <1>6, <1>7, <1>9, <1>10 DEF LedgerInv

\* The cards something is taken from, and what they change by.
Taken(a)  == {c \in Cards : a[c] > 0}
Taking(a) == [c \in Taken(a) |-> -a[c]]

\* What the group of a charge comes to: every card has what is taken from it, or nothing changes.
ChargeOutcome(d, k, a, next) ==
  \/ Same(d, next)
  \/ /\ Applies(d, k, Taking(a), Taken(a), next)
     /\ \A c \in Taken(a) : Live(d, past, c) /\ a[c] <= d.credits[c]

\* A charge is applied as a whole, to cards that held enough, or leaves the tables as they were.
LEMMA ChargeConcludes ==
  ASSUME NEW d, LedgerInv(d), NEW k \in Charges, NEW a \in [Cards -> Nat]
  PROVE  ChargeOutcome(d, k, a, ChargeBatch(d, k, a, past))
<1> DEFINE D == Taken(a)
           delta == Taking(a)
           b == InsertTransaction(d, k)
           hit == {c \in DOMAIN delta : Pending(b, k) /\ Live(b, past, c) /\ b.credits[c] + delta[c] >= 0}
           x == Move(b, k, delta, hit)
           next == Conclude(x, k, delta)
<1>1. ChargeBatch(d, k, a, past) = next
  BY DEF ChargeBatch, Debit, Taken, Taking
<1>2. /\ k \in Keys /\ d \in Tables /\ d.tx[k] \in {"absent", "applied"}
      /\ \A c \in Cards : d.marker[c] = NoTx
      /\ d.tx \in [Keys -> {"absent", "pending", "applied"}] /\ d.marker \in [Cards -> Keys \cup {NoTx}]
      /\ d.credits \in [Cards -> Int] /\ d.row \in [Cards -> BOOLEAN]
  BY DEF Keys, LedgerInv, Ledgers, Tables
<1>3. /\ b \in Tables
      /\ b.row = d.row /\ b.credits = d.credits /\ b.marker = d.marker /\ b.entries = d.entries
      /\ b.tx = [d.tx EXCEPT ![k] = IF d.tx[k] = "absent" THEN "pending" ELSE d.tx[k]]
  BY <1>2, InsertTables
<1>4. /\ DOMAIN delta = D /\ D \subseteq Cards /\ hit \subseteq D
      /\ \A c \in D : delta[c] = -a[c] /\ delta[c] \in Int /\ a[c] \in Nat
  BY DEF Taken, Taking
<1>5. \A c \in hit : Pending(b, k) /\ Live(b, past, c) /\ b.credits[c] + delta[c] >= 0
  OBVIOUS
<1>6. ~Pending(b, k) => hit = {}
  OBVIOUS
<1> HIDE DEF b, hit, delta
<1>7. /\ x \in Tables /\ x.row = b.row /\ x.entries = b.entries /\ x.tx = b.tx
      /\ \A c \in Cards :
           /\ x.credits[c] = IF c \in hit THEN b.credits[c] + delta[c] ELSE b.credits[c]
           /\ x.marker[c] = IF c \in hit THEN k ELSE b.marker[c]
  BY <1>2, <1>3, <1>4, MoveTables
<1> HIDE DEF x
<1>8. CASE d.tx[k] = "applied"
  <2>1. hit = {}
    BY <1>2, <1>3, <1>6, <1>8 DEF Pending
  <2>2. x.credits = d.credits /\ x.marker = d.marker
    <3>1. x.credits \in [Cards -> Int] /\ x.marker \in [Cards -> Keys \cup {NoTx}]
      BY <1>7 DEF Tables
    <3> QED
      BY <1>2, <1>3, <1>7, <2>1, <3>1
  <2>3. x.tx = d.tx
    BY <1>2, <1>3, <1>7, <1>8
  <2>4. Same(d, x)
    BY <1>3, <1>7, <2>2, <2>3 DEF Same
  <2>5. Same(d, next)
    BY <1>2, <1>8, <2>4, GroupRepeated
  <2> QED
    BY <1>1, <2>5 DEF ChargeOutcome
<1>9. CASE d.tx[k] = "absent"
  <2>1. k \notin Opens
    BY LedgerAssumption
  <2>2. \A c \in hit : d.row[c] /\ Live(d, past, c) /\ a[c] <= d.credits[c]
    <3> SUFFICES ASSUME NEW c \in hit PROVE d.row[c] /\ Live(d, past, c) /\ a[c] <= d.credits[c]
      OBVIOUS
    <3>1. c \in Cards /\ delta[c] = -a[c] /\ a[c] \in Nat /\ d.credits[c] \in Int
      BY <1>2, <1>4
    <3>2. Live(b, past, c) /\ d.credits[c] + delta[c] >= 0
      BY <1>3, <1>5
    <3> QED
      BY <1>3, <3>1, <3>2 DEF Live
  <2>3. x.tx = [d.tx EXCEPT ![k] = "pending"]
    BY <1>2, <1>3, <1>7, <1>9
  <2>4. Midway(d, k, delta, hit, x)
    BY <1>2, <1>3, <1>7, <2>1, <2>2, <2>3 DEF Midway
  <2>5. \/ hit = D /\ Applies(d, k, delta, hit, next)
        \/ hit # D /\ Same(d, next)
    BY <1>2, <1>4, <1>9, <2>4, GroupConcludes
  <2> QED
    BY <1>1, <2>2, <2>5 DEF ChargeOutcome, delta
<1> QED
  BY <1>2, <1>8, <1>9

-----------------------------------------------------------------------------
\* What a charge takes from the cards is its amount.
LEMMA TakingAddsUp ==
  ASSUME NEW k \in Charges, NEW a \in [Cards -> Nat], SumFunctionOnSet(a, Cards) = Amount[k]
  PROVE  SumFunctionOnSet(Taking(a), Taken(a)) = -Amount[k]
<1> DEFINE D == Taken(a)
           delta == Taking(a)
           minus == [c \in Cards |-> -a[c]]
           zero == [c \in Cards |-> 0]
<1>1. /\ D \subseteq Cards /\ IsFiniteSet(Cards)
      /\ \A c \in D : delta[c] = -a[c] /\ delta[c] \in Int /\ minus[c] = delta[c]
      /\ \A c \in Cards : minus[c] \in Int /\ a[c] \in Int /\ minus[c] = -a[c]
      /\ \A c \in Cards \ D : minus[c] = 0
  BY LedgerAssumption DEF Taken, Taking
<1>2. \A c \in Cards : zero[c] = 0 /\ zero[c] = a[c] + minus[c]
  BY <1>1
<1>3. Amount[k] \in Nat
  BY LedgerAssumption DEF Keys
<1> HIDE DEF zero, minus, D, delta
<1>4. SumFunctionOnSet(zero, Cards) = SumFunctionOnSet(a, Cards) + SumFunctionOnSet(minus, Cards)
  BY <1>1, <1>2, SumShifts
<1>5. SumFunctionOnSet(zero, Cards) = 0
  BY <1>1, <1>2, SumOfZeros
<1>6. SumFunctionOnSet(minus, Cards) = SumFunctionOnSet(minus, D)
  BY <1>1, SumOfSome
<1>7. SumFunctionOnSet(minus, D) = SumFunctionOnSet(delta, D) /\ SumFunctionOnSet(delta, D) \in Int
  <2>1. IsFiniteSet(D)
    BY <1>1, FS_Subset
  <2> QED
    BY <1>1, <2>1, SumAgrees, SumPeels DEF Summable
<1>8. SumFunctionOnSet(delta, D) = -Amount[k]
  BY <1>3, <1>4, <1>5, <1>6, <1>7
<1> QED
  BY <1>8 DEF D, delta

\* A charge that is applied keeps the tables in order, when what it takes is its amount.
LEMMA ChargeHolds ==
  ASSUME NEW d, LedgerInv(d), NEW k \in Charges, NEW a \in [Cards -> Nat],
         SumFunctionOnSet(a, Cards) = Amount[k], NEW next, ChargeOutcome(d, k, a, next)
  PROVE  LedgerInv(next)
<1>1. CASE Same(d, next)
  BY <1>1, SameHolds
<1>2. CASE /\ Applies(d, k, Taking(a), Taken(a), next)
           /\ \A c \in Taken(a) : Live(d, past, c) /\ a[c] <= d.credits[c]
  <2> DEFINE D == Taken(a)
             delta == Taking(a)
  <2>1. D \subseteq Cards /\ \A c \in D : delta[c] = -a[c] /\ delta[c] \in Int /\ a[c] \in Nat
    BY DEF Taken, Taking
  <2>2. d.credits \in [Cards -> Nat] /\ k \in Keys
    BY DEF LedgerInv, Ledgers, Keys
  <2>3. SumFunctionOnSet(delta, D) = -Amount[k]
    BY TakingAddsUp
  <2>4. \A c \in D : d.credits[c] + delta[c] >= 0
    <3> SUFFICES ASSUME NEW c \in D PROVE d.credits[c] + delta[c] >= 0
      OBVIOUS
    <3>1. a[c] <= d.credits[c]
      BY <1>2
    <3>2. d.credits[c] \in Nat /\ a[c] \in Nat /\ delta[c] = -a[c]
      BY <2>1, <2>2
    <3> QED
      BY ONLY <3>1, <3>2
  <2>5. \A c \in D : d.row[c]
    BY <1>2 DEF Live
  <2>6. k \notin Opens
    BY LedgerAssumption
  <2> HIDE DEF D, delta
  <2>7. Applies(d, k, delta, D, next)
    BY <1>2 DEF D, delta
  <2> QED
    BY <2>1, <2>2, <2>3, <2>4, <2>5, <2>6, <2>7, AppliesHolds
<1> QED
  BY <1>1, <1>2 DEF ChargeOutcome

-----------------------------------------------------------------------------
\* Deleting what has expired.

\* Deleting the expired cards writes no entry and no transaction.
LEMMA DeleteTables ==
  ASSUME NEW d, LedgerInv(d), NEW x, x = DeleteExpired(d, past)
  PROVE  /\ x \in Ledgers
         /\ x.marker = d.marker /\ x.tx = d.tx /\ x.entries = d.entries
         /\ \A c \in Cards :
              /\ x.row[c] = (d.row[c] /\ c \notin past)
              /\ x.credits[c] = IF c \in past THEN 0 ELSE d.credits[c]
<1> DEFINE row == [c \in Cards |-> d.row[c] /\ c \notin past]
           credits == [c \in Cards |-> IF c \in past THEN 0 ELSE d.credits[c]]
<1>1. row \in [Cards -> BOOLEAN] /\ credits \in [Cards -> Nat] /\ d \in Ledgers
  BY DEF LedgerInv, Ledgers
<1>2. x = [d EXCEPT !.row = row, !.credits = credits]
  BY DEF DeleteExpired
<1>3. \A c \in Cards :
        /\ row[c] = (d.row[c] /\ c \notin past)
        /\ credits[c] = IF c \in past THEN 0 ELSE d.credits[c]
  OBVIOUS
<1> HIDE DEF row, credits
<1>4. /\ x \in Ledgers /\ x.row = row /\ x.credits = credits
      /\ x.marker = d.marker /\ x.tx = d.tx /\ x.entries = d.entries
  BY <1>1, <1>2 DEF Ledgers
<1> QED
  BY <1>3, <1>4

\* The tables add up without the cards that have expired.
LEMMA DeleteHolds ==
  ASSUME NEW d, LedgerInv(d), NEW x, x = DeleteExpired(d, past)
  PROVE  LedgerInv(x)
<1>1. \A c \in Cards : OnCard(x, c) = OnCard(d, c) /\ (Opened(x, c) <=> Opened(d, c))
  BY DeleteTables DEF OnCard, Opened
<1>2. \A k \in Keys : OfKey(x, k) = OfKey(d, k)
  BY DeleteTables DEF OfKey
<1>3. \A c \in Cards : d.row[c] \in BOOLEAN /\ x.row[c] \in BOOLEAN
  BY DeleteTables DEF LedgerInv, Ledgers
<1>4. IsFiniteSet(x.entries) /\ x \in Ledgers
  BY DeleteTables DEF LedgerInv
<1>5. ASSUME NEW c \in Cards
      PROVE  /\ x.marker[c] = NoTx
             /\ x.row[c] => x.credits[c] = Total(OnCard(x, c))
             /\ ~x.row[c] => x.credits[c] = 0
             /\ c # Primary /\ (x.row[c] \/ OnCard(x, c) # {}) => Opened(x, c)
  BY <1>1, <1>3, DeleteTables DEF LedgerInv
<1>6. ASSUME NEW k \in Keys
      PROVE  \/ x.tx[k] = "absent" /\ OfKey(x, k) = {}
             \/ x.tx[k] = "applied" /\ Total(OfKey(x, k)) = IF k \in Charges THEN -Amount[k] ELSE Amount[k]
  BY <1>2, DeleteTables DEF LedgerInv
<1> QED
  BY <1>4, <1>5, <1>6 DEF LedgerInv

\* What the group of a top-up comes to.
ToppedUp(t) == [c \in {CardOf[t]} |-> Amount[t]]
Swept(d, t) == IF t \in Opens THEN DeleteExpired(d, past) ELSE d
TopUpOutcome(d, t, next) ==
  \/ Same(d, next)
  \/ /\ Applies(d, t, ToppedUp(t), {CardOf[t]}, next)
     /\ IF t \in Opens THEN ~d.row[CardOf[t]] ELSE Live(d, past, CardOf[t])

\* The change of the card, from tables in which nothing has been marked for this key.
LEMMA TopUpConcludes ==
  ASSUME NEW d, LedgerInv(d), NEW t \in TopUps, NEW b, b = InsertTransaction(d, t),
         NEW x, x = IF t \in Opens THEN CreateCard(b, t, ToppedUp(t), past)
                    ELSE Credit(b, t, ToppedUp(t), past)
  PROVE  TopUpOutcome(d, t, Conclude(x, t, ToppedUp(t)))
<1> DEFINE c0 == CardOf[t]
           delta == ToppedUp(t)
           next == Conclude(x, t, delta)
<1>1. /\ t \in Keys /\ d \in Tables /\ d.tx[t] \in {"absent", "applied"}
      /\ \A c \in Cards : d.marker[c] = NoTx
      /\ d.tx \in [Keys -> {"absent", "pending", "applied"}] /\ d.marker \in [Cards -> Keys \cup {NoTx}]
      /\ d.credits \in [Cards -> Int] /\ d.row \in [Cards -> BOOLEAN]
  BY DEF Keys, LedgerInv, Ledgers, Tables
<1>2. /\ b \in Tables
      /\ b.row = d.row /\ b.credits = d.credits /\ b.marker = d.marker /\ b.entries = d.entries
      /\ b.tx = [d.tx EXCEPT ![t] = IF d.tx[t] = "absent" THEN "pending" ELSE d.tx[t]]
  BY <1>1, InsertTables
<1>3. c0 \in Cards /\ DOMAIN delta = {c0} /\ delta[c0] = Amount[t] /\ Amount[t] \in Nat
  BY <1>1, LedgerAssumption DEF ToppedUp
<1> HIDE DEF delta, c0
<1>4. PICK hit \in SUBSET {c0} :
        /\ x \in Tables /\ x.entries = b.entries /\ x.tx = b.tx
        /\ \A c \in Cards :
             /\ x.row[c] = (b.row[c] \/ (c \in hit /\ t \in Opens))
             /\ x.credits[c] = IF c \in hit THEN b.credits[c] + delta[c] ELSE b.credits[c]
             /\ x.marker[c] = IF c \in hit THEN t ELSE b.marker[c]
        /\ \A c \in hit : x.row[c] /\ Pending(b, t)
             /\ IF t \in Opens THEN ~b.row[c] ELSE Live(b, past, c)
  <2>1. CASE t \in Opens
    <3> DEFINE o == [b EXCEPT !.row[c0] = TRUE]
    <3>1. o \in Tables /\ o.credits = b.credits /\ o.marker = b.marker /\ o.entries = b.entries /\ o.tx = b.tx
          /\ \A c \in Cards : o.row[c] = (b.row[c] \/ c = c0)
      BY <1>2, <1>3 DEF Tables
    <3>2. x = b \/ (x = Move(o, t, delta, {c0}) /\ Pending(b, t) /\ ~b.row[c0])
      BY <2>1 DEF CreateCard, c0, delta
    <3> HIDE DEF o
    <3>3. CASE x = b
      <4>1. b.row \in [Cards -> BOOLEAN]
        BY <1>2 DEF Tables
      <4> WITNESS {} \in SUBSET {c0}
      <4> QED
        BY <1>2, <3>3, <4>1
    <3>4. CASE x = Move(o, t, delta, {c0}) /\ Pending(b, t) /\ ~b.row[c0]
      <4>1. /\ x \in Tables
            /\ x.row = o.row /\ x.entries = o.entries /\ x.tx = o.tx
            /\ \A c \in Cards :
                 /\ x.credits[c] = IF c \in {c0} THEN o.credits[c] + delta[c] ELSE o.credits[c]
                 /\ x.marker[c] = IF c \in {c0} THEN t ELSE o.marker[c]
        BY <1>1, <1>3, <3>1, <3>4, MoveTables
      <4>2. x.row[c0]
        BY <1>3, <3>1, <4>1
      <4> WITNESS {c0} \in SUBSET {c0}
      <4> QED
        BY <2>1, <3>1, <3>4, <4>1, <4>2
    <3> QED
      BY <3>2, <3>3, <3>4
  <2>2. CASE t \notin Opens
    <3>1. PICK hit \in SUBSET {c0} :
             x = Move(b, t, delta, hit) /\ \A c \in hit : Pending(b, t) /\ Live(b, past, c)
      <4> DEFINE all == {c \in DOMAIN delta :
                  /\ Pending(b, t) /\ Live(b, past, c)
                  /\ c = Primary \/ b.credits[c] > 0 \/ Cardinality(Active(b, past)) < MaxActive
                  /\ Available(b, past) + delta[c] <= MaxCredits}
      <4>1. x = Move(b, t, delta, all)
        BY <2>2 DEF Credit, delta
      <4>2. all \subseteq {c0} /\ \A c \in all : Pending(b, t) /\ Live(b, past, c)
        BY <1>3
      <4> HIDE DEF all
      <4> QED
        BY <4>1, <4>2
    <3>2. hit \in SUBSET Cards /\ \A c \in hit : delta[c] \in Int
      BY <1>3
    <3>3. /\ x \in Tables
          /\ x.row = b.row /\ x.entries = b.entries /\ x.tx = b.tx
          /\ \A c \in Cards :
               /\ x.credits[c] = IF c \in hit THEN b.credits[c] + delta[c] ELSE b.credits[c]
               /\ x.marker[c] = IF c \in hit THEN t ELSE b.marker[c]
      BY <1>1, <1>2, <3>1, <3>2, MoveTables
    <3>4. b.row \in [Cards -> BOOLEAN]
      BY <1>2 DEF Tables
    <3> WITNESS hit \in SUBSET {c0}
    <3> QED
      BY <2>2, <3>1, <3>2, <3>3, <3>4 DEF Live
  <2> QED
    BY <2>1, <2>2
<1>5. CASE d.tx[t] = "applied"
  <2>1. hit = {}
    BY <1>1, <1>2, <1>4, <1>5 DEF Pending
  <2>2. x.credits = d.credits /\ x.marker = d.marker /\ x.row = d.row
    <3>1. /\ x.credits \in [Cards -> Int] /\ x.marker \in [Cards -> Keys \cup {NoTx}]
          /\ x.row \in [Cards -> BOOLEAN]
      BY <1>4 DEF Tables
    <3>2. \A c \in Cards : x.credits[c] = d.credits[c] /\ x.marker[c] = d.marker[c] /\ x.row[c] = d.row[c]
      BY <1>1, <1>2, <1>4, <2>1
    <3> QED
      BY <1>1, <3>1, <3>2
  <2>3. x.tx = d.tx
    BY <1>1, <1>2, <1>4, <1>5
  <2>4. Same(d, x)
    BY <1>2, <1>4, <2>2, <2>3 DEF Same
  <2>5. Same(d, next)
    BY <1>1, <1>5, <2>4, GroupRepeated
  <2> QED
    BY <2>5 DEF TopUpOutcome, delta
<1>6. CASE d.tx[t] = "absent"
  <2>1. x.tx = [d.tx EXCEPT ![t] = "pending"]
    BY <1>1, <1>2, <1>4, <1>6
  <2>2. Midway(d, t, delta, hit, x)
    BY <1>1, <1>2, <1>4, <2>1 DEF Midway
  <2>3. \/ hit = DOMAIN delta /\ Applies(d, t, delta, hit, next)
        \/ hit # DOMAIN delta /\ Same(d, next)
    <3>1. /\ t \in Keys /\ d.tx[t] = "absent" /\ DOMAIN delta \subseteq Cards
          /\ \A c \in DOMAIN delta : delta[c] \in Int
          /\ hit \in SUBSET DOMAIN delta
      BY <1>1, <1>3, <1>6
    <3> HIDE DEF next
    <3>2. \/ hit = DOMAIN delta /\ Applies(d, t, delta, hit, Conclude(x, t, delta))
          \/ hit # DOMAIN delta /\ Same(d, Conclude(x, t, delta))
      BY <2>2, <3>1, GroupConcludes
    <3> QED
      BY <3>2 DEF next
  <2>4. \A c \in hit : IF t \in Opens THEN ~d.row[c] ELSE Live(d, past, c)
    BY <1>2, <1>4 DEF Live
  <2> QED
    BY <1>3, <2>3, <2>4 DEF TopUpOutcome, delta, c0
<1> QED
  BY <1>1, <1>5, <1>6

\* A top-up is applied as a whole, to a live card or a new one, or leaves the tables as they were.
LEMMA TopUpBatchConcludes ==
  ASSUME NEW d, LedgerInv(d), NEW t \in TopUps
  PROVE  LedgerInv(Swept(d, t)) /\ TopUpOutcome(Swept(d, t), t, TopUpBatch(d, t, past))
<1> DEFINE clean == Swept(d, t)
           b == InsertTransaction(clean, t)
           x == IF t \in Opens THEN CreateCard(b, t, ToppedUp(t), past)
                ELSE Credit(b, t, ToppedUp(t), past)
<1>1. LedgerInv(clean)
  BY DeleteHolds DEF Swept
<1>2. TopUpBatch(d, t, past) = Conclude(x, t, ToppedUp(t))
  BY DEF TopUpBatch, ToppedUp, Swept
<1> HIDE DEF clean
<1>3. TopUpOutcome(clean, t, Conclude(x, t, ToppedUp(t)))
  BY <1>1, TopUpConcludes
<1> QED
  BY <1>1, <1>2, <1>3 DEF clean

\* Either way the tables add up.
LEMMA TopUpHolds ==
  ASSUME NEW d, LedgerInv(d), NEW t \in TopUps, NEW next, TopUpOutcome(d, t, next)
  PROVE  LedgerInv(next)
<1>1. CASE Same(d, next)
  BY <1>1, SameHolds
<1>2. CASE /\ Applies(d, t, ToppedUp(t), {CardOf[t]}, next)
           /\ IF t \in Opens THEN ~d.row[CardOf[t]] ELSE Live(d, past, CardOf[t])
  <2> DEFINE c0 == CardOf[t]
             delta == ToppedUp(t)
  <2>1. c0 \in Cards /\ delta[c0] = Amount[t] /\ Amount[t] \in Nat /\ t \in Keys /\ t \notin Charges
    BY LedgerAssumption DEF ToppedUp, Keys
  <2>2. d.credits[c0] \in Nat
    BY <2>1 DEF LedgerInv, Ledgers
  <2>3. d.row[c0] \/ t \in Opens
    BY <1>2 DEF Live
  <2> HIDE DEF delta
  <2>4. SumFunctionOnSet(delta, {c0}) = Amount[t]
    BY <2>1, SumOfOne
  <2>5. Applies(d, t, delta, {c0}, next)
    BY <1>2 DEF delta
  <2> DEFINE D == {c0}
  <2>6. /\ D \in SUBSET Cards /\ \A c \in D : c = c0
        /\ \A c \in D : delta[c] \in Int /\ d.credits[c] + delta[c] >= 0 /\ CardOf[t] = c
    BY <2>1, <2>2
  <2>7. Applies(d, t, delta, D, next) /\ SumFunctionOnSet(delta, D) = Amount[t]
    BY <2>4, <2>5
  <2> HIDE DEF D, c0
  <2> QED
    BY <2>1, <2>3, <2>6, <2>7, AppliesHolds
<1> QED
  BY <1>1, <1>2 DEF TopUpOutcome

-----------------------------------------------------------------------------
\* allocate_cards.

Before(c) == {e \in Cards : Expiry[e] < Expiry[c]}

\* Of some cards one expires last.
LEMMA LastCard ==
  ASSUME NEW D \in SUBSET Cards, D # {}
  PROVE  \E m \in D : \A c \in D : Expiry[c] <= Expiry[m]
<1> DEFINE From(c) == {e \in D : Expiry[e] >= Expiry[c]}
           T == {From(c) : c \in D}
<1>1. IsFiniteSet(D) /\ T \subseteq SUBSET D /\ T # {}
  <2>1. IsFiniteSet(D)
    BY LedgerAssumption, FS_Subset
  <2>2. PICK c \in D : TRUE
    OBVIOUS
  <2>3. From(c) \in T
    OBVIOUS
  <2> QED
    BY <2>1, <2>3
<1>2. PICK x \in T : \A y \in T : y \subseteq x => y = x
  <2> HIDE DEF T
  <2> QED
    BY <1>1, SmallestSet
<1>3. PICK m \in D : x = From(m)
  OBVIOUS
<1>4. ASSUME NEW c \in D PROVE Expiry[c] <= Expiry[m]
  <2>1. Expiry[c] \in Nat /\ Expiry[m] \in Nat /\ \A e \in D : Expiry[e] \in Nat
    BY LedgerAssumption
  <2>2. CASE Expiry[c] > Expiry[m]
    <3>1. From(c) \subseteq From(m) /\ m \in From(m) /\ m \notin From(c)
      BY <2>1, <2>2
    <3>2. From(c) \in T
      OBVIOUS
    <3> QED
      BY <1>2, <1>3, <3>1, <3>2
  <2> QED
    BY <2>1, <2>2
<1> QED
  BY <1>4

\* What is taken from a card: what it has, or what the cards that expire before it have left of the amount.
LEMMA AllocationTakes ==
  ASSUME NEW seen \in [Cards -> Nat], NEW amount \in Nat, NEW c \in Cards,
         NEW b, b = SumFunctionOnSet(seen, Before(c)), NEW a, a = Allocation(seen, amount)
  PROVE  /\ b \in Nat /\ a[c] \in Nat
         /\ a[c] = IF b >= amount THEN 0 ELSE IF seen[c] < amount - b THEN seen[c] ELSE amount - b
<1>1. IsFiniteSet(Before(c)) /\ Before(c) \subseteq Cards
  BY LedgerAssumption, FS_Subset DEF Before
<1>2. b \in Nat
  BY <1>1, SumNatural
<1> DEFINE left == IF b >= amount THEN 0 ELSE amount - b
<1>3. a[c] = IF seen[c] < left THEN seen[c] ELSE left
  BY DEF Allocation, Before
<1>4. seen[c] \in Nat
  OBVIOUS
<1> QED
  BY ONLY <1>2, <1>3, <1>4, amount \in Nat

\* The cards that expire first pay first: of the cards up to one of them it takes what they have, or
\* the amount when they have it.
LEMMA AllocationOfFirst ==
  ASSUME NEW seen \in [Cards -> Nat], NEW amount \in Nat, NEW a, a = Allocation(seen, amount),
         NEW D \in SUBSET Cards, \A c \in D : Before(c) \subseteq D
  PROVE  SumFunctionOnSet(a, D) =
           IF SumFunctionOnSet(seen, D) >= amount THEN amount ELSE SumFunctionOnSet(seen, D)
<1> DEFINE Right(n, m) == n = IF m >= amount THEN amount ELSE m
           T == {s \in SUBSET Cards : /\ \A c \in s : Before(c) \subseteq s
                                      /\ ~Right(SumFunctionOnSet(a, s), SumFunctionOnSet(seen, s))}
<1> HIDE DEF Right
<1> SUFFICES ASSUME T # {} PROVE FALSE
  <2>1. D \notin T => Right(SumFunctionOnSet(a, D), SumFunctionOnSet(seen, D))
    OBVIOUS
  <2>2. T = {} => D \notin T
    OBVIOUS
  <2> QED
    BY <2>1, <2>2 DEF Right
<1>0. T \subseteq SUBSET Cards /\ IsFiniteSet(Cards)
  BY LedgerAssumption
<1>1. PICK s \in T : \A r \in T : r \subseteq s => r = s
  <2> HIDE DEF T
  <2> QED
    BY <1>0, SmallestSet
<1>2. /\ s \subseteq Cards /\ IsFiniteSet(s) /\ \A c \in s : Before(c) \subseteq s
      /\ ~Right(SumFunctionOnSet(a, s), SumFunctionOnSet(seen, s))
  BY <1>0, FS_Subset
<1>3. s # {}
  <2> SUFFICES ASSUME s = {} PROVE FALSE
    OBVIOUS
  <2>1. SumFunctionOnSet(a, s) = 0 /\ SumFunctionOnSet(seen, s) = 0
    BY SumOfNone
  <2>2. Right(0, 0)
    BY DEF Right
  <2> HIDE DEF T
  <2> QED
    BY ONLY <1>2, <2>1, <2>2, Zenon
<1>4. PICK m \in s : \A c \in s : Expiry[c] <= Expiry[m]
  BY <1>2, <1>3, LastCard
<1>5. \A c, e \in Cards : Expiry[c] \in Nat /\ (c # e => Expiry[c] # Expiry[e])
  BY LedgerAssumption
<1>6. s \ {m} = Before(m)
  <2>1. \A c \in s \ {m} : c \in Before(m)
    BY <1>2, <1>4, <1>5 DEF Before
  <2>2. \A c \in Before(m) : c \in s /\ c # m
    BY <1>2, <1>5 DEF Before
  <2> QED
    BY <2>1, <2>2
<1>7. Right(SumFunctionOnSet(a, s \ {m}), SumFunctionOnSet(seen, s \ {m}))
  <2>1. s \ {m} \in SUBSET Cards /\ s \ {m} \subseteq s /\ s \ {m} # s
    BY <1>2
  <2>2. \A c \in s \ {m} : Before(c) \subseteq s \ {m}
    BY <1>2, <1>4, <1>5 DEF Before
  <2> QED
    BY <1>1, <2>1, <2>2
<1> HIDE DEF T
<1> DEFINE b  == SumFunctionOnSet(seen, s \ {m})
           at == SumFunctionOnSet(a, s \ {m})
           bs == SumFunctionOnSet(seen, s)
           ts == SumFunctionOnSet(a, s)
           am == a[m]
           sm == seen[m]
<1>8. /\ b \in Nat /\ am \in Nat /\ sm \in Nat
      /\ am = IF b >= amount THEN 0 ELSE IF sm < amount - b THEN sm ELSE amount - b
  <2>1. m \in Cards /\ sm \in Nat /\ sm = seen[m] /\ am = a[m]
    BY <1>2
  <2>2. b = SumFunctionOnSet(seen, Before(m))
    BY <1>6
  <2> HIDE DEF b, sm, am
  <2>3. /\ b \in Nat /\ a[m] \in Nat
        /\ a[m] = IF b >= amount THEN 0 ELSE IF seen[m] < amount - b THEN seen[m] ELSE amount - b
    BY <2>1, <2>2, AllocationTakes
  <2> QED
    BY <2>1, <2>3
<1>9. bs = sm + b /\ ts = am + at
  <2>1. \A c \in s : seen[c] \in Int /\ a[c] \in Int
    BY <1>2, AllocationTakes
  <2>2. Summable(seen, s) /\ Summable(a, s)
    BY <1>2, <2>1, SumPeels
  <2> QED
    BY <2>2 DEF Summable
<1>10. Right(at, b) /\ ~Right(ts, bs)
  BY <1>2, <1>7
<1>11. at = (IF b >= amount THEN amount ELSE b) /\ amount \in Nat
  BY <1>10 DEF Right
<1>12. ts # IF bs >= amount THEN amount ELSE bs
  BY <1>10 DEF Right
<1> HIDE DEF b, at, bs, ts, am, sm
<1> QED
  BY ONLY <1>8, <1>9, <1>11, <1>12

\* With enough credits the whole amount is allocated.
LEMMA AllocationIsWhole ==
  ASSUME NEW seen \in [Cards -> Nat], NEW amount \in Nat, ~Short(seen, amount),
         NEW a, a = Allocation(seen, amount)
  PROVE  a \in [Cards -> Nat] /\ SumFunctionOnSet(a, Cards) = amount
<1>1. \A c \in Cards : a[c] \in Nat
  BY AllocationTakes
<1>2. a \in [Cards -> Nat]
  BY <1>1 DEF Allocation
<1>3. SumFunctionOnSet(seen, Cards) \in Nat
  BY LedgerAssumption, SumNatural
<1>4. DOMAIN seen = Cards
  OBVIOUS
<1>5. SumFunctionOnSet(seen, Cards) >= amount
  BY <1>3, <1>4 DEF Short, SumFunction
<1>6. Cards \in SUBSET Cards /\ \A c \in Cards : Before(c) \subseteq Cards
  BY DEF Before
<1> QED
  BY <1>2, <1>5, <1>6, AllocationOfFirst

-----------------------------------------------------------------------------
\* The tables and the calls.

\* What a call keeps: what it has read of the cards, or what it takes from each.
Knows(r) ==
  /\ r \in Calls
  /\ IF r.at = "debiting"
     THEN r.cards \in [Cards -> Nat] /\ SumFunctionOnSet(r.cards, Cards) = Amount[r.usage]
     ELSE r.cards \in [Cards -> Nat \cup {Unread}]

SettleInv ==
  /\ job \in [Usages -> Jobs] /\ recorded \subseteq Usages
  /\ LedgerInv(ledger) /\ past \subseteq Cards \ {Primary}
  /\ DOMAIN call = Callers /\ call \in [Callers -> Calls] /\ \A w \in Callers : Knows(call[w])
  /\ faults \in 0..MaxFaults /\ events \in 0..MaxEvents

\* A call goes on, and keeps what it may.
Goes(w) == \E r : Knows(r) /\ call' = [call EXCEPT ![w] = r]

\* The invariant holds at first.
LEMMA SettleInit == Init => SettleInv
<1> SUFFICES ASSUME Init PROVE SettleInv
  OBVIOUS
<1>1. EmptyLedger \in Ledgers
  BY DEF EmptyLedger, Ledgers
<1>2. LedgerInv(EmptyLedger)
  <2>1. EmptyLedger.entries = {} /\ IsFiniteSet({})
    BY FS_EmptySet DEF EmptyLedger
  <2>2. \A c \in Cards : OnCard(EmptyLedger, c) = {}
    BY <2>1 DEF OnCard
  <2>3. \A k \in Keys : OfKey(EmptyLedger, k) = {} /\ EmptyLedger.tx[k] = "absent"
    BY <2>1 DEF OfKey, EmptyLedger
  <2>4. \A c \in Cards : /\ EmptyLedger.marker[c] = NoTx /\ EmptyLedger.credits[c] = 0
                         /\ EmptyLedger.row[c] = (c = Primary)
    BY DEF EmptyLedger
  <2> QED
    BY <1>1, <2>1, <2>2, <2>3, <2>4, TotalOfNone DEF LedgerInv
<1>3. NoJob \in Jobs
  BY DEF NoJob, Jobs, Statuses
<1>4. Knows(Idle)
  BY <1>3 DEF Knows, Idle, Calls, Awaits, Unseen, Unread
<1>5. call = [w \in Callers |-> Idle] /\ Idle \in Calls
  BY <1>4 DEF Init, Knows
<1> QED
  BY <1>2, <1>3, <1>4, <1>5, SettlementAssumption DEF Init, SettleInv

\* A step in which a call at most goes on, and the rest is in order.
LEMMA SettleKeeps ==
  ASSUME SettleInv, job' \in [Usages -> Jobs], recorded' \subseteq Usages, LedgerInv(ledger'),
         past' \subseteq Cards \ {Primary}, faults' \in 0..MaxFaults, events' \in 0..MaxEvents,
         call' = call \/ \E w \in Callers : Goes(w)
  PROVE  SettleInv'
<1>1. CASE call' = call
  BY <1>1 DEF SettleInv, Knows
<1>2. CASE \E w \in Callers : Goes(w)
  <2>0. PICK w \in Callers : Goes(w)
    BY <1>2
  <2>1. PICK r : Knows(r) /\ call' = [call EXCEPT ![w] = r]
    BY <2>0 DEF Goes
  <2>2. r \in Calls /\ call \in [Callers -> Calls] /\ \A v \in Callers : Knows(call[v])
    BY <2>1 DEF Knows, SettleInv
  <2>3. call' \in [Callers -> Calls]
    BY <2>1, <2>2
  <2>4. \A v \in Callers : call'[v] = IF v = w THEN r ELSE call[v]
    BY <2>1, <2>2
  <2>5. \A v \in Callers : Knows(call'[v])
    BY <2>1, <2>2, <2>4
  <2> QED
    BY <2>3, <2>5 DEF SettleInv, Knows
<1> QED
  BY <1>1, <1>2

\* A call that has read nothing.
LEMMA Unknowing ==
  /\ Unseen \in [Cards -> Int] /\ Unseen \in [Cards -> Nat \cup {Unread}]
  /\ NoJob \in Jobs /\ Idle \in Calls /\ Idle.cards = Unseen
<1>1. Unseen \in [Cards -> Int] /\ Unseen \in [Cards -> Nat \cup {Unread}]
  BY DEF Unseen, Unread
<1>2. NoJob \in Jobs
  BY DEF NoJob, Jobs, Statuses
<1> QED
  BY <1>1, <1>2 DEF Idle, Calls, Awaits

\* A call that has read no card is in order wherever it waits.
LEMMA KnowsNothing ==
  ASSUME NEW r \in Calls, r.at # "debiting", r.cards = Unseen
  PROVE  Knows(r)
BY Unknowing DEF Knows

\* Where the call of a step returns to, gives up or fails.
LEMMA ReturnKnows ==
  ASSUME SettleInv, NEW w \in Callers, Return(w) \/ Throw(w)
  PROVE  Goes(w)
<1>1. NoJob \in Jobs
  BY DEF NoJob, Jobs, Statuses
<1>2. Knows(Idle)
  BY <1>1 DEF Knows, Idle, Calls, Awaits, Unseen, Unread
<1>3. call[w] \in Calls
  BY DEF SettleInv
<1>4. Knows([Idle EXCEPT !.at = "next", !.todo = call[w].todo])
  BY <1>2, <1>3 DEF Knows, Idle, Calls, Awaits
<1> QED
  BY <1>2, <1>4 DEF Return, Throw, SettleInv, Goes

\* A call that could not charge goes on to weigh why.
LEMMA NotChargedKnows ==
  ASSUME SettleInv, NEW w \in Callers, NEW verdict \in {"rejected", "retryable"}, NotCharged(w, verdict)
  PROVE  Goes(w)
<1> DEFINE r == [call[w] EXCEPT !.at = "failing", !.verdict = verdict, !.cards = Unseen]
<1>1. call[w] \in Calls
  BY DEF SettleInv
<1>2. r \in Calls /\ r.at # "debiting" /\ r.cards = Unseen
  BY <1>1, Unknowing DEF Calls, Awaits
<1>3. call' = [call EXCEPT ![w] = r]
  BY <1>1 DEF NotCharged, SettleInv
<1> QED
  BY <1>2, <1>3, KnowsNothing DEF Goes

\* Another await, with nothing else: not the one before the charge is sent.
LEMMA GotoKnows ==
  ASSUME SettleInv, NEW w \in Callers, NEW at \in Awaits \ {"debiting"}, call[w].at # "debiting", Goto(w, at)
  PROVE  Goes(w)
<1> DEFINE r == [call[w] EXCEPT !.at = at]
<1>1. call[w] \in Calls /\ Knows(call[w])
  BY DEF SettleInv
<1>2. Knows(r)
  BY <1>1 DEF Knows, Calls
<1>3. call' = [call EXCEPT ![w] = r]
  BY <1>1 DEF Goto, SettleInv
<1> QED
  BY <1>2, <1>3 DEF Goes

\* A call that begins has read nothing.
LEMMA ProcessKnows ==
  ASSUME SettleInv, NEW w \in Callers, NEW u \in Usages, Process(w, u)
  PROVE  Goes(w)
<1> DEFINE r == [Idle EXCEPT !.at = "selecting", !.usage = u]
<1>1. r \in Calls /\ r.at # "debiting" /\ r.cards = Unseen
  BY Unknowing DEF Calls, Awaits
<1> QED
  BY <1>1, KnowsNothing DEF Process, Goes

\* What stays as it was is in order.
LEMMA Settled ==
  ASSUME SettleInv
  PROVE  /\ job \in [Usages -> Jobs] /\ recorded \subseteq Usages
         /\ LedgerInv(ledger) /\ past \subseteq Cards \ {Primary}
         /\ faults \in 0..MaxFaults /\ events \in 0..MaxEvents
BY DEF SettleInv

\* A finished execution and a delivery start a call; the execution creates the job.
LEMMA SettleCalls ==
  ASSUME SettleInv, NEW w \in Callers, NEW u \in Usages, SettleExecution(w, u) \/ Deliver(w, u)
  PROVE  SettleInv'
<1>1. Goes(w)
  BY ProcessKnows DEF SettleExecution, Deliver
<1>2. job' \in [Usages -> Jobs]
  <2>1. [status |-> "pending", token |-> NoToken, due |-> TRUE] \in Jobs
    BY DEF Jobs, Statuses
  <2> QED
    BY <2>1, Settled DEF SettleExecution, Deliver, database
<1> QED
  BY <1>1, <1>2, Settled, SettleKeeps DEF SettleExecution, Deliver, database

\* The maintenance takes the jobs that are due one by one.
LEMMA SettleMaintain ==
  ASSUME SettleInv, NEW w \in Callers, Maintain(w) \/ MaintainNext(w)
  PROVE  SettleInv'
<1>1. Goes(w)
  <2>1. CASE Maintain(w)
    <3> DEFINE r == [Idle EXCEPT !.at = "next", !.todo = {u \in Usages : Due(u)}]
    <3>1. r \in Calls /\ r.at # "debiting" /\ r.cards = Unseen
      BY Unknowing DEF Calls, Awaits
    <3> QED
      BY <2>1, <3>1, KnowsNothing DEF Maintain, Goes
  <2>2. CASE MaintainNext(w)
    <3>1. call[w] \in Calls /\ Knows(call[w]) /\ call[w].at = "next"
      BY <2>2 DEF SettleInv, MaintainNext
    <3>2. PICK u \in call[w].todo :
             call' = [call EXCEPT ![w].at = "selecting", ![w].usage = u, ![w].todo = @ \ {u}]
      BY <2>2 DEF MaintainNext
    <3> DEFINE r == [call[w] EXCEPT !.at = "selecting", !.usage = u, !.todo = @ \ {u}]
    <3>3. Knows(r)
      BY <3>1 DEF Knows, Calls, Awaits
    <3>4. call' = [call EXCEPT ![w] = r]
      BY <3>1, <3>2 DEF SettleInv
    <3> QED
      BY <3>3, <3>4 DEF Goes
  <2> QED
    BY <2>1, <2>2
<1> QED
  BY <1>1, Settled, SettleKeeps DEF Maintain, MaintainNext, database

\* The read of the job.
LEMMA SettleSelect ==
  ASSUME SettleInv, IInv, NEW w \in Callers, Select(w)
  PROVE  SettleInv'
<1>1. Goes(w)
  <2>1. CASE Due(call[w].usage)
    <3>1. call[w] \in Calls /\ Knows(call[w]) /\ call[w].at = "selecting" /\ job[call[w].usage] \in Jobs
      BY DEF SettleInv, Select, IInv, CallTrue
    <3> DEFINE r == [call[w] EXCEPT !.at = "claiming", !.read = job[call[w].usage]]
    <3>2. Knows(r)
      BY <3>1 DEF Knows, Calls, Awaits
    <3>3. call' = [call EXCEPT ![w] = r]
      BY <2>1, <3>1 DEF SettleInv, Select
    <3> QED
      BY <3>2, <3>3 DEF Goes
  <2>2. CASE ~Due(call[w].usage)
    BY <2>2, ReturnKnows DEF Select
  <2> QED
    BY <2>1, <2>2
<1> QED
  BY <1>1, Settled, SettleKeeps DEF Select, database

\* A lease is a token nobody has.
LEMMA LeaseTyped ==
  ASSUME SettleInv, NEW w \in Callers, call[w].usage \in Usages, Lease(w)
  PROVE  job' \in [Usages -> Jobs] /\ FreshToken \in Tokens
<1>1. FreshToken \in Tokens
  BY DEF Lease, FreshToken
<1> QED
  BY <1>1 DEF Lease, SettleInv, Jobs, Statuses

\* The claim of the job.
LEMMA SettleClaim ==
  ASSUME SettleInv, IInv, NEW w \in Callers, Claim(w)
  PROVE  SettleInv'
<1>1. call[w].usage \in Usages
  BY DEF Claim, IInv, CallTrue
<1>2. CASE Matches(w)
  <2>1. call[w] \in Calls /\ Knows(call[w]) /\ call[w].at = "claiming" /\ NoJob \in Jobs
    BY DEF SettleInv, Claim, NoJob, Jobs, Statuses
  <2>2. job' \in [Usages -> Jobs] /\ FreshToken \in Tokens
    BY <1>1, <1>2, LeaseTyped DEF Claim
  <2> DEFINE r == [call[w] EXCEPT !.at = "recording", !.token = FreshToken, !.read = NoJob]
  <2>3. Knows(r)
    BY <2>1, <2>2 DEF Knows, Calls, Awaits
  <2>4. call' = [call EXCEPT ![w] = r]
    BY <1>2, <2>1 DEF SettleInv, Claim
  <2> QED
    BY <2>2, <2>3, <2>4, Settled, SettleKeeps DEF Claim, Goes
<1>3. CASE ~Matches(w)
  BY <1>3, ReturnKnows, Settled, SettleKeeps DEF Claim
<1> QED
  BY <1>2, <1>3

\* The record of the usage, and the first look for the transaction.
LEMMA SettleRecord ==
  ASSUME SettleInv, IInv, NEW w \in Callers, Record(w) \/ Find(w) \/ Verify(w)
  PROVE  SettleInv'
<1>1. Goes(w)
  <2>1. PICK at \in {"finding", "completing", "allocating", "weighing"} : Goto(w, at)
    BY DEF Record, Find, Verify
  <2>2. at \in Awaits \ {"debiting"} /\ call[w].at # "debiting"
    BY DEF Awaits, Record, Find, Verify
  <2> QED
    BY <2>1, <2>2, GotoKnows
<1>2. recorded' \subseteq Usages
  BY DEF Record, Find, Verify, database, SettleInv, IInv, CallTrue
<1> QED
  BY <1>1, <1>2, Settled, SettleKeeps DEF Record, Find, Verify, database

\* The reads of the cards.
LEMMA SettleRead ==
  ASSUME SettleInv, NEW w \in Callers, ReadPrimary(w) \/ ReadEphemeral(w)
  PROVE  SettleInv'
<1>1. call[w] \in Calls /\ Knows(call[w]) /\ call[w].at # "debiting"
  BY DEF SettleInv, ReadPrimary, ReadEphemeral
<1>2. call[w].cards \in [Cards -> Nat \cup {Unread}]
  BY <1>1 DEF Knows
<1>3. ledger.credits \in [Cards -> Nat]
  BY DEF SettleInv, LedgerInv, Ledgers
<1>4. CASE ReadPrimary(w)
  <2> DEFINE cards == [call[w].cards EXCEPT ![Primary] = ledger.credits[Primary]]
             r == [call[w] EXCEPT !.cards = cards]
  <2>1. cards \in [Cards -> Nat \cup {Unread}] /\ cards \in [Cards -> Int]
    BY <1>2, <1>3, LedgerAssumption DEF Unread
  <2>2. call' = [call EXCEPT ![w] = r]
    BY <1>1, <1>4 DEF ReadPrimary, SettleInv
  <2> HIDE DEF cards
  <2>3. Knows(r)
    BY <1>1, <2>1 DEF Knows, Calls
  <2> QED
    BY <1>4, <2>2, <2>3, Settled, SettleKeeps DEF ReadPrimary, database, Goes
<1>5. CASE ReadEphemeral(w)
  <2> DEFINE cards == [c \in Cards |-> IF c = Primary THEN call[w].cards[c]
                                       ELSE IF Live(ledger, past, c) THEN ledger.credits[c] ELSE 0]
             r == [call[w] EXCEPT !.cards = cards]
  <2>1. cards \in [Cards -> Nat \cup {Unread}] /\ cards \in [Cards -> Int]
    BY <1>2, <1>3, LedgerAssumption DEF Unread
  <2>2. call' = [call EXCEPT ![w] = r]
    BY <1>1, <1>5 DEF ReadEphemeral, SettleInv
  <2> HIDE DEF cards
  <2>3. Knows(r)
    BY <1>1, <2>1 DEF Knows, Calls
  <2>4. LedgerInv(ledger')
    BY <1>5, DeleteHolds, Settled DEF ReadEphemeral
  <2> QED
    BY <1>5, <2>2, <2>3, <2>4, Settled, SettleKeeps DEF ReadEphemeral, Goes
<1> QED
  BY <1>4, <1>5

\* What is taken from each card comes to the amount of the charge.
LEMMA SettleAllocate ==
  ASSUME SettleInv, IInv, NEW w \in Callers, Allocate(w) \/ Weigh(w)
  PROVE  SettleInv'
<1>1. Goes(w)
  <2>1. CASE Weigh(w) \/ (Allocate(w) /\ Short(call[w].cards, Amount[call[w].usage]))
    <3>1. PICK verdict \in {"rejected", "retryable"} : NotCharged(w, verdict)
      BY <2>1 DEF Allocate, Weigh
    <3> QED
      BY <3>1, NotChargedKnows
  <2>2. CASE Allocate(w) /\ ~Short(call[w].cards, Amount[call[w].usage])
    <3> DEFINE seen == call[w].cards
               amount == Amount[call[w].usage]
               a == Allocation(seen, amount)
               r == [call[w] EXCEPT !.at = "debiting", !.cards = a]
    <3>1. call[w] \in Calls /\ Knows(call[w]) /\ call[w].at = "allocating" /\ AllRead(w)
      BY <2>2 DEF SettleInv, Allocate
    <3>2. seen \in [Cards -> Nat]
      BY <3>1 DEF Knows, AllRead, Unread
    <3>3. amount \in Nat
      BY <3>1, LedgerAssumption DEF IInv, CallTrue, Keys
    <3>4. a \in [Cards -> Nat] /\ SumFunctionOnSet(a, Cards) = amount
      BY <2>2, <3>2, <3>3, AllocationIsWhole
    <3>5. call' = [call EXCEPT ![w] = r]
      BY <2>2, <3>1 DEF Allocate, SettleInv
    <3> HIDE DEF a
    <3>6. a \in [Cards -> Int]
      BY <3>4
    <3>7. r \in Calls /\ r.at = "debiting" /\ r.cards = a /\ r.usage = call[w].usage
      BY <3>1, <3>6 DEF Calls, Awaits
    <3> HIDE DEF r
    <3>8. Knows(r)
      BY <3>4, <3>7 DEF Knows
    <3> QED
      BY <3>5, <3>8 DEF Goes
  <2> QED
    BY <2>1, <2>2
<1> QED
  BY <1>1, Settled, SettleKeeps DEF Allocate, Weigh, database

\* A charge that is sent leaves the tables in order, whatever has changed since the cards were read.
LEMMA TakeHolds ==
  ASSUME SettleInv, IInv, NEW w \in Callers, call[w].at = "debiting", TakeCredits(w)
  PROVE  /\ LedgerInv(ledger')
         /\ call[w].usage \in Charges /\ call[w].cards \in [Cards -> Nat]
         /\ SumFunctionOnSet(call[w].cards, Cards) = Amount[call[w].usage]
         /\ ChargeOutcome(ledger, call[w].usage, call[w].cards, ledger')
<1>1. /\ call[w].usage \in Charges /\ call[w].cards \in [Cards -> Nat]
      /\ SumFunctionOnSet(call[w].cards, Cards) = Amount[call[w].usage]
  BY DEF SettleInv, Knows, IInv, CallTrue
<1>2. ChargeOutcome(ledger, call[w].usage, call[w].cards, ledger')
  BY <1>1, Settled, ChargeConcludes DEF TakeCredits
<1>3. LedgerInv(ledger')
  BY <1>1, <1>2, Settled, ChargeHolds
<1> QED
  BY <1>1, <1>2, <1>3

\* The charge.
LEMMA SettleDebit ==
  ASSUME SettleInv, IInv, NEW w \in Callers, DebitCards(w)
  PROVE  SettleInv'
<1> DEFINE r == [call[w] EXCEPT !.at = "verifying", !.cards = Unseen]
<1>1. call[w] \in Calls
  BY DEF SettleInv
<1>2. r \in Calls /\ r.at # "debiting" /\ r.cards = Unseen
  BY <1>1, Unknowing DEF Calls, Awaits
<1>3. call' = [call EXCEPT ![w] = r]
  BY <1>1 DEF DebitCards, SettleInv
<1>4. LedgerInv(ledger')
  BY TakeHolds DEF DebitCards
<1> QED
  BY <1>2, <1>3, <1>4, KnowsNothing, Settled, SettleKeeps DEF DebitCards, Goes

\* A decision is one.
LEMMA DecideTyped ==
  ASSUME SettleInv, NEW w \in Callers, call[w].usage \in Usages,
         NEW status \in {"completed", "rejected", "retryable"}, Decide(w, status)
  PROVE  job' \in [Usages -> Jobs]
BY DEF Decide, SettleInv, Jobs, Statuses

\* What a call concludes and writes into the job.
LEMMA SettleDecide ==
  ASSUME SettleInv, IInv, NEW w \in Callers, Complete(w) \/ Fail(w)
  PROVE  SettleInv'
<1>1. Goes(w)
  BY ReturnKnows DEF Complete, Fail
<1>2. call[w].usage \in Usages
  BY DEF Complete, Fail, IInv, CallTrue
<1>3. PICK status \in {"completed", "rejected", "retryable"} : Decide(w, status)
  BY DEF Complete, Fail, IInv, CallTrue
<1>4. job' \in [Usages -> Jobs]
  BY <1>2, <1>3, DecideTyped
<1> QED
  BY <1>1, <1>4, Settled, SettleKeeps DEF Complete, Fail

\* The faults are counted.
LEMMA FaultTyped == ASSUME SettleInv, NEW kind, Fault(kind) PROVE faults' \in 0..MaxFaults
BY SettlementAssumption DEF Fault, SettleInv

\* A failing statement, a lost answer and a crash.
LEMMA SettleFaults ==
  ASSUME SettleInv, IInv, NEW w \in Callers, StatementFails(w) \/ AnswerLost(w) \/ Crash(w)
  PROVE  SettleInv'
<1>1. faults' \in 0..MaxFaults
  BY FaultTyped DEF StatementFails, AnswerLost, Crash
<1>2. Goes(w)
  <2>1. Throw(w) \/ NotCharged(w, "retryable")
    BY DEF StatementFails, AnswerLost, Crash
  <2> QED
    BY <2>1, ReturnKnows, NotChargedKnows
<1>3. CASE StatementFails(w) \/ Crash(w)
  BY <1>1, <1>2, <1>3, Settled, SettleKeeps DEF StatementFails, Crash, database
<1>4. CASE AnswerLost(w)
  <2>1. LedgerInv(ledger')
    BY <1>4, TakeHolds, Settled DEF AnswerLost
  <2>2. job' \in [Usages -> Jobs]
    <3>1. CASE job' = job
      BY <3>1, Settled
    <3>2. CASE call[w].at = "claiming" /\ Lease(w)
      BY <3>2, LeaseTyped DEF IInv, CallTrue
    <3>3. CASE call[w].at = "completing" /\ Decide(w, "completed")
      BY <3>3, DecideTyped DEF IInv, CallTrue
    <3> QED
      BY <1>4, <3>1, <3>2, <3>3 DEF AnswerLost
  <2> QED
    BY <1>1, <1>2, <1>4, <2>1, <2>2, Settled, SettleKeeps DEF AnswerLost
<1> QED
  BY <1>3, <1>4

\* Time and the top-ups.
LEMMA SettleTime ==
  ASSUME SettleInv,
         (\E u \in Usages : Elapse(u)) \/ (\E c \in Cards : CardExpires(c)) \/ CleanUp \/ (\E t \in TopUps : TopUp(t))
  PROVE  SettleInv'
<1>1. CASE \E u \in Usages : Elapse(u)
  <2>1. PICK u \in Usages : Elapse(u)
    BY <1>1
  <2>2. job' \in [Usages -> Jobs]
    BY <2>1 DEF Elapse, SettleInv, Jobs
  <2>3. events' \in 0..MaxEvents
    BY <2>1, SettlementAssumption DEF Elapse, SettleInv
  <2> QED
    BY <2>1, <2>2, <2>3, Settled, SettleKeeps DEF Elapse
<1>2. CASE \E c \in Cards : CardExpires(c)
  <2>1. past' \subseteq Cards \ {Primary}
    BY <1>2 DEF CardExpires, SettleInv
  <2> QED
    BY <1>2, <2>1, Settled, SettleKeeps DEF CardExpires
<1>3. CASE \E t \in TopUps : TopUp(t)
  <2>1. LedgerInv(ledger')
    BY <1>3, Settled, TopUpBatchConcludes, TopUpHolds DEF TopUp
  <2> QED
    BY <1>3, <2>1, Settled, SettleKeeps DEF TopUp
<1>4. CASE CleanUp
  <2>1. LedgerInv(ledger')
    BY <1>4, Settled, DeleteHolds DEF CleanUp
  <2> QED
    BY <1>4, <2>1, Settled, SettleKeeps DEF CleanUp
<1> QED
  BY <1>1, <1>2, <1>3, <1>4

\* Every step keeps the tables and the calls in order.
LEMMA SettleNext == SettleInv /\ IInv /\ [Next]_vars => SettleInv'
<1> SUFFICES ASSUME SettleInv, IInv, [Next]_vars PROVE SettleInv'
  OBVIOUS
<1>1. CASE \E w \in Callers, u \in Usages : SettleExecution(w, u) \/ Deliver(w, u)
  BY <1>1, SettleCalls
<1>2. CASE \E w \in Callers : Maintain(w) \/ Step(w) \/ StatementFails(w) \/ AnswerLost(w) \/ Crash(w)
  <2>1. PICK w \in Callers : Maintain(w) \/ Step(w) \/ StatementFails(w) \/ AnswerLost(w) \/ Crash(w)
    BY <1>2
  <2>2. CASE Step(w)
    BY <2>2, SettleMaintain, SettleSelect, SettleClaim, SettleRecord, SettleRead, SettleAllocate,
       SettleDebit, SettleDecide DEF Step
  <2> QED
    BY <2>1, <2>2, SettleMaintain, SettleFaults
<1>3. CASE (\E u \in Usages : Elapse(u)) \/ (\E c \in Cards : CardExpires(c)) \/ CleanUp \/ (\E t \in TopUps : TopUp(t))
  BY <1>3, SettleTime
<1>4. CASE UNCHANGED vars
  BY <1>4, Settled, SettleKeeps DEF vars, database
<1> QED
  BY <1>1, <1>2, <1>3, <1>4 DEF Next

-----------------------------------------------------------------------------
\* The invariant of the tables and the calls holds in every behaviour.
THEOREM SettlementTables == Spec => []SettleInv
BY SettleInit, SettleNext, SettlementInvariant, PTL DEF Spec

\* Every variable has its type, whatever fails.
THEOREM SettlementTypes == Spec => []TypeOK
<1>1. SettleInv => TypeOK
  BY DEF SettleInv, LedgerInv, TypeOK
<1> QED
  BY <1>1, SettlementTables, PTL

\* Whatever fails and however calls overlap: the entries of an applied transaction come to its amount,
\* a transaction that is not applied has none, and what a card holds is what its entries come to
\* (transaction-commands.ts builds the groups of commands, CreditsService runs them: service.ts:354-404).
THEOREM LedgerAddsUp == Spec => []LedgerExact
<1>1. SettleInv => LedgerExact
  BY DEF SettleInv, LedgerInv, LedgerExact, EntriesOf, OfKey, OnCard
<1> QED
  BY <1>1, SettlementTables, PTL

-----------------------------------------------------------------------------
\* The wallet.

LiveCards(d) == {c \in Cards : Live(d, past, c)}

\* What a user has is what the live cards hold.
LEMMA AvailableIs ==
  ASSUME NEW d, LedgerInv(d)
  PROVE  /\ IsFiniteSet(LiveCards(d)) /\ LiveCards(d) \subseteq Cards
         /\ Available(d, past) = SumFunctionOnSet(d.credits, LiveCards(d))
         /\ Available(d, past) \in Nat /\ d.credits \in [Cards -> Nat]
<1>1. IsFiniteSet(LiveCards(d)) /\ LiveCards(d) \subseteq Cards
  BY LedgerAssumption, FS_Subset DEF LiveCards
<1>2. d.credits \in [Cards -> Nat]
  BY DEF LedgerInv, Ledgers
<1>3. Available(d, past) = SumFunctionOnSet(d.credits, LiveCards(d))
  BY DEF Available, LiveCards
<1> QED
  BY <1>1, <1>2, <1>3, SumNatural

\* Cards that have expired count for nothing, before they are deleted and after.
LEMMA DeleteIsUnseen ==
  ASSUME NEW d, LedgerInv(d), NEW x, x = DeleteExpired(d, past)
  PROVE  Available(x, past) = Available(d, past) /\ x.tx = d.tx
<1>1. LedgerInv(x)
  BY DeleteHolds
<1>2. /\ x.tx = d.tx
      /\ \A c \in Cards : x.row[c] = (d.row[c] /\ c \notin past)
      /\ \A c \in Cards : c \notin past => x.credits[c] = d.credits[c]
  BY DeleteTables
<1>3. LiveCards(x) = LiveCards(d) /\ \A c \in LiveCards(d) : c \in Cards /\ c \notin past
  BY <1>2 DEF LiveCards, Live
<1>4. \A c \in LiveCards(d) : d.credits[c] \in Int /\ x.credits[c] = d.credits[c]
  BY <1>2, <1>3, AvailableIs
<1>5. SumFunctionOnSet(x.credits, LiveCards(d)) = SumFunctionOnSet(d.credits, LiveCards(d))
  BY <1>4, AvailableIs, SumAgrees
<1> QED
  BY <1>1, <1>2, <1>3, <1>5, AvailableIs

\* What a transaction adds to the live cards.
LEMMA AppliesChange ==
  ASSUME NEW d, LedgerInv(d), NEW next, LedgerInv(next), NEW D \in SUBSET LiveCards(d),
         NEW delta, \A c \in D : delta[c] \in Int,
         \A c \in Cards : next.row[c] = d.row[c],
         \A c \in Cards : next.credits[c] = IF c \in D THEN d.credits[c] + delta[c] ELSE d.credits[c]
  PROVE  /\ Available(next, past) = Available(d, past) + SumFunctionOnSet(delta, D)
         /\ SumFunctionOnSet(delta, D) \in Int
<1> DEFINE L == LiveCards(d)
           e == [c \in L |-> IF c \in D THEN delta[c] ELSE 0]
<1>1. LiveCards(next) = L
  BY DEF LiveCards, Live
<1>2. /\ IsFiniteSet(L) /\ L \subseteq Cards /\ d.credits \in [Cards -> Nat]
      /\ Available(d, past) = SumFunctionOnSet(d.credits, L)
      /\ Available(next, past) = SumFunctionOnSet(next.credits, L)
  BY <1>1, AvailableIs
<1>3. /\ \A c \in L : e[c] \in Int /\ d.credits[c] \in Int /\ next.credits[c] = d.credits[c] + e[c]
      /\ \A c \in D : e[c] = delta[c]
      /\ \A c \in L \ D : e[c] = 0
  <2>1. \A c \in L : d.credits[c] \in Int /\ c \in Cards
    BY <1>2
  <2>2. D \subseteq L
    OBVIOUS
  <2> HIDE DEF L
  <2> QED
    BY <2>1, <2>2
<1>4. IsFiniteSet(D) /\ D \in SUBSET L
  BY <1>2, FS_Subset
<1> HIDE DEF e, L
<1>5. SumFunctionOnSet(next.credits, L) = SumFunctionOnSet(d.credits, L) + SumFunctionOnSet(e, L)
  BY <1>2, <1>3, SumShifts
<1>6. SumFunctionOnSet(e, L) = SumFunctionOnSet(e, D)
  BY <1>2, <1>3, <1>4, SumOfSome
<1>7. SumFunctionOnSet(e, D) = SumFunctionOnSet(delta, D) /\ SumFunctionOnSet(delta, D) \in Int
  BY <1>3, <1>4, SumAgrees, SumPeels DEF Summable
<1> QED
  BY <1>2, <1>5, <1>6, <1>7

\* A charge takes its amount from what the user has.
LEMMA ChargePays ==
  ASSUME NEW d, LedgerInv(d), NEW k \in Charges, NEW a \in [Cards -> Nat],
         SumFunctionOnSet(a, Cards) = Amount[k], NEW next, ChargeOutcome(d, k, a, next)
  PROVE  \/ Available(next, past) = Available(d, past) /\ next.tx = d.tx
         \/ /\ d.tx[k] = "absent" /\ next.tx = [d.tx EXCEPT ![k] = "applied"]
            /\ Available(next, past) = Available(d, past) - Amount[k]
            /\ Available(d, past) >= Amount[k]
<1>1. LedgerInv(next)
  BY ChargeHolds
<1>2. CASE Same(d, next)
  <2>1. LiveCards(next) = LiveCards(d) /\ next.credits = d.credits /\ next.tx = d.tx
    BY <1>2 DEF Same, LiveCards, Live
  <2> QED
    BY <1>1, <2>1, AvailableIs
<1>3. CASE /\ Applies(d, k, Taking(a), Taken(a), next)
           /\ \A c \in Taken(a) : Live(d, past, c) /\ a[c] <= d.credits[c]
  <2>1. Taken(a) \subseteq LiveCards(d) /\ \A c \in Taken(a) : Taking(a)[c] \in Int
    BY <1>3 DEF Taken, Taking, LiveCards
  <2>2. k \notin Opens /\ k \in Keys
    BY LedgerAssumption DEF Keys
  <2>3. \A c \in Cards : next.row[c] = d.row[c]
    <3>1. d.row \in [Cards -> BOOLEAN]
      BY DEF LedgerInv, Ledgers
    <3> QED
      BY <1>3, <2>2, <3>1 DEF Applies
  <2>4. \A c \in Cards :
          next.credits[c] = IF c \in Taken(a) THEN d.credits[c] + Taking(a)[c] ELSE d.credits[c]
    BY <1>3 DEF Applies
  <2>5. /\ Available(next, past) = Available(d, past) + SumFunctionOnSet(Taking(a), Taken(a))
    BY <1>1, <2>1, <2>3, <2>4, AppliesChange
  <2>6. SumFunctionOnSet(Taking(a), Taken(a)) = -Amount[k] /\ Amount[k] \in Nat
    BY <2>2, TakingAddsUp, LedgerAssumption
  <2>7. Available(next, past) \in Nat /\ Available(d, past) \in Nat
    BY <1>1, AvailableIs
  <2>8. Available(next, past) = Available(d, past) - Amount[k] /\ Available(d, past) >= Amount[k]
    BY ONLY <2>5, <2>6, <2>7
  <2> QED
    BY <1>3, <2>8 DEF Applies
<1> QED
  BY <1>2, <1>3 DEF ChargeOutcome

\* A top-up adds its amount, or nothing if its card has expired already.
LEMMA TopUpAdds ==
  ASSUME NEW d, LedgerInv(d), NEW t \in TopUps, NEW next, TopUpOutcome(d, t, next)
  PROVE  \/ Available(next, past) = Available(d, past) /\ next.tx = d.tx
         \/ /\ d.tx[t] = "absent" /\ next.tx = [d.tx EXCEPT ![t] = "applied"]
            /\ Available(next, past) \in {Available(d, past), Available(d, past) + Amount[t]}
<1>1. LedgerInv(next)
  BY TopUpHolds
<1>2. CASE Same(d, next)
  <2>1. LiveCards(next) = LiveCards(d) /\ next.credits = d.credits /\ next.tx = d.tx
    BY <1>2 DEF Same, LiveCards, Live
  <2> QED
    BY <1>1, <2>1, AvailableIs
<1>3. CASE /\ Applies(d, t, ToppedUp(t), {CardOf[t]}, next)
           /\ IF t \in Opens THEN ~d.row[CardOf[t]] ELSE Live(d, past, CardOf[t])
  <2> DEFINE c0 == CardOf[t]
             delta == ToppedUp(t)
             D == {c0}
  <2>1. c0 \in Cards /\ delta[c0] = Amount[t] /\ Amount[t] \in Nat
    BY LedgerAssumption DEF ToppedUp, Keys
  <2>2. /\ d.tx[t] = "absent" /\ next.tx = [d.tx EXCEPT ![t] = "applied"]
        /\ \A c \in Cards : /\ next.row[c] = (d.row[c] \/ (c \in D /\ t \in Opens))
                            /\ next.credits[c] = IF c \in D THEN d.credits[c] + delta[c] ELSE d.credits[c]
    BY <1>3 DEF Applies
  <2>3. d.row \in [Cards -> BOOLEAN] /\ d.credits \in [Cards -> Nat] /\ (~d.row[c0] => d.credits[c0] = 0)
    BY <2>1 DEF LedgerInv, Ledgers
  <2>4. IF t \in Opens THEN ~d.row[c0] ELSE Live(d, past, c0)
    BY <1>3
  <2> HIDE DEF delta, c0
  <2>5. CASE t \notin Opens
    <3>1. D \in SUBSET LiveCards(d) /\ \A c \in D : delta[c] \in Int
      BY <2>1, <2>4, <2>5 DEF LiveCards
    <3>2. \A c \in Cards : next.row[c] = d.row[c]
      BY <2>2, <2>3, <2>5
    <3>3. SumFunctionOnSet(delta, D) = Amount[t]
      BY <2>1, SumOfOne
    <3> HIDE DEF D
    <3>4. Available(next, past) = Available(d, past) + SumFunctionOnSet(delta, D)
      BY <1>1, <2>2, <3>1, <3>2, AppliesChange
    <3> QED
      BY <2>2, <3>3, <3>4
  <2>6. CASE t \in Opens
    <3>1. c0 \notin LiveCards(d)
      BY <2>4, <2>6 DEF LiveCards, Live
    <3>2. \A c \in LiveCards(d) : d.credits[c] \in Int /\ next.credits[c] = d.credits[c] /\ c \in Cards
      BY <2>2, <2>3, <3>1 DEF LiveCards
    <3>3. SumFunctionOnSet(next.credits, LiveCards(d)) = Available(d, past) /\ Available(d, past) \in Nat
      BY <3>2, AvailableIs, SumAgrees
    <3>4. CASE c0 \in past
      <4>1. LiveCards(next) = LiveCards(d)
        BY <2>2, <2>3, <3>4 DEF LiveCards, Live
      <4> QED
        BY <1>1, <2>2, <3>3, <4>1, AvailableIs
    <3>5. CASE c0 \notin past
      <4>1. LiveCards(next) = LiveCards(d) \cup D
        BY <2>1, <2>2, <2>3, <2>6, <3>5 DEF LiveCards, Live
      <4>2. next.credits[c0] = Amount[t] /\ Amount[t] \in Int
        BY <2>1, <2>2, <2>3, <2>4, <2>6
      <4>3. SumFunctionOnSet(next.credits, D) = Amount[t]
        BY <4>2, SumOfOne
      <4>4. /\ IsFiniteSet(D) /\ LiveCards(d) \cap D = {}
            /\ \A c \in LiveCards(d) \cup D : next.credits[c] \in Int
        BY <3>1, <3>2, <4>2, FS_Singleton
      <4> HIDE DEF D
      <4>5. SumFunctionOnSet(next.credits, LiveCards(d) \cup D)
              = SumFunctionOnSet(next.credits, LiveCards(d)) + SumFunctionOnSet(next.credits, D)
        BY <4>4, AvailableIs, SumSplits
      <4>6. Available(next, past) = Available(d, past) + Amount[t]
        BY <1>1, <3>3, <4>1, <4>3, <4>5, AvailableIs
      <4> QED
        BY <2>2, <4>6
    <3> QED
      BY <3>4, <3>5
  <2> QED
    BY <2>5, <2>6
<1> QED
  BY <1>2, <1>3 DEF TopUpOutcome

-----------------------------------------------------------------------------
\* The refinement.

Balance == Available(ledger, past)
Charged == {u \in Charges : Applied(u)}
Funded  == {t \in TopUps : ledger.tx[t] = "applied"}

\* An empty ledger is an empty wallet.
LEMMA WalletInit == Init => W!Init
<1> SUFFICES ASSUME Init PROVE W!Init
  OBVIOUS
<1>1. \A k \in Keys : ledger.tx[k] = "absent"
  BY DEF Init, EmptyLedger
<1>2. LedgerInv(ledger)
  BY SettleInit DEF SettleInv
<1>3. \A c \in LiveCards(ledger) : ledger.credits[c] = 0
  BY DEF Init, EmptyLedger, LiveCards
<1>4. Balance = 0
  BY <1>2, <1>3, AvailableIs, SumOfZeros DEF Balance
<1>5. Charged = {} /\ Funded = {}
  BY <1>1 DEF Charged, Funded, Applied, Keys
<1> QED
  BY <1>4, <1>5 DEF W!Init, Balance, Charged, Funded

\* A step that changes neither what there is nor what is applied.
LEMMA WalletStays ==
  ASSUME Balance' = Balance, ledger'.tx = ledger.tx
  PROVE  UNCHANGED <<Balance, Charged, Funded>>
BY DEF Charged, Funded, Applied

WalletStep == [W!Next]_<<Balance, Charged, Funded>>

\* A charge of the ledger is one of the wallet, or nothing.
LEMMA WalletCharge ==
  ASSUME SettleInv, IInv, NEW w \in Callers, call[w].at = "debiting", TakeCredits(w), past' = past
  PROVE  WalletStep
<1> DEFINE k == call[w].usage
<1>1. /\ k \in Charges /\ k \in Keys /\ k \notin TopUps
      /\ \/ Available(ledger', past) = Balance /\ ledger'.tx = ledger.tx
         \/ /\ ledger.tx[k] = "absent" /\ ledger'.tx = [ledger.tx EXCEPT ![k] = "applied"]
            /\ Available(ledger', past) = Balance - Amount[k]
            /\ Balance >= Amount[k]
  BY TakeHolds, Settled, ChargePays, LedgerAssumption DEF Balance, Keys
<1>2. Balance' = Available(ledger', past)
  BY DEF Balance, Available, Live
<1>3. DOMAIN ledger.tx = Keys
  BY DEF SettleInv, LedgerInv, Ledgers
<1> HIDE DEF k
<1>4. CASE Available(ledger', past) = Balance /\ ledger'.tx = ledger.tx
  BY <1>2, <1>4, WalletStays DEF WalletStep
<1>5. CASE /\ ledger.tx[k] = "absent" /\ ledger'.tx = [ledger.tx EXCEPT ![k] = "applied"]
           /\ Available(ledger', past) = Balance - Amount[k] /\ Balance >= Amount[k]
  <2>1. Charged' = Charged \cup {k} /\ k \notin Charged
    BY <1>1, <1>3, <1>5 DEF Charged, Applied, Keys
  <2>2. Funded' = Funded
    BY <1>1, <1>3, <1>5 DEF Funded, Keys
  <2>3. Balance' = Balance - Amount[k] /\ Balance >= Amount[k]
    BY <1>2, <1>5
  <2>4. W!Charge(k)
    BY <2>1, <2>2, <2>3 DEF W!Charge, Balance, Charged, Funded
  <2> QED
    BY <1>1, <2>4 DEF WalletStep, W!Next
<1> QED
  BY <1>1, <1>4, <1>5

\* So is a top-up.
LEMMA WalletTopUp ==
  ASSUME SettleInv, NEW t \in TopUps, TopUp(t)
  PROVE  WalletStep
<1> DEFINE clean == Swept(ledger, t)
<1>1. LedgerInv(clean) /\ TopUpOutcome(clean, t, ledger')
  BY Settled, TopUpBatchConcludes DEF TopUp
<1>0. Available(clean, past) = Balance /\ clean.tx = ledger.tx
  BY Settled, DeleteIsUnseen DEF Swept, Balance
<1>2. past' = past /\ Balance' = Available(ledger', past)
  BY DEF TopUp, Balance, Available, Live
<1>3. DOMAIN ledger.tx = Keys /\ t \in Keys /\ t \notin Charges
  BY LedgerAssumption DEF SettleInv, LedgerInv, Ledgers, Keys
<1> HIDE DEF clean
<1>4. \/ Available(ledger', past) = Balance /\ ledger'.tx = ledger.tx
      \/ /\ ledger.tx[t] = "absent" /\ ledger'.tx = [ledger.tx EXCEPT ![t] = "applied"]
         /\ Available(ledger', past) \in {Balance, Balance + Amount[t]}
  BY <1>0, <1>1, TopUpAdds
<1>5. CASE Available(ledger', past) = Balance /\ ledger'.tx = ledger.tx
  BY <1>2, <1>5, WalletStays DEF WalletStep
<1>6. CASE /\ ledger.tx[t] = "absent" /\ ledger'.tx = [ledger.tx EXCEPT ![t] = "applied"]
           /\ Available(ledger', past) \in {Balance, Balance + Amount[t]}
  <2>1. Funded' = Funded \cup {t} /\ t \notin Funded
    BY <1>3, <1>6 DEF Funded, Keys
  <2>2. Charged' = Charged
    BY <1>3, <1>6 DEF Charged, Applied, Keys
  <2>3. Balance' \in {Balance, Balance + Amount[t]}
    BY <1>2, <1>6
  <2>4. W!TopUp(t)
    BY <2>1, <2>2, <2>3 DEF W!TopUp, Balance, Charged, Funded
  <2> QED
    BY <2>4 DEF WalletStep, W!Next
<1> QED
  BY <1>4, <1>5, <1>6

\* Credits that expire are lost, and nothing else.
LEMMA WalletExpires ==
  ASSUME SettleInv, NEW c \in Cards, CardExpires(c)
  PROVE  WalletStep
<1> DEFINE L  == LiveCards(ledger)
           L2 == L \ {c}
<1>1. /\ IsFiniteSet(L) /\ L \subseteq Cards /\ ledger.credits \in [Cards -> Nat]
      /\ Balance = SumFunctionOnSet(ledger.credits, L)
  BY Settled, AvailableIs DEF Balance
<1>2. L2 = {e \in Cards : Live(ledger, past', e)} /\ ledger' = ledger
  BY DEF CardExpires, LiveCards, Live
<1>3. Balance' = SumFunctionOnSet(ledger.credits, L2)
  BY <1>2 DEF Balance, Available
<1>4. Balance' \in Nat /\ Balance' <= Balance
  <2> HIDE DEF L
  <2>1. \A e \in L : ledger.credits[e] \in Nat
    BY <1>1
  <2>2. IsFiniteSet(L2) /\ L2 \subseteq L
    BY <1>1, FS_Subset
  <2>3. Balance' \in Nat
    BY <1>3, <2>1, <2>2, SumNatural
  <2>4. CASE c \in L
    <3>1. Summable(ledger.credits, L)
      BY <1>1, <2>1, SumPeels
    <3>2. Balance = ledger.credits[c] + Balance' /\ ledger.credits[c] \in Nat
      BY <1>1, <1>3, <2>1, <2>4, <3>1 DEF Summable
    <3> QED
      BY <2>3, <3>2
  <2>5. CASE c \notin L
    <3>1. L2 = L
      BY <2>5
    <3> QED
      BY <1>1, <1>3, <2>3, <3>1
  <2> QED
    BY <2>3, <2>4, <2>5
<1>5. Charged' = Charged /\ Funded' = Funded
  BY <1>2 DEF Charged, Funded, Applied
<1>6. Balance \in Nat
  BY Settled, AvailableIs DEF Balance
<1>7. CASE Balance' = Balance
  BY <1>5, <1>7 DEF WalletStep
<1>8. CASE Balance' < Balance
  BY <1>4, <1>5, <1>8 DEF WalletStep, W!Next, W!Expire, Balance, Charged, Funded
<1> QED
  BY <1>4, <1>6, <1>7, <1>8

\* The steps that leave the wallet alone.
LEMMA WalletUnseen ==
  ASSUME SettleInv, past' = past, ledger' = ledger \/ ledger' = DeleteExpired(ledger, past)
  PROVE  WalletStep
<1>1. Balance' = Available(ledger', past)
  BY DEF Balance, Available, Live
<1>2. Balance' = Balance /\ ledger'.tx = ledger.tx
  BY <1>1, Settled, DeleteIsUnseen DEF Balance
<1> QED
  BY <1>2, WalletStays DEF WalletStep

\* Every step is one of the wallet, or nothing.
LEMMA WalletNext == SettleInv /\ IInv /\ [Next]_vars => WalletStep
<1> SUFFICES ASSUME SettleInv, IInv, [Next]_vars PROVE WalletStep
  OBVIOUS
<1>1. CASE \E w \in Callers, u \in Usages : SettleExecution(w, u) \/ Deliver(w, u)
  BY <1>1, WalletUnseen DEF SettleExecution, Deliver, database
<1>2. CASE \E w \in Callers : Maintain(w) \/ Step(w) \/ StatementFails(w) \/ AnswerLost(w) \/ Crash(w)
  <2>1. PICK w \in Callers : Maintain(w) \/ Step(w) \/ StatementFails(w) \/ AnswerLost(w) \/ Crash(w)
    BY <1>2
  <2>2. CASE Maintain(w) \/ StatementFails(w) \/ Crash(w)
    BY <2>2, WalletUnseen DEF Maintain, StatementFails, Crash, database
  <2>3. CASE AnswerLost(w)
    BY <2>3, WalletUnseen, WalletCharge DEF AnswerLost
  <2>4. CASE DebitCards(w)
    BY <2>4, WalletCharge DEF DebitCards
  <2>5. CASE MaintainNext(w) \/ Select(w) \/ Claim(w) \/ Record(w) \/ Find(w) \/ ReadPrimary(w)
    BY <2>5, WalletUnseen DEF MaintainNext, Select, Claim, Record, Find, ReadPrimary, database
  <2>6. CASE ReadEphemeral(w) \/ Allocate(w) \/ Verify(w) \/ Weigh(w) \/ Complete(w) \/ Fail(w)
    BY <2>6, WalletUnseen DEF ReadEphemeral, Allocate, Verify, Weigh, Complete, Fail, database
  <2> QED
    BY <2>1, <2>2, <2>3, <2>4, <2>5, <2>6 DEF Step
<1>3. CASE \E u \in Usages : Elapse(u)
  BY <1>3, WalletUnseen DEF Elapse
<1>4. CASE \E c \in Cards : CardExpires(c)
  BY <1>4, WalletExpires
<1>5. CASE \E t \in TopUps : TopUp(t)
  BY <1>5, WalletTopUp
<1>6. CASE CleanUp \/ UNCHANGED vars
  BY <1>6, WalletUnseen DEF CleanUp, vars, database
<1> QED
  BY <1>1, <1>2, <1>3, <1>4, <1>5, <1>6 DEF Next

\* The tables implement the wallet: a charge and a top-up each happen at most once, as a whole and at
\* one moment, a charge only when the live cards hold its amount, and between them what a user has only
\* gets less, as cards expire (the groups of transaction-commands.ts, which apply or undo themselves).
THEOREM CardsAreAWallet == Spec => KeepsWallet
<1>1. WalletStep = [W!Next]_<<Available(ledger, past), {u \in Charges : Applied(u)},
                              {t \in TopUps : ledger.tx[t] = "applied"}>>
  BY DEF WalletStep, Balance, Charged, Funded
<1>2. SettleInv /\ IInv /\ [Next]_vars
        => [W!Next]_<<Available(ledger, past), {u \in Charges : Applied(u)},
                      {t \in TopUps : ledger.tx[t] = "applied"}>>
  BY <1>1, WalletNext
<1> QED
  BY <1>2, WalletInit, SettlementTables, SettlementInvariant, PTL DEF Spec, KeepsWallet, W!Spec
===============================================================================
