----------------------- MODULE SessionCompletionsProofs -----------------------
(***************************************************************************)
(* What holds of SessionCompletions for all Turns, recipients, faults,     *)
(* suspends and restarts: no recipient is called twice at once, nothing    *)
(* counts as delivered that no recipient has handled, and the records      *)
(* implement CompletionJournal.                                            *)
(***************************************************************************)
EXTENDS SessionCompletions, SequenceTheorems, TLAPS

Queue == INSTANCE SessionQueueProofs

-----------------------------------------------------------------------------
\* The copies of a record.

\* The recipients a copy calls delivered have handled the Turn: d is what has been handled.
Truthful(t, copy, d) ==
  \A r \in DOMAIN copy.deliveries : copy.deliveries[r] = "delivered" => <<t, r>> \in d

\* A copy of the file f tells the result the file tells, and no delivery that was not.
CopyOf(t, copy, f, d) == f[t] # NoRecord /\ copy.result = f[t].result /\ Truthful(t, copy, d)

\* Files only come, keep their result, and what is handled stays handled.
Grown(f, g, d, e) ==
  /\ \A t \in Turns : f[t] # NoRecord => g[t] # NoRecord /\ g[t].result = f[t].result
  /\ d \subseteq e

\* The files and every copy of them: what commit has seen, what is being delivered, what the scan
\* has read.
FilesTrue  == \A t \in Turns : record[t] # NoRecord => Truthful(t, record[t], done)
SeenTrue   == \A t \in Turns : seen[t] # NoRecord => CopyOf(t, seen[t], record, done)
ActiveTrue == \A t \in Turns : active[t] # NoOperation => CopyOf(t, active[t].copy, record, done)
ReadTrue   == scanning # NoScan /\ scanning.read # <<>> =>
                CopyOf(scanning.read[1], scanning.read[2], record, done)

CopiesTrue == FilesTrue /\ SeenTrue /\ ActiveTrue /\ ReadTrue

\* Whoever works for a Turn finds its record.
RecordedFirst ==
  /\ \A t \in Turns : turn[t] \in {"written", "prepared", "committing", "committed"} =>
                        record[t] # NoRecord
  /\ \A t \in Turns : turn[t] = "committed" => seen[t] # NoRecord
  /\ scanning # NoScan => \A t \in scanning.todo : record[t] # NoRecord
  /\ \A x \in running : record[x[1]] # NoRecord

\* running_handlers has the calls that go on.
CallsCounted == \A x \in Turns \X Recipients : calls[x] = IF x \in running THEN 1 ELSE 0

DeliveryInv == TypeOK /\ CallsCounted /\ RecordedFirst /\ CopiesTrue

Operations == [copy : Records, at : DOMAIN Order, step : {"calling", "saving"}]

Statuses == {"due", "later", "delivered"}

LEMMA RecordFields ==
  ASSUME NEW copy \in Records
  PROVE  /\ DOMAIN copy.deliveries \subseteq Recipients
         /\ copy.deliveries \in [DOMAIN copy.deliveries -> Statuses]
         /\ copy.result \in Results /\ copy.state \in {"prepared", "pending", "delivered"}
         /\ copy = [state |-> copy.state, result |-> copy.result, deliveries |-> copy.deliveries]
         /\ copy # NoRecord
<1>1. PICK R \in SUBSET Recipients :
        copy \in [state : {"prepared", "pending", "delivered"}, result : Results,
                  deliveries : [R -> Statuses]]
  BY DEF Records, Statuses
<1>2. DOMAIN copy.deliveries = R
  BY <1>1
<1>. QED BY <1>1, <1>2, CompletionsAssumption

LEMMA RecordBuilt ==
  ASSUME NEW R \in SUBSET Recipients, NEW d \in [R -> Statuses], NEW result \in Results,
         NEW state \in {"prepared", "pending", "delivered"}
  PROVE  [state |-> state, result |-> result, deliveries |-> d] \in Records
  BY DEF Records, Statuses

LEMMA RecordState ==
  ASSUME NEW copy \in Records, NEW state \in {"prepared", "pending", "delivered"}
  PROVE  /\ [copy EXCEPT !.state = state] \in Records
         /\ [copy EXCEPT !.state = state].result = copy.result
         /\ [copy EXCEPT !.state = state].deliveries = copy.deliveries
<1>1. [copy EXCEPT !.state = state] =
        [state |-> state, result |-> copy.result, deliveries |-> copy.deliveries]
  BY RecordFields
<1>2. [state |-> state, result |-> copy.result, deliveries |-> copy.deliveries] \in Records
  BY RecordFields, RecordBuilt
<1>. QED BY <1>1, <1>2

\* One delivery of a copy gets another status.
Mark(copy, r, status) == [copy EXCEPT !.deliveries[r] = status]

LEMMA RecordDelivery ==
  ASSUME NEW copy \in Records, NEW r, NEW status \in Statuses
  PROVE  /\ Mark(copy, r, status) \in Records
         /\ Mark(copy, r, status).result = copy.result
         /\ DOMAIN Mark(copy, r, status).deliveries = DOMAIN copy.deliveries
         /\ \A q \in DOMAIN copy.deliveries :
              Mark(copy, r, status).deliveries[q] = IF q = r THEN status ELSE copy.deliveries[q]
<1>. DEFINE d == [copy.deliveries EXCEPT ![r] = status]
<1>1. Mark(copy, r, status) = [state |-> copy.state, result |-> copy.result, deliveries |-> d]
  BY RecordFields DEF Mark
<1>2. d \in [DOMAIN copy.deliveries -> Statuses]
  BY RecordFields
<1>3. [state |-> copy.state, result |-> copy.result, deliveries |-> d] \in Records
  <2>. HIDE DEF d
  <2>. QED BY <1>2, RecordFields, RecordBuilt
<1>. QED BY <1>1, <1>2, <1>3, RecordFields

\* An answer is marked: it is the only delivery that changes.
LEMMA Marked ==
  ASSUME NEW t, NEW copy \in Records, NEW r, NEW status \in Statuses, NEW d, NEW e,
         Truthful(t, copy, d), d \subseteq e, status = "delivered" => <<t, r>> \in e
  PROVE  Truthful(t, Mark(copy, r, status), e)
  BY RecordDelivery, RecordFields DEF Truthful

\* A copy of a file stays one while files and handled deliveries grow.
LEMMA CopyKept ==
  ASSUME NEW t \in Turns, NEW copy, NEW f, NEW g, NEW d, NEW e,
         CopyOf(t, copy, f, d), Grown(f, g, d, e)
  PROVE  CopyOf(t, copy, g, e)
  BY DEF CopyOf, Grown, Truthful

LEMMA DueCopy ==
  ASSUME NEW t \in Turns, NEW copy \in Records, NEW r
  PROVE  /\ MadeDue(copy, r) \in Records /\ MadeDue(copy, r).result = copy.result
         /\ MadeDue(copy, r) # NoRecord
         /\ \A d : Truthful(t, copy, d) => Truthful(t, MadeDue(copy, r), d)
<1>1. CASE r \in DOMAIN copy.deliveries /\ copy.deliveries[r] = "later"
  <2>1. MadeDue(copy, r) = Mark(copy, r, "due") /\ "due" \in Statuses
    BY <1>1, RecordFields DEF MadeDue, Statuses, Mark
  <2>2. MadeDue(copy, r) \in Records /\ MadeDue(copy, r).result = copy.result
    BY <2>1, RecordDelivery
  <2>3. ASSUME NEW d, Truthful(t, copy, d) PROVE Truthful(t, MadeDue(copy, r), d)
    BY <2>1, <2>3, Marked
  <2>. QED BY <2>2, <2>3, RecordFields
<1>2. CASE ~(r \in DOMAIN copy.deliveries /\ copy.deliveries[r] = "later")
  BY <1>2, RecordFields DEF MadeDue
<1>. QED BY <1>1, <1>2

\* The answer of an operation.
LEMMA OperationBuilt ==
  ASSUME NEW operation \in Operations, NEW c \in Records
  PROVE  /\ [operation EXCEPT !.copy = c, !.step = "saving"] \in Operations
         /\ [operation EXCEPT !.copy = c, !.step = "saving"].copy = c
  BY DEF Operations

LEMMA AnsweredOperation ==
  ASSUME NEW t \in Turns, NEW operation \in Operations, NEW status \in Statuses, NEW d, NEW e,
         NEW f, NEW g, CopyOf(t, operation.copy, f, d), Grown(f, g, d, e),
         status = "delivered" => <<t, Order[operation.at]>> \in e
  PROVE  /\ Answered(operation, status) \in Operations
         /\ CopyOf(t, Answered(operation, status).copy, g, e)
<1>. DEFINE r == Order[operation.at]
            c == Mark(operation.copy, r, status)
<1>1. operation.copy \in Records /\ operation.at \in DOMAIN Order
  BY DEF Operations
<1>. HIDE DEF r
<1>2. c \in Records /\ c.result = operation.copy.result
  BY <1>1, RecordDelivery
<1>3. Answered(operation, status) \in Operations /\ Answered(operation, status).copy = c
  <2>. DEFINE n == [operation EXCEPT !.copy = c, !.step = "saving"]
  <2>1. Answered(operation, status) = n
    BY DEF Answered, Mark, r
  <2>. HIDE DEF c
  <2>2. n \in Operations /\ n.copy = c
    BY <1>2, OperationBuilt
  <2>. HIDE DEF n
  <2>. QED BY <2>1, <2>2
<1>4. Truthful(t, operation.copy, d) /\ d \subseteq e /\ (status = "delivered" => <<t, r>> \in e)
  BY DEF CopyOf, Grown, r
<1>5. Truthful(t, c, e)
  BY <1>1, <1>4, Marked
<1>. HIDE DEF c
<1>6. CopyOf(t, c, g, e)
  BY <1>2, <1>5 DEF CopyOf, Grown
<1>. QED BY <1>3, <1>6

-----------------------------------------------------------------------------
\* Delivery.

\* What the steps that may call a recipient for copy do to the operations and the calls: an
\* operation is as it was, ended, or has this copy, and the calls stay counted.
Launched(t, copy) ==
  /\ active' \in [Turns -> {NoOperation} \cup Operations]
  /\ \A u \in Turns : \/ active'[u] = active[u] \/ active'[u] = NoOperation
                       \/ (u = t /\ active'[u].copy = copy)
  /\ running' \subseteq Turns \X Recipients /\ calls' \in [Turns \X Recipients -> Nat]
  /\ CallsCounted'
  /\ \A x \in running' : record[x[1]] # NoRecord

LEMMA DeliverLaunches ==
  ASSUME TypeOK, CallsCounted, RecordedFirst, NEW t \in Turns, NEW copy \in Records, NEW i,
         record[t] # NoRecord, Deliver(t, copy, i)
  PROVE  Launched(t, copy)
<1>. DEFINE next == {j \in Callable(t, copy) : j > i}
            at   == CHOOSE j \in next : \A k \in next : j <= k
            x    == <<t, Order[at]>>
<1>1. CASE suspended \/ next = {}
  <2>1. active' = [active EXCEPT ![t] = NoOperation] /\ UNCHANGED <<running, calls>>
    BY <1>1 DEF Deliver
  <2>2. active \in [Turns -> {NoOperation} \cup Operations]
    BY DEF TypeOK, Operations
  <2>3. /\ active' \in [Turns -> {NoOperation} \cup Operations]
        /\ \A u \in Turns : active'[u] = active[u] \/ active'[u] = NoOperation
    BY <2>1, <2>2
  <2>4. /\ running' \subseteq Turns \X Recipients /\ calls' \in [Turns \X Recipients -> Nat]
        /\ CallsCounted' /\ \A y \in running' : record[y[1]] # NoRecord
    BY <2>1 DEF TypeOK, CallsCounted, RecordedFirst
  <2>. QED BY <2>3, <2>4 DEF Launched
<1>2. CASE ~(suspended \/ next = {})
  <2>1. next \in SUBSET Nat /\ next # {}
    <3>1. DOMAIN Order \subseteq Nat
      BY CompletionsAssumption, LenProperties
    <3>. QED BY <1>2, <3>1 DEF Callable
  <2>2. at \in next
    <3>1. \E j \in next : \A k \in next : j <= k
      <4>. HIDE DEF next
      <4>. QED BY <2>1, Queue!LeastMember
    <3>. HIDE DEF next
    <3>. QED BY <3>1
  <2>3. at \in DOMAIN Order /\ x \notin running /\ x \in Turns \X Recipients
    <3>1. at \in Callable(t, copy)
      <4>. HIDE DEF at
      <4>. QED BY <2>2
    <3>. HIDE DEF at
    <3>. QED BY <3>1, RecordFields DEF Callable
  <2>4. /\ active' = [active EXCEPT ![t] = [copy |-> copy, at |-> at, step |-> "calling"]]
        /\ running' = running \cup {x}
        /\ calls' = [calls EXCEPT ![x] = @ + 1]
    BY <1>2 DEF Deliver
  <2>5. [copy |-> copy, at |-> at, step |-> "calling"] \in Operations
    BY <2>3 DEF Operations
  <2>. HIDE DEF at
  <2>6. active' \in [Turns -> {NoOperation} \cup Operations]
    BY <2>4, <2>5 DEF TypeOK, Operations
  <2>7. \A u \in Turns : active'[u] = active[u] \/ (u = t /\ active'[u].copy = copy)
    BY <2>4 DEF TypeOK
  <2>. HIDE DEF x
  <2>8. calls' \in [Turns \X Recipients -> Nat]
    BY <2>3, <2>4 DEF TypeOK
  <2>9. CallsCounted'
    BY <2>3, <2>4 DEF CallsCounted, TypeOK
  <2>10. \A y \in running' : record[y[1]] # NoRecord
    BY <2>4 DEF RecordedFirst, x
  <2>11. running' \subseteq Turns \X Recipients
    BY <2>3, <2>4 DEF TypeOK
  <2>. QED BY <2>6, <2>7, <2>8, <2>9, <2>10, <2>11 DEF Launched
<1>. QED BY <1>1, <1>2

LEMMA UnchangedLaunches ==
  ASSUME TypeOK, CallsCounted, RecordedFirst, NEW t, NEW copy, UNCHANGED delivery
  PROVE  Launched(t, copy)
  BY DEF Launched, TypeOK, CallsCounted, RecordedFirst, Operations, delivery

LEMMA LaunchLaunches ==
  ASSUME TypeOK, CallsCounted, RecordedFirst, NEW t \in Turns, NEW copy \in Records,
         record[t] # NoRecord, Launch(t, copy)
  PROVE  Launched(t, copy)
  BY DeliverLaunches, UnchangedLaunches DEF Launch

-----------------------------------------------------------------------------
\* The invariant, action by action.  Every step lets the files grow only.
Stepped == DeliveryInv' /\ Grown(record, record', done, done')

LEMMA DeliveryInit == Init => DeliveryInv
<1>. SUFFICES ASSUME Init PROVE DeliveryInv
  OBVIOUS
<1>1. TypeOK
  <2>1. /\ calls \in [Turns \X Recipients -> Nat]
        /\ faults \in 0..MaxFaults /\ crashes \in 0..MaxCrashes /\ hosted \in 0..MaxHosted
    BY CompletionsAssumption DEF Init
  <2>. QED BY <2>1 DEF Init, TypeOK
<1>2. CallsCounted /\ RecordedFirst /\ CopiesTrue
  BY DEF Init, CallsCounted, RecordedFirst, CopiesTrue, FilesTrue, SeenTrue, ActiveTrue, ReadTrue
<1>. QED BY <1>1, <1>2 DEF DeliveryInv

\* The copies that a step keeps stay true while the files grow.
LEMMA FilesKept ==
  ASSUME DeliveryInv, Grown(record, record', done, done'),
         \A t \in Turns : record'[t] # NoRecord =>
                            record'[t] = record[t] \/ Truthful(t, record'[t], done')
  PROVE  FilesTrue'
  BY DEF DeliveryInv, CopiesTrue, FilesTrue, Grown, Truthful

LEMMA SeenKept ==
  ASSUME DeliveryInv, Grown(record, record', done, done'),
         \A t \in Turns : seen'[t] = seen[t] \/ seen'[t] = NoRecord
  PROVE  SeenTrue'
<1>. SUFFICES ASSUME NEW t \in Turns, seen'[t] # NoRecord
              PROVE  CopyOf(t, seen'[t], record', done')
  BY DEF SeenTrue
<1>1. CopyOf(t, seen'[t], record, done)
  BY DEF DeliveryInv, CopiesTrue, SeenTrue
<1>. QED BY <1>1, CopyKept

LEMMA ActiveKept ==
  ASSUME DeliveryInv, Grown(record, record', done, done'),
         \A t \in Turns : \/ active'[t] = active[t] \/ active'[t] = NoOperation
                           \/ CopyOf(t, active'[t].copy, record', done')
  PROVE  ActiveTrue'
<1>. SUFFICES ASSUME NEW t \in Turns, active'[t] # NoOperation, active'[t] = active[t]
              PROVE  CopyOf(t, active'[t].copy, record', done')
  BY DEF ActiveTrue
<1>1. CopyOf(t, active'[t].copy, record, done)
  BY DEF DeliveryInv, CopiesTrue, ActiveTrue
<1>. QED BY <1>1, CopyKept

LEMMA ReadKept ==
  ASSUME DeliveryInv, Grown(record, record', done, done'),
         \/ scanning' = NoScan \/ scanning'.read = <<>>
         \/ scanning # NoScan /\ scanning'.read = scanning.read
  PROVE  ReadTrue'
<1>. SUFFICES ASSUME scanning # NoScan, scanning.read # <<>>, scanning'.read = scanning.read
              PROVE  CopyOf(scanning'.read[1], scanning'.read[2], record', done')
  BY DEF ReadTrue
<1>1. CopyOf(scanning.read[1], scanning.read[2], record, done)
  BY DEF DeliveryInv, CopiesTrue, ReadTrue
<1>2. scanning.read[1] \in Turns
  BY DEF DeliveryInv, TypeOK
<1>. QED BY <1>1, <1>2, CopyKept

LEMMA NothingRecorded ==
  ASSUME record' = record, done' = done PROVE Grown(record, record', done, done')
  BY DEF Grown

\* A step that leaves files, operations and what is read alone.
LEMMA QuietCopies ==
  ASSUME DeliveryInv, UNCHANGED <<record, active, done>>,
         scanning' = scanning \/ scanning' = NoScan \/ scanning'.read = <<>>
           \/ (scanning # NoScan /\ scanning'.read = scanning.read),
         \A t \in Turns : seen'[t] = seen[t] \/ seen'[t] = NoRecord
  PROVE  CopiesTrue' /\ Grown(record, record', done, done')
<1>1. Grown(record, record', done, done')
  BY NothingRecorded
<1>2. FilesTrue' /\ ActiveTrue'
  BY <1>1, FilesKept, ActiveKept
<1>3. SeenTrue'
  BY <1>1, SeenKept
<1>4. ReadTrue'
  BY <1>1, ReadKept
<1>. QED BY <1>1, <1>2, <1>3, <1>4 DEF CopiesTrue

Scans == [step : {"listing", "looking"}, todo : SUBSET Turns,
          read : {<<>>} \cup (Turns \X Records), pending : BOOLEAN, timed : BOOLEAN]

LEMMA ScanTyped ==
  ASSUME DeliveryInv, scanning # NoScan
  PROVE  scanning \in Scans /\ (scanning.step = "listing" => scanning.todo = {})
  BY DEF DeliveryInv, TypeOK, Scans

LEMMA ListedScan ==
  ASSUME NEW s \in Scans, NEW T \in SUBSET Turns
  PROVE  LET n == [s EXCEPT !.step = "looking", !.todo = T]
         IN  n \in Scans /\ n.step = "looking" /\ n.todo = T /\ n.read = s.read
  BY DEF Scans

\* A fault stays below its bound.
LEMMA FaultCounted ==
  ASSUME DeliveryInv, UNCHANGED faults \/ \E kind : Fault(kind)
  PROVE  faults' \in 0..MaxFaults
  BY CompletionsAssumption DEF DeliveryInv, TypeOK, Fault

-----------------------------------------------------------------------------
\* The steps that leave files, operations and what is read alone.
LEMMA PrepareEndStep ==
  ASSUME DeliveryInv, NEW t \in Turns, PrepareEnd(t)
  PROVE  Stepped
<1>1. TypeOK'
  <2>1. faults' \in 0..MaxFaults
    BY FaultCounted DEF PrepareEnd
  <2>. QED BY <2>1 DEF DeliveryInv, TypeOK, PrepareEnd, delivery, scanner, turns, counters
<1>2. CallsCounted'
  BY DEF DeliveryInv, CallsCounted, PrepareEnd, delivery, scanner, turns, counters, Fault
<1>3. RecordedFirst'
  BY DEF DeliveryInv, TypeOK, RecordedFirst, PrepareEnd, delivery, scanner, turns, counters, Fault
<1>4. CopiesTrue' /\ Grown(record, record', done, done')
  BY QuietCopies DEF PrepareEnd, delivery, scanner, turns, counters, Fault
<1>. QED BY <1>1, <1>2, <1>3, <1>4 DEF Stepped, DeliveryInv

LEMMA SkipCommitStep ==
  ASSUME DeliveryInv, NEW t \in Turns, SkipCommit(t)
  PROVE  Stepped
<1>1. TypeOK'
  <2>1. faults' \in 0..MaxFaults
    BY FaultCounted DEF SkipCommit
  <2>. QED BY <2>1 DEF DeliveryInv, TypeOK, SkipCommit, delivery, scanner, turns, counters
<1>2. CallsCounted'
  BY DEF DeliveryInv, CallsCounted, SkipCommit, delivery, scanner, turns, counters, Fault
<1>3. RecordedFirst'
  BY DEF DeliveryInv, TypeOK, RecordedFirst, SkipCommit, delivery, scanner, turns, counters, Fault
<1>4. CopiesTrue' /\ Grown(record, record', done, done')
  BY QuietCopies DEF SkipCommit, delivery, scanner, turns, counters, Fault
<1>. QED BY <1>1, <1>2, <1>3, <1>4 DEF Stepped, DeliveryInv

LEMMA TimerFiresStep ==
  ASSUME DeliveryInv, TimerFires
  PROVE  Stepped
<1>1. TypeOK'
  BY DEF DeliveryInv, TypeOK, TimerFires, delivery, scanner, turns, counters, Fault, Scan, StartedScan
<1>2. CallsCounted'
  BY DEF DeliveryInv, CallsCounted, TimerFires, delivery, scanner, turns, counters, Fault, Scan, StartedScan
<1>3. RecordedFirst'
  BY DEF DeliveryInv, TypeOK, RecordedFirst, TimerFires, delivery, scanner, turns, counters, Fault, Scan, StartedScan
<1>4. CopiesTrue' /\ Grown(record, record', done, done')
  BY QuietCopies DEF TimerFires, delivery, scanner, turns, counters, Fault, Scan, StartedScan
<1>. QED BY <1>1, <1>2, <1>3, <1>4 DEF Stepped, DeliveryInv

LEMMA ScanListStep ==
  ASSUME DeliveryInv, ScanList
  PROVE  Stepped
<1>. DEFINE T == {t \in Turns : record[t] # NoRecord}
            n == [scanning EXCEPT !.step = "looking", !.todo = T]
<1>1. scanning' = NoScan \/ scanning' = n
  BY DEF ScanList
<1>2. n \in Scans /\ n.step = "looking" /\ n.todo = T /\ n.read = scanning.read /\ scanning # NoScan
  <2>1. scanning \in Scans /\ T \in SUBSET Turns /\ scanning # NoScan
    BY ScanTyped DEF ScanList
  <2>. HIDE DEF T
  <2>. QED BY <2>1, ListedScan
<1>3. UNCHANGED <<record, delivery, suspended, turns, gone, done, counters>> /\ timer' \in BOOLEAN
  BY DEF ScanList, Scheduled, DeliveryInv, TypeOK
<1>4. faults' \in 0..MaxFaults
  BY FaultCounted DEF ScanList
<1>. HIDE DEF n
<1>5. TypeOK'
  BY <1>1, <1>2, <1>3, <1>4 DEF DeliveryInv, TypeOK, Scans, delivery, turns, counters
<1>6. CallsCounted'
  BY <1>3 DEF DeliveryInv, CallsCounted, delivery
<1>7. RecordedFirst'
  BY <1>1, <1>2, <1>3 DEF DeliveryInv, RecordedFirst, delivery, turns
<1>8. CopiesTrue' /\ Grown(record, record', done, done')
  BY <1>1, <1>2, <1>3, QuietCopies DEF delivery, turns
<1>. QED BY <1>5, <1>6, <1>7, <1>8 DEF Stepped, DeliveryInv

LEMMA ScanEndStep ==
  ASSUME DeliveryInv, ScanEnd
  PROVE  Stepped
<1>1. TypeOK'
  BY DEF DeliveryInv, TypeOK, ScanEnd, delivery, scanner, turns, counters, Fault, Scheduled
<1>2. CallsCounted'
  BY DEF DeliveryInv, CallsCounted, ScanEnd, delivery, scanner, turns, counters, Fault, Scheduled
<1>3. RecordedFirst'
  BY DEF DeliveryInv, TypeOK, RecordedFirst, ScanEnd, delivery, scanner, turns, counters, Fault, Scheduled
<1>4. CopiesTrue' /\ Grown(record, record', done, done')
  BY QuietCopies DEF ScanEnd, delivery, scanner, turns, counters, Fault, Scheduled
<1>. QED BY <1>1, <1>2, <1>3, <1>4 DEF Stepped, DeliveryInv

LEMMA ResumeStep ==
  ASSUME DeliveryInv, Resume
  PROVE  Stepped
<1>1. TypeOK'
  <2>1. hosted' \in 0..MaxHosted
    BY CompletionsAssumption DEF DeliveryInv, TypeOK, Resume
  <2>. QED BY <2>1 DEF DeliveryInv, TypeOK, Resume, delivery, scanner, turns, counters, Scan, StartedScan
<1>2. CallsCounted'
  BY DEF DeliveryInv, CallsCounted, Resume, delivery, scanner, turns, counters, Fault, Scan, StartedScan
<1>3. RecordedFirst'
  BY DEF DeliveryInv, TypeOK, RecordedFirst, Resume, delivery, scanner, turns, counters, Fault, Scan, StartedScan
<1>4. CopiesTrue' /\ Grown(record, record', done, done')
  BY QuietCopies DEF Resume, delivery, scanner, turns, counters, Fault, Scan, StartedScan
<1>. QED BY <1>1, <1>2, <1>3, <1>4 DEF Stepped, DeliveryInv

LEMMA CommitFailsStep ==
  ASSUME DeliveryInv, NEW t \in Turns, CommitFails(t)
  PROVE  Stepped
<1>1. TypeOK'
  <2>1. faults' \in 0..MaxFaults
    BY FaultCounted DEF CommitFails
  <2>. QED BY <2>1 DEF DeliveryInv, TypeOK, CommitFails, delivery, scanner, turns, counters, CommitDone, Scheduled
<1>2. CallsCounted'
  BY DEF DeliveryInv, CallsCounted, CommitFails, delivery, scanner, turns, counters, Fault, CommitDone, Scheduled
<1>3. RecordedFirst'
  BY DEF DeliveryInv, TypeOK, RecordedFirst, CommitFails, delivery, scanner, turns, counters, Fault, CommitDone, Scheduled
<1>4. CopiesTrue' /\ Grown(record, record', done, done')
  BY QuietCopies DEF CommitFails, delivery, scanner, turns, counters, Fault, CommitDone, Scheduled
<1>. QED BY <1>1, <1>2, <1>3, <1>4 DEF Stepped, DeliveryInv

-----------------------------------------------------------------------------
\* The steps of a Turn that write a copy.

LEMMA PrepareSaveStep ==
  ASSUME DeliveryInv, NEW t \in Turns, PrepareSave(t)
  PROVE  Stepped
<1>1. PICK r : /\ record[t] # NoRecord => record' = record
               /\ record[t] = NoRecord => /\ record' = [record EXCEPT ![t] = r]
                                          /\ r \in Records /\ Truthful(t, r, done)
  <2>1. CASE record[t] = NoRecord
    <3>1. PICK result \in Results : record' = [record EXCEPT ![t] = Prepared(t, result)]
      BY <2>1 DEF PrepareSave
    <3>2. [r \in RecipientsOf(t) |-> "due"] \in [RecipientsOf(t) -> Statuses]
          /\ RecipientsOf(t) \in SUBSET Recipients
      BY CompletionsAssumption DEF RecipientsOf, Recipients, Statuses
    <3>3. Prepared(t, result) \in Records
      BY <3>2, RecordBuilt DEF Prepared
    <3>4. Truthful(t, Prepared(t, result), done)
      BY DEF Prepared, Truthful
    <3>. QED BY <2>1, <3>1, <3>3, <3>4
  <2>2. CASE record[t] # NoRecord
    BY <2>2 DEF PrepareSave
  <2>. QED BY <2>1, <2>2
<1>2. /\ turn[t] = "running" /\ turn' = [turn EXCEPT ![t] = "written"]
      /\ UNCHANGED <<delivery, scanner, timer, preparing, seen, gone, done, faults, counters>>
  BY DEF PrepareSave
<1>3. \A u \in Turns : \/ record'[u] = record[u]
                       \/ /\ u = t /\ record[u] = NoRecord /\ record'[u] # NoRecord
                          /\ Truthful(u, record'[u], done')
  BY <1>1, <1>2, RecordFields DEF DeliveryInv, TypeOK
<1>4. record' \in [Turns -> Records \cup {NoRecord}] /\ record'[t] # NoRecord
  BY <1>1, RecordFields DEF DeliveryInv, TypeOK
<1>5. Grown(record, record', done, done')
  BY <1>2, <1>3 DEF Grown
<1>6. TypeOK'
  BY <1>2, <1>4 DEF DeliveryInv, TypeOK, delivery, scanner, counters
<1>7. CallsCounted'
  BY <1>2 DEF DeliveryInv, CallsCounted, delivery
<1>8. RecordedFirst'
  BY <1>2, <1>4, <1>5 DEF DeliveryInv, TypeOK, RecordedFirst, Grown, delivery, scanner
<1>9. FilesTrue'
  BY <1>3, <1>5, FilesKept
<1>10. SeenTrue' /\ ActiveTrue' /\ ReadTrue'
  BY <1>2, <1>5, SeenKept, ActiveKept, ReadKept DEF delivery, scanner, ReadTrue
<1>. QED BY <1>5, <1>6, <1>7, <1>8, <1>9, <1>10 DEF Stepped, DeliveryInv, CopiesTrue

LEMMA CommitReadStep ==
  ASSUME DeliveryInv, NEW t \in Turns, CommitRead(t)
  PROVE  Stepped
<1>1. record[t] \in Records /\ record[t] # NoRecord
  BY DEF CommitRead, DeliveryInv, TypeOK, RecordedFirst
<1>2. Grown(record, record', done, done')
  BY NothingRecorded DEF CommitRead
<1>3. TypeOK'
  BY <1>1 DEF CommitRead, DeliveryInv, TypeOK, delivery, scanner, counters
<1>4. CallsCounted' /\ RecordedFirst'
  BY <1>1 DEF CommitRead, DeliveryInv, TypeOK, CallsCounted, RecordedFirst, delivery, scanner
<1>5. FilesTrue' /\ ActiveTrue' /\ ReadTrue'
  BY <1>2, FilesKept, ActiveKept, ReadKept DEF CommitRead, delivery, scanner, ReadTrue
<1>6. CopyOf(t, record[t], record, done)
  BY <1>1 DEF DeliveryInv, CopiesTrue, FilesTrue, CopyOf
<1>7. SeenTrue'
  BY <1>6 DEF CommitRead, DeliveryInv, TypeOK, CopiesTrue, SeenTrue
<1>. QED BY <1>2, <1>3, <1>4, <1>5, <1>7 DEF Stepped, DeliveryInv, CopiesTrue

\* Whatever was prepared keeps its result and its deliveries when it is committed.
LEMMA CommittedCopy ==
  ASSUME NEW copy \in Records
  PROVE  /\ Committed(copy) \in Records /\ Committed(copy) # NoRecord
         /\ Committed(copy).result = copy.result /\ Committed(copy).deliveries = copy.deliveries
<1>. DEFINE state == IF DOMAIN copy.deliveries = {} THEN "delivered" ELSE "pending"
<1>1. Committed(copy) = [copy EXCEPT !.state = state]
  BY DEF Committed
<1>2. state \in {"prepared", "pending", "delivered"}
  OBVIOUS
<1>. HIDE DEF state
<1>3. /\ Committed(copy) \in Records /\ Committed(copy).result = copy.result
      /\ Committed(copy).deliveries = copy.deliveries
  BY <1>1, <1>2, RecordState
<1>. QED BY <1>3, RecordFields

LEMMA CommitSaveStep ==
  ASSUME DeliveryInv, NEW t \in Turns, CommitSave(t)
  PROVE  Stepped
<1>1. seen[t] \in Records /\ seen[t] # NoRecord /\ CopyOf(t, seen[t], record, done)
  BY DEF CommitSave, DeliveryInv, TypeOK, CopiesTrue, SeenTrue
<1>2. /\ turn[t] = "committing" /\ turn' = [turn EXCEPT ![t] = "committed"]
      /\ UNCHANGED <<delivery, scanner, timer, preparing, gone, done, faults, counters>>
  BY DEF CommitSave
<1>3. PICK c \in Records :
        /\ c # NoRecord /\ CopyOf(t, c, record, done)
        /\ seen' = [seen EXCEPT ![t] = c]
        /\ record' = [record EXCEPT ![t] = c] \/ record' = record
  <2>1. CASE seen[t].state = "prepared"
    <3>1. /\ record' = [record EXCEPT ![t] = Committed(seen[t])]
          /\ seen' = [seen EXCEPT ![t] = Committed(seen[t])]
      BY <2>1 DEF CommitSave
    <3>2. Committed(seen[t]) \in Records /\ Committed(seen[t]) # NoRecord
          /\ CopyOf(t, Committed(seen[t]), record, done)
      BY <1>1, CommittedCopy DEF CopyOf, Truthful
    <3>. QED BY <3>1, <3>2
  <2>2. CASE seen[t].state # "prepared"
    <3>1. UNCHANGED <<record, seen>>
      BY <2>2 DEF CommitSave
    <3>2. seen' = [seen EXCEPT ![t] = seen[t]]
      BY <3>1 DEF DeliveryInv, TypeOK
    <3>. QED BY <1>1, <3>1, <3>2
  <2>. QED BY <2>1, <2>2
<1>4. Grown(record, record', done, done')
  BY <1>2, <1>3 DEF Grown, CopyOf, DeliveryInv, TypeOK
<1>5. record' \in [Turns -> Records \cup {NoRecord}] /\ seen' \in [Turns -> Records \cup {NoRecord}]
      /\ seen'[t] = c
  BY <1>3 DEF DeliveryInv, TypeOK
<1>6. TypeOK'
  BY <1>2, <1>3, <1>5 DEF DeliveryInv, TypeOK, delivery, scanner, counters
<1>7. CallsCounted'
  BY <1>2 DEF DeliveryInv, CallsCounted, delivery
<1>8. RecordedFirst'
  BY <1>2, <1>3, <1>4, <1>5 DEF DeliveryInv, TypeOK, RecordedFirst, Grown, delivery, scanner
<1>9. FilesTrue'
  BY <1>2, <1>3, <1>4, FilesKept DEF CopyOf, DeliveryInv, TypeOK
<1>10. SeenTrue'
  <2>1. CopyOf(t, c, record', done')
    BY <1>3, <1>4, CopyKept
  <2>2. ASSUME NEW u \in Turns, u # t, seen'[u] # NoRecord PROVE CopyOf(u, seen'[u], record', done')
    <3>1. seen'[u] = seen[u] /\ CopyOf(u, seen[u], record, done)
      BY <1>3, <2>2 DEF DeliveryInv, TypeOK, CopiesTrue, SeenTrue
    <3>. QED BY <1>4, <3>1, CopyKept
  <2>. QED BY <1>5, <2>1, <2>2 DEF SeenTrue
<1>11. ActiveTrue' /\ ReadTrue'
  BY <1>2, <1>4, ActiveKept, ReadKept DEF delivery, scanner, ReadTrue
<1>. QED BY <1>4, <1>6, <1>7, <1>8, <1>9, <1>10, <1>11 DEF Stepped, DeliveryInv, CopiesTrue

LEMMA CommitEndStep ==
  ASSUME DeliveryInv, NEW t \in Turns, CommitEnd(t)
  PROVE  Stepped
<1>1. seen[t] \in Records /\ seen[t] # NoRecord /\ CopyOf(t, seen[t], record, done)
  BY DEF CommitEnd, DeliveryInv, TypeOK, RecordedFirst, CopiesTrue, SeenTrue
<1>2. /\ preparing' = preparing \ {t} /\ turn' = [turn EXCEPT ![t] = "closed"]
      /\ seen' = [seen EXCEPT ![t] = NoRecord] /\ timer' \in BOOLEAN
      /\ UNCHANGED <<record, scanner, gone, done, counters, faults>>
  BY DEF CommitEnd, CommitDone, Scheduled, DeliveryInv, TypeOK
<1>3. Launched(t, seen[t])
  BY <1>1, LaunchLaunches, UnchangedLaunches DEF CommitEnd, DeliveryInv, CopyOf
<1>4. Grown(record, record', done, done')
  BY <1>2, NothingRecorded
<1>5. TypeOK'
  BY <1>2, <1>3 DEF Launched, DeliveryInv, TypeOK, Operations, scanner, counters
<1>6. CallsCounted'
  BY <1>3 DEF Launched
<1>7. RecordedFirst'
  BY <1>2, <1>3 DEF Launched, DeliveryInv, TypeOK, RecordedFirst, scanner
<1>8. FilesTrue' /\ SeenTrue' /\ ReadTrue'
  BY <1>2, <1>4, FilesKept, SeenKept, ReadKept DEF scanner, ReadTrue, DeliveryInv, TypeOK
<1>9. ActiveTrue'
  BY <1>1, <1>2, <1>3, <1>4, ActiveKept DEF Launched
<1>. QED BY <1>4, <1>5, <1>6, <1>7, <1>8, <1>9 DEF Stepped, DeliveryInv, CopiesTrue

-----------------------------------------------------------------------------
\* The steps of a delivery.

\* An operation that waits has a copy of the record and a recipient it is at.
LEMMA OperationOf ==
  ASSUME DeliveryInv, NEW t \in Turns, active[t] # NoOperation
  PROVE  /\ active[t] \in Operations /\ active[t].copy \in Records
         /\ CopyOf(t, active[t].copy, record, done)
  BY DEF DeliveryInv, TypeOK, Operations, CopiesTrue, ActiveTrue

LEMMA TimeoutStep ==
  ASSUME DeliveryInv, NEW t \in Turns, Timeout(t)
  PROVE  Stepped
<1>1. /\ active[t] # NoOperation /\ active' = [active EXCEPT ![t] = Answered(active[t], "later")]
      /\ UNCHANGED <<record, running, calls, scanner, timer, turns, gone, done, counters>>
  BY DEF Timeout
<1>2. Grown(record, record', done, done')
  BY <1>1, NothingRecorded
<1>3. Answered(active[t], "later") \in Operations
      /\ CopyOf(t, Answered(active[t], "later").copy, record', done')
  <2>1. "later" \in Statuses /\ "later" # "delivered"
    BY DEF Statuses
  <2>. QED BY <1>1, <1>2, <2>1, OperationOf, AnsweredOperation
<1>4. faults' \in 0..MaxFaults
  BY FaultCounted DEF Timeout
<1>5. active' \in [Turns -> {NoOperation} \cup Operations]
  BY <1>1, <1>3 DEF DeliveryInv, TypeOK, Operations
<1>6. TypeOK'
  BY <1>1, <1>4, <1>5 DEF DeliveryInv, TypeOK, Operations, scanner, turns, counters
<1>7. CallsCounted' /\ RecordedFirst'
  BY <1>1 DEF DeliveryInv, CallsCounted, RecordedFirst, scanner, turns
<1>8. FilesTrue' /\ SeenTrue' /\ ReadTrue'
  BY <1>1, <1>2, FilesKept, SeenKept, ReadKept DEF scanner, turns, ReadTrue
<1>9. ActiveTrue'
  BY <1>1, <1>2, <1>3, ActiveKept DEF DeliveryInv, TypeOK
<1>. QED BY <1>2, <1>6, <1>7, <1>8, <1>9 DEF Stepped, DeliveryInv, CopiesTrue

\* What the return of a handler does to the operation that may wait for it.
LEMMA ReturnAnswers ==
  ASSUME DeliveryInv, NEW t \in Turns, NEW r \in Recipients, NEW status \in Statuses,
         Grown(record, record', done, done'), status = "delivered" => <<t, r>> \in done',
         active' = IF WaitsFor(t, r) THEN [active EXCEPT ![t] = Answered(@, status)] ELSE active
  PROVE  active' \in [Turns -> {NoOperation} \cup Operations] /\ ActiveTrue'
<1>1. CASE WaitsFor(t, r)
  <2>1. active[t] # NoOperation /\ Order[active[t].at] = r
    BY <1>1 DEF WaitsFor
  <2>2. Answered(active[t], status) \in Operations
        /\ CopyOf(t, Answered(active[t], status).copy, record', done')
    BY <2>1, OperationOf, AnsweredOperation
  <2>3. active' = [active EXCEPT ![t] = Answered(active[t], status)]
    BY <1>1
  <2>4. active' \in [Turns -> {NoOperation} \cup Operations]
    BY <2>2, <2>3 DEF DeliveryInv, TypeOK, Operations
  <2>5. ActiveTrue'
    BY <2>2, <2>3, ActiveKept DEF DeliveryInv, TypeOK
  <2>. QED BY <2>4, <2>5
<1>2. CASE ~WaitsFor(t, r)
  BY <1>2, ActiveKept DEF DeliveryInv, TypeOK, Operations
<1>. QED BY <1>1, <1>2

LEMMA HandlerReturnsStep ==
  ASSUME DeliveryInv, NEW t \in Turns, NEW r \in Recipients, HandlerReturns(t, r)
  PROVE  Stepped
<1>. DEFINE x == <<t, r>>
<1>1. /\ x \in running /\ running' = running \ {x} /\ calls' = [calls EXCEPT ![x] = @ - 1]
      /\ UNCHANGED <<record, scanner, timer, turns, gone, counters>>
      /\ done' = done \/ done' = done \cup {x}
  BY DEF HandlerReturns
<1>2. Grown(record, record', done, done')
  BY <1>1 DEF Grown
<1>3. active' \in [Turns -> {NoOperation} \cup Operations] /\ ActiveTrue'
  <2>1. "delivered" \in Statuses /\ "later" \in Statuses
    BY DEF Statuses
  <2>2. CASE /\ done' = done \cup {x}
             /\ active' = IF WaitsFor(t, r) THEN [active EXCEPT ![t] = Answered(@, "delivered")]
                          ELSE active
    BY <1>2, <2>1, <2>2, ReturnAnswers
  <2>3. CASE active' = IF WaitsFor(t, r) THEN [active EXCEPT ![t] = Answered(@, "later")]
                       ELSE active
    BY <1>2, <2>1, <2>3, ReturnAnswers
  <2>. QED BY <2>2, <2>3 DEF HandlerReturns
<1>4. faults' \in 0..MaxFaults
  BY FaultCounted DEF HandlerReturns
<1>5. x \in Turns \X Recipients /\ calls[x] = 1
  BY <1>1 DEF DeliveryInv, CallsCounted
<1>. HIDE DEF x
<1>6. calls' \in [Turns \X Recipients -> Nat] /\ CallsCounted'
  BY <1>1, <1>5 DEF DeliveryInv, TypeOK, CallsCounted
<1>7. TypeOK'
  BY <1>1, <1>3, <1>4, <1>5, <1>6 DEF DeliveryInv, TypeOK, Operations, scanner, turns, counters
<1>8. RecordedFirst'
  BY <1>1 DEF DeliveryInv, RecordedFirst, scanner, turns
<1>9. FilesTrue' /\ SeenTrue' /\ ReadTrue'
  BY <1>1, <1>2, FilesKept, SeenKept, ReadKept DEF scanner, turns, ReadTrue
<1>. QED BY <1>2, <1>3, <1>6, <1>7, <1>8, <1>9 DEF Stepped, DeliveryInv, CopiesTrue

LEMMA SaveDeliveryStep ==
  ASSUME DeliveryInv, NEW t \in Turns, SaveDelivery(t)
  PROVE  Stepped
<1>. DEFINE state == StateOf(active[t].copy.deliveries)
            copy  == [active[t].copy EXCEPT !.state = state]
<1>1. /\ active[t] # NoOperation /\ active[t].copy \in Records
      /\ CopyOf(t, active[t].copy, record, done)
  BY OperationOf DEF SaveDelivery
<1>2. copy \in Records /\ copy # NoRecord /\ CopyOf(t, copy, record, done)
  <2>1. state \in {"prepared", "pending", "delivered"}
    BY DEF StateOf
  <2>. HIDE DEF state
  <2>2. /\ copy \in Records /\ copy.result = active[t].copy.result
        /\ copy.deliveries = active[t].copy.deliveries
    BY <1>1, <2>1, RecordState
  <2>. HIDE DEF copy
  <2>. QED BY <1>1, <2>2, RecordFields DEF CopyOf, Truthful
<1>3. UNCHANGED <<scanner, turns, gone, done, counters>> /\ timer' \in BOOLEAN
  BY DEF SaveDelivery, ScheduledIfEnded, Scheduled, DeliveryInv, TypeOK
<1>4. faults' \in 0..MaxFaults
  BY FaultCounted DEF SaveDelivery
<1>5. \/ record' = [record EXCEPT ![t] = copy] /\ Deliver(t, copy, active[t].at)
      \/ active' = [active EXCEPT ![t] = NoOperation] /\ UNCHANGED <<record, running, calls>>
  BY DEF SaveDelivery
<1>. HIDE DEF copy
<1>6. Launched(t, copy) /\ (record' = record \/ record' = [record EXCEPT ![t] = copy])
  <2>1. CASE record' = [record EXCEPT ![t] = copy] /\ Deliver(t, copy, active[t].at)
    BY <1>1, <1>2, <2>1, DeliverLaunches DEF DeliveryInv, CopyOf
  <2>2. CASE active' = [active EXCEPT ![t] = NoOperation] /\ UNCHANGED <<record, running, calls>>
    BY <2>2 DEF Launched, DeliveryInv, TypeOK, CallsCounted, RecordedFirst, Operations
  <2>. QED BY <1>5, <2>1, <2>2
<1>7. Grown(record, record', done, done')
  BY <1>2, <1>3, <1>6 DEF Grown, CopyOf, DeliveryInv, TypeOK
<1>8. record' \in [Turns -> Records \cup {NoRecord}]
  BY <1>2, <1>6 DEF DeliveryInv, TypeOK
<1>9. TypeOK'
  BY <1>3, <1>4, <1>6, <1>8 DEF Launched, DeliveryInv, TypeOK, Operations, scanner, turns, counters
<1>10. CallsCounted'
  BY <1>6 DEF Launched
<1>11. RecordedFirst'
  BY <1>3, <1>6, <1>7 DEF Launched, Grown, DeliveryInv, TypeOK, RecordedFirst, scanner, turns
<1>12. FilesTrue'
  BY <1>2, <1>3, <1>6, <1>7, FilesKept DEF CopyOf, DeliveryInv, TypeOK
<1>13. ActiveTrue'
  BY <1>2, <1>6, <1>7, CopyKept, ActiveKept DEF Launched
<1>14. SeenTrue' /\ ReadTrue'
  BY <1>3, <1>7, SeenKept, ReadKept DEF scanner, turns, ReadTrue
<1>. QED BY <1>7, <1>9, <1>10, <1>11, <1>12, <1>13, <1>14 DEF Stepped, DeliveryInv, CopiesTrue

\* A copy of a record is still one when a delivery of both is due again.
LEMMA DueCopies ==
  ASSUME NEW t \in Turns, NEW u \in Turns, NEW r, NEW copy \in Records, NEW f, NEW g, NEW d,
         CopyOf(u, copy, f, d), Grown(f, g, d, d)
  PROVE  /\ MadeDue(copy, r) \in Records /\ MadeDue(copy, r) # NoRecord
         /\ CopyOf(u, MadeDue(copy, r), g, d)
  BY DueCopy DEF CopyOf, Grown

LEMMA ElapseStep ==
  ASSUME DeliveryInv, NEW t \in Turns, NEW r \in Recipients, Elapse(t, r)
  PROVE  Stepped
<1>1. /\ record[t] # NoRecord /\ record' = [record EXCEPT ![t] = MadeDue(@, r)]
      /\ seen' = [seen EXCEPT ![t] = MadeDue(@, r)]
      /\ active' = IF active[t] = NoOperation THEN active
                   ELSE [active EXCEPT ![t].copy = MadeDue(@, r)]
      /\ scanning' = IF scanning # NoScan /\ scanning.read # <<>> /\ scanning.read[1] = t
                     THEN [scanning EXCEPT !.read[2] = MadeDue(@, r)] ELSE scanning
      /\ UNCHANGED <<running, calls, timer, suspended, preparing, turn, gone, done, faults, counters>>
  BY DEF Elapse
<1>2. /\ MadeDue(record[t], r) \in Records /\ MadeDue(record[t], r) # NoRecord
      /\ MadeDue(record[t], r).result = record[t].result
      /\ Truthful(t, MadeDue(record[t], r), done)
  BY <1>1, DueCopy DEF DeliveryInv, TypeOK, CopiesTrue, FilesTrue
<1>3. Grown(record, record', done, done)
  BY <1>1, <1>2 DEF Grown, DeliveryInv, TypeOK
<1>4. record' \in [Turns -> Records \cup {NoRecord}] /\ FilesTrue'
  <2>1. record' \in [Turns -> Records \cup {NoRecord}] /\ record'[t] = MadeDue(record[t], r)
        /\ \A u \in Turns : u # t => record'[u] = record[u]
    BY <1>1, <1>2 DEF DeliveryInv, TypeOK
  <2>. QED BY <1>1, <1>2, <1>3, <2>1, FilesKept
<1>5. seen' \in [Turns -> Records \cup {NoRecord}] /\ SeenTrue'
      /\ \A u \in Turns : seen[u] # NoRecord => seen'[u] # NoRecord
  <2>1. CASE seen[t] = NoRecord
    <3>1. seen' = seen
      BY <1>1, <2>1 DEF MadeDue, DeliveryInv, TypeOK
    <3>. QED BY <1>1, <1>3, <3>1, SeenKept DEF DeliveryInv, TypeOK
  <2>2. CASE seen[t] # NoRecord
    <3>1. /\ MadeDue(seen[t], r) \in Records /\ MadeDue(seen[t], r) # NoRecord
          /\ CopyOf(t, MadeDue(seen[t], r), record', done)
      BY <1>3, <2>2, DueCopies DEF DeliveryInv, TypeOK, CopiesTrue, SeenTrue
    <3>2. /\ seen' \in [Turns -> Records \cup {NoRecord}] /\ seen'[t] = MadeDue(seen[t], r)
          /\ \A u \in Turns : u # t => seen'[u] = seen[u]
      BY <1>1, <3>1 DEF DeliveryInv, TypeOK
    <3>3. ASSUME NEW u \in Turns, u # t, seen'[u] # NoRecord PROVE CopyOf(u, seen'[u], record', done)
      BY <1>3, <3>2, <3>3, CopyKept DEF DeliveryInv, CopiesTrue, SeenTrue
    <3>. QED BY <1>1, <3>1, <3>2, <3>3 DEF SeenTrue
  <2>. QED BY <2>1, <2>2
<1>6. active' \in [Turns -> {NoOperation} \cup Operations] /\ ActiveTrue'
  <2>1. CASE active[t] = NoOperation
    BY <1>1, <1>3, <2>1, ActiveKept DEF DeliveryInv, TypeOK, Operations
  <2>2. CASE active[t] # NoOperation
    <3>. DEFINE c == MadeDue(active[t].copy, r)
                n == [active[t] EXCEPT !.copy = c]
    <3>1. active[t] \in Operations /\ c \in Records /\ CopyOf(t, c, record', done)
      BY <1>3, <2>2, OperationOf, DueCopies
    <3>2. active' = [active EXCEPT ![t] = n]
      BY <1>1, <2>2
    <3>. HIDE DEF c
    <3>3. n \in Operations /\ n.copy = c
      BY <3>1 DEF Operations
    <3>. HIDE DEF n
    <3>4. /\ active' \in [Turns -> {NoOperation} \cup Operations] /\ active'[t] = n
          /\ \A u \in Turns : u # t => active'[u] = active[u]
      BY <3>2, <3>3 DEF DeliveryInv, TypeOK, Operations
    <3>. QED BY <1>1, <1>3, <3>1, <3>3, <3>4, ActiveKept
  <2>. QED BY <2>1, <2>2
<1>7. (scanning' = NoScan \/ scanning' \in Scans) /\ ReadTrue'
      /\ (scanning' # NoScan => /\ scanning # NoScan /\ scanning'.todo = scanning.todo
                               /\ scanning'.step = scanning.step)
  <2>1. CASE scanning # NoScan /\ scanning.read # <<>> /\ scanning.read[1] = t
    <3>. DEFINE c == MadeDue(scanning.read[2], r)
                n == [scanning EXCEPT !.read = <<t, c>>]
    <3>1. scanning \in Scans /\ scanning.read[2] \in Records
          /\ scanning.read = <<t, scanning.read[2]>>
      BY <2>1, ScanTyped DEF Scans
    <3>2. c \in Records /\ CopyOf(t, c, record', done)
      BY <1>3, <2>1, <3>1, DueCopies DEF DeliveryInv, CopiesTrue, ReadTrue
    <3>3. scanning' = n
      BY <1>1, <2>1, <3>1
    <3>. HIDE DEF c
    <3>4. n \in Scans /\ n.read = <<t, c>> /\ n.todo = scanning.todo /\ n.step = scanning.step
      BY <3>1, <3>2 DEF Scans
    <3>. HIDE DEF n
    <3>5. scanning'.read[1] = t /\ scanning'.read[2] = c
      BY ONLY <3>3, <3>4
    <3>6. ReadTrue'
      BY <1>1, <3>2, <3>5 DEF ReadTrue
    <3>. QED BY <2>1, <3>3, <3>4, <3>6
  <2>2. CASE ~(scanning # NoScan /\ scanning.read # <<>> /\ scanning.read[1] = t)
    <3>1. scanning' = scanning
      BY <1>1, <2>2
    <3>2. scanning = NoScan \/ scanning \in Scans
      BY ScanTyped
    <3>3. ReadTrue'
      BY <1>1, <1>3, <3>1, ReadKept DEF ReadTrue
    <3>. QED BY <3>1, <3>2, <3>3
  <2>. QED BY <2>1, <2>2
<1>8. TypeOK'
  BY <1>1, <1>4, <1>5, <1>6, <1>7 DEF DeliveryInv, TypeOK, Operations, Scans, counters
<1>9. CallsCounted'
  BY <1>1 DEF DeliveryInv, CallsCounted
<1>10. RecordedFirst'
  BY <1>1, <1>3, <1>5, <1>7 DEF DeliveryInv, TypeOK, RecordedFirst, Grown
<1>. QED BY <1>1, <1>3, <1>4, <1>5, <1>6, <1>7, <1>8, <1>9, <1>10 DEF Stepped, DeliveryInv, CopiesTrue

-----------------------------------------------------------------------------
\* The steps of a scan that read and launch, the host.

LEMMA ScanReadStep ==
  ASSUME DeliveryInv, NEW t \in Turns, ScanRead(t)
  PROVE  Stepped
<1>. DEFINE n == [scanning EXCEPT !.todo = @ \ {t}, !.read = <<t, record[t]>>]
            m == [scanning EXCEPT !.todo = @ \ {t}]
<1>1. /\ scanning # NoScan /\ scanning.read = <<>> /\ t \in scanning.todo
      /\ scanning' = n \/ scanning' = m
      /\ UNCHANGED <<record, delivery, suspended, timer, turns, gone, done, counters>>
  BY DEF ScanRead
<1>2. scanning \in Scans /\ scanning.step = "looking"
  BY <1>1, ScanTyped DEF Scans
<1>3. record[t] \in Records /\ CopyOf(t, record[t], record, done)
  BY <1>1 DEF DeliveryInv, TypeOK, RecordedFirst, CopiesTrue, FilesTrue, CopyOf
<1>4. /\ n \in Scans /\ n.read = <<t, record[t]>> /\ n.todo \subseteq scanning.todo /\ n.step = "looking"
      /\ m \in Scans /\ m.read = <<>> /\ m.todo \subseteq scanning.todo /\ m.step = "looking"
  BY <1>1, <1>2, <1>3 DEF Scans
<1>. HIDE DEF n, m
<1>5. faults' \in 0..MaxFaults
  BY FaultCounted DEF ScanRead
<1>6. Grown(record, record', done, done')
  BY <1>1, NothingRecorded
<1>7. TypeOK'
  BY <1>1, <1>4, <1>5 DEF DeliveryInv, TypeOK, Scans, delivery, turns, counters
<1>8. CallsCounted' /\ RecordedFirst'
  BY <1>1, <1>4 DEF DeliveryInv, CallsCounted, RecordedFirst, delivery, turns
<1>9. FilesTrue' /\ SeenTrue' /\ ActiveTrue'
  BY <1>1, <1>6, FilesKept, SeenKept, ActiveKept DEF delivery, turns
<1>10. ReadTrue'
  BY <1>1, <1>3, <1>4 DEF ReadTrue
<1>. QED BY <1>6, <1>7, <1>8, <1>9, <1>10 DEF Stepped, DeliveryInv, CopiesTrue

LEMMA ScanCheckStep ==
  ASSUME DeliveryInv, ScanCheck
  PROVE  Stepped
<1>. DEFINE t    == scanning.read[1]
            copy == scanning.read[2]
            n    == [scanning EXCEPT !.read = <<>>, !.pending = @ \/ Undelivered(t, copy)]
<1>1. /\ scanning # NoScan /\ scanning.read # <<>> /\ scanning' = n
      /\ UNCHANGED <<record, suspended, turns, gone, done, faults, counters>>
      /\ (Launch(t, copy) /\ ScheduledIfEnded(t)) \/ UNCHANGED <<delivery, timer>>
  BY DEF ScanCheck
<1>2. scanning \in Scans /\ t \in Turns /\ copy \in Records /\ CopyOf(t, copy, record, done)
  BY <1>1, ScanTyped DEF Scans, DeliveryInv, CopiesTrue, ReadTrue
<1>3. n \in Scans /\ n.read = <<>> /\ n.todo = scanning.todo /\ n.step = scanning.step
  BY <1>2 DEF Scans, Undelivered
<1>. HIDE DEF t, copy, n
<1>4. Launched(t, copy)
  BY <1>1, <1>2, LaunchLaunches, UnchangedLaunches DEF DeliveryInv, CopyOf
<1>5. timer' \in BOOLEAN
  BY <1>1 DEF ScheduledIfEnded, Scheduled, DeliveryInv, TypeOK
<1>6. Grown(record, record', done, done')
  BY <1>1, NothingRecorded
<1>7. TypeOK'
  BY <1>1, <1>3, <1>4, <1>5 DEF Launched, DeliveryInv, TypeOK, Operations, Scans, turns, counters
<1>8. CallsCounted'
  BY <1>4 DEF Launched
<1>9. RecordedFirst'
  BY <1>1, <1>3, <1>4 DEF Launched, DeliveryInv, RecordedFirst, turns
<1>10. FilesTrue' /\ SeenTrue' /\ ReadTrue'
  BY <1>1, <1>3, <1>6, FilesKept, SeenKept, ReadKept DEF turns
<1>11. ActiveTrue'
  BY <1>1, <1>2, <1>4, <1>6, ActiveKept DEF Launched
<1>. QED BY <1>6, <1>7, <1>8, <1>9, <1>10, <1>11 DEF Stepped, DeliveryInv, CopiesTrue

LEMMA SuspendStep ==
  ASSUME DeliveryInv, Suspend
  PROVE  Stepped
<1>1. /\ suspended' = TRUE /\ timer' = FALSE
      /\ active' = [t \in Turns |->
           IF active[t] # NoOperation /\ active[t].step = "calling" THEN Answered(active[t], "later")
           ELSE active[t]]
      /\ UNCHANGED <<record, running, calls, scanning, turns, gone, done, faults, crashes>>
      /\ hosted' \in 0..MaxHosted
  BY CompletionsAssumption DEF Suspend, DeliveryInv, TypeOK
<1>2. Grown(record, record', done, done')
  BY <1>1, NothingRecorded
<1>3. ASSUME NEW t \in Turns
      PROVE  /\ active'[t] \in {NoOperation} \cup Operations
             /\ active'[t] = active[t] \/ CopyOf(t, active'[t].copy, record', done')
  <2>1. CASE active[t] # NoOperation /\ active[t].step = "calling"
    <3>1. active'[t] = Answered(active[t], "later")
      BY <1>1, <2>1
    <3>2. "later" \in Statuses /\ "later" # "delivered"
      BY DEF Statuses
    <3>. QED BY <1>2, <2>1, <3>1, <3>2, OperationOf, AnsweredOperation
  <2>2. CASE ~(active[t] # NoOperation /\ active[t].step = "calling")
    BY <1>1, <2>2 DEF DeliveryInv, TypeOK, Operations
  <2>. QED BY <2>1, <2>2
<1>4. active' \in [Turns -> {NoOperation} \cup Operations]
  BY <1>1, <1>3
<1>5. TypeOK'
  BY <1>1, <1>4 DEF DeliveryInv, TypeOK, Operations, turns
<1>6. CallsCounted' /\ RecordedFirst'
  BY <1>1 DEF DeliveryInv, CallsCounted, RecordedFirst, turns
<1>7. ActiveTrue'
  BY <1>2, <1>3, ActiveKept
<1>8. FilesTrue' /\ SeenTrue' /\ ReadTrue'
  BY <1>1, <1>2, FilesKept, SeenKept, ReadKept DEF turns, ReadTrue
<1>. QED BY <1>2, <1>5, <1>6, <1>7, <1>8 DEF Stepped, DeliveryInv, CopiesTrue

LEMMA CrashStep ==
  ASSUME DeliveryInv, Crash
  PROVE  Stepped
<1>1. crashes' \in 0..MaxCrashes /\ gone' \subseteq Recipients
  BY CompletionsAssumption DEF Crash, DeliveryInv, TypeOK
<1>2. /\ turn' = [t \in Turns |-> IF turn[t] = "closed" THEN "closed" ELSE "running"]
      /\ preparing' = {} /\ seen' = [t \in Turns |-> NoRecord]
      /\ active' = [t \in Turns |-> NoOperation]
      /\ running' = {} /\ calls' = [x \in Turns \X Recipients |-> 0]
      /\ scanning' = StartedScan(FALSE) /\ timer' = FALSE /\ suspended' = FALSE
      /\ UNCHANGED <<record, done, faults, hosted>>
  BY DEF Crash
<1>3. Grown(record, record', done, done')
  BY <1>2, NothingRecorded
<1>4. scanning' \in Scans /\ scanning'.todo = {} /\ scanning'.read = <<>>
  BY <1>2 DEF StartedScan, Scans
<1>5. TypeOK'
  BY <1>1, <1>2, <1>4 DEF DeliveryInv, TypeOK, Scans
<1>6. CallsCounted' /\ RecordedFirst'
  BY <1>2, <1>4 DEF CallsCounted, RecordedFirst
<1>7. FilesTrue' /\ SeenTrue' /\ ActiveTrue' /\ ReadTrue'
  BY <1>2, <1>3, <1>4, FilesKept, SeenKept, ActiveKept, ReadKept
<1>. QED BY <1>3, <1>5, <1>6, <1>7 DEF Stepped, DeliveryInv, CopiesTrue

LEMMA DeliveryStep ==
  ASSUME DeliveryInv, [Next]_vars
  PROVE  Stepped
<1>1. CASE UNCHANGED vars
  <2>1. UNCHANGED <<record, active, running, calls, scanning, suspended, preparing, turn, seen, timer,
                    gone, done, faults, crashes, hosted>>
    BY <1>1 DEF vars, delivery, scanner, turns, counters
  <2>2. CopiesTrue' /\ Grown(record, record', done, done')
    BY <2>1, QuietCopies
  <2>3. TypeOK'
    BY <2>1 DEF DeliveryInv, TypeOK
  <2>4. CallsCounted' /\ RecordedFirst'
    BY <2>1 DEF DeliveryInv, CallsCounted, RecordedFirst
  <2>. QED BY <2>2, <2>3, <2>4 DEF Stepped, DeliveryInv
<1>2. ASSUME NEW t \in Turns,
             \/ PrepareSave(t) \/ PrepareEnd(t) \/ SkipCommit(t) \/ Commit(t)
             \/ Timeout(t) \/ SaveDelivery(t) \/ ScanRead(t)
      PROVE  Stepped
  BY <1>2, PrepareSaveStep, PrepareEndStep, SkipCommitStep, CommitReadStep, CommitSaveStep,
     CommitEndStep, CommitFailsStep, TimeoutStep, SaveDeliveryStep, ScanReadStep DEF Commit
<1>3. ASSUME NEW t \in Turns, NEW r \in Recipients, HandlerReturns(t, r) \/ Elapse(t, r)
      PROVE  Stepped
  BY <1>3, HandlerReturnsStep, ElapseStep
<1>4. CASE TimerFires \/ ScanList \/ ScanCheck \/ ScanEnd \/ Suspend \/ Resume \/ Crash
  BY <1>4, TimerFiresStep, ScanListStep, ScanCheckStep, ScanEndStep, SuspendStep, ResumeStep, CrashStep
<1>. QED BY <1>1, <1>2, <1>3, <1>4 DEF Next

-----------------------------------------------------------------------------
\* The theorems.

LEMMA DeliveryAlways == Spec => []DeliveryInv
<1>1. DeliveryInv /\ [Next]_vars => DeliveryInv'
  BY DeliveryStep DEF Stepped
<1>. QED BY <1>1, DeliveryInit, PTL DEF Spec

\* The completion files, the delivery operations, the scan and the Turns keep their types through
\* every fault, suspend and restart (SessionCompletions.ts:15-251).
THEOREM DeliveryTypes == Spec => []TypeOK
<1>1. DeliveryInv => TypeOK
  BY DEF DeliveryInv
<1>. QED BY <1>1, DeliveryAlways, PTL

\* running_handlers keeps a recipient from being called for a Turn while an earlier call of it goes
\* on, also after a timeout or a suspend has given that call up (SessionCompletions.ts:144-158).
THEOREM CallsDoNotOverlap == Spec => []NoConcurrentCall
<1>1. DeliveryInv => NoConcurrentCall
  BY DEF DeliveryInv, CallsCounted, NoConcurrentCall
<1>. QED BY <1>1, DeliveryAlways, PTL

\* A file calls a delivery delivered only when the recipient has returned successfully, whatever
\* copy of the record is saved last (SessionCompletions.ts:142-174).
THEOREM DeliveredWasHandled == Spec => []DeliveredIsDone
<1>1. DeliveryInv => DeliveredIsDone
  BY DEF DeliveryInv, CopiesTrue, FilesTrue, Truthful, DeliveredIsDone
<1>. QED BY <1>1, DeliveryAlways, PTL

\* What the Session loop sees of the files f.
Told(f) == [t \in Turns |-> IF f[t] = NoRecord THEN NoResult ELSE f[t].result]

\* A step writes the file of at most one Turn, or adds a recipient that has handled a recorded Turn.
OneFile == done' = done /\ \E t \in Turns : \A u \in Turns : u # t => record'[u] = record[u]
OneTold ==
  record' = record /\ \E t \in Turns, r \in Recipients :
                        record[t] # NoRecord /\ done' = done \cup {<<t, r>>}

LEMMA FileStep ==
  ASSUME DeliveryInv, Next
  PROVE  UNCHANGED <<record, done>> \/ OneFile \/ OneTold
<1>1. ASSUME NEW t \in Turns, PrepareSave(t) \/ CommitSave(t) \/ SaveDelivery(t)
      PROVE  OneFile
  <2>1. done' = done /\ (record' = record \/ \E c : record' = [record EXCEPT ![t] = c])
    BY <1>1 DEF PrepareSave, CommitSave, SaveDelivery
  <2>. QED BY <2>1 DEF OneFile, DeliveryInv, TypeOK
<1>2. ASSUME NEW t \in Turns, NEW r \in Recipients, Elapse(t, r)
      PROVE  OneFile
  BY <1>2 DEF Elapse, OneFile, DeliveryInv, TypeOK
<1>3. ASSUME NEW t \in Turns, NEW r \in Recipients, HandlerReturns(t, r)
      PROVE  UNCHANGED <<record, done>> \/ OneTold
  <2>1. record[t] # NoRecord
    BY <1>3 DEF HandlerReturns, DeliveryInv, RecordedFirst
  <2>. QED BY <1>3, <2>1 DEF HandlerReturns, OneTold
<1>4. ASSUME NEW t \in Turns,
             PrepareEnd(t) \/ SkipCommit(t) \/ CommitRead(t) \/ CommitEnd(t) \/ CommitFails(t)
               \/ Timeout(t) \/ ScanRead(t)
      PROVE  UNCHANGED <<record, done>>
  BY <1>4 DEF PrepareEnd, SkipCommit, CommitRead, CommitEnd, CommitFails, CommitDone, Timeout, ScanRead
<1>5. CASE TimerFires \/ ScanList \/ ScanCheck \/ ScanEnd \/ Suspend \/ Resume \/ Crash
  BY <1>5 DEF TimerFires, ScanList, ScanCheck, ScanEnd, Suspend, Resume, Crash
<1>. QED BY <1>1, <1>2, <1>3, <1>4, <1>5 DEF Next, Commit

LEMMA RecordStep ==
  ASSUME DeliveryInv, TypeOK', Grown(record, record', done, done'), OneFile
  PROVE  Told(record') = Told(record) \/ \E t \in Turns, result \in Results :
           /\ Told(record)[t] = NoResult /\ Told(record') = [Told(record) EXCEPT ![t] = result]
<1>1. PICK t \in Turns : \A u \in Turns : u # t => record'[u] = record[u]
  BY DEF OneFile
<1>2. CASE record[t] # NoRecord
  <2>1. \A u \in Turns : (record'[u] = NoRecord <=> record[u] = NoRecord)
                        /\ (record[u] # NoRecord => record'[u].result = record[u].result)
    BY <1>1, <1>2 DEF Grown
  <2>. QED BY <2>1 DEF Told
<1>3. CASE record[t] = NoRecord /\ record'[t] = NoRecord
  <2>1. \A u \in Turns : record'[u] = record[u]
    BY <1>1, <1>3
  <2>. QED BY <2>1 DEF Told
<1>4. CASE record[t] = NoRecord /\ record'[t] # NoRecord
  <2>. DEFINE result == record'[t].result
  <2>1. result \in Results
    BY <1>4, RecordFields DEF TypeOK
  <2>2. Told(record)[t] = NoResult /\ Told(record') = [Told(record) EXCEPT ![t] = result]
    BY <1>1, <1>4 DEF Told
  <2>. QED BY <2>1, <2>2
<1>. QED BY <1>2, <1>3, <1>4

\* A step records at most the result of a Turn that had none, or tells a recipient of a recorded one.
LEMMA JournalStep ==
  ASSUME DeliveryInv, [Next]_vars
  PROVE  [Promise!Next]_<<Told(record), done>>
<1>1. TypeOK' /\ Grown(record, record', done, done')
  BY DeliveryStep DEF Stepped, DeliveryInv
<1>2. CASE UNCHANGED <<record, done>>
  BY <1>2 DEF Told
<1>3. CASE OneFile
  <2>1. CASE Told(record') = Told(record)
    BY <1>3, <2>1 DEF OneFile
  <2>2. ASSUME NEW t \in Turns, NEW result \in Results, Told(record)[t] = NoResult,
               Told(record') = [Told(record) EXCEPT ![t] = result]
        PROVE  Promise!Next
    BY <1>3, <2>2 DEF OneFile, Promise!Next, Promise!Record, Told
  <2>. QED BY <1>1, <1>3, <2>1, <2>2, RecordStep
<1>4. CASE OneTold
  <2>1. PICK t \in Turns, r \in Recipients : record[t] # NoRecord /\ done' = done \cup {<<t, r>>}
    BY <1>4 DEF OneTold
  <2>2. Told(record)[t] # NoResult
    BY <2>1, RecordFields, CompletionsAssumption DEF Told, DeliveryInv, TypeOK
  <2>3. Promise!Tell(t, r)
    BY <1>4, <2>1, <2>2 DEF OneTold, Told, Promise!Tell
  <2>. QED BY <2>3 DEF Promise!Next
<1>. QED BY <1>2, <1>3, <1>4, FileStep DEF vars

\* Whatever is executed again, committed, or saved from an old copy, the first result of a Turn
\* stands and recipients are told recorded results only (SessionCompletions.ts:41-124): the files
\* implement CompletionJournal.
THEOREM FilesKeepPromise == Spec => KeepsPromise
<1>1. Init => Promise!Init
  BY DEF Init, Promise!Init
<1>2. DeliveryInv /\ [Next]_vars => [Promise!Next]_<<Told(record), done>>
  BY JournalStep
<1>. QED BY <1>1, <1>2, DeliveryAlways, PTL DEF Spec, KeepsPromise, Promise!Spec, Told
=============================================================================
