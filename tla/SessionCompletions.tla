-------------------------- MODULE SessionCompletions --------------------------
(***************************************************************************)
(* The durable notification of completed Turns, SessionCompletions.ts:     *)
(* a Turn writes its result and the recipients of it to a file before it   *)
(* closes (prepare), confirms it when it has closed (commit), and the      *)
(* recipients are called in the background until each has acknowledged,    *)
(* by the operation that commit starts or by one a directory scan starts.  *)
(*                                                                         *)
(* A step is what the code does between two awaits that do I/O or wait for *)
(* a callback; reading a file and acting on what was read are two steps.   *)
(* retry_at is abstracted: a delivery that failed is due "later", and      *)
(* Elapse makes it due again in every copy of the record.                  *)
(***************************************************************************)
EXTENDS Integers, Sequences, FiniteSets

CONSTANTS
  Turns,         \* the Turns that complete
  Handlers,      \* the handlers registered for the completion of every Turn
  Callbacks,     \* the callbacks that single requests ask for
  Wanted,        \* the callbacks that the requests of a Turn ask for
  Order,         \* the recipients in the order a record lists them
  Results,       \* how a Turn can end
  Faults,        \* which faults the environment has
  MaxFaults, MaxCrashes, MaxHosted,  \* how often they happen, and how
                 \* often the host suspends, or resumes what is not suspended
  SlowScans,     \* whether a scan may outlast the timer of one second
  NoRecord, NoOperation, NoScan, NoResult

Recipients == Handlers \cup Callbacks

\* What a file holds: whether the Turn is known to have closed, how it ended, and whom to call.
Records ==
  UNION {[state : {"prepared", "pending", "delivered"}, result : Results,
          deliveries : [R -> {"due", "later", "delivered"}]] : R \in SUBSET Recipients}

FaultKinds == {"late_prepare", "notify", "commit", "save", "read", "handler", "timeout"}

ASSUME CompletionsAssumption ==
  /\ Handlers \cap Callbacks = {}
  /\ Wanted \in [Turns -> SUBSET Callbacks]
  /\ Order \in Seq(Recipients)
  /\ \A r \in Recipients : \E i \in DOMAIN Order : Order[i] = r
  /\ Faults \subseteq FaultKinds
  /\ MaxFaults \in Nat /\ MaxCrashes \in Nat /\ MaxHosted \in Nat
  /\ SlowScans \in BOOLEAN /\ NoResult \notin Results /\ NoRecord \notin Records

VARIABLES
  record,       \* files: the completion record of a Turn, or NoRecord
  \* SessionCompletions fields
  preparing,    \* Turns of this process between prepare and the end of commit
  active,       \* the delivery operation of a Turn: its copy of the record, the recipient it
                \* is at, and whether it waits for the handler or saves
  running,      \* handlers that have not returned (running_handlers)
  scanning,     \* the directory scan: the entries left once listed, the record just read,
                \* whether one is pending, whether a timer waits for the scan
  timer, suspended,
  \* who uses it
  turn,         \* where a Turn is
  seen,         \* the record commit has read or written under the file lock
  gone,         \* recipients the host no longer registers
  \* what happened outside
  calls,        \* invocations of a handler that have not returned
  done,         \* handlers that have returned successfully at least once
  faults, crashes, hosted

delivery == <<active, running, calls>>
scanner  == <<scanning, suspended>>
turns    == <<preparing, turn, seen>>
counters == <<crashes, hosted>>
vars == <<record, delivery, scanner, timer, turns, gone, done, faults, counters>>

Fault(kind) == kind \in Faults /\ faults < MaxFaults /\ faults' = faults + 1

Init ==
  /\ record = [t \in Turns |-> NoRecord] /\ preparing = {}
  /\ active = [t \in Turns |-> NoOperation] /\ running = {}
  /\ scanning = NoScan /\ timer = FALSE /\ suspended = FALSE
  /\ turn = [t \in Turns |-> "running"] /\ seen = [t \in Turns |-> NoRecord] /\ gone = {}
  /\ calls = [x \in Turns \X Recipients |-> 0] /\ done = {}
  /\ faults = 0 /\ crashes = 0 /\ hosted = 0

\* schedule: a timer, unless there is one or delivery is suspended.
Scheduled == timer \/ ~suspended

-----------------------------------------------------------------------------
\* Delivery.

\* Mistake: a recipient is called although an abandoned call of it has not returned.
CallableAgain(t, copy) ==
  {i \in DOMAIN Order : /\ Order[i] \in DOMAIN copy.deliveries \ gone
                        /\ copy.deliveries[Order[i]] = "due"}

\* The positions of the recipients that deliver() would call with this copy of the record.
Callable(t, copy) ==
  {i \in DOMAIN Order : /\ Order[i] \in DOMAIN copy.deliveries \ gone
                        /\ copy.deliveries[Order[i]] = "due"
                        /\ <<t, Order[i]>> \notin running}

\* deliver() goes on after position i of its copy: it calls the next recipient, if there is one.
Deliver(t, copy, i) ==
  LET next == {j \in Callable(t, copy) : j > i}
      at   == CHOOSE j \in next : \A k \in next : j <= k
  IN  IF suspended \/ next = {}
      THEN /\ active' = [active EXCEPT ![t] = NoOperation]
           /\ UNCHANGED <<running, calls>>
      ELSE /\ active' = [active EXCEPT ![t] = [copy |-> copy, at |-> at, step |-> "calling"]]
           /\ running' = running \cup {<<t, Order[at]>>}
           /\ calls' = [calls EXCEPT ![<<t, Order[at]>>] = @ + 1]

\* The operation that ends schedules a scan.
ScheduledIfEnded(t) == timer' = IF active'[t] = NoOperation THEN Scheduled ELSE timer

\* launch: at most one operation for a Turn.
Launch(t, copy) ==
  IF active[t] = NoOperation THEN Deliver(t, copy, 0) ELSE UNCHANGED delivery

\* The operation after its handler succeeded, failed or was abandoned.
Answered(operation, status) ==
  [operation EXCEPT !.copy.deliveries[Order[operation.at]] = status, !.step = "saving"]

WaitsFor(t, r) ==
  active[t] # NoOperation /\ active[t].step = "calling" /\ Order[active[t].at] = r

\* A handler returns, perhaps after call_handler has given it up.
HandlerReturns(t, r) ==
  /\ <<t, r>> \in running
  /\ running' = running \ {<<t, r>>}
  /\ calls' = [calls EXCEPT ![<<t, r>>] = @ - 1]
  /\ \/ /\ done' = done \cup {<<t, r>>}
        /\ active' = IF WaitsFor(t, r) THEN [active EXCEPT ![t] = Answered(@, "delivered")]
                     ELSE active
        /\ UNCHANGED faults
     \/ /\ Fault("handler")
        /\ active' = IF WaitsFor(t, r) THEN [active EXCEPT ![t] = Answered(@, "later")]
                     ELSE active
        /\ UNCHANGED done
  /\ UNCHANGED <<record, scanner, timer, turns, gone, counters>>

\* Mistake: a handler that was given up counts as called.
TimeoutDelivers(t) ==
  /\ active[t] # NoOperation /\ active[t].step = "calling" /\ Fault("timeout")
  /\ active' = [active EXCEPT ![t] = Answered(@, "delivered")]
  /\ UNCHANGED <<record, running, calls, scanner, timer, turns, gone, done, counters>>

\* The timeout of call_handler: the handler is told and no longer waited for.
Timeout(t) ==
  /\ active[t] # NoOperation /\ active[t].step = "calling" /\ Fault("timeout")
  /\ active' = [active EXCEPT ![t] = Answered(@, "later")]
  /\ UNCHANGED <<record, running, calls, scanner, timer, turns, gone, done, counters>>

StateOf(deliveries) ==
  IF \A r \in DOMAIN deliveries : deliveries[r] = "delivered" THEN "delivered" ELSE "pending"

\* Every answer is saved, with the rest of the copy, before the next recipient is looked at.
SaveDelivery(t) ==
  /\ active[t] # NoOperation /\ active[t].step = "saving"
  /\ LET copy == [active[t].copy EXCEPT !.state = StateOf(active[t].copy.deliveries)]
     IN \/ /\ record' = [record EXCEPT ![t] = copy]
           /\ Deliver(t, copy, active[t].at)
           /\ UNCHANGED faults
        \/ /\ Fault("save")
           /\ active' = [active EXCEPT ![t] = NoOperation]
           /\ UNCHANGED <<record, running, calls>>
  /\ ScheduledIfEnded(t)
  /\ UNCHANGED <<scanner, turns, gone, done, counters>>

\* The retry_at of a delivery passes.
MadeDue(copy, r) ==
  IF copy # NoRecord /\ r \in DOMAIN copy.deliveries /\ copy.deliveries[r] = "later"
  THEN [copy EXCEPT !.deliveries[r] = "due"] ELSE copy

Elapse(t, r) ==
  /\ record[t] # NoRecord /\ r \in DOMAIN record[t].deliveries
  /\ record[t].deliveries[r] = "later"
  /\ record' = [record EXCEPT ![t] = MadeDue(@, r)]
  /\ seen' = [seen EXCEPT ![t] = MadeDue(@, r)]
  /\ active' = IF active[t] = NoOperation THEN active
               ELSE [active EXCEPT ![t].copy = MadeDue(@, r)]
  /\ scanning' = IF scanning # NoScan /\ scanning.read # <<>> /\ scanning.read[1] = t
                 THEN [scanning EXCEPT !.read[2] = MadeDue(@, r)] ELSE scanning
  /\ UNCHANGED <<running, calls, timer, suspended, preparing, turn, gone, done, faults, counters>>

-----------------------------------------------------------------------------
\* The Turn: prepare, then commit.

\* The recipients prepare lists: the registered handlers, the callbacks the requests name.
RecipientsOf(t) == (Handlers \ gone) \cup Wanted[t]

Prepared(t, result) ==
  [state |-> "prepared", result |-> result, deliveries |-> [r \in RecipientsOf(t) |-> "due"]]

\* Mistake: the record is written again when the Turn has been executed again.
PrepareOverwrites(t) ==
  /\ turn[t] = "running" /\ Wanted[t] \cap gone = {}
  /\ \E result \in Results : record' = [record EXCEPT ![t] = Prepared(t, result)]
  /\ turn' = [turn EXCEPT ![t] = "written"]
  /\ UNCHANGED <<delivery, scanner, timer, preparing, seen, gone, done, faults, counters>>

\* Mistake: prepare does not wait for the record to be written.
PrepareUnsaved(t) ==
  /\ turn[t] = "running" /\ Wanted[t] \cap gone = {}
  /\ turn' = [turn EXCEPT ![t] = "written"]
  /\ UNCHANGED <<record, delivery, scanner, timer, preparing, seen, gone, done, faults, counters>>

\* prepare under the file lock: an existing record stands.  Without one of its callbacks a Turn
\* is not acknowledged at all.
PrepareSave(t) ==
  /\ turn[t] = "running" /\ Wanted[t] \cap gone = {}
  /\ IF record[t] = NoRecord
     THEN \E result \in Results : record' = [record EXCEPT ![t] = Prepared(t, result)]
     ELSE UNCHANGED record
  /\ turn' = [turn EXCEPT ![t] = "written"]
  /\ UNCHANGED <<delivery, scanner, timer, preparing, seen, gone, done, faults, counters>>

\* prepare after the lock.  If a failure is reported instead, the Turn is executed again when its
\* request is repeated.
PrepareEnd(t) ==
  /\ turn[t] = "written"
  /\ \/ /\ preparing' = preparing \cup {t}
        /\ turn' = [turn EXCEPT ![t] = "prepared"]
        /\ UNCHANGED faults
     \/ /\ Fault("late_prepare")
        /\ turn' = [turn EXCEPT ![t] = "running"]
        /\ UNCHANGED preparing
  /\ UNCHANGED <<record, delivery, scanner, timer, seen, gone, done, counters>>

\* commit is not called when nobody handles completions (Agent.resolve_hooks) or the event of the
\* Turn cannot be put together (notify_turn_committed).
SkipCommit(t) ==
  /\ turn[t] = "prepared"
  /\ \/ Recipients \subseteq gone /\ UNCHANGED faults
     \/ Fault("notify")
  /\ turn' = [turn EXCEPT ![t] = "closed"]
  /\ UNCHANGED <<record, delivery, scanner, timer, preparing, seen, gone, done, counters>>

\* submit prepares once more and reads the record under the file lock.
CommitRead(t) ==
  /\ turn[t] = "prepared" /\ ~ Recipients \subseteq gone
  /\ preparing' = preparing \cup {t}
  /\ seen' = [seen EXCEPT ![t] = record[t]]
  /\ turn' = [turn EXCEPT ![t] = "committing"]
  /\ UNCHANGED <<record, delivery, scanner, timer, gone, done, faults, counters>>

\* The result stays as it was prepared.
Committed(copy) ==
  [copy EXCEPT !.state = IF DOMAIN copy.deliveries = {} THEN "delivered" ELSE "pending"]

\* A prepared record is replaced by a committed one, any other stands.
CommitSave(t) ==
  /\ turn[t] = "committing"
  /\ IF seen[t].state = "prepared"
     THEN /\ record' = [record EXCEPT ![t] = Committed(seen[t])]
          /\ seen' = [seen EXCEPT ![t] = Committed(@)]
     ELSE UNCHANGED <<record, seen>>
  /\ turn' = [turn EXCEPT ![t] = "committed"]
  /\ UNCHANGED <<delivery, scanner, timer, preparing, gone, done, faults, counters>>

\* The finally block of commit.
CommitDone(t) ==
  /\ preparing' = preparing \ {t}
  /\ turn' = [turn EXCEPT ![t] = "closed"]
  /\ seen' = [seen EXCEPT ![t] = NoRecord]
  /\ UNCHANGED <<record, scanner, gone, done, counters>>

\* An error of submit is logged by the hook runner; the record is left to the next scan.
CommitFails(t) ==
  /\ turn[t] \in {"prepared", "committing"} /\ ~ Recipients \subseteq gone /\ Fault("commit")
  /\ CommitDone(t)
  /\ timer' = Scheduled
  /\ UNCHANGED delivery

\* After the lock the record is delivered at once.
CommitEnd(t) ==
  /\ turn[t] = "committed"
  /\ CommitDone(t)
  /\ timer' = Scheduled
  /\ IF seen[t].state = "pending" /\ ~suspended THEN Launch(t, seen[t]) ELSE UNCHANGED delivery
  /\ UNCHANGED faults

Commit(t) == CommitRead(t) \/ CommitSave(t) \/ CommitEnd(t) \/ CommitFails(t)

-----------------------------------------------------------------------------
\* Scans: started by resume and by the timer, one at a time.

StartedScan(timed) ==
  [step |-> "listing", todo |-> {}, read |-> <<>>, pending |-> FALSE, timed |-> timed]

\* scan(): it joins the scan that goes on.
Scan(timed) ==
  scanning' = IF scanning = NoScan THEN StartedScan(timed)
              ELSE [scanning EXCEPT !.timed = @ \/ timed]

TimerFires ==
  /\ timer /\ timer' = FALSE
  /\ scanning # NoScan => SlowScans
  /\ Scan(TRUE)
  /\ UNCHANGED <<record, delivery, suspended, turns, gone, done, faults, counters>>

\* The directory is listed once; if that fails, only a timer tries again.
ScanList ==
  /\ scanning # NoScan /\ scanning.step = "listing"
  /\ \/ /\ scanning' = [scanning EXCEPT !.step = "looking",
                                        !.todo = {t \in Turns : record[t] # NoRecord}]
        /\ UNCHANGED <<timer, faults>>
     \/ /\ Fault("read")
        /\ scanning' = NoScan
        /\ timer' = IF scanning.timed THEN Scheduled ELSE timer
  /\ UNCHANGED <<record, delivery, suspended, turns, gone, done, counters>>

\* A record that cannot be read is left out.
ScanRead(t) ==
  /\ scanning # NoScan /\ scanning.read = <<>> /\ t \in scanning.todo
  /\ \/ /\ scanning' = [scanning EXCEPT !.todo = @ \ {t}, !.read = <<t, record[t]>>]
        /\ UNCHANGED faults
     \/ /\ Fault("read")
        /\ scanning' = [scanning EXCEPT !.todo = @ \ {t}]
  /\ UNCHANGED <<record, delivery, suspended, timer, turns, gone, done, counters>>

\* Mistake: a record whose recipients all wait for their retry is passed over.
DueNow(t, copy) == \E r \in DOMAIN copy.deliveries : copy.deliveries[r] = "due"

\* The records a scan does not pass over.
Undelivered(t, copy) ==
  copy.state # "delivered" /\ ~(copy.state = "prepared" /\ t \in preparing)

\* The record that was read is launched if a delivery of it is due.
ScanCheck ==
  /\ scanning # NoScan /\ scanning.read # <<>>
  /\ LET t    == scanning.read[1]
         copy == scanning.read[2]
     IN  /\ scanning' = [scanning EXCEPT !.read = <<>>, !.pending = @ \/ Undelivered(t, copy)]
         /\ IF /\ Undelivered(t, copy) /\ ~suspended
               /\ \E r \in DOMAIN copy.deliveries : copy.deliveries[r] = "due"
            THEN Launch(t, copy) /\ ScheduledIfEnded(t)
            ELSE UNCHANGED <<delivery, timer>>
  /\ UNCHANGED <<record, suspended, turns, gone, done, faults, counters>>

ScanEnd ==
  /\ scanning # NoScan /\ scanning.step = "looking"
  /\ scanning.todo = {} /\ scanning.read = <<>>
  /\ scanning' = NoScan
  /\ timer' = IF scanning.pending THEN Scheduled ELSE timer
  /\ UNCHANGED <<record, delivery, suspended, turns, gone, done, faults, counters>>

-----------------------------------------------------------------------------
\* The host.

\* suspend: every handler waited for is given up.
Suspend ==
  /\ ~suspended /\ hosted < MaxHosted /\ hosted' = hosted + 1
  /\ suspended' = TRUE /\ timer' = FALSE
  /\ active' = [t \in Turns |->
       IF active[t] # NoOperation /\ active[t].step = "calling" THEN Answered(active[t], "later")
       ELSE active[t]]
  /\ UNCHANGED <<record, running, calls, scanning, turns, gone, done, faults, crashes>>

\* resume; the host may also call it on an Agent that is not suspended.
Resume ==
  /\ \/ suspended /\ UNCHANGED hosted
     \/ ~suspended /\ hosted < MaxHosted /\ hosted' = hosted + 1
  /\ suspended' = FALSE /\ preparing' = {}
  /\ Scan(FALSE)
  /\ UNCHANGED <<record, delivery, timer, turn, seen, gone, done, faults, crashes>>

\* The process stops.  The host starts another one, perhaps without some of the recipients, and
\* resumes it; Turns that had not closed may be executed again.
Crash ==
  /\ crashes < MaxCrashes /\ crashes' = crashes + 1
  /\ \E lost \in SUBSET Recipients : gone' = gone \cup lost
  /\ turn' = [t \in Turns |-> IF turn[t] = "closed" THEN "closed" ELSE "running"]
  /\ preparing' = {} /\ seen' = [t \in Turns |-> NoRecord]
  /\ active' = [t \in Turns |-> NoOperation]
  /\ running' = {} /\ calls' = [x \in Turns \X Recipients |-> 0]
  /\ scanning' = StartedScan(FALSE) /\ timer' = FALSE /\ suspended' = FALSE
  /\ UNCHANGED <<record, done, faults, hosted>>

-----------------------------------------------------------------------------
Next ==
  \/ \E t \in Turns : \/ PrepareSave(t) \/ PrepareEnd(t) \/ SkipCommit(t) \/ Commit(t)
                      \/ Timeout(t) \/ SaveDelivery(t) \/ ScanRead(t)
  \/ \E t \in Turns, r \in Recipients : HandlerReturns(t, r) \/ Elapse(t, r)
  \/ TimerFires \/ ScanList \/ ScanCheck \/ ScanEnd
  \/ Suspend \/ Resume \/ Crash

Spec == Init /\ [][Next]_vars

\* Steps of the program go on, handlers return, time passes.  That requests come, that the host
\* resumes what it suspended, and faults are not assumed.
Fairness ==
  /\ \A t \in Turns : /\ WF_vars(PrepareEnd(t)) /\ WF_vars(SkipCommit(t)) /\ WF_vars(Commit(t))
                      /\ WF_vars(SaveDelivery(t)) /\ WF_vars(ScanRead(t))
  /\ \A t \in Turns, r \in Recipients : WF_vars(HandlerReturns(t, r)) /\ WF_vars(Elapse(t, r))
  /\ WF_vars(TimerFires) /\ WF_vars(ScanList) /\ WF_vars(ScanCheck) /\ WF_vars(ScanEnd)

FairSpec == Spec /\ Fairness

-----------------------------------------------------------------------------
\* Properties.

\* The state of the files, of SessionCompletions and of the Turns that use it.
TypeOK ==
  /\ record \in [Turns -> Records \cup {NoRecord}]
  /\ seen \in [Turns -> Records \cup {NoRecord}]
  /\ active \in [Turns -> {NoOperation} \cup
                          [copy : Records, at : DOMAIN Order, step : {"calling", "saving"}]]
  /\ scanning = NoScan \/
       /\ scanning \in [step : {"listing", "looking"}, todo : SUBSET Turns,
                        read : {<<>>} \cup (Turns \X Records), pending : BOOLEAN, timed : BOOLEAN]
       /\ scanning.step = "listing" => scanning.todo = {}
  /\ turn \in [Turns -> {"running", "written", "prepared", "committing", "committed", "closed"}]
  /\ \A t \in Turns : turn[t] = "committing" => seen[t] # NoRecord
  /\ preparing \subseteq Turns /\ gone \subseteq Recipients
  /\ running \subseteq Turns \X Recipients /\ done \subseteq Turns \X Recipients
  /\ calls \in [Turns \X Recipients -> Nat]
  /\ timer \in BOOLEAN /\ suspended \in BOOLEAN
  /\ faults \in 0..MaxFaults /\ crashes \in 0..MaxCrashes /\ hosted \in 0..MaxHosted

\* A recipient is never called for a Turn while an earlier call of it goes on, even one that was
\* given up by the timeout or a suspend (running_handlers).
NoConcurrentCall == \A x \in Turns \X Recipients : calls[x] <= 1

\* What the file calls delivered has been handled: no timeout, failure, suspend or restart marks a
\* recipient that has not returned successfully.
DeliveredIsDone ==
  \A t \in Turns : record[t] # NoRecord =>
    \A r \in DOMAIN record[t].deliveries : record[t].deliveries[r] = "delivered" => <<t, r>> \in done

\* The records keep the promise the Session loop relies on: whatever is executed again, committed,
\* or saved from an old copy, the first result of a Turn stands, and only recorded results are told.
Promise == INSTANCE CompletionJournal WITH
  recorded <- [t \in Turns |-> IF record[t] = NoRecord THEN NoResult ELSE record[t].result],
  told <- done
KeepsPromise == Promise!Spec

\* Every recipient of a recorded completion handles it in the end, unless the host no longer
\* registers it.
EventuallyDelivered ==
  \A t \in Turns, r \in Recipients :
    (record[t] # NoRecord /\ r \in DOMAIN record[t].deliveries) ~> (<<t, r>> \in done \/ r \in gone)

\* "Once each recipient has completed it is saved, so that the failure of another does not replay a
\* recipient that has acknowledged" (the comment in deliver).
NotReplayed ==
  [][\A t \in Turns, r \in Recipients :
       /\ record[t] # NoRecord /\ r \in DOMAIN record[t].deliveries
       /\ record[t].deliveries[r] = "delivered"
       => calls'[t, r] <= calls[t, r]]_vars
=============================================================================
