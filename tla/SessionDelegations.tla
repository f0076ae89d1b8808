-------------------------- MODULE SessionDelegations --------------------------
(***************************************************************************)
(* Work that a Turn delegates to other Sessions, SessionDelegations.ts:    *)
(* a tool call of the Turn writes a record, an operation in the background *)
(* prompts the Session of the work, saves how its Turn ended and hands the *)
(* result to the Turn that asked; a Turn at depth one waits for its works  *)
(* (SessionChildWorkLifecycle.ts), a Turn that fails cancels them, and     *)
(* operations that failed are started again by a timer or after a restart. *)
(*                                                                         *)
(* A step is what the code does between two awaits that do I/O or wait for *)
(* another Session.  The two Sessions are what SessionLoop makes of them:  *)
(* the Turn that asked takes results only at its checkpoints, the Turn of  *)
(* a work is joined by every prompt with the same request_id, and both can *)
(* be stopped.  All records belong to one Turn of one Session.             *)
(***************************************************************************)
EXTENDS Naturals, FiniteSets

CONSTANTS
  Works,         \* the tool calls of the Turn that delegate
  Faults,        \* "prepare": preparing the Session of a work fails;
                 \* "operation": any other call an operation makes;
                 \* "absorb": the Turn that asked cannot save the result;
                 \* "record": how the Turn that asked ended cannot be recorded
  MaxFaults,     \* how often they happen
  MaxEvents,     \* how often the process stops, a work is stopped, or the host suspends
  NoRecord, NoResult, NoScan

\* How the Turn of a work ends; a work that is withdrawn gets a result without one.
Ended == {"completed", "failed", "stopped"}

\* What a file holds.
Records ==
  [execution : {"pending", "running"} \cup Ended,
   delivery : {"pending", "delivered", "cancelled", "saved"},
   accepted : BOOLEAN, result : {NoResult, "withdrawn"} \cup Ended, due : BOOLEAN]

ASSUME DelegationsAssumption ==
  /\ Faults \subseteq {"prepare", "operation", "absorb", "record"}
  /\ MaxFaults \in Nat /\ MaxEvents \in Nat
  /\ NoRecord \notin Records /\ NoResult \notin Ended \cup {"withdrawn"}

VARIABLES
  record,       \* files: the delegation record of a work, or NoRecord
  closed,       \* files: whether the Turn that asked may submit no more
  \* SessionDelegations fields
  op,           \* active: the await an operation is in, or "none"
  aborted,      \* cancellations: whether the signal of a work is aborted
  scan,         \* scanning: the records a scan has listed, or NoScan
  timer, suspended,
  cancel,       \* the await a cancellation of a work is in, or "none"; one that suppresses the
                \* delivery (cancel_children) and one that does not (SessionWork.stop)
  \* the Sessions
  tool,         \* where the tool call that submits a work is
  turn,         \* the Turn that asked: its phase, the await of wait_for_children or of
                \* cancel_children it is in, the operations it waits for, whether it waits for
                \* its works at all (a Work of depth one does), and whether this process has
                \* taken it up again after it failed
  inbox,        \* the result in the Session that asked: queued, being written, stored
  child,        \* the Turn of the work, in its own Session
  faults, events

memory   == <<op, aborted, scan, timer, suspended, cancel>>
sessions == <<tool, turn, inbox, child>>
vars == <<record, closed, memory, sessions, faults, events>>

Fault(kind) == kind \in Faults /\ faults < MaxFaults /\ faults' = faults + 1
Event       == events < MaxEvents /\ events' = events + 1

Init ==
  /\ record = [w \in Works |-> NoRecord] /\ closed = FALSE
  /\ op = [w \in Works |-> "none"] /\ aborted = [w \in Works |-> FALSE]
  /\ scan = NoScan /\ timer = FALSE /\ suspended = FALSE
  /\ cancel = [x \in Works \X BOOLEAN |-> "none"]
  /\ tool = [w \in Works |-> "none"]
  /\ \E waits \in BOOLEAN : turn =
       [phase |-> "working", at |-> "none", left |-> {}, waits |-> waits, again |-> FALSE]
  /\ inbox = [w \in Works |-> "none"] /\ child = [w \in Works |-> "none"]
  /\ faults = 0 /\ events = 0

Pending(w)  == record[w] # NoRecord /\ record[w].delivery = "pending"
PendingOnes == {w \in Works : Pending(w)}

-----------------------------------------------------------------------------
\* The operation of a work.

\* The step from which a launched operation starts; none while one is active or suspended.
Launched(w, first) == IF suspended \/ op[w] # "none" THEN op[w] ELSE first

\* The operation goes on with another await.
Goto(w, step) == op' = [op EXCEPT ![w] = step] /\ UNCHANGED <<aborted, timer>>

\* launch's finally: the signal is forgotten, and a scan is scheduled.
End(w) ==
  /\ op' = [op EXCEPT ![w] = "none"]
  /\ aborted' = [aborted EXCEPT ![w] = FALSE]
  /\ timer' = (timer \/ ~suspended)

\* run: what a fresh copy of the record calls for.
Read(w) ==
  /\ op[w] \in {"reading", "prepared"}
  /\ CASE suspended \/ ~Pending(w) -> End(w)
       [] ~suspended /\ Pending(w) ->
            Goto(w, CASE record[w].result # NoResult -> "rechecking"
                      [] record[w].result = NoResult ->
                           IF record[w].execution = "stopped" /\ ~record[w].accepted THEN "withdrawing"
                           ELSE IF op[w] = "prepared" THEN "checking" ELSE "preparing")
  /\ UNCHANGED <<record, closed, scan, suspended, cancel, sessions, faults, events>>

Prepare(w) ==
  /\ op[w] = "preparing"
  /\ \/ Goto(w, "checking") /\ UNCHANGED faults
     \/ Goto(w, "failing") /\ Fault("prepare")
  /\ UNCHANGED <<record, closed, scan, suspended, cancel, sessions, events>>

\* run after the preparation, and execute_work up to its prompt.
Check(w) ==
  /\ op[w] = "checking"
  /\ IF suspended \/ ~Pending(w) THEN End(w)
     ELSE Goto(w, IF record[w].execution = "stopped" \/ aborted[w] THEN "withdrawing" ELSE "prompting")
  /\ UNCHANGED <<record, closed, scan, suspended, cancel, sessions, faults, events>>

\* The Session of the work takes the prompt: the request has a Turn already, or gets one.
Prompt(w) ==
  /\ op[w] = "prompting"
  /\ child' = [child EXCEPT ![w] = IF @ \in {"none", "interrupted"} THEN "running" ELSE @]
  /\ Goto(w, "accepted")
  /\ UNCHANGED <<record, closed, scan, suspended, cancel, tool, turn, inbox, faults, events>>

\* The handle is recorded, and a Turn that was not to start is stopped.
Accepted(w) ==
  /\ op[w] = "accepted"
  /\ LET latest == [record[w] EXCEPT !.accepted = TRUE,
                      !.execution = IF @ = "stopped" THEN "stopped" ELSE "running"]
         stop   == suspended \/ latest.delivery = "cancelled" \/ latest.execution = "stopped"
         gone   == child[w] \in Ended
     IN  /\ record' = [record EXCEPT ![w] = latest]
         /\ child' = [child EXCEPT ![w] = IF stop /\ ~gone THEN "stopping" ELSE @]
         /\ Goto(w, IF ~stop \/ ~gone THEN "finishing"
                    ELSE IF aborted[w] THEN "withdrawing" ELSE "failing")
  /\ UNCHANGED <<closed, scan, suspended, cancel, tool, turn, inbox, faults, events>>

\* run after the result is known.
Deliverable(w) ==
  IF suspended \/ record'[w].delivery # "pending" THEN End(w) ELSE Goto(w, "rechecking")

\* The Turn of the work has ended.
Finish(w) ==
  /\ op[w] = "finishing" /\ child[w] \in Ended
  /\ record' = [record EXCEPT ![w].result = child[w],
                  ![w].execution = IF @ = "stopped" THEN "stopped" ELSE child[w]]
  /\ Deliverable(w)
  /\ UNCHANGED <<closed, scan, suspended, cancel, sessions, faults, events>>

\* save_stopped: a work that is stopped without a result gets one.
Withdraw(w) ==
  /\ op[w] = "withdrawing"
  /\ record' = [record EXCEPT ![w].execution = "stopped",
                  ![w].result = IF @ = NoResult THEN "withdrawn" ELSE @]
  /\ Deliverable(w)
  /\ UNCHANGED <<closed, scan, suspended, cancel, sessions, faults, events>>

\* The record is read again once the Session that asked is there.
Recheck(w) ==
  /\ op[w] = "rechecking"
  /\ IF suspended \/ ~Pending(w) THEN End(w) ELSE Goto(w, "accepting")
  /\ UNCHANGED <<record, closed, scan, suspended, cancel, sessions, faults, events>>

\* Mistake: the result is queued in a Turn that is being stopped.
AcceptLate(w) ==
  /\ op[w] = "accepting"
  /\ IF turn.phase # "failed" THEN inbox' = [inbox EXCEPT ![w] = "queued"] /\ Goto(w, "queued")
     ELSE Goto(w, "saved") /\ UNCHANGED inbox
  /\ UNCHANGED <<record, closed, scan, suspended, cancel, tool, turn, child, faults, events>>

\* Mistake: whether the Turn has the result already is not looked up.
AcceptAgain(w) ==
  /\ op[w] = "accepting"
  /\ IF turn.phase \in {"working", "waiting"}
     THEN inbox' = [inbox EXCEPT ![w] = "queued"] /\ Goto(w, "queued")
     ELSE Goto(w, "saved") /\ UNCHANGED inbox
  /\ UNCHANGED <<record, closed, scan, suspended, cancel, tool, turn, child, faults, events>>

\* accept_delegation_result: a result that the Turn has is not queued again, and one that comes
\* when the Turn is not going on is not queued.
Accept(w) ==
  /\ op[w] = "accepting"
  /\ IF inbox[w] = "stored" THEN Goto(w, "delivered") /\ UNCHANGED inbox
     ELSE IF turn.phase \in {"working", "waiting"}
     THEN inbox' = [inbox EXCEPT ![w] = "queued"] /\ Goto(w, "queued")
     ELSE Goto(w, "saved") /\ UNCHANGED inbox
  /\ UNCHANGED <<record, closed, scan, suspended, cancel, tool, turn, child, faults, events>>

\* The queue has answered: the result is in the Turn, or was cancelled.
Answered(w) ==
  /\ op[w] = "queued"
  /\ \/ inbox[w] = "stored" /\ Goto(w, "delivered")
     \/ inbox[w] = "none" /\ Goto(w, "failing")
  /\ UNCHANGED <<record, closed, scan, suspended, cancel, sessions, faults, events>>

Deliver(w) ==
  /\ op[w] \in {"delivered", "saved"}
  /\ record' = [record EXCEPT ![w].delivery = IF @ = "cancelled" THEN "cancelled" ELSE op[w]]
  /\ End(w)
  /\ UNCHANGED <<closed, scan, suspended, cancel, sessions, faults, events>>

Executing(w) == op[w] \in {"prompting", "accepted", "finishing"}

\* A call of the operation fails; in execute_work a work whose signal is aborted is stopped.
OperationFails(w) ==
  /\ op[w] \notin {"none", "preparing", "queued", "failing"}
  /\ Fault("operation")
  /\ Goto(w, IF Executing(w) /\ aborted[w] THEN "withdrawing" ELSE "failing")
  /\ UNCHANGED <<record, closed, scan, suspended, cancel, sessions, events>>

\* launch's catch: the record is due later.
Fail(w) ==
  /\ op[w] = "failing"
  /\ record' = [record EXCEPT ![w].due = FALSE]
  /\ End(w)
  /\ UNCHANGED <<closed, scan, suspended, cancel, sessions, faults, events>>

\* retry_at passes.
Elapse(w) ==
  /\ record[w] # NoRecord /\ ~record[w].due
  /\ record' = [record EXCEPT ![w].due = TRUE]
  /\ UNCHANGED <<closed, memory, sessions, faults, events>>

-----------------------------------------------------------------------------
\* Scans.

\* A scan is over within the second of the timer.
TimerFires ==
  /\ timer /\ scan = NoScan
  /\ timer' = FALSE /\ scan' = IF suspended THEN NoScan ELSE PendingOnes
  /\ UNCHANGED <<record, closed, op, aborted, suspended, cancel, sessions, faults, events>>

ScanEnd ==
  /\ scan # NoScan
  /\ op' = [w \in Works |-> IF w \in scan /\ record[w].due THEN Launched(w, "reading") ELSE op[w]]
  /\ timer' = (timer \/ (scan # {} /\ ~suspended))
  /\ scan' = NoScan
  /\ UNCHANGED <<record, closed, aborted, suspended, cancel, sessions, faults, events>>

Suspend ==
  /\ ~suspended /\ Event
  /\ suspended' = TRUE /\ timer' = FALSE
  /\ UNCHANGED <<record, closed, op, aborted, scan, cancel, sessions, faults>>

\* A scan that goes on is over before the host resumes.
Resume ==
  /\ suspended /\ scan = NoScan
  /\ suspended' = FALSE /\ scan' = PendingOnes
  /\ UNCHANGED <<record, closed, op, aborted, timer, cancel, sessions, faults, events>>

-----------------------------------------------------------------------------
\* The Turn that asked.

Closed == turn.phase \in {"succeeded", "failed"}

\* The tool call of submit, up to the record.
Submit(w) ==
  /\ turn.phase = "working" /\ ~suspended /\ tool[w] = "none"
  /\ tool' = [tool EXCEPT ![w] = "creating"]
  /\ UNCHANGED <<record, closed, memory, turn, inbox, child, faults, events>>

NewRecord ==
  [execution |-> "pending", delivery |-> "pending", accepted |-> FALSE, result |-> NoResult, due |-> TRUE]

\* Mistake: the tool call goes on before the record is saved.
CreateUnsaved(w) ==
  /\ tool[w] = "creating"
  /\ tool' = [tool EXCEPT ![w] = IF closed THEN "failed" ELSE "preparing"]
  /\ UNCHANGED <<record, closed, memory, turn, inbox, child, faults, events>>

\* create, under the lock that close_turn takes: the record of the same tool call is used again.
Create(w) ==
  /\ tool[w] = "creating"
  /\ IF closed THEN tool' = [tool EXCEPT ![w] = "failed"] /\ UNCHANGED <<record, op>>
     ELSE LET latest == IF record[w] = NoRecord THEN NewRecord ELSE record[w]
              ready  == latest.delivery = "pending" /\ latest.result # NoResult
          IN  /\ record' = [record EXCEPT ![w] = latest]
              /\ op' = [op EXCEPT ![w] = IF ready THEN Launched(w, "reading") ELSE @]
              /\ tool' = [tool EXCEPT ![w] =
                   IF latest.delivery = "pending" /\ ~ready THEN "preparing" ELSE "done"]
  /\ UNCHANGED <<closed, aborted, scan, timer, suspended, cancel, turn, inbox, child, faults, events>>

\* submit returns once the Session of the work is prepared.
Submitted(w) ==
  /\ tool[w] = "preparing"
  /\ \/ /\ tool' = [tool EXCEPT ![w] = "done"]
        /\ op' = [op EXCEPT ![w] = Launched(w, "prepared")]
        /\ UNCHANGED faults
     \/ tool' = [tool EXCEPT ![w] = "failed"] /\ Fault("prepare") /\ UNCHANGED op
  /\ UNCHANGED <<record, closed, aborted, scan, timer, suspended, cancel, turn, inbox, child, events>>

\* A checkpoint takes a result from the queue and saves it.
Checkpoint(w) ==
  /\ turn.phase = "working" /\ inbox[w] = "queued"
  /\ inbox' = [inbox EXCEPT ![w] = "writing"]
  /\ UNCHANGED <<record, closed, memory, tool, turn, child, faults, events>>

Store(w) ==
  /\ inbox[w] = "writing"
  /\ \/ inbox' = [inbox EXCEPT ![w] = "stored"] /\ UNCHANGED faults
     \/ inbox' = [inbox EXCEPT ![w] = "none"] /\ Fault("absorb")
  /\ UNCHANGED <<record, closed, memory, tool, turn, child, events>>

Queued == \E w \in Works : inbox[w] = "queued"
Writing == \E w \in Works : inbox[w] = "writing"

\* The last check of the queue: the Turn goes on with the input, or takes no more.
Settled == [turn EXCEPT !.phase = IF Queued THEN "working" ELSE "closing", !.at = "none"]

\* The model and its tools have finished.
ExecutorEnds ==
  /\ turn.phase = "working" /\ ~Queued /\ ~Writing
  /\ \A w \in Works : tool[w] \notin {"creating", "preparing"}
  /\ turn' = IF turn.waits THEN [turn EXCEPT !.phase = "waiting", !.at = "listing"] ELSE Settled
  /\ UNCHANGED <<record, closed, memory, tool, inbox, child, faults, events>>

\* wait_for_children launches what is pending, whenever its retry is due.
WaitList ==
  /\ turn.phase = "waiting" /\ turn.at = "listing"
  /\ IF PendingOnes = {} THEN turn' = Settled /\ UNCHANGED op
     ELSE /\ op' = [w \in Works |-> IF Pending(w) THEN Launched(w, "reading") ELSE op[w]]
          /\ turn' = [turn EXCEPT !.at = "joining",
                        !.left = {w \in PendingOnes : op'[w] # "none"}]
  /\ UNCHANGED <<record, closed, aborted, scan, timer, suspended, cancel, tool, inbox, child, faults, events>>

\* One of the operations it waits for has ended.
WaitJoin(w) ==
  /\ turn.phase = "waiting" /\ w \in turn.left /\ op[w] = "none"
  /\ turn' = [turn EXCEPT !.left = @ \ {w}]
  /\ UNCHANGED <<record, closed, memory, tool, inbox, child, faults, events>>

Failing == [turn EXCEPT !.phase = "failing", !.at = "closing", !.left = {}]
Rejected == [w \in Works |-> IF inbox[w] = "queued" THEN "none" ELSE inbox[w]]

\* Mistake: the Turn closes when the operations have ended, however they ended.
WaitTrusts ==
  /\ turn.phase = "waiting" /\ turn.at = "joining" /\ turn.left = {}
  /\ turn' = Settled /\ UNCHANGED inbox
  /\ UNCHANGED <<record, closed, memory, tool, child, faults, events>>

\* All have ended; the Turn fails if one of them left its record pending.
WaitRelist ==
  /\ turn.phase = "waiting" /\ turn.at = "joining" /\ turn.left = {}
  /\ IF PendingOnes = {} THEN turn' = Settled /\ UNCHANGED inbox
     ELSE turn' = Failing /\ inbox' = Rejected
  /\ UNCHANGED <<record, closed, memory, tool, child, faults, events>>

\* Mistake: only a result that was queued before the wait began wakes it.
WakesAtFirst ==
  /\ turn.phase = "waiting" /\ Queued /\ turn.at = "listing"
  /\ turn' = [Settled EXCEPT !.left = {}]
  /\ UNCHANGED <<record, closed, memory, tool, inbox, child, faults, events>>

\* notify_prompt: a result in the queue wakes the wait, and the Turn goes on with it.
InputWakes ==
  /\ turn.phase = "waiting" /\ Queued
  /\ turn' = [Settled EXCEPT !.left = {}]
  /\ UNCHANGED <<record, closed, memory, tool, inbox, child, faults, events>>

\* What was left to do after the last check is done, and the Turn has its record.
TurnSucceeds ==
  /\ turn.phase = "closing"
  /\ turn' = [turn EXCEPT !.phase = "succeeded"]
  /\ UNCHANGED <<record, closed, memory, tool, inbox, child, faults, events>>

\* The Turn fails or is stopped; its queue is cancelled at once.
TurnFails ==
  /\ turn.phase \in {"working", "waiting", "interrupted"}
  /\ turn' = Failing /\ inbox' = Rejected
  /\ UNCHANGED <<record, closed, memory, tool, child, faults, events>>

\* A stop after the last check cancels the works, while the Turn goes on to its end.
StopCancels ==
  /\ turn.phase = "closing" /\ turn.at = "none"
  /\ turn' = [turn EXCEPT !.at = "closing"]
  /\ UNCHANGED <<record, closed, memory, tool, inbox, child, faults, events>>

\* Something fails after the last check; works that a stop is cancelling are not cancelled again.
ClosingFails ==
  /\ turn.phase = "closing"
  /\ turn' = [turn EXCEPT !.phase = "failing", !.at = IF @ = "none" THEN "closing" ELSE @]
  /\ UNCHANGED <<record, closed, memory, tool, inbox, child, faults, events>>

\* cancel_children: first no work can be created any more, then the pending ones are cancelled.
Cancels == turn.phase \in {"closing", "failing", "succeeded"}

CloseTurn ==
  /\ Cancels /\ turn.at = "closing"
  /\ closed' = TRUE /\ turn' = [turn EXCEPT !.at = "listing"]
  /\ UNCHANGED <<record, memory, tool, inbox, child, faults, events>>

CancelChildren ==
  /\ Cancels /\ turn.at = "listing"
  /\ cancel' = [x \in Works \X BOOLEAN |-> IF x[2] /\ Pending(x[1]) THEN "listing" ELSE cancel[x]]
  /\ turn' = [turn EXCEPT !.at = "cancelling"]
  /\ UNCHANGED <<record, closed, op, aborted, scan, timer, suspended, tool, inbox, child, faults, events>>

\* Once the works are cancelled a Turn that fails ends, with the record it gets or had prepared.
Cancelled ==
  /\ turn.phase = "failing" /\ turn.at = "cancelling" /\ ~Writing
  /\ \A w \in Works : cancel[<<w, TRUE>>] = "none"

TurnFailed ==
  /\ Cancelled
  /\ turn' = [turn EXCEPT !.phase = "failed", !.at = "none"]
  /\ UNCHANGED <<record, closed, memory, tool, inbox, child, faults, events>>

\* The record is not written: the Turn is left as a restart would leave it.
TurnUnrecorded ==
  /\ Cancelled /\ Fault("record")
  /\ turn' = [turn EXCEPT !.phase = "interrupted", !.at = "none", !.again = TRUE]
  /\ UNCHANGED <<record, closed, memory, tool, inbox, child, events>>

\* A prompt goes on with the interrupted Turn.
TurnResumes ==
  /\ turn.phase = "interrupted"
  /\ turn' = [turn EXCEPT !.phase = "working"]
  /\ UNCHANGED <<record, closed, memory, tool, inbox, child, faults, events>>

-----------------------------------------------------------------------------
\* Cancellation of a work, with and without its delivery.

\* session.stop of the Session of a work: its Turn is stopped, a prompt it has not taken rejected.
StopSession(w) ==
  /\ child' = [child EXCEPT ![w] = IF @ = "running" THEN "stopping" ELSE @]
  /\ op' = [op EXCEPT ![w] = IF @ # "prompting" THEN @
                             ELSE IF aborted'[w] THEN "withdrawing" ELSE "failing"]

\* SessionWork.stop of a work, asked for by the Session that delegated it.
StopWork(w) ==
  /\ record[w] # NoRecord /\ cancel[<<w, FALSE>>] = "none"
  /\ Event
  /\ cancel' = [cancel EXCEPT ![<<w, FALSE>>] = "listing"]
  /\ UNCHANGED <<record, closed, op, aborted, scan, timer, suspended, sessions, faults>>

\* A pending record is cancelled: its signal at once, then its file.
CancelList(w, suppress) ==
  /\ cancel[<<w, suppress>>] = "listing"
  /\ IF Pending(w)
     THEN /\ aborted' = [aborted EXCEPT ![w] = TRUE]
          /\ IF Executing(w) THEN StopSession(w) ELSE UNCHANGED <<op, child>>
          /\ cancel' = [cancel EXCEPT ![<<w, suppress>>] = "updating"]
     ELSE /\ cancel' = [cancel EXCEPT ![<<w, suppress>>] = "stopping"]
          /\ UNCHANGED <<aborted, op, child>>
  /\ UNCHANGED <<record, closed, scan, timer, suspended, tool, turn, inbox, faults, events>>

\* Mistake: the cancellation is saved over what the operation has saved since.
CancelSaveOver(w, suppress) ==
  /\ cancel[<<w, suppress>>] = "updating"
  /\ record' = [record EXCEPT ![w].execution = "stopped", ![w].result = NoResult,
                  ![w].delivery = IF suppress THEN "cancelled" ELSE @]
  /\ cancel' = [cancel EXCEPT ![<<w, suppress>>] = "stopping"]
  /\ UNCHANGED <<closed, op, aborted, scan, timer, suspended, sessions, faults, events>>

CancelSave(w, suppress) ==
  /\ cancel[<<w, suppress>>] = "updating"
  /\ record' = [record EXCEPT ![w].execution = IF record[w].result = NoResult THEN "stopped" ELSE @,
                  ![w].delivery = IF suppress /\ @ # "delivered" THEN "cancelled" ELSE @]
  /\ cancel' = [cancel EXCEPT ![<<w, suppress>>] = "stopping"]
  /\ UNCHANGED <<closed, op, aborted, scan, timer, suspended, sessions, faults, events>>

\* cancel_children stops the Session of a work that is executed, SessionWork.stop any.
CancelStop(w, suppress) ==
  /\ cancel[<<w, suppress>>] = "stopping"
  /\ UNCHANGED aborted
  /\ IF suppress /\ ~Executing(w)
     THEN cancel' = [cancel EXCEPT ![<<w, suppress>>] = "none"] /\ UNCHANGED <<op, child>>
     ELSE cancel' = [cancel EXCEPT ![<<w, suppress>>] = "awaiting"] /\ StopSession(w)
  /\ UNCHANGED <<record, closed, scan, timer, suspended, tool, turn, inbox, faults, events>>

CancelDone(w, suppress) ==
  /\ cancel[<<w, suppress>>] = "awaiting" /\ child[w] \notin {"running", "stopping"}
  /\ cancel' = [cancel EXCEPT ![<<w, suppress>>] = "none"]
  /\ UNCHANGED <<record, closed, op, aborted, scan, timer, suspended, sessions, faults, events>>

-----------------------------------------------------------------------------
\* The Session of a work, and the process.

ChildEnds(w) ==
  /\ \/ child[w] = "running" /\ \E end \in {"completed", "failed"} : child' = [child EXCEPT ![w] = end]
     \/ child[w] = "stopping" /\ \E end \in Ended : child' = [child EXCEPT ![w] = end]
  /\ UNCHANGED <<record, closed, memory, tool, turn, inbox, faults, events>>

\* The host that has suspended the delegations stops the Sessions.
HostStops(w) ==
  /\ suspended /\ child[w] = "running"
  /\ UNCHANGED aborted /\ StopSession(w)
  /\ UNCHANGED <<record, closed, scan, timer, suspended, cancel, tool, turn, inbox, faults, events>>

\* The process stops, and the host resumes another one.
Crash ==
  /\ Event
  /\ op' = [w \in Works |-> "none"] /\ aborted' = [w \in Works |-> FALSE]
  /\ scan' = PendingOnes /\ timer' = FALSE /\ suspended' = FALSE
  /\ cancel' = [x \in Works \X BOOLEAN |-> "none"]
  /\ tool' = [w \in Works |-> IF tool[w] \in {"creating", "preparing"} THEN "none" ELSE tool[w]]
  /\ turn' = [turn EXCEPT !.phase = IF Closed THEN @ ELSE "interrupted", !.at = "none", !.left = {},
                          !.again = FALSE]
  /\ inbox' = [w \in Works |-> IF inbox[w] = "stored" THEN "stored" ELSE "none"]
  /\ child' = [w \in Works |-> IF child[w] \in {"running", "stopping"} THEN "interrupted" ELSE child[w]]
  /\ UNCHANGED <<record, closed, faults>>

-----------------------------------------------------------------------------
Operation(w) ==
  \/ Read(w) \/ Prepare(w) \/ Check(w) \/ Prompt(w) \/ Accepted(w) \/ Finish(w) \/ Withdraw(w)
  \/ Recheck(w) \/ Accept(w) \/ Answered(w) \/ Deliver(w) \/ Fail(w)

Asking ==
  \/ \E w \in Works : Create(w) \/ Submitted(w) \/ Checkpoint(w) \/ Store(w) \/ WaitJoin(w)
  \/ ExecutorEnds \/ WaitList \/ WaitRelist \/ InputWakes
  \/ CloseTurn \/ CancelChildren \/ TurnSucceeds \/ TurnFailed

Cancelling(w, suppress) ==
  \/ CancelList(w, suppress) \/ CancelSave(w, suppress)
  \/ CancelStop(w, suppress) \/ CancelDone(w, suppress)

Next ==
  \/ \E w \in Works :
       \/ Operation(w) \/ OperationFails(w) \/ Elapse(w) \/ ChildEnds(w) \/ HostStops(w)
       \/ Submit(w) \/ StopWork(w) \/ \E suppress \in BOOLEAN : Cancelling(w, suppress)
  \/ Asking \/ TurnFails \/ StopCancels \/ ClosingFails \/ TurnUnrecorded \/ TurnResumes
  \/ TimerFires \/ ScanEnd \/ Suspend \/ Resume \/ Crash

Spec == Init /\ [][Next]_vars

\* The awaits of the program return, Turns that run end, and time passes.  That the model delegates,
\* that a Turn is stopped or resumed, what the host does, and faults are not assumed.
Fairness ==
  /\ \A w \in Works :
       /\ WF_vars(Operation(w)) /\ WF_vars(Elapse(w)) /\ WF_vars(ChildEnds(w))
       /\ WF_vars(Create(w)) /\ WF_vars(Submitted(w)) /\ WF_vars(Checkpoint(w)) /\ WF_vars(Store(w))
       /\ WF_vars(WaitJoin(w))
       /\ \A suppress \in BOOLEAN : WF_vars(Cancelling(w, suppress))
  /\ WF_vars(ExecutorEnds) /\ WF_vars(WaitList) /\ WF_vars(WaitRelist) /\ WF_vars(InputWakes)
  /\ WF_vars(CloseTurn) /\ WF_vars(CancelChildren) /\ WF_vars(TurnSucceeds) /\ WF_vars(TurnFailed)
  /\ WF_vars(TimerFires) /\ WF_vars(ScanEnd)

FairSpec == Spec /\ Fairness

-----------------------------------------------------------------------------
\* Properties.

\* The state of the files, of SessionDelegations and of the Sessions it uses.
TypeOK ==
  /\ record \in [Works -> {NoRecord} \cup Records]
  /\ closed \in BOOLEAN /\ timer \in BOOLEAN /\ suspended \in BOOLEAN
  /\ op \in [Works -> {"none", "reading", "prepared", "preparing", "checking", "prompting", "accepted",
                       "finishing", "withdrawing", "rechecking", "accepting", "queued", "delivered",
                       "saved", "failing"}]
  /\ \A w \in Works : op[w] # "none" => record[w] # NoRecord
  /\ aborted \in [Works -> BOOLEAN] /\ (scan = NoScan \/ scan \subseteq Works)
  /\ cancel \in [Works \X BOOLEAN -> {"none", "listing", "updating", "stopping", "awaiting"}]
  /\ tool \in [Works -> {"none", "creating", "preparing", "done", "failed"}]
  /\ turn \in [phase : {"working", "waiting", "closing", "failing", "interrupted", "succeeded", "failed"},
               at : {"none", "listing", "joining", "closing", "cancelling"},
               left : SUBSET Works, waits : BOOLEAN, again : BOOLEAN]
  /\ inbox \in [Works -> {"none", "queued", "writing", "stored"}]
  /\ child \in [Works -> {"none", "running", "stopping", "interrupted"} \cup Ended]
  /\ faults \in 0..MaxFaults /\ events \in 0..MaxEvents

\* A Turn of depth one that succeeds, and any Turn that fails or is stopped at work, leaves no work
\* of its own to be delivered, although tool calls, retries and scans go on while it closes.
TurnEndsSettled ==
  (turn.phase = "failed" \/ (turn.phase = "succeeded" /\ turn.waits)) => PendingOnes = {}

\* What the file says of a delivery is what the Turn has: "delivered" is stored there, and "saved"
\* is not, and is not on its way either, after whatever failure, retry and restart.
DeliveryIsTrue ==
  \A w \in Works : record[w] # NoRecord =>
    /\ record[w].delivery = "delivered" => inbox[w] = "stored"
    /\ record[w].delivery = "saved" => inbox[w] = "none"

\* A result whose delivery was cancelled is never queued in the Turn that asked, although the
\* operation checked the record before the cancellation was saved.  The exception is a Turn that
\* the same process takes up again because its failure could not be recorded
\* (SessionLoop.ts:727): an operation that checked the record before the failure finds it active.
CancelledNeverEnters ==
  [][\A w \in Works :
       /\ inbox[w] = "none" /\ inbox'[w] = "queued"
       => record[w].delivery # "cancelled" \/ turn.again]_vars

\* Delegated work as the Turn that asked sees it: one result, told at most once, while it goes on.
Promise == INSTANCE DelegatedWork WITH
  Results <- Ended \cup {"withdrawn"},
  result <- [w \in Works |-> IF record[w] = NoRecord THEN NoResult ELSE record[w].result],
  told <- {w \in Works : inbox[w] = "stored"},
  open <- ~Closed
KeepsPromise == Promise!Spec

\* Every work whose tool call was answered is delivered, saved or cancelled in the end, unless the
\* host suspends the delegations: the Turn and the operations never wait for each other for ever.
EventuallySettled ==
  \A w \in Works : (Pending(w) /\ tool[w] = "done") ~> (~Pending(w) \/ suspended)
=============================================================================
