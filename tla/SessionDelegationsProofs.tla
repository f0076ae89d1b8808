------------------------ MODULE SessionDelegationsProofs ------------------------
(***************************************************************************)
(* What holds of SessionDelegations for all works, faults, stops, suspends *)
(* and restarts: the file tells the truth about what the Turn that asked   *)
(* has, a cancelled result never enters it, it ends with its works         *)
(* settled, and delegated work implements DelegatedWork.                   *)
(***************************************************************************)
EXTENDS SessionDelegations, TLAPS

-----------------------------------------------------------------------------
\* The invariant.

\* An operation and the record and the result it is about (record r, operation o, inbox i):
\* it goes through the steps of execution without a result and through those of delivery with one,
\* it alone puts a result on its way, and what it has been answered is still so.
Operated(r, o, i) ==
  /\ i \in {"queued", "writing"} => o = "queued"
  /\ o = "delivered" => i = "stored"
  /\ o = "saved" => i = "none"
  /\ o \in {"preparing", "checking", "prompting", "accepted", "finishing"} => r.result = NoResult
  /\ o \in {"rechecking", "accepting", "queued", "delivered", "saved"} => r.result # NoResult
  /\ o = "accepting" => r.delivery \in {"pending", "cancelled"}
  /\ r # NoRecord /\ r.delivery = "delivered" => i = "stored"
  /\ r # NoRecord /\ r.delivery = "saved" => i = "none"

AllOperated == \A w \in Works : Operated(record[w], op[w], inbox[w])

\* Whoever works for a tool call finds its record.
RecordedFirst ==
  /\ \A w \in Works : tool[w] = "preparing" => record[w] # NoRecord
  /\ scan # NoScan => \A w \in scan : record[w] # NoRecord
  /\ \A x \in Works \X BOOLEAN : cancel[x] = "updating" => record[x[1]] # NoRecord

\* Deliveries are cancelled once the Turn that asked takes no more results; the checks an operation
\* made before are outdated in that Turn only, unless this process takes it up again.
CancelsWhileClosing ==
  /\ \A w \in Works : cancel[<<w, TRUE>>] # "none" =>
       turn.phase \in {"closing", "failing", "succeeded"} /\ turn.at = "cancelling"
  /\ turn.phase \in {"working", "waiting", "interrupted"} /\ ~turn.again =>
       \A w \in Works : op[w] = "accepting" => record[w].delivery # "cancelled"

\* What the Turn that asked has secured on its way to its end.
Closing ==
  /\ \A w \in Works : inbox[w] = "writing" => turn.phase \in {"working", "failing"}
  /\ turn.phase \in {"closing", "failing", "succeeded"} =>
       /\ turn.at \in {"listing", "cancelling"} => closed
       /\ turn.at = "cancelling" =>
            \A w \in Works : Pending(w) => cancel[<<w, TRUE>>] \in {"listing", "updating"}
  /\ turn.phase = "failed" => closed
  /\ turn.phase \in {"waiting", "closing", "succeeded"} => \A w \in Works : tool[w] # "creating"
  /\ turn.phase = "closing" /\ turn.waits => PendingOnes = {}
  /\ TurnEndsSettled

DelegationInv == TypeOK /\ AllOperated /\ RecordedFirst /\ CancelsWhileClosing /\ Closing

Steps == {"none", "reading", "prepared", "preparing", "checking", "prompting", "accepted", "finishing",
          "withdrawing", "rechecking", "accepting", "queued", "delivered", "saved", "failing"}
Inboxes  == {"none", "queued", "writing", "stored"}
Children == {"none", "running", "stopping", "interrupted"} \cup Ended

\* The rest of the state that the moves of a work may touch.
OthersTyped ==
  /\ aborted' \in [Works -> BOOLEAN] /\ timer' \in BOOLEAN
  /\ child' \in [Works -> Children] /\ faults' \in 0..MaxFaults

LEMMA DelegationInit == Init => DelegationInv
<1>. SUFFICES ASSUME Init PROVE DelegationInv
  OBVIOUS
<1>1. TypeOK
  <2>1. faults \in 0..MaxFaults /\ events \in 0..MaxEvents
    BY DelegationsAssumption DEF Init
  <2>2. PICK waits \in BOOLEAN :
          turn = [phase |-> "working", at |-> "none", left |-> {}, waits |-> waits, again |-> FALSE]
    BY DEF Init
  <2>. QED BY <2>1, <2>2 DEF Init, TypeOK
<1>2. AllOperated /\ RecordedFirst /\ CancelsWhileClosing
  BY DEF Init, AllOperated, Operated, RecordedFirst, CancelsWhileClosing
<1>3. Closing
  BY DEF Init, Closing, TurnEndsSettled
<1>. QED BY <1>1, <1>2, <1>3 DEF DelegationInv

LEMMA FaultCounted ==
  ASSUME DelegationInv, UNCHANGED faults \/ \E kind : Fault(kind)
  PROVE  faults' \in 0..MaxFaults
  BY DelegationsAssumption DEF DelegationInv, TypeOK, Fault

\* One work moves: its record becomes r, its operation goes on with o, its result is at i.
LEMMA WorkMoves ==
  ASSUME DelegationInv, NEW w \in Works, NEW r \in Records, NEW o \in Steps, NEW i \in Inboxes,
         record[w] # NoRecord,
         record' = [record EXCEPT ![w] = r], op' = [op EXCEPT ![w] = o], inbox' = [inbox EXCEPT ![w] = i],
         UNCHANGED <<closed, scan, suspended, cancel, tool, turn, events>>, OthersTyped,
         Operated(r, o, i), i = "writing" => turn.phase \in {"working", "failing"},
         r.delivery = "pending" => record[w].delivery = "pending",
         turn.phase \in {"working", "waiting", "interrupted"} /\ ~turn.again /\ o = "accepting" =>
           r.delivery # "cancelled"
  PROVE  DelegationInv'
<1>1. /\ r # NoRecord /\ record'[w] = r /\ op'[w] = o /\ inbox'[w] = i
      /\ \A u \in Works : u # w => record'[u] = record[u] /\ op'[u] = op[u] /\ inbox'[u] = inbox[u]
  BY DelegationsAssumption DEF DelegationInv, TypeOK
<1>2. TypeOK'
  <2>1. record' \in [Works -> {NoRecord} \cup Records] /\ op' \in [Works -> Steps]
        /\ inbox' \in [Works -> Inboxes]
    BY DEF DelegationInv, TypeOK, Steps, Inboxes
  <2>. QED BY <1>1, <2>1 DEF DelegationInv, TypeOK, OthersTyped, Steps, Inboxes, Children
<1>3. AllOperated'
  BY <1>1 DEF DelegationInv, AllOperated
<1>4. RecordedFirst'
  BY <1>1 DEF DelegationInv, TypeOK, RecordedFirst
<1>5. CancelsWhileClosing'
  <2>1. ASSUME NEW u \in Works, op'[u] = "accepting", ~turn.again,
               turn.phase \in {"working", "waiting", "interrupted"}
        PROVE  record'[u].delivery # "cancelled"
    <3>1. CASE u = w
      BY <1>1, <2>1, <3>1
    <3>2. CASE u # w
      BY <1>1, <2>1, <3>2 DEF DelegationInv, CancelsWhileClosing
    <3>. QED BY <3>1, <3>2
  <2>2. UNCHANGED <<turn, cancel>>
    OBVIOUS
  <2>. QED BY <2>1, <2>2 DEF DelegationInv, CancelsWhileClosing
<1>6. Closing'
  <2>1. \A u \in Works : Pending(u)' => Pending(u)
    BY <1>1 DEF Pending
  <2>2. TurnEndsSettled' /\ (PendingOnes = {} => PendingOnes' = {})
    BY <2>1 DEF DelegationInv, Closing, TurnEndsSettled, PendingOnes
  <2>. QED BY <1>1, <2>1, <2>2 DEF DelegationInv, Closing
<1>. QED BY <1>2, <1>3, <1>4, <1>5, <1>6 DEF DelegationInv

\* The record of an operation, and what is known of it.
LEMMA RecordOf ==
  ASSUME DelegationInv, NEW w \in Works, op[w] # "none" \/ record[w] # NoRecord
  PROVE  /\ record[w] # NoRecord /\ record[w] \in Records /\ op[w] \in Steps /\ inbox[w] \in Inboxes
         /\ Operated(record[w], op[w], inbox[w])
  BY DEF DelegationInv, TypeOK, AllOperated, Steps, Inboxes

\* The operation goes on with o; neither the record nor the result moves.
LEMMA OperationMoves ==
  ASSUME DelegationInv, NEW w \in Works, NEW o \in Steps, record[w] # NoRecord,
         op' = [op EXCEPT ![w] = o],
         UNCHANGED <<record, inbox, closed, scan, suspended, cancel, tool, turn, events>>, OthersTyped,
         Operated(record[w], o, inbox[w]), o = "accepting" => Pending(w)
  PROVE  DelegationInv'
<1>1. record[w] \in Records /\ inbox[w] \in Inboxes
  BY RecordOf
<1>2. record' = [record EXCEPT ![w] = record[w]] /\ inbox' = [inbox EXCEPT ![w] = inbox[w]]
  BY DEF DelegationInv, TypeOK
<1>3. inbox[w] = "writing" => turn.phase \in {"working", "failing"}
  BY DEF DelegationInv, Closing
<1>4. o = "accepting" => record[w].delivery # "cancelled"
  BY DEF Pending
<1>. QED BY <1>1, <1>2, <1>3, <1>4, WorkMoves

-----------------------------------------------------------------------------
\* The steps of an operation.

LEMMA ReadStep ==
  ASSUME DelegationInv, NEW w \in Works, Read(w)
  PROVE  DelegationInv'
<1>1. /\ record[w] # NoRecord /\ record[w] \in Records /\ op[w] \in {"reading", "prepared"}
      /\ Operated(record[w], op[w], inbox[w])
  BY RecordOf DEF Read
<1>2. PICK o \in Steps :
        /\ op' = [op EXCEPT ![w] = o] /\ aborted' \in [Works -> BOOLEAN] /\ timer' \in BOOLEAN
        /\ o \in {"none", "withdrawing"} \/ (o = "rechecking" /\ record[w].result # NoResult)
             \/ (o \in {"checking", "preparing"} /\ record[w].result = NoResult)
  BY DEF Read, End, Goto, Steps, DelegationInv, TypeOK
<1>3. UNCHANGED <<record, closed, scan, suspended, cancel, tool, turn, inbox, child, faults, events>>
  BY DEF Read, sessions
<1>4. OthersTyped
  BY <1>2, <1>3 DEF OthersTyped, DelegationInv, TypeOK, Children
<1>5. Operated(record[w], o, inbox[w]) /\ o # "accepting"
  BY <1>1, <1>2 DEF Operated
<1>. QED BY <1>1, <1>2, <1>3, <1>4, <1>5, OperationMoves

LEMMA PrepareStep ==
  ASSUME DelegationInv, NEW w \in Works, Prepare(w)
  PROVE  DelegationInv'
<1>1. /\ record[w] # NoRecord /\ record[w] \in Records /\ op[w] = "preparing"
      /\ Operated(record[w], op[w], inbox[w])
  BY RecordOf DEF Prepare
<1>2. PICK o \in Steps : op' = [op EXCEPT ![w] = o] /\ o \in {"checking", "failing"}
  BY DEF Prepare, Goto, Steps
<1>3. UNCHANGED <<aborted, timer, record, closed, scan, suspended, cancel, tool, turn, inbox, child, events>>
  BY DEF Prepare, Goto, sessions
<1>4. OthersTyped
  BY <1>3, FaultCounted DEF Prepare, OthersTyped, DelegationInv, TypeOK, Children
<1>5. Operated(record[w], o, inbox[w]) /\ o # "accepting"
  BY <1>1, <1>2 DEF Operated
<1>. QED BY <1>1, <1>2, <1>3, <1>4, <1>5, OperationMoves

LEMMA CheckStep ==
  ASSUME DelegationInv, NEW w \in Works, Check(w)
  PROVE  DelegationInv'
<1>1. /\ record[w] # NoRecord /\ record[w] \in Records /\ op[w] = "checking"
      /\ Operated(record[w], op[w], inbox[w])
  BY RecordOf DEF Check
<1>2. PICK o \in Steps : /\ op' = [op EXCEPT ![w] = o] /\ o \in {"none", "withdrawing", "prompting"}
                         /\ aborted' \in [Works -> BOOLEAN] /\ timer' \in BOOLEAN
  BY DEF Check, Goto, End, Steps, DelegationInv, TypeOK
<1>3. UNCHANGED <<record, closed, scan, suspended, cancel, tool, turn, inbox, child, faults, events>>
  BY DEF Check, sessions
<1>4. OthersTyped
  BY <1>2, <1>3 DEF OthersTyped, DelegationInv, TypeOK, Children
<1>5. Operated(record[w], o, inbox[w]) /\ o # "accepting"
  BY <1>1, <1>2 DEF Operated
<1>. QED BY <1>1, <1>2, <1>3, <1>4, <1>5, OperationMoves

LEMMA PromptStep ==
  ASSUME DelegationInv, NEW w \in Works, Prompt(w)
  PROVE  DelegationInv'
<1>1. /\ record[w] # NoRecord /\ record[w] \in Records /\ op[w] = "prompting"
      /\ Operated(record[w], op[w], inbox[w])
  BY RecordOf DEF Prompt
<1>2. op' = [op EXCEPT ![w] = "accepted"] /\ "accepted" \in Steps
  BY DEF Prompt, Goto, Steps
<1>3. UNCHANGED <<aborted, timer, record, closed, scan, suspended, cancel, tool, turn, inbox, faults, events>>
  BY DEF Prompt, Goto
<1>4. OthersTyped
  BY <1>3 DEF Prompt, OthersTyped, DelegationInv, TypeOK, Children
<1>5. Operated(record[w], "accepted", inbox[w])
  BY <1>1 DEF Operated
<1>. QED BY <1>1, <1>2, <1>3, <1>4, <1>5, OperationMoves

LEMMA RecheckStep ==
  ASSUME DelegationInv, NEW w \in Works, Recheck(w)
  PROVE  DelegationInv'
<1>1. /\ record[w] # NoRecord /\ record[w] \in Records /\ op[w] = "rechecking"
      /\ Operated(record[w], op[w], inbox[w])
  BY RecordOf DEF Recheck
<1>2. PICK o \in Steps : /\ op' = [op EXCEPT ![w] = o] /\ (o = "none" \/ (o = "accepting" /\ Pending(w)))
                         /\ aborted' \in [Works -> BOOLEAN] /\ timer' \in BOOLEAN
  BY DEF Recheck, Goto, End, Steps, DelegationInv, TypeOK
<1>3. UNCHANGED <<record, closed, scan, suspended, cancel, tool, turn, inbox, child, faults, events>>
  BY DEF Recheck, sessions
<1>4. OthersTyped
  BY <1>2, <1>3 DEF OthersTyped, DelegationInv, TypeOK, Children
<1>5. Operated(record[w], o, inbox[w])
  BY <1>1, <1>2 DEF Operated, Pending
<1>. QED BY <1>1, <1>2, <1>3, <1>4, <1>5, OperationMoves

LEMMA AnsweredStep ==
  ASSUME DelegationInv, NEW w \in Works, Answered(w)
  PROVE  DelegationInv'
<1>1. /\ record[w] # NoRecord /\ record[w] \in Records /\ op[w] = "queued"
      /\ Operated(record[w], op[w], inbox[w])
  BY RecordOf DEF Answered
<1>2. PICK o \in Steps : /\ op' = [op EXCEPT ![w] = o]
                         /\ \/ o = "delivered" /\ inbox[w] = "stored"
                            \/ o = "failing" /\ inbox[w] = "none"
  BY DEF Answered, Goto, Steps
<1>3. UNCHANGED <<aborted, timer, record, closed, scan, suspended, cancel, tool, turn, inbox, child, faults,
                  events>>
  BY DEF Answered, Goto, sessions
<1>4. OthersTyped
  BY <1>3 DEF OthersTyped, DelegationInv, TypeOK, Children
<1>5. Operated(record[w], o, inbox[w])
  BY <1>1, <1>2 DEF Operated
<1>. QED BY <1>1, <1>2, <1>3, <1>4, <1>5, OperationMoves

LEMMA OperationFailsStep ==
  ASSUME DelegationInv, NEW w \in Works, OperationFails(w)
  PROVE  DelegationInv'
<1>1. /\ record[w] # NoRecord /\ record[w] \in Records /\ op[w] # "queued"
      /\ Operated(record[w], op[w], inbox[w])
  BY RecordOf DEF OperationFails
<1>2. PICK o \in Steps : op' = [op EXCEPT ![w] = o] /\ o \in {"withdrawing", "failing"}
  BY DEF OperationFails, Goto, Steps
<1>3. UNCHANGED <<aborted, timer, record, closed, scan, suspended, cancel, tool, turn, inbox, child, events>>
  BY DEF OperationFails, Goto, sessions
<1>4. OthersTyped
  BY <1>3, FaultCounted DEF OperationFails, OthersTyped, DelegationInv, TypeOK, Children
<1>5. Operated(record[w], o, inbox[w])
  BY <1>1, <1>2 DEF Operated
<1>. QED BY <1>1, <1>2, <1>3, <1>4, <1>5, OperationMoves

\* A result is handed over: it is in the Turn already, it is queued while the Turn goes on, or it
\* is left to the file.
LEMMA AcceptStep ==
  ASSUME DelegationInv, NEW w \in Works, Accept(w)
  PROVE  DelegationInv'
<1>1. /\ record[w] # NoRecord /\ record[w] \in Records /\ op[w] = "accepting" /\ inbox[w] \in Inboxes
      /\ Operated(record[w], op[w], inbox[w])
  BY RecordOf DEF Accept
<1>2. PICK o \in Steps, i \in Inboxes :
        /\ op' = [op EXCEPT ![w] = o] /\ inbox' = [inbox EXCEPT ![w] = i]
        /\ \/ o = "delivered" /\ i = "stored" /\ inbox[w] = "stored"
           \/ o = "queued" /\ i = "queued" /\ inbox[w] = "none"
           \/ o = "saved" /\ i = "none" /\ inbox[w] = "none"
  <2>1. inbox[w] = "stored" \/ inbox[w] = "none"
    BY <1>1 DEF Operated, Inboxes
  <2>2. inbox = [inbox EXCEPT ![w] = inbox[w]]
    BY DEF DelegationInv, TypeOK
  <2>. QED BY <2>1, <2>2 DEF Accept, Goto, Steps, Inboxes
<1>3. UNCHANGED <<aborted, timer, record, closed, scan, suspended, cancel, tool, turn, child, faults, events>>
  BY DEF Accept, Goto
<1>4. OthersTyped
  BY <1>3 DEF OthersTyped, DelegationInv, TypeOK, Children
<1>5. Operated(record[w], o, i) /\ i # "writing" /\ o # "accepting"
  BY <1>1, <1>2 DEF Operated
<1>6. record' = [record EXCEPT ![w] = record[w]]
  BY <1>3 DEF DelegationInv, TypeOK
<1>. QED BY <1>1, <1>2, <1>3, <1>4, <1>5, <1>6, WorkMoves

LEMMA AcceptedStep ==
  ASSUME DelegationInv, NEW w \in Works, Accepted(w)
  PROVE  DelegationInv'
<1>1. /\ record[w] # NoRecord /\ record[w] \in Records /\ op[w] = "accepted" /\ inbox[w] \in Inboxes
      /\ Operated(record[w], op[w], inbox[w])
  BY RecordOf DEF Accepted
<1>. DEFINE r == [record[w] EXCEPT !.accepted = TRUE,
                   !.execution = IF @ = "stopped" THEN "stopped" ELSE "running"]
<1>2. /\ r \in Records /\ r.result = record[w].result /\ r.delivery = record[w].delivery
      /\ record' = [record EXCEPT ![w] = r]
  BY <1>1 DEF Accepted, Records
<1>. HIDE DEF r
<1>3. PICK o \in Steps : op' = [op EXCEPT ![w] = o] /\ o \in {"finishing", "withdrawing", "failing"}
  BY DEF Accepted, Goto, Steps
<1>4. UNCHANGED <<aborted, timer, closed, scan, suspended, cancel, tool, turn, inbox, faults, events>>
  BY DEF Accepted, Goto
<1>5. OthersTyped
  BY <1>4 DEF Accepted, OthersTyped, DelegationInv, TypeOK, Children
<1>6. Operated(r, o, inbox[w]) /\ o # "accepting" /\ inbox[w] # "writing"
  BY <1>1, <1>2, <1>3 DEF Operated
<1>7. inbox' = [inbox EXCEPT ![w] = inbox[w]]
  BY <1>4 DEF DelegationInv, TypeOK
<1>. QED BY <1>1, <1>2, <1>3, <1>4, <1>5, <1>6, <1>7, WorkMoves

\* Once the result is known the operation goes on to deliver it, unless it may not any more.
LEMMA DeliverableMoves ==
  ASSUME DelegationInv, NEW w \in Works, record[w] # NoRecord, Deliverable(w)
  PROVE  \E o \in {"none", "rechecking"} :
           /\ op' = [op EXCEPT ![w] = o] /\ aborted' \in [Works -> BOOLEAN] /\ timer' \in BOOLEAN
  BY DEF Deliverable, End, Goto, DelegationInv, TypeOK

LEMMA FinishStep ==
  ASSUME DelegationInv, NEW w \in Works, Finish(w)
  PROVE  DelegationInv'
<1>1. /\ record[w] # NoRecord /\ record[w] \in Records /\ op[w] = "finishing" /\ inbox[w] \in Inboxes
      /\ Operated(record[w], op[w], inbox[w])
  BY RecordOf DEF Finish
<1>. DEFINE r == [record[w] EXCEPT !.result = child[w],
                   !.execution = IF @ = "stopped" THEN "stopped" ELSE child[w]]
<1>2. /\ r \in Records /\ r.result # NoResult /\ r.delivery = record[w].delivery
      /\ record' = [record EXCEPT ![w] = r]
  BY <1>1, DelegationsAssumption DEF Finish, Records
<1>. HIDE DEF r
<1>3. PICK o \in {"none", "rechecking"} :
        /\ op' = [op EXCEPT ![w] = o] /\ aborted' \in [Works -> BOOLEAN] /\ timer' \in BOOLEAN
  BY <1>1, DeliverableMoves DEF Finish
<1>4. UNCHANGED <<closed, scan, suspended, cancel, tool, turn, inbox, child, faults, events>>
  BY DEF Finish, sessions
<1>5. OthersTyped /\ o \in Steps
  BY <1>3, <1>4 DEF OthersTyped, DelegationInv, TypeOK, Children, Steps
<1>6. Operated(r, o, inbox[w]) /\ o # "accepting" /\ inbox[w] # "writing"
  BY <1>1, <1>2, <1>3 DEF Operated
<1>7. inbox' = [inbox EXCEPT ![w] = inbox[w]]
  BY <1>4 DEF DelegationInv, TypeOK
<1>. QED BY <1>1, <1>2, <1>3, <1>4, <1>5, <1>6, <1>7, WorkMoves

LEMMA WithdrawStep ==
  ASSUME DelegationInv, NEW w \in Works, Withdraw(w)
  PROVE  DelegationInv'
<1>1. /\ record[w] # NoRecord /\ record[w] \in Records /\ op[w] = "withdrawing" /\ inbox[w] \in Inboxes
      /\ Operated(record[w], op[w], inbox[w])
  BY RecordOf DEF Withdraw
<1>. DEFINE r == [record[w] EXCEPT !.execution = "stopped",
                   !.result = IF @ = NoResult THEN "withdrawn" ELSE @]
<1>2. /\ r \in Records /\ r.result # NoResult /\ r.delivery = record[w].delivery
      /\ record' = [record EXCEPT ![w] = r]
  <2>1. record' = [record EXCEPT ![w] = r]
    BY DEF Withdraw
  <2>2. r.result # NoResult /\ r.delivery = record[w].delivery
    BY <1>1, DelegationsAssumption DEF Records, Ended
  <2>3. r \in Records
    BY <1>1 DEF Records, Ended
  <2>. QED BY <2>1, <2>2, <2>3
<1>. HIDE DEF r
<1>3. PICK o \in {"none", "rechecking"} :
        /\ op' = [op EXCEPT ![w] = o] /\ aborted' \in [Works -> BOOLEAN] /\ timer' \in BOOLEAN
  BY <1>1, DeliverableMoves DEF Withdraw
<1>4. UNCHANGED <<closed, scan, suspended, cancel, tool, turn, inbox, child, faults, events>>
  BY DEF Withdraw, sessions
<1>5. OthersTyped /\ o \in Steps
  BY <1>3, <1>4 DEF OthersTyped, DelegationInv, TypeOK, Children, Steps
<1>6. Operated(r, o, inbox[w]) /\ o # "accepting" /\ inbox[w] # "writing"
  BY <1>1, <1>2, <1>3 DEF Operated
<1>7. inbox' = [inbox EXCEPT ![w] = inbox[w]]
  BY <1>4 DEF DelegationInv, TypeOK
<1>. QED BY <1>1, <1>2, <1>3, <1>4, <1>5, <1>6, <1>7, WorkMoves

LEMMA DeliverStep ==
  ASSUME DelegationInv, NEW w \in Works, Deliver(w)
  PROVE  DelegationInv'
<1>1. /\ record[w] # NoRecord /\ record[w] \in Records /\ op[w] \in {"delivered", "saved"}
      /\ inbox[w] \in Inboxes /\ Operated(record[w], op[w], inbox[w])
  BY RecordOf DEF Deliver
<1>. DEFINE r == [record[w] EXCEPT !.delivery = IF @ = "cancelled" THEN "cancelled" ELSE op[w]]
<1>2. /\ r \in Records /\ r.result = record[w].result /\ r.delivery \in {"cancelled", op[w]}
      /\ record' = [record EXCEPT ![w] = r]
  BY <1>1 DEF Deliver, Records
<1>. HIDE DEF r
<1>3. /\ op' = [op EXCEPT ![w] = "none"] /\ "none" \in Steps
      /\ aborted' \in [Works -> BOOLEAN] /\ timer' \in BOOLEAN
  BY DEF Deliver, End, DelegationInv, TypeOK, Steps
<1>4. UNCHANGED <<closed, scan, suspended, cancel, tool, turn, inbox, child, faults, events>>
  BY DEF Deliver, sessions
<1>5. OthersTyped
  BY <1>3, <1>4 DEF OthersTyped, DelegationInv, TypeOK, Children
<1>6. Operated(r, "none", inbox[w]) /\ inbox[w] # "writing" /\ r.delivery # "pending"
  BY <1>1, <1>2 DEF Operated
<1>7. inbox' = [inbox EXCEPT ![w] = inbox[w]]
  BY <1>4 DEF DelegationInv, TypeOK
<1>. QED BY <1>1, <1>2, <1>3, <1>4, <1>5, <1>6, <1>7, WorkMoves

LEMMA FailStep ==
  ASSUME DelegationInv, NEW w \in Works, Fail(w)
  PROVE  DelegationInv'
<1>1. /\ record[w] # NoRecord /\ record[w] \in Records /\ op[w] = "failing"
      /\ inbox[w] \in Inboxes /\ Operated(record[w], op[w], inbox[w])
  BY RecordOf DEF Fail
<1>. DEFINE r == [record[w] EXCEPT !.due = FALSE]
<1>2. /\ r \in Records /\ r.result = record[w].result /\ r.delivery = record[w].delivery
      /\ record' = [record EXCEPT ![w] = r]
  BY <1>1 DEF Fail, Records
<1>. HIDE DEF r
<1>3. /\ op' = [op EXCEPT ![w] = "none"] /\ "none" \in Steps
      /\ aborted' \in [Works -> BOOLEAN] /\ timer' \in BOOLEAN
  BY DEF Fail, End, DelegationInv, TypeOK, Steps
<1>4. UNCHANGED <<closed, scan, suspended, cancel, tool, turn, inbox, child, faults, events>>
  BY DEF Fail, sessions
<1>5. OthersTyped
  BY <1>3, <1>4 DEF OthersTyped, DelegationInv, TypeOK, Children
<1>6. Operated(r, "none", inbox[w]) /\ inbox[w] # "writing"
  BY <1>1, <1>2 DEF Operated
<1>7. inbox' = [inbox EXCEPT ![w] = inbox[w]]
  BY <1>4 DEF DelegationInv, TypeOK
<1>. QED BY <1>1, <1>2, <1>3, <1>4, <1>5, <1>6, <1>7, WorkMoves

LEMMA ElapseStep ==
  ASSUME DelegationInv, NEW w \in Works, Elapse(w)
  PROVE  DelegationInv'
<1>1. /\ record[w] # NoRecord /\ record[w] \in Records /\ op[w] \in Steps
      /\ inbox[w] \in Inboxes /\ Operated(record[w], op[w], inbox[w])
  BY RecordOf DEF Elapse
<1>. DEFINE r == [record[w] EXCEPT !.due = TRUE]
<1>2. /\ r \in Records /\ r.result = record[w].result /\ r.delivery = record[w].delivery
      /\ record' = [record EXCEPT ![w] = r]
  BY <1>1 DEF Elapse, Records
<1>. HIDE DEF r
<1>3. UNCHANGED <<op, aborted, timer, closed, scan, suspended, cancel, tool, turn, inbox, child, faults,
                  events>>
  BY DEF Elapse, memory, sessions
<1>4. OthersTyped
  BY <1>3 DEF OthersTyped, DelegationInv, TypeOK, Children
<1>5. r # NoRecord
  BY <1>2, DelegationsAssumption
<1>6. Operated(r, op[w], inbox[w])
  BY <1>1, <1>2, <1>5 DEF Operated
<1>7. inbox' = [inbox EXCEPT ![w] = inbox[w]] /\ op' = [op EXCEPT ![w] = op[w]]
  BY <1>3 DEF DelegationInv, TypeOK
<1>8. /\ inbox[w] = "writing" => turn.phase \in {"working", "failing"}
      /\ turn.phase \in {"working", "waiting", "interrupted"} /\ ~turn.again /\ op[w] = "accepting" =>
           r.delivery # "cancelled"
  BY <1>2 DEF DelegationInv, Closing, CancelsWhileClosing
<1>. QED BY <1>1, <1>2, <1>3, <1>4, <1>6, <1>7, <1>8, WorkMoves

LEMMA CheckpointStep ==
  ASSUME DelegationInv, NEW w \in Works, Checkpoint(w)
  PROVE  DelegationInv'
<1>1. inbox[w] = "queued" /\ op[w] = "queued" /\ turn.phase = "working"
  BY DEF Checkpoint, DelegationInv, AllOperated, Operated
<1>2. record[w] # NoRecord /\ record[w] \in Records /\ Operated(record[w], op[w], inbox[w])
  BY <1>1, RecordOf
<1>3. UNCHANGED <<record, op, aborted, timer, closed, scan, suspended, cancel, tool, turn, child, faults, events>>
  BY DEF Checkpoint, memory
<1>4. OthersTyped
  BY <1>3 DEF OthersTyped, DelegationInv, TypeOK, Children
<1>5. Operated(record[w], op[w], "writing") /\ op[w] \in Steps /\ "writing" \in Inboxes
  BY <1>1, <1>2 DEF Operated, Steps, Inboxes
<1>6. record' = [record EXCEPT ![w] = record[w]] /\ op' = [op EXCEPT ![w] = op[w]]
  BY <1>3 DEF DelegationInv, TypeOK
<1>. QED BY <1>1, <1>2, <1>3, <1>4, <1>5, <1>6, WorkMoves DEF Checkpoint

LEMMA StoreStep ==
  ASSUME DelegationInv, NEW w \in Works, Store(w)
  PROVE  DelegationInv'
<1>1. inbox[w] = "writing" /\ op[w] = "queued"
  BY DEF Store, DelegationInv, AllOperated, Operated
<1>2. record[w] # NoRecord /\ record[w] \in Records /\ Operated(record[w], op[w], inbox[w])
  BY <1>1, RecordOf
<1>3. UNCHANGED <<record, op, aborted, timer, closed, scan, suspended, cancel, tool, turn, child, events>>
  BY DEF Store, memory
<1>4. OthersTyped
  BY <1>3, FaultCounted DEF Store, OthersTyped, DelegationInv, TypeOK, Children
<1>5. PICK i \in {"stored", "none"} : inbox' = [inbox EXCEPT ![w] = i]
  BY DEF Store
<1>6. Operated(record[w], op[w], i) /\ op[w] \in Steps /\ i \in Inboxes
  BY <1>1, <1>2 DEF Operated, Steps, Inboxes
<1>7. record' = [record EXCEPT ![w] = record[w]] /\ op' = [op EXCEPT ![w] = op[w]]
  BY <1>3 DEF DelegationInv, TypeOK
<1>. QED BY <1>1, <1>2, <1>3, <1>4, <1>5, <1>6, <1>7, WorkMoves

\* The Session of a work is stopped: a prompt it has not taken is given up.
LEMMA StopMoves ==
  ASSUME DelegationInv, aborted' \in [Works -> BOOLEAN], NEW w \in Works, StopSession(w)
  PROVE  /\ child' \in [Works -> Children] /\ op' \in [Works -> Steps]
         /\ \A u \in Works : op'[u] = op[u] \/ (op[u] = "prompting" /\ op'[u] \in {"withdrawing", "failing"})
  BY DEF StopSession, DelegationInv, TypeOK, Children, Steps

\* Nothing is known of an operation that is no longer about to do anything with its result.
LEMMA StoppedOperations ==
  ASSUME DelegationInv, UNCHANGED <<record, inbox>>,
         \A u \in Works : op'[u] = op[u] \/ (op[u] = "prompting" /\ op'[u] \in {"withdrawing", "failing"})
  PROVE  /\ AllOperated' /\ \A u \in Works : op'[u] # "none" => record[u] # NoRecord
         /\ \A u \in Works : op'[u] = "accepting" => op[u] = "accepting"
  BY DEF DelegationInv, TypeOK, AllOperated, Operated

\* A step of the Session of a work.
LEMMA ChildMoves ==
  ASSUME DelegationInv, op' \in [Works -> Steps], child' \in [Works -> Children],
         \A u \in Works : op'[u] = op[u] \/ (op[u] = "prompting" /\ op'[u] \in {"withdrawing", "failing"}),
         UNCHANGED <<record, closed, aborted, scan, timer, suspended, cancel, tool, turn, inbox, faults, events>>
  PROVE  DelegationInv'
<1>1. /\ AllOperated'
      /\ \A u \in Works : op'[u] # "none" => record[u] # NoRecord
      /\ \A u \in Works : op'[u] = "accepting" => op[u] = "accepting"
  BY StoppedOperations
<1>2. TypeOK'
  BY <1>1 DEF DelegationInv, TypeOK, Steps, Children
<1>3. RecordedFirst' /\ CancelsWhileClosing'
  BY <1>1 DEF DelegationInv, RecordedFirst, CancelsWhileClosing
<1>4. Closing'
  BY DEF DelegationInv, Closing, TurnEndsSettled, Pending, PendingOnes
<1>. QED BY <1>1, <1>2, <1>3, <1>4 DEF DelegationInv

LEMMA ChildEndsStep ==
  ASSUME DelegationInv, NEW w \in Works, ChildEnds(w)
  PROVE  DelegationInv'
<1>1. UNCHANGED <<record, closed, op, aborted, scan, timer, suspended, cancel, tool, turn, inbox, faults, events>>
  BY DEF ChildEnds, memory
<1>2. child' \in [Works -> Children] /\ op' \in [Works -> Steps]
  BY <1>1 DEF ChildEnds, DelegationInv, TypeOK, Children, Steps, Ended
<1>. QED BY <1>1, <1>2, ChildMoves

LEMMA HostStopsStep ==
  ASSUME DelegationInv, NEW w \in Works, HostStops(w)
  PROVE  DelegationInv'
<1>1. UNCHANGED <<record, closed, aborted, scan, timer, suspended, cancel, tool, turn, inbox, faults, events>>
  BY DEF HostStops
<1>2. aborted' \in [Works -> BOOLEAN] /\ StopSession(w)
  BY <1>1 DEF HostStops, DelegationInv, TypeOK
<1>. QED BY <1>1, <1>2, StopMoves, ChildMoves

-----------------------------------------------------------------------------
\* The steps of the Turn that asked.

TurnStates == [phase : {"working", "waiting", "closing", "failing", "interrupted", "succeeded", "failed"},
               at : {"none", "listing", "joining", "closing", "cancelling"},
               left : SUBSET Works, waits : BOOLEAN, again : BOOLEAN]

\* Results are rejected, none is queued.
RejectsAtMost ==
  /\ inbox' \in [Works -> Inboxes]
  /\ \A w \in Works : inbox'[w] = inbox[w] \/ (inbox[w] = "queued" /\ inbox'[w] = "none")

LEMMA TurnMoves ==
  ASSUME DelegationInv, UNCHANGED <<record, op>>, RejectsAtMost
  PROVE  AllOperated' /\ PendingOnes' = PendingOnes
<1>1. AllOperated'
  BY DEF DelegationInv, AllOperated, Operated, RejectsAtMost
<1>2. PendingOnes' = PendingOnes
  BY DEF PendingOnes, Pending
<1>. QED BY <1>1, <1>2

LEMMA TurnTyped ==
  ASSUME turn \in TurnStates
  PROVE  Settled \in TurnStates /\ Failing \in TurnStates
<1>1. Settled \in TurnStates
  BY DEF Settled, TurnStates
<1>2. Failing \in TurnStates
  BY DEF Failing, TurnStates
<1>. QED BY <1>1, <1>2

\* A Turn that does not fail cancels nothing, so it may go on in any way.
LEMMA NothingCancels ==
  ASSUME CancelsWhileClosing, turn.phase \in {"working", "waiting"}, turn'.again = turn.again,
         UNCHANGED <<record, op, cancel>>
  PROVE  CancelsWhileClosing'
<1>1. /\ \A w \in Works : cancel[<<w, TRUE>>] = "none"
      /\ turn.again \/ \A w \in Works : op[w] = "accepting" => record[w].delivery # "cancelled"
  BY DEF CancelsWhileClosing
<1>. QED BY <1>1 DEF CancelsWhileClosing

LEMMA ExecutorEndsStep ==
  ASSUME DelegationInv, ExecutorEnds
  PROVE  DelegationInv'
<1>1. UNCHANGED <<record, op, aborted, scan, timer, suspended, tool, child, faults, events>>
  BY DEF ExecutorEnds, memory
<1>2. RejectsAtMost
  BY DEF ExecutorEnds, RejectsAtMost, DelegationInv, TypeOK, Inboxes, Settled
<1>3. TypeOK'
  <2>1. turn' \in TurnStates
    BY DEF ExecutorEnds, DelegationInv, TypeOK, TurnStates, Settled
  <2>2. closed' \in BOOLEAN /\ cancel' = cancel
    BY DEF ExecutorEnds, DelegationInv, TypeOK, memory
  <2>. QED BY <1>1, <1>2, <2>1, <2>2 DEF RejectsAtMost, DelegationInv, TypeOK, TurnStates, Inboxes
<1>4. AllOperated' /\ PendingOnes' = PendingOnes
  BY <1>1, <1>2, TurnMoves
<1>5. RecordedFirst'
  BY <1>1 DEF ExecutorEnds, DelegationInv, RecordedFirst, memory
<1>6. CancelsWhileClosing'
  <2>1. turn.phase = "working" /\ cancel' = cancel /\ turn'.again = turn.again
    BY DEF ExecutorEnds, memory, Settled, DelegationInv, TypeOK
  <2>. QED BY <1>1, <2>1, NothingCancels DEF DelegationInv
<1>7. Closing'
  <2>1. turn'.phase \in {"waiting", "closing"} /\ turn'.at # "cancelling"
        /\ (turn'.phase = "closing" => ~turn'.waits /\ turn'.at = "none")
    BY DEF ExecutorEnds, Settled, DelegationInv, TypeOK
  <2>2. /\ \A w \in Works : inbox'[w] # "writing" /\ tool'[w] # "creating"
        /\ closed' = closed
    BY <1>1 DEF ExecutorEnds, Writing
  <2>. QED BY <2>1, <2>2 DEF Closing, TurnEndsSettled
<1>. QED BY <1>3, <1>4, <1>5, <1>6, <1>7 DEF DelegationInv

LEMMA WaitRelistStep ==
  ASSUME DelegationInv, WaitRelist
  PROVE  DelegationInv'
<1>1. UNCHANGED <<record, op, aborted, scan, timer, suspended, tool, child, faults, events>>
  BY DEF WaitRelist, memory
<1>2. RejectsAtMost
  BY DEF WaitRelist, RejectsAtMost, DelegationInv, TypeOK, Inboxes, Settled, Failing, Rejected
<1>3. TypeOK'
  <2>1. turn' \in TurnStates
    <3>1. turn \in TurnStates
      BY DEF DelegationInv, TypeOK, TurnStates
    <3>. QED BY <3>1, TurnTyped DEF WaitRelist
  <2>2. closed' \in BOOLEAN /\ cancel' = cancel
    BY DEF WaitRelist, DelegationInv, TypeOK, memory
  <2>. QED BY <1>1, <1>2, <2>1, <2>2 DEF RejectsAtMost, DelegationInv, TypeOK, TurnStates, Inboxes
<1>4. AllOperated' /\ PendingOnes' = PendingOnes
  BY <1>1, <1>2, TurnMoves
<1>5. RecordedFirst'
  BY <1>1 DEF WaitRelist, DelegationInv, RecordedFirst, memory
<1>6. CancelsWhileClosing'
  <2>1. turn.phase = "waiting" /\ cancel' = cancel
    BY DEF WaitRelist, memory
  <2>2. turn \in TurnStates /\ turn' \in {Settled, Failing}
    BY DEF WaitRelist, DelegationInv, TypeOK, TurnStates
  <2>3. turn'.again = turn.again
    BY <2>2 DEF Settled, Failing, TurnStates
  <2>. QED BY <1>1, <2>1, <2>3, NothingCancels DEF DelegationInv
<1>7. Closing'
  <2>1. CASE PendingOnes = {}
    <3>1. turn'.phase \in {"working", "closing"} /\ turn'.at = "none" /\ closed' = closed /\ inbox' = inbox
      BY <2>1 DEF WaitRelist, Settled, DelegationInv, TypeOK
    <3>2. \A w \in Works : inbox[w] # "writing" /\ tool[w] # "creating"
      BY DEF WaitRelist, DelegationInv, Closing
    <3>. QED BY <1>1, <1>4, <2>1, <3>1, <3>2 DEF Closing, TurnEndsSettled
  <2>2. CASE PendingOnes # {}
    <3>1. turn'.phase = "failing" /\ turn'.at = "closing"
      BY <2>2 DEF WaitRelist, Failing, DelegationInv, TypeOK
    <3>. QED BY <3>1 DEF Closing, TurnEndsSettled
  <2>. QED BY <2>1, <2>2
<1>. QED BY <1>3, <1>4, <1>5, <1>6, <1>7 DEF DelegationInv

LEMMA InputWakesStep ==
  ASSUME DelegationInv, InputWakes
  PROVE  DelegationInv'
<1>1. UNCHANGED <<record, op, aborted, scan, timer, suspended, tool, child, faults, events>>
  BY DEF InputWakes, memory
<1>2. RejectsAtMost
  BY DEF InputWakes, RejectsAtMost, DelegationInv, TypeOK, Inboxes, Settled
<1>3. TypeOK'
  <2>1. turn' \in TurnStates
    BY DEF InputWakes, DelegationInv, TypeOK, TurnStates, Settled
  <2>2. closed' \in BOOLEAN /\ cancel' = cancel
    BY DEF InputWakes, DelegationInv, TypeOK, memory
  <2>. QED BY <1>1, <1>2, <2>1, <2>2 DEF RejectsAtMost, DelegationInv, TypeOK, TurnStates, Inboxes
<1>4. AllOperated' /\ PendingOnes' = PendingOnes
  BY <1>1, <1>2, TurnMoves
<1>5. RecordedFirst'
  BY <1>1 DEF InputWakes, DelegationInv, RecordedFirst, memory
<1>6. CancelsWhileClosing'
  <2>1. turn.phase = "waiting" /\ cancel' = cancel
    BY DEF InputWakes, memory
  <2>2. turn'.again = turn.again
    BY DEF InputWakes, Settled, DelegationInv, TypeOK
  <2>. QED BY <1>1, <2>1, <2>2, NothingCancels DEF DelegationInv
<1>7. Closing'
  BY <1>1, <1>2, <1>4 DEF InputWakes, RejectsAtMost, DelegationInv, TypeOK, Closing, TurnEndsSettled, Pending,
     PendingOnes, Queued, Writing, memory, sessions, Settled
<1>. QED BY <1>3, <1>4, <1>5, <1>6, <1>7 DEF DelegationInv

LEMMA TurnFailsStep ==
  ASSUME DelegationInv, TurnFails
  PROVE  DelegationInv'
<1>1. UNCHANGED <<record, op, aborted, scan, timer, suspended, tool, child, faults, events>>
  BY DEF TurnFails, memory
<1>2. RejectsAtMost
  BY DEF TurnFails, RejectsAtMost, DelegationInv, TypeOK, Inboxes, Failing, Rejected
<1>3. TypeOK'
  <2>1. turn' \in TurnStates
    BY DEF TurnFails, DelegationInv, TypeOK, TurnStates, Failing
  <2>2. closed' \in BOOLEAN /\ cancel' = cancel
    BY DEF TurnFails, DelegationInv, TypeOK, memory
  <2>. QED BY <1>1, <1>2, <2>1, <2>2 DEF RejectsAtMost, DelegationInv, TypeOK, TurnStates, Inboxes
<1>4. AllOperated' /\ PendingOnes' = PendingOnes
  BY <1>1, <1>2, TurnMoves
<1>5. RecordedFirst'
  BY <1>1 DEF TurnFails, DelegationInv, RecordedFirst, memory
<1>6. CancelsWhileClosing'
  BY <1>1 DEF TurnFails, DelegationInv, TypeOK, CancelsWhileClosing, memory, Failing, Rejected
<1>7. Closing'
  BY <1>1, <1>2, <1>4 DEF TurnFails, RejectsAtMost, DelegationInv, TypeOK, Closing, TurnEndsSettled, Pending,
     PendingOnes, Queued, Writing, memory, sessions, Failing, Rejected
<1>. QED BY <1>3, <1>4, <1>5, <1>6, <1>7 DEF DelegationInv

LEMMA CloseTurnStep ==
  ASSUME DelegationInv, CloseTurn
  PROVE  DelegationInv'
<1>1. UNCHANGED <<record, op, aborted, scan, timer, suspended, tool, child, faults, events>>
  BY DEF CloseTurn, Cancels, memory
<1>2. RejectsAtMost
  BY DEF CloseTurn, Cancels, RejectsAtMost, DelegationInv, TypeOK, Inboxes
<1>3. TypeOK'
  <2>1. turn' \in TurnStates
    BY DEF CloseTurn, Cancels, DelegationInv, TypeOK, TurnStates
  <2>2. closed' \in BOOLEAN /\ cancel' = cancel
    BY DEF CloseTurn, Cancels, DelegationInv, TypeOK, memory
  <2>. QED BY <1>1, <1>2, <2>1, <2>2 DEF RejectsAtMost, DelegationInv, TypeOK, TurnStates, Inboxes
<1>4. AllOperated' /\ PendingOnes' = PendingOnes
  BY <1>1, <1>2, TurnMoves
<1>5. RecordedFirst'
  BY <1>1 DEF CloseTurn, Cancels, DelegationInv, RecordedFirst, memory
<1>6. CancelsWhileClosing'
  BY <1>1 DEF CloseTurn, Cancels, DelegationInv, TypeOK, CancelsWhileClosing, memory
<1>7. Closing'
  BY <1>1, <1>2, <1>4 DEF CloseTurn, Cancels, RejectsAtMost, DelegationInv, TypeOK, Closing, TurnEndsSettled, Pending,
     PendingOnes, Queued, Writing, memory, sessions
<1>. QED BY <1>3, <1>4, <1>5, <1>6, <1>7 DEF DelegationInv

LEMMA TurnFailedStep ==
  ASSUME DelegationInv, TurnFailed
  PROVE  DelegationInv'
<1>1. UNCHANGED <<record, op, aborted, scan, timer, suspended, tool, child, faults, events>>
  BY DEF TurnFailed, Cancelled, memory
<1>2. RejectsAtMost
  BY DEF TurnFailed, Cancelled, RejectsAtMost, DelegationInv, TypeOK, Inboxes
<1>3. TypeOK'
  <2>1. turn' \in TurnStates
    BY DEF TurnFailed, Cancelled, DelegationInv, TypeOK, TurnStates
  <2>2. closed' \in BOOLEAN /\ cancel' = cancel
    BY DEF TurnFailed, Cancelled, DelegationInv, TypeOK, memory
  <2>. QED BY <1>1, <1>2, <2>1, <2>2 DEF RejectsAtMost, DelegationInv, TypeOK, TurnStates, Inboxes
<1>4. AllOperated' /\ PendingOnes' = PendingOnes
  BY <1>1, <1>2, TurnMoves
<1>5. RecordedFirst'
  BY <1>1 DEF TurnFailed, Cancelled, DelegationInv, RecordedFirst, memory
<1>6. CancelsWhileClosing'
  BY <1>1 DEF TurnFailed, Cancelled, DelegationInv, TypeOK, CancelsWhileClosing, memory
<1>7. Closing'
  BY <1>1, <1>2, <1>4 DEF TurnFailed, Cancelled, RejectsAtMost, DelegationInv, TypeOK, Closing, TurnEndsSettled, Pending,
     PendingOnes, Queued, Writing, memory, sessions
<1>. QED BY <1>3, <1>4, <1>5, <1>6, <1>7 DEF DelegationInv

\* Steps that move the Turn alone, after the last check of its queue.
LEMMA TurnAlone ==
  ASSUME DelegationInv, turn' \in TurnStates, turn'.waits = turn.waits, faults' \in 0..MaxFaults,
         UNCHANGED <<record, closed, op, aborted, scan, timer, suspended, cancel, tool, inbox, child, events>>,
         CancelsWhileClosing', Closing'
  PROVE  DelegationInv'
<1>1. TypeOK'
  BY DEF DelegationInv, TypeOK, TurnStates
<1>2. AllOperated' /\ RecordedFirst'
  BY DEF DelegationInv, AllOperated, RecordedFirst
<1>. QED BY <1>1, <1>2 DEF DelegationInv

LEMMA TurnSucceedsStep ==
  ASSUME DelegationInv, TurnSucceeds
  PROVE  DelegationInv'
<1>1. /\ turn.phase = "closing"
      /\ UNCHANGED <<record, closed, op, aborted, scan, timer, suspended, cancel, tool, inbox, child, faults,
                     events>>
  BY DEF TurnSucceeds, memory
<1>2. /\ turn' \in TurnStates /\ turn'.waits = turn.waits
      /\ turn'.phase = "succeeded" /\ turn'.at = turn.at
  BY DEF TurnSucceeds, DelegationInv, TypeOK, TurnStates
<1>3. CancelsWhileClosing'
  BY <1>1, <1>2 DEF DelegationInv, CancelsWhileClosing
<1>4. PendingOnes' = PendingOnes /\ \A w \in Works : Pending(w)' = Pending(w)
  BY <1>1 DEF PendingOnes, Pending
<1>5. Closing'
  BY <1>1, <1>2, <1>4 DEF DelegationInv, Closing, TurnEndsSettled
<1>6. faults' \in 0..MaxFaults
  BY <1>1 DEF DelegationInv, TypeOK
<1>. QED BY <1>1, <1>2, <1>3, <1>5, <1>6, TurnAlone

LEMMA ClosingStops ==
  ASSUME DelegationInv, StopCancels \/ ClosingFails
  PROVE  DelegationInv'
<1>1. /\ turn.phase = "closing"
      /\ UNCHANGED <<record, closed, op, aborted, scan, timer, suspended, cancel, tool, inbox, child, faults,
                     events>>
  BY DEF StopCancels, ClosingFails, memory
<1>2. /\ turn' \in TurnStates /\ turn'.waits = turn.waits /\ turn'.phase \in {"closing", "failing"}
      /\ turn'.at = turn.at \/ (turn.at = "none" /\ turn'.at = "closing")
  <2>1. turn \in TurnStates
    BY DEF DelegationInv, TypeOK, TurnStates
  <2>2. CASE StopCancels
    BY <2>1, <2>2 DEF StopCancels, TurnStates
  <2>3. CASE ClosingFails
    BY <2>1, <2>3 DEF ClosingFails, TurnStates
  <2>. QED BY <2>2, <2>3
<1>3. CancelsWhileClosing'
  BY <1>1, <1>2 DEF DelegationInv, CancelsWhileClosing
<1>4. PendingOnes' = PendingOnes /\ \A w \in Works : Pending(w)' = Pending(w)
  BY <1>1 DEF PendingOnes, Pending
<1>5. Closing'
  BY <1>1, <1>2, <1>4 DEF DelegationInv, Closing, TurnEndsSettled
<1>6. faults' \in 0..MaxFaults
  BY <1>1 DEF DelegationInv, TypeOK
<1>. QED BY <1>1, <1>2, <1>3, <1>5, <1>6, TurnAlone

\* The Turn is taken up again with its works cancelled, and operations may have checked them before.
LEMMA TurnUnrecordedStep ==
  ASSUME DelegationInv, TurnUnrecorded
  PROVE  DelegationInv'
<1>1. /\ \A w \in Works : cancel[<<w, TRUE>>] = "none" /\ inbox[w] # "writing"
      /\ UNCHANGED <<record, closed, op, aborted, scan, timer, suspended, cancel, tool, inbox, child, events>>
  BY DEF TurnUnrecorded, Cancelled, Writing, memory
<1>2. /\ turn' \in TurnStates /\ turn'.waits = turn.waits /\ turn'.phase = "interrupted" /\ turn'.again
  BY DEF TurnUnrecorded, DelegationInv, TypeOK, TurnStates
<1>3. CancelsWhileClosing'
  BY <1>1, <1>2 DEF CancelsWhileClosing
<1>4. Closing'
  BY <1>1, <1>2 DEF Closing, TurnEndsSettled
<1>5. faults' \in 0..MaxFaults
  BY FaultCounted DEF TurnUnrecorded
<1>. QED BY <1>1, <1>2, <1>3, <1>4, <1>5, TurnAlone

LEMMA TurnResumesStep ==
  ASSUME DelegationInv, TurnResumes
  PROVE  DelegationInv'
<1>1. UNCHANGED <<record, op, aborted, scan, timer, suspended, tool, child, faults, events>>
  BY DEF TurnResumes, memory
<1>2. RejectsAtMost
  BY DEF TurnResumes, RejectsAtMost, DelegationInv, TypeOK, Inboxes
<1>3. TypeOK'
  <2>1. turn' \in TurnStates
    BY DEF TurnResumes, DelegationInv, TypeOK, TurnStates
  <2>2. closed' \in BOOLEAN /\ cancel' = cancel
    BY DEF TurnResumes, DelegationInv, TypeOK, memory
  <2>. QED BY <1>1, <1>2, <2>1, <2>2 DEF RejectsAtMost, DelegationInv, TypeOK, TurnStates, Inboxes
<1>4. AllOperated' /\ PendingOnes' = PendingOnes
  BY <1>1, <1>2, TurnMoves
<1>5. RecordedFirst'
  BY <1>1 DEF TurnResumes, DelegationInv, RecordedFirst, memory
<1>6. CancelsWhileClosing'
  <2>1. turn.phase = "interrupted" /\ cancel' = cancel
    BY DEF TurnResumes, memory
  <2>2. turn'.phase = "working" /\ turn'.again = turn.again
    BY DEF TurnResumes, DelegationInv, TypeOK
  <2>3. \A w \in Works : cancel[<<w, TRUE>>] = "none"
    BY <2>1 DEF DelegationInv, CancelsWhileClosing
  <2>. QED BY <1>1, <2>1, <2>2, <2>3 DEF DelegationInv, CancelsWhileClosing
<1>7. Closing'
  BY <1>1, <1>2, <1>4 DEF TurnResumes, RejectsAtMost, DelegationInv, TypeOK, Closing, TurnEndsSettled, Pending,
     PendingOnes, Queued, Writing, memory, sessions
<1>. QED BY <1>3, <1>4, <1>5, <1>6, <1>7 DEF DelegationInv

LEMMA WaitJoinStep ==
  ASSUME DelegationInv, NEW w \in Works, WaitJoin(w)
  PROVE  DelegationInv'
<1>1. UNCHANGED <<record, closed, op, aborted, scan, timer, suspended, cancel, tool, inbox, child, faults, events>>
  BY DEF WaitJoin, memory
<1>2. turn' \in TurnStates /\ turn'.phase = turn.phase /\ turn'.at = turn.at /\ turn'.waits = turn.waits
      /\ turn'.again = turn.again
  BY DEF WaitJoin, DelegationInv, TypeOK, TurnStates
<1>3. TypeOK'
  BY <1>1, <1>2 DEF DelegationInv, TypeOK, TurnStates
<1>4. AllOperated' /\ RecordedFirst' /\ CancelsWhileClosing'
  BY <1>1, <1>2 DEF DelegationInv, AllOperated, RecordedFirst, CancelsWhileClosing
<1>5. Closing'
  BY <1>1, <1>2 DEF DelegationInv, Closing, TurnEndsSettled, Pending, PendingOnes
<1>. QED BY <1>3, <1>4, <1>5 DEF DelegationInv

\* Operations are launched for some of the works that have a record, from one of the first steps.
Launches(W) ==
  /\ op' \in [Works -> Steps]
  /\ \A w \in Works : op'[w] = op[w] \/ (w \in W /\ op[w] = "none" /\ op'[w] \in {"reading", "prepared"})

LEMMA LaunchedOperations ==
  ASSUME DelegationInv, NEW W, Launches(W), UNCHANGED <<record, inbox>>,
         \A w \in W : w \in Works => record[w] # NoRecord
  PROVE  /\ AllOperated'
         /\ \A w \in Works : op'[w] # "none" => record[w] # NoRecord
         /\ \A w \in Works : op'[w] = "accepting" => op[w] = "accepting"
  BY DEF DelegationInv, TypeOK, AllOperated, Operated, Launches

LEMMA WaitListStep ==
  ASSUME DelegationInv, WaitList
  PROVE  DelegationInv'
<1>1. /\ turn.phase = "waiting" /\ turn.at = "listing"
      /\ UNCHANGED <<record, closed, aborted, scan, timer, suspended, cancel, tool, inbox, child, faults, events>>
  BY DEF WaitList
<1>2. Launches(PendingOnes)
  BY DEF WaitList, Launches, Launched, PendingOnes, DelegationInv, TypeOK, Steps
<1>3. /\ turn' \in TurnStates /\ turn'.waits = turn.waits /\ turn'.again = turn.again
      /\ \/ turn'.phase = "waiting"
         \/ turn'.phase = "working"
         \/ turn'.phase = "closing" /\ turn'.at = "none" /\ PendingOnes = {}
  <2>1. CASE PendingOnes = {}
    <3>1. turn \in TurnStates /\ turn' = Settled
      BY <2>1 DEF WaitList, DelegationInv, TypeOK, TurnStates
    <3>2. turn' \in TurnStates
      BY <3>1, TurnTyped
    <3>3. /\ turn'.waits = turn.waits /\ turn'.again = turn.again /\ turn'.at = "none"
          /\ turn'.phase \in {"working", "closing"}
      BY <3>1 DEF Settled, TurnStates
    <3>. QED BY <2>1, <3>2, <3>3
  <2>2. CASE PendingOnes # {}
    <3>. DEFINE left == {w \in PendingOnes : op'[w] # "none"}
    <3>1. turn' = [turn EXCEPT !.at = "joining", !.left = left] /\ left \in SUBSET Works
      BY <2>2 DEF WaitList, PendingOnes
    <3>. HIDE DEF left
    <3>. QED BY <1>1, <3>1 DEF DelegationInv, TypeOK, TurnStates
  <2>. QED BY <2>1, <2>2
<1>4. /\ AllOperated'
      /\ \A w \in Works : op'[w] # "none" => record[w] # NoRecord
      /\ \A w \in Works : op'[w] = "accepting" => op[w] = "accepting"
  BY <1>1, <1>2, LaunchedOperations DEF PendingOnes, Pending
<1>5. TypeOK'
  BY <1>1, <1>2, <1>3, <1>4 DEF Launches, DelegationInv, TypeOK, TurnStates, Steps
<1>6. RecordedFirst'
  BY <1>1 DEF DelegationInv, RecordedFirst
<1>7. CancelsWhileClosing'
  BY <1>1, <1>3, <1>4 DEF DelegationInv, CancelsWhileClosing
<1>8. PendingOnes' = PendingOnes
  BY <1>1 DEF PendingOnes, Pending
<1>9. Closing'
  BY <1>1, <1>3, <1>8 DEF DelegationInv, Closing, TurnEndsSettled
<1>. QED BY <1>4, <1>5, <1>6, <1>7, <1>9 DEF DelegationInv

LEMMA SubmitStep ==
  ASSUME DelegationInv, NEW w \in Works, Submit(w)
  PROVE  DelegationInv'
<1>1. /\ turn.phase = "working" /\ tool' = [tool EXCEPT ![w] = "creating"]
      /\ UNCHANGED <<record, closed, op, aborted, scan, timer, suspended, cancel, turn, inbox, child, faults,
                     events>>
  BY DEF Submit, memory
<1>2. TypeOK'
  BY <1>1 DEF DelegationInv, TypeOK
<1>3. AllOperated' /\ RecordedFirst' /\ CancelsWhileClosing'
  BY <1>1 DEF DelegationInv, TypeOK, AllOperated, RecordedFirst, CancelsWhileClosing
<1>4. PendingOnes' = PendingOnes /\ \A u \in Works : Pending(u)' = Pending(u)
  BY <1>1 DEF PendingOnes, Pending
<1>5. Closing'
  BY <1>1, <1>4 DEF DelegationInv, Closing, TurnEndsSettled
<1>. QED BY <1>2, <1>3, <1>5 DEF DelegationInv

LEMMA SubmittedStep ==
  ASSUME DelegationInv, NEW w \in Works, Submitted(w)
  PROVE  DelegationInv'
<1>1. /\ tool[w] = "preparing" /\ record[w] # NoRecord
      /\ UNCHANGED <<record, closed, aborted, scan, timer, suspended, cancel, turn, inbox, child, events>>
  BY DEF Submitted, DelegationInv, RecordedFirst
<1>2. PICK t \in {"done", "failed"} : tool' = [tool EXCEPT ![w] = t]
  BY DEF Submitted
<1>3. Launches({w})
  BY DEF Submitted, Launches, Launched, DelegationInv, TypeOK, Steps
<1>4. /\ AllOperated'
      /\ \A u \in Works : op'[u] # "none" => record[u] # NoRecord
      /\ \A u \in Works : op'[u] = "accepting" => op[u] = "accepting"
  BY <1>1, <1>3, LaunchedOperations
<1>5. faults' \in 0..MaxFaults
  BY FaultCounted DEF Submitted
<1>6. TypeOK'
  <2>1. tool' \in [Works -> {"none", "creating", "preparing", "done", "failed"}]
    BY <1>2 DEF DelegationInv, TypeOK
  <2>2. op' \in [Works -> Steps]
    BY <1>3 DEF Launches
  <2>. QED BY <1>1, <1>4, <1>5, <2>1, <2>2 DEF DelegationInv, TypeOK, Steps
<1>7. RecordedFirst' /\ CancelsWhileClosing'
  <2>1. \A u \in Works : tool'[u] = "preparing" => tool[u] = "preparing"
    BY <1>2 DEF DelegationInv, TypeOK
  <2>2. RecordedFirst'
    BY <1>1, <2>1 DEF DelegationInv, RecordedFirst
  <2>3. CancelsWhileClosing'
    BY <1>1, <1>4 DEF DelegationInv, CancelsWhileClosing
  <2>. QED BY <2>2, <2>3
<1>8. PendingOnes' = PendingOnes /\ \A u \in Works : Pending(u)' = Pending(u)
  BY <1>1 DEF PendingOnes, Pending
<1>9. Closing'
  BY <1>1, <1>2, <1>8 DEF DelegationInv, TypeOK, Closing, TurnEndsSettled
<1>. QED BY <1>4, <1>6, <1>7, <1>9 DEF DelegationInv

\* The record of a tool call is written once, and not once the Turn that asked may submit no more.
LEMMA CreateStep ==
  ASSUME DelegationInv, NEW w \in Works, Create(w)
  PROVE  DelegationInv'
<1>1. /\ tool[w] = "creating"
      /\ UNCHANGED <<closed, aborted, scan, timer, suspended, cancel, turn, inbox, child, faults, events>>
  BY DEF Create
<1>2. PICK t \in {"failed", "preparing", "done"} : tool' = [tool EXCEPT ![w] = t]
  BY DEF Create
<1>3. CASE closed
  <2>1. UNCHANGED <<record, op>> /\ t # "preparing"
    BY <1>1, <1>2, <1>3 DEF Create, DelegationInv, TypeOK
  <2>2. TypeOK'
    BY <1>1, <1>2, <2>1 DEF DelegationInv, TypeOK
  <2>3. AllOperated' /\ RecordedFirst' /\ CancelsWhileClosing'
    <3>1. \A u \in Works : tool'[u] = "preparing" => tool[u] = "preparing"
      BY <1>2, <2>1 DEF DelegationInv, TypeOK
    <3>2. AllOperated'
      BY <1>1, <2>1 DEF DelegationInv, AllOperated
    <3>3. RecordedFirst'
      BY <1>1, <2>1, <3>1 DEF DelegationInv, RecordedFirst
    <3>4. CancelsWhileClosing'
      BY <1>1, <2>1 DEF DelegationInv, CancelsWhileClosing
    <3>. QED BY <3>2, <3>3, <3>4
  <2>4. PendingOnes' = PendingOnes /\ \A u \in Works : Pending(u)' = Pending(u)
    BY <2>1 DEF PendingOnes, Pending
  <2>5. Closing'
    BY <1>1, <1>2, <2>4 DEF DelegationInv, TypeOK, Closing, TurnEndsSettled
  <2>. QED BY <2>2, <2>3, <2>5 DEF DelegationInv
<1>4. CASE ~closed
  <2>. DEFINE r == IF record[w] = NoRecord THEN NewRecord ELSE record[w]
  <2>1. /\ record' = [record EXCEPT ![w] = r]
        /\ op' = [op EXCEPT ![w] = IF r.delivery = "pending" /\ r.result # NoResult
                                    THEN Launched(w, "reading") ELSE @]
    BY <1>4 DEF Create
  <2>2. r \in Records /\ r # NoRecord
    <3>1. NewRecord \in Records
      BY DEF NewRecord, Records
    <3>2. record[w] # NoRecord => record[w] \in Records
      BY DEF DelegationInv, TypeOK
    <3>. QED BY <3>1, <3>2, DelegationsAssumption
  <2>3. Operated(r, op[w], inbox[w])
    <3>1. CASE record[w] = NoRecord
      <4>1. op[w] = "none" /\ r = NewRecord /\ Operated(record[w], op[w], inbox[w])
        BY <3>1 DEF DelegationInv, TypeOK, AllOperated
      <4>. QED BY <4>1 DEF Operated, NewRecord
    <3>2. CASE record[w] # NoRecord
      BY <3>2 DEF DelegationInv, AllOperated
    <3>. QED BY <3>1, <3>2
  <2>. HIDE DEF r
  <2>4. PICK o \in Steps : /\ op' = [op EXCEPT ![w] = o]
                           /\ o = op[w] \/ (op[w] = "none" /\ o = "reading")
    <3>. DEFINE o == IF r.delivery = "pending" /\ r.result # NoResult THEN Launched(w, "reading") ELSE op[w]
    <3>1. op' = [op EXCEPT ![w] = o]
      BY <2>1
    <3>2. o = op[w] \/ (op[w] = "none" /\ o = "reading")
      BY DEF Launched
    <3>3. o \in Steps
      BY <3>2 DEF Steps, DelegationInv, TypeOK
    <3>. HIDE DEF o
    <3>. QED BY <3>1, <3>2, <3>3
  <2>5. Operated(r, o, inbox[w])
    BY <2>3, <2>4 DEF Operated
  <2>6. /\ record'[w] = r /\ op'[w] = o
        /\ \A u \in Works : u # w => record'[u] = record[u] /\ op'[u] = op[u]
    BY <2>1, <2>4 DEF DelegationInv, TypeOK
  <2>7. TypeOK'
    <3>1. record' \in [Works -> {NoRecord} \cup Records] /\ op' \in [Works -> Steps]
      BY <2>1, <2>2, <2>4 DEF DelegationInv, TypeOK, Steps
    <3>2. \A u \in Works : op'[u] # "none" => record'[u] # NoRecord
      BY <2>2, <2>6 DEF DelegationInv, TypeOK
    <3>3. tool' \in [Works -> {"none", "creating", "preparing", "done", "failed"}]
      BY <1>2 DEF DelegationInv, TypeOK
    <3>. QED BY <1>1, <3>1, <3>2, <3>3 DEF DelegationInv, TypeOK, Steps
  <2>8. AllOperated'
    BY <1>1, <2>5, <2>6 DEF DelegationInv, AllOperated
  <2>9. RecordedFirst'
    BY <1>1, <1>2, <2>2, <2>6 DEF DelegationInv, TypeOK, RecordedFirst
  <2>10. CancelsWhileClosing'
    <3>1. op'[w] = "accepting" => op[w] = "accepting" /\ record'[w] = record[w]
      <4>1. op[w] # "none" => record[w] # NoRecord
        BY DEF DelegationInv, TypeOK
      <4>. QED BY <2>4, <2>6, <4>1 DEF r
    <3>. QED BY <1>1, <2>6, <3>1 DEF DelegationInv, CancelsWhileClosing
  <2>11. /\ turn.phase \notin {"waiting", "closing", "succeeded", "failed"}
         /\ ~(turn.phase = "failing" /\ turn.at = "cancelling")
    BY <1>1, <1>4 DEF DelegationInv, Closing
  <2>12. Closing'
    BY <1>1, <1>4, <2>11 DEF DelegationInv, Closing, TurnEndsSettled
  <2>. QED BY <2>7, <2>8, <2>9, <2>10, <2>12 DEF DelegationInv
<1>. QED BY <1>3, <1>4

-----------------------------------------------------------------------------
\* Cancellations.

LEMMA CancelChildrenStep ==
  ASSUME DelegationInv, CancelChildren
  PROVE  DelegationInv'
<1>1. /\ turn.phase \in {"closing", "failing", "succeeded"} /\ turn.at = "listing"
      /\ cancel' = [x \in Works \X BOOLEAN |-> IF x[2] /\ Pending(x[1]) THEN "listing" ELSE cancel[x]]
      /\ UNCHANGED <<record, closed, op, aborted, scan, timer, suspended, tool, inbox, child, faults, events>>
  BY DEF CancelChildren, Cancels
<1>2. /\ turn' \in TurnStates /\ turn'.phase = turn.phase /\ turn'.at = "cancelling"
      /\ turn'.waits = turn.waits
  BY DEF CancelChildren, DelegationInv, TypeOK, TurnStates
<1>3. cancel' \in [Works \X BOOLEAN -> {"none", "listing", "updating", "stopping", "awaiting"}]
  BY <1>1 DEF DelegationInv, TypeOK
<1>4. TypeOK'
  BY <1>1, <1>2, <1>3 DEF DelegationInv, TypeOK, TurnStates
<1>5. AllOperated' /\ RecordedFirst' /\ CancelsWhileClosing'
  <2>1. \A x \in Works \X BOOLEAN : cancel'[x] = "updating" => cancel[x] = "updating"
    BY <1>1
  <2>2. AllOperated'
    BY <1>1 DEF DelegationInv, AllOperated
  <2>3. RecordedFirst'
    BY <1>1, <2>1 DEF DelegationInv, RecordedFirst
  <2>4. CancelsWhileClosing'
    BY <1>1, <1>2 DEF CancelsWhileClosing
  <2>. QED BY <2>2, <2>3, <2>4
<1>6. /\ \A w \in Works : Pending(w)' => cancel'[<<w, TRUE>>] = "listing"
      /\ PendingOnes' = PendingOnes
  BY <1>1 DEF Pending, PendingOnes
<1>7. Closing'
  BY <1>1, <1>2, <1>6 DEF DelegationInv, Closing, TurnEndsSettled
<1>. QED BY <1>4, <1>5, <1>7 DEF DelegationInv

LEMMA StopWorkStep ==
  ASSUME DelegationInv, NEW w \in Works, StopWork(w)
  PROVE  DelegationInv'
<1>1. /\ cancel' = [cancel EXCEPT ![<<w, FALSE>>] = "listing"]
      /\ UNCHANGED <<record, closed, op, aborted, scan, timer, suspended, tool, turn, inbox, child, faults>>
  BY DEF StopWork, sessions
<1>2. events' \in 0..MaxEvents
  BY DelegationsAssumption DEF StopWork, Event, DelegationInv, TypeOK
<1>3. TypeOK'
  <2>1. cancel' \in [Works \X BOOLEAN -> {"none", "listing", "updating", "stopping", "awaiting"}]
    BY <1>1 DEF DelegationInv, TypeOK
  <2>. DEFINE Rest == /\ record \in [Works -> {NoRecord} \cup Records]
                      /\ \A u \in Works : op[u] # "none" => record[u] # NoRecord
  <2>2. Rest'
    BY <1>1 DEF DelegationInv, TypeOK
  <2>. QED BY <1>1, <1>2, <2>1, <2>2 DEF DelegationInv, TypeOK
<1>4. /\ \A u \in Works : cancel'[<<u, TRUE>>] = cancel[<<u, TRUE>>]
      /\ \A x \in Works \X BOOLEAN : cancel'[x] = "updating" => cancel[x] = "updating"
  BY <1>1 DEF DelegationInv, TypeOK
<1>5. AllOperated' /\ RecordedFirst' /\ CancelsWhileClosing'
  BY <1>1, <1>4 DEF DelegationInv, AllOperated, RecordedFirst, CancelsWhileClosing
<1>6. PendingOnes' = PendingOnes /\ \A u \in Works : Pending(u)' = Pending(u)
  BY <1>1 DEF PendingOnes, Pending
<1>7. Closing'
  BY <1>1, <1>4, <1>6 DEF DelegationInv, Closing, TurnEndsSettled
<1>. QED BY <1>3, <1>5, <1>7 DEF DelegationInv

\* A cancellation goes on with s, and perhaps gives a prompt up.
LEMMA CancelMoves ==
  ASSUME DelegationInv, NEW w \in Works, NEW b \in BOOLEAN,
         NEW s \in {"none", "listing", "updating", "stopping", "awaiting"},
         cancel[<<w, b>>] # "none", cancel' = [cancel EXCEPT ![<<w, b>>] = s],
         op' \in [Works -> Steps], child' \in [Works -> Children], aborted' \in [Works -> BOOLEAN],
         \A u \in Works : op'[u] = op[u] \/ (op[u] = "prompting" /\ op'[u] \in {"withdrawing", "failing"}),
         UNCHANGED <<record, closed, scan, timer, suspended, tool, turn, inbox, faults, events>>,
         s = "updating" => record[w] # NoRecord,
         Pending(w) /\ cancel[<<w, b>>] \in {"listing", "updating"} => s \in {"listing", "updating"}
  PROVE  DelegationInv'
<1>1. /\ AllOperated'
      /\ \A u \in Works : op'[u] # "none" => record[u] # NoRecord
      /\ \A u \in Works : op'[u] = "accepting" => op[u] = "accepting"
  BY StoppedOperations
<1>2. TypeOK'
  BY <1>1 DEF DelegationInv, TypeOK, Steps, Children
<1>3. /\ cancel'[<<w, b>>] = s
      /\ \A x \in Works \X BOOLEAN : x # <<w, b>> => cancel'[x] = cancel[x]
  BY DEF DelegationInv, TypeOK
<1>4. RecordedFirst'
  <2>1. ASSUME NEW x \in Works \X BOOLEAN, cancel'[x] = "updating" PROVE record[x[1]] # NoRecord
    BY <1>3, <2>1 DEF DelegationInv, RecordedFirst
  <2>. QED BY <2>1 DEF DelegationInv, RecordedFirst
<1>5. CancelsWhileClosing'
  BY <1>1, <1>3 DEF DelegationInv, CancelsWhileClosing
<1>6. \A u \in Works : Pending(u)' = Pending(u)
  BY DEF Pending
<1>7. PendingOnes' = PendingOnes
  BY DEF PendingOnes, Pending
<1>8. Closing'
  BY <1>3, <1>6, <1>7 DEF DelegationInv, Closing, TurnEndsSettled
<1>. QED BY <1>1, <1>2, <1>4, <1>5, <1>8 DEF DelegationInv

LEMMA CancelListStep ==
  ASSUME DelegationInv, NEW w \in Works, NEW b \in BOOLEAN, CancelList(w, b)
  PROVE  DelegationInv'
<1>1. /\ cancel[<<w, b>>] = "listing"
      /\ UNCHANGED <<record, closed, scan, timer, suspended, tool, turn, inbox, faults, events>>
  BY DEF CancelList
<1>2. op \in [Works -> Steps] /\ child \in [Works -> Children] /\ aborted \in [Works -> BOOLEAN]
  BY DEF DelegationInv, TypeOK, Steps, Children
<1>3. CASE Pending(w)
  <2>1. cancel' = [cancel EXCEPT ![<<w, b>>] = "updating"] /\ aborted' \in [Works -> BOOLEAN]
    BY <1>2, <1>3 DEF CancelList
  <2>2. /\ op' \in [Works -> Steps] /\ child' \in [Works -> Children]
        /\ \A u \in Works : op'[u] = op[u] \/ (op[u] = "prompting" /\ op'[u] \in {"withdrawing", "failing"})
    BY <1>2, <1>3, StopMoves DEF CancelList
  <2>3. record[w] # NoRecord
    BY <1>3 DEF Pending
  <2>. QED BY <1>1, <2>1, <2>2, <2>3, CancelMoves
<1>4. CASE ~Pending(w)
  <2>1. cancel' = [cancel EXCEPT ![<<w, b>>] = "stopping"] /\ UNCHANGED <<aborted, op, child>>
    BY <1>4 DEF CancelList
  <2>. QED BY <1>1, <1>2, <1>4, <2>1, CancelMoves
<1>. QED BY <1>3, <1>4

LEMMA CancelStopStep ==
  ASSUME DelegationInv, NEW w \in Works, NEW b \in BOOLEAN, CancelStop(w, b)
  PROVE  DelegationInv'
<1>1. /\ cancel[<<w, b>>] = "stopping"
      /\ UNCHANGED <<record, closed, aborted, scan, timer, suspended, tool, turn, inbox, faults, events>>
  BY DEF CancelStop
<1>2. op \in [Works -> Steps] /\ child \in [Works -> Children] /\ aborted \in [Works -> BOOLEAN]
  BY DEF DelegationInv, TypeOK, Steps, Children
<1>3. PICK s \in {"none", "awaiting"} : cancel' = [cancel EXCEPT ![<<w, b>>] = s]
  BY DEF CancelStop
<1>4. /\ op' \in [Works -> Steps] /\ child' \in [Works -> Children]
      /\ \A u \in Works : op'[u] = op[u] \/ (op[u] = "prompting" /\ op'[u] \in {"withdrawing", "failing"})
  BY <1>2, StopMoves DEF CancelStop
<1>. QED BY <1>1, <1>2, <1>3, <1>4, CancelMoves

LEMMA CancelDoneStep ==
  ASSUME DelegationInv, NEW w \in Works, NEW b \in BOOLEAN, CancelDone(w, b)
  PROVE  DelegationInv'
<1>1. /\ cancel[<<w, b>>] = "awaiting" /\ cancel' = [cancel EXCEPT ![<<w, b>>] = "none"]
      /\ UNCHANGED <<record, closed, op, aborted, scan, timer, suspended, tool, turn, inbox, child, faults, events>>
  BY DEF CancelDone, sessions
<1>2. op \in [Works -> Steps] /\ child \in [Works -> Children] /\ aborted \in [Works -> BOOLEAN]
  BY DEF DelegationInv, TypeOK, Steps, Children
<1>. QED BY <1>1, <1>2, CancelMoves

\* The cancellation is saved over the latest record: what was delivered stays so, and no result is lost.
LEMMA CancelSaveStep ==
  ASSUME DelegationInv, NEW w \in Works, NEW b \in BOOLEAN, CancelSave(w, b)
  PROVE  DelegationInv'
<1>1. /\ cancel[<<w, b>>] = "updating" /\ cancel' = [cancel EXCEPT ![<<w, b>>] = "stopping"]
      /\ UNCHANGED <<closed, op, aborted, scan, timer, suspended, tool, turn, inbox, child, faults, events>>
  BY DEF CancelSave, sessions
<1>2. record[w] # NoRecord
  BY <1>1 DEF DelegationInv, RecordedFirst
<1>3. record[w] \in Records /\ Operated(record[w], op[w], inbox[w])
  BY <1>2, RecordOf
<1>. DEFINE r == [record[w] EXCEPT !.execution = IF record[w].result = NoResult THEN "stopped" ELSE @,
                   !.delivery = IF b /\ @ # "delivered" THEN "cancelled" ELSE @]
<1>4. /\ r \in Records /\ r.result = record[w].result
      /\ r.delivery = IF b /\ record[w].delivery # "delivered" THEN "cancelled" ELSE record[w].delivery
      /\ record' = [record EXCEPT ![w] = r]
  <2>. DEFINE e == IF record[w].result = NoResult THEN "stopped" ELSE record[w].execution
              d == IF b /\ record[w].delivery # "delivered" THEN "cancelled" ELSE record[w].delivery
  <2>1. e \in {"pending", "running"} \cup Ended /\ d \in {"pending", "delivered", "cancelled", "saved"}
    BY <1>3 DEF Records, Ended
  <2>2. r = [record[w] EXCEPT !.execution = e, !.delivery = d]
    BY <1>3 DEF Records
  <2>3. record' = [record EXCEPT ![w] = r]
    <3>1. record' = [record EXCEPT
             ![w] = [record[w] EXCEPT !.execution = IF record[w].result = NoResult THEN "stopped" ELSE @,
                                      !.delivery = IF b /\ @ # "delivered" THEN "cancelled" ELSE @]]
      BY DEF CancelSave
    <3>. QED BY <3>1
  <2>. HIDE DEF e, r
  <2>4. r \in Records /\ r.result = record[w].result /\ r.delivery = d
    BY <1>3, <2>1, <2>2 DEF Records
  <2>. QED BY <2>3, <2>4
<1>. HIDE DEF r
<1>5. Operated(r, op[w], inbox[w])
  BY <1>2, <1>3, <1>4 DEF Operated
<1>6. r # NoRecord
  BY <1>4, DelegationsAssumption
<1>7. /\ record'[w] = r /\ cancel'[<<w, b>>] = "stopping"
      /\ \A u \in Works : u # w => record'[u] = record[u]
      /\ \A x \in Works \X BOOLEAN : x # <<w, b>> => cancel'[x] = cancel[x]
  BY <1>1, <1>4 DEF DelegationInv, TypeOK
<1>8. TypeOK'
  <2>1. record' \in [Works -> {NoRecord} \cup Records]
    BY <1>4 DEF DelegationInv, TypeOK
  <2>2. cancel' \in [Works \X BOOLEAN -> {"none", "listing", "updating", "stopping", "awaiting"}]
    BY <1>1 DEF DelegationInv, TypeOK
  <2>3. \A u \in Works : op'[u] # "none" => record'[u] # NoRecord
    BY <1>1, <1>6, <1>7 DEF DelegationInv, TypeOK
  <2>. QED BY <1>1, <2>1, <2>2, <2>3 DEF DelegationInv, TypeOK
<1>9. AllOperated'
  BY <1>1, <1>5, <1>7 DEF DelegationInv, AllOperated
<1>10. RecordedFirst'
  BY <1>1, <1>6, <1>7 DEF DelegationInv, TypeOK, RecordedFirst
<1>11. b => turn.phase \in {"closing", "failing", "succeeded"} /\ turn.at = "cancelling"
  BY <1>1 DEF DelegationInv, CancelsWhileClosing
<1>12. CancelsWhileClosing'
  <2>1. \A u \in Works : cancel'[<<u, TRUE>>] # "none" => cancel[<<u, TRUE>>] # "none"
    BY <1>1, <1>7
  <2>2. turn.phase \in {"working", "waiting", "interrupted"} => r.delivery = record[w].delivery
    BY <1>4, <1>11
  <2>3. ASSUME NEW u \in Works, op[u] = "accepting", ~turn.again,
               turn.phase \in {"working", "waiting", "interrupted"}
        PROVE  record'[u].delivery # "cancelled"
    BY <1>7, <2>2, <2>3 DEF DelegationInv, CancelsWhileClosing
  <2>. QED BY <1>1, <2>1, <2>3 DEF DelegationInv, CancelsWhileClosing
<1>13. /\ \A u \in Works : Pending(u)' => Pending(u)
       /\ b => ~Pending(w)'
  BY <1>2, <1>4, <1>7 DEF Pending
<1>14. TurnEndsSettled' /\ (turn.phase = "closing" /\ turn.waits => PendingOnes' = {})
  BY <1>1, <1>13 DEF DelegationInv, Closing, TurnEndsSettled, PendingOnes
<1>15. \A u \in Works : Pending(u)' => cancel'[<<u, TRUE>>] = cancel[<<u, TRUE>>]
  BY <1>7, <1>13
<1>16. Closing'
  BY <1>1, <1>13, <1>14, <1>15 DEF DelegationInv, Closing
<1>. QED BY <1>8, <1>9, <1>10, <1>12, <1>16 DEF DelegationInv

-----------------------------------------------------------------------------
\* Scans, the host, and restarts.

\* Nothing moves but the scan and the host's switches.
LEMMA ScannerMoves ==
  ASSUME DelegationInv, scan' = NoScan \/ (scan' \subseteq Works /\ \A w \in scan' : record[w] # NoRecord),
         timer' \in BOOLEAN, suspended' \in BOOLEAN, events' \in 0..MaxEvents,
         UNCHANGED <<record, closed, op, aborted, cancel, tool, turn, inbox, child, faults>>
  PROVE  DelegationInv'
<1>1. TypeOK'
  BY DEF DelegationInv, TypeOK
<1>2. AllOperated' /\ RecordedFirst' /\ CancelsWhileClosing'
  BY DEF DelegationInv, AllOperated, RecordedFirst, CancelsWhileClosing
<1>3. PendingOnes' = PendingOnes /\ \A w \in Works : Pending(w)' = Pending(w)
  BY DEF PendingOnes, Pending
<1>4. Closing'
  BY <1>3 DEF DelegationInv, Closing, TurnEndsSettled
<1>. QED BY <1>1, <1>2, <1>4 DEF DelegationInv

LEMMA PendingRecorded ==
  PendingOnes \subseteq Works /\ \A w \in PendingOnes : record[w] # NoRecord
  BY DEF PendingOnes, Pending

LEMMA TimerFiresStep ==
  ASSUME DelegationInv, TimerFires
  PROVE  DelegationInv'
<1>1. /\ scan' = NoScan \/ scan' = PendingOnes
      /\ timer' = FALSE
      /\ UNCHANGED <<record, closed, op, aborted, suspended, cancel, tool, turn, inbox, child, faults, events>>
  BY DEF TimerFires, sessions
<1>2. suspended' \in BOOLEAN /\ events' \in 0..MaxEvents
  BY <1>1 DEF DelegationInv, TypeOK
<1>. QED BY <1>1, <1>2, PendingRecorded, ScannerMoves

LEMMA SuspendStep ==
  ASSUME DelegationInv, Suspend
  PROVE  DelegationInv'
<1>1. /\ timer' = FALSE /\ suspended' = TRUE
      /\ UNCHANGED <<record, closed, op, aborted, scan, cancel, tool, turn, inbox, child, faults>>
  BY DEF Suspend, sessions
<1>2. events' \in 0..MaxEvents
  BY DelegationsAssumption DEF Suspend, Event, DelegationInv, TypeOK
<1>3. scan = NoScan \/ (scan \subseteq Works /\ \A w \in scan : record[w] # NoRecord)
  BY DEF DelegationInv, TypeOK, RecordedFirst
<1>. QED BY <1>1, <1>2, <1>3, ScannerMoves

LEMMA ResumeStep ==
  ASSUME DelegationInv, Resume
  PROVE  DelegationInv'
<1>1. /\ scan' = PendingOnes /\ suspended' = FALSE
      /\ UNCHANGED <<record, closed, op, aborted, timer, cancel, tool, turn, inbox, child, faults, events>>
  BY DEF Resume, sessions
<1>2. timer' \in BOOLEAN /\ events' \in 0..MaxEvents
  BY <1>1 DEF DelegationInv, TypeOK
<1>. QED BY <1>1, <1>2, PendingRecorded, ScannerMoves

\* A scan launches the operations of the records that are due.
LEMMA ScanEndStep ==
  ASSUME DelegationInv, ScanEnd
  PROVE  DelegationInv'
<1>1. /\ scan # NoScan /\ scan' = NoScan
      /\ UNCHANGED <<record, closed, aborted, suspended, cancel, tool, turn, inbox, child, faults, events>>
  BY DEF ScanEnd, sessions
<1>2. timer' \in BOOLEAN
  BY DEF ScanEnd, DelegationInv, TypeOK
<1>3. Launches(scan)
  BY DEF ScanEnd, Launches, Launched, DelegationInv, TypeOK, Steps
<1>4. /\ AllOperated'
      /\ \A w \in Works : op'[w] # "none" => record[w] # NoRecord
      /\ \A w \in Works : op'[w] = "accepting" => op[w] = "accepting"
  BY <1>1, <1>3, LaunchedOperations DEF DelegationInv, RecordedFirst
<1>5. TypeOK'
  BY <1>1, <1>2, <1>3, <1>4 DEF Launches, DelegationInv, TypeOK, Steps
<1>6. RecordedFirst'
  BY <1>1 DEF DelegationInv, RecordedFirst
<1>7. CancelsWhileClosing'
  BY <1>1, <1>4 DEF DelegationInv, CancelsWhileClosing
<1>8. PendingOnes' = PendingOnes /\ \A w \in Works : Pending(w)' = Pending(w)
  BY <1>1 DEF PendingOnes, Pending
<1>9. Closing'
  BY <1>1, <1>8 DEF DelegationInv, Closing, TurnEndsSettled
<1>. QED BY <1>4, <1>5, <1>6, <1>7, <1>9 DEF DelegationInv

\* A restart forgets everything but the files, what the Turn has stored, and how Sessions ended.
LEMMA CrashStep ==
  ASSUME DelegationInv, Crash
  PROVE  DelegationInv'
<1>1. /\ op' = [w \in Works |-> "none"] /\ aborted' = [w \in Works |-> FALSE]
      /\ scan' = PendingOnes /\ timer' = FALSE /\ suspended' = FALSE
      /\ cancel' = [x \in Works \X BOOLEAN |-> "none"]
      /\ UNCHANGED <<record, closed, faults>>
  BY DEF Crash
<1>2. /\ tool' \in [Works -> {"none", "creating", "preparing", "done", "failed"}]
      /\ \A w \in Works : tool'[w] \notin {"creating", "preparing"}
  BY DEF Crash, DelegationInv, TypeOK
<1>3. /\ inbox' \in [Works -> Inboxes]
      /\ \A w \in Works : inbox'[w] = IF inbox[w] = "stored" THEN "stored" ELSE "none"
  BY DEF Crash, Inboxes
<1>4. child' \in [Works -> Children]
  BY DEF Crash, Children, DelegationInv, TypeOK
<1>5. events' \in 0..MaxEvents
  BY DelegationsAssumption DEF Crash, Event, DelegationInv, TypeOK
<1>6. /\ turn' \in TurnStates
      /\ turn'.at = "none" /\ turn'.waits = turn.waits
      /\ (turn'.phase = turn.phase /\ turn.phase \in {"succeeded", "failed"}) \/ turn'.phase = "interrupted"
  BY DEF Crash, Closed, DelegationInv, TypeOK, TurnStates
<1>7. TypeOK'
  BY <1>1, <1>2, <1>3, <1>4, <1>5, <1>6, PendingRecorded
     DEF DelegationInv, TypeOK, TurnStates, Inboxes, Children
<1>8. AllOperated'
  BY <1>1, <1>3 DEF DelegationInv, AllOperated, Operated
<1>9. RecordedFirst'
  BY <1>1, <1>2, PendingRecorded DEF RecordedFirst
<1>10. CancelsWhileClosing'
  BY <1>1 DEF CancelsWhileClosing
<1>11. PendingOnes' = PendingOnes
  BY <1>1 DEF PendingOnes, Pending
<1>12. Closing'
  BY <1>1, <1>2, <1>3, <1>6, <1>11 DEF DelegationInv, Closing, TurnEndsSettled
<1>. QED BY <1>7, <1>8, <1>9, <1>10, <1>12 DEF DelegationInv

LEMMA DelegationStep ==
  ASSUME DelegationInv, [Next]_vars
  PROVE  DelegationInv'
<1>1. CASE UNCHANGED vars
  <2>1. UNCHANGED <<record, closed, op, aborted, scan, timer, suspended, cancel, tool, turn, inbox, child,
                    faults, events>>
    BY <1>1 DEF vars, memory, sessions
  <2>2. scan = NoScan \/ (scan \subseteq Works /\ \A w \in scan : record[w] # NoRecord)
    BY DEF DelegationInv, TypeOK, RecordedFirst
  <2>3. timer' \in BOOLEAN /\ suspended' \in BOOLEAN /\ events' \in 0..MaxEvents
    BY <2>1 DEF DelegationInv, TypeOK
  <2>. QED BY <2>1, <2>2, <2>3, ScannerMoves
<1>2. ASSUME NEW w \in Works, Operation(w)
      PROVE  DelegationInv'
  BY <1>2, ReadStep, PrepareStep, CheckStep, PromptStep, AcceptedStep, FinishStep, WithdrawStep,
     RecheckStep, AcceptStep, AnsweredStep, DeliverStep, FailStep DEF Operation
<1>3. ASSUME NEW w \in Works,
             OperationFails(w) \/ Elapse(w) \/ ChildEnds(w) \/ HostStops(w) \/ Submit(w) \/ StopWork(w)
      PROVE  DelegationInv'
  BY <1>3, OperationFailsStep, ElapseStep, ChildEndsStep, HostStopsStep, SubmitStep, StopWorkStep
<1>4. ASSUME NEW w \in Works, NEW b \in BOOLEAN, Cancelling(w, b)
      PROVE  DelegationInv'
  BY <1>4, CancelListStep, CancelSaveStep, CancelStopStep, CancelDoneStep DEF Cancelling
<1>5. CASE Asking
  BY <1>5, CreateStep, SubmittedStep, CheckpointStep, StoreStep, WaitJoinStep, ExecutorEndsStep,
     WaitListStep, WaitRelistStep, InputWakesStep, CloseTurnStep, CancelChildrenStep,
     TurnSucceedsStep, TurnFailedStep
     DEF Asking
<1>6. CASE TurnFails \/ StopCancels \/ ClosingFails \/ TurnUnrecorded \/ TurnResumes
  BY <1>6, TurnFailsStep, ClosingStops, TurnUnrecordedStep, TurnResumesStep
<1>7. CASE TimerFires \/ ScanEnd \/ Suspend \/ Resume \/ Crash
  BY <1>7, TimerFiresStep, ScanEndStep, SuspendStep, ResumeStep, CrashStep
<1>. QED BY <1>1, <1>2, <1>3, <1>4, <1>5, <1>6, <1>7 DEF Next

LEMMA DelegationAlways == Spec => []DelegationInv
<1>1. DelegationInv /\ [Next]_vars => DelegationInv'
  BY DelegationStep
<1>. QED BY <1>1, DelegationInit, PTL DEF Spec

-----------------------------------------------------------------------------
\* The theorems.

\* The records, the operations, the cancellations and the Sessions keep their types through every
\* fault, stop, suspend and restart (SessionDelegations.ts:60-620).
THEOREM DelegationTypes == Spec => []TypeOK
<1>1. DelegationInv => TypeOK
  BY DEF DelegationInv
<1>. QED BY <1>1, DelegationAlways, PTL

\* A Turn of depth one that succeeds, and any Turn that fails, leaves no work to be delivered
\* (SessionChildWorkLifecycle.ts: wait_for_children, SessionDelegations.ts: cancel_children).
THEOREM TurnsEndSettled == Spec => []TurnEndsSettled
<1>1. DelegationInv => TurnEndsSettled
  BY DEF DelegationInv, Closing
<1>. QED BY <1>1, DelegationAlways, PTL

\* "delivered" in the file is in the Turn that asked, "saved" is not and never will be.
THEOREM DeliveriesAreTrue == Spec => []DeliveryIsTrue
<1>1. DelegationInv => DeliveryIsTrue
  BY DEF DelegationInv, AllOperated, Operated, DeliveryIsTrue
<1>. QED BY <1>1, DelegationAlways, PTL

\* A step without a move of the results on their way to the Turn that asked.
LEMMA InboxSteps ==
  ASSUME Next
  PROVE  \/ UNCHANGED inbox
         \/ \E w \in Works : Accept(w) \/ Checkpoint(w) \/ Store(w)
         \/ inbox' = Rejected
         \/ Crash
<1>1. ASSUME NEW w \in Works, Operation(w)
      PROVE  UNCHANGED inbox \/ Accept(w)
  BY <1>1 DEF Operation, Read, Prepare, Check, Prompt, Accepted, Finish, Withdraw, Recheck, Answered,
              Deliver, Fail, sessions
<1>2. ASSUME NEW w \in Works,
             OperationFails(w) \/ Elapse(w) \/ ChildEnds(w) \/ HostStops(w) \/ Submit(w) \/ StopWork(w)
      PROVE  UNCHANGED inbox
  BY <1>2 DEF OperationFails, Elapse, ChildEnds, HostStops, Submit, StopWork, sessions
<1>3. ASSUME NEW w \in Works, NEW b \in BOOLEAN, Cancelling(w, b)
      PROVE  UNCHANGED inbox
  BY <1>3 DEF Cancelling, CancelList, CancelSave, CancelStop, CancelDone, sessions
<1>4. CASE Asking
  BY <1>4 DEF Asking, Create, Submitted, WaitJoin, ExecutorEnds, WaitList, WaitRelist, InputWakes,
              CloseTurn, CancelChildren, TurnSucceeds, TurnFailed
<1>5. CASE TurnFails \/ StopCancels \/ ClosingFails \/ TurnUnrecorded \/ TurnResumes
           \/ TimerFires \/ ScanEnd \/ Suspend \/ Resume
  BY <1>5 DEF TurnFails, StopCancels, ClosingFails, TurnUnrecorded, TurnResumes, TimerFires, ScanEnd,
              Suspend, Resume, sessions
<1>. QED BY <1>1, <1>2, <1>3, <1>4, <1>5 DEF Next

\* The check of the record is older than the call that queues the result; a cancellation in between
\* finds the Turn that asked failing, and the call refuses the result; after a Turn was taken up again
\* whose failure could not be recorded, it need not.
THEOREM CancelledResultsStayOut == Spec => CancelledNeverEnters
<1>1. ASSUME DelegationInv, Next, NEW w \in Works, inbox[w] = "none", inbox'[w] = "queued"
      PROVE  record[w].delivery # "cancelled" \/ turn.again
  <2>1. inbox \in [Works -> Inboxes]
    BY <1>1 DEF DelegationInv, TypeOK, Inboxes
  <2>2. CASE \E u \in Works : Accept(u)
    <3>1. PICK u \in Works : Accept(u)
      BY <2>2
    <3>2. /\ op[u] = "accepting"
          /\ UNCHANGED inbox \/ (turn.phase \in {"working", "waiting"} /\ inbox' = [inbox EXCEPT ![u] = "queued"])
      BY <3>1 DEF Accept
    <3>3. u = w /\ turn.phase \in {"working", "waiting"}
      BY <1>1, <2>1, <3>2
    <3>. QED BY <1>1, <3>2, <3>3 DEF DelegationInv, CancelsWhileClosing
  <2>3. ASSUME NEW u \in Works, Checkpoint(u) \/ Store(u)
        PROVE  FALSE
    BY <1>1, <2>1, <2>3 DEF Checkpoint, Store
  <2>4. ~(inbox' = Rejected) /\ ~Crash
    BY <1>1 DEF Rejected, Crash
  <2>. QED BY <1>1, <2>2, <2>3, <2>4, InboxSteps
<1>2. DelegationInv /\ [Next]_vars =>
        [\A w \in Works :
           /\ inbox[w] = "none" /\ inbox'[w] = "queued"
           => record[w].delivery # "cancelled" \/ turn.again]_vars
  BY <1>1
<1>. QED BY <1>2, DelegationAlways, PTL DEF Spec, CancelledNeverEnters

-----------------------------------------------------------------------------
\* The refinement.

\* The state of the works as the Turn that asked sees it, of files f and results i.
ResultsOf(f) == [w \in Works |-> IF f[w] = NoRecord THEN NoResult ELSE f[w].result]
ToldOf(i) == {w \in Works : i[w] = "stored"}

\* A step that gives at most one work its result, one that stores at most one, and one that leaves
\* both alone, and the Turn closed if it was.
Results1 == UNCHANGED <<inbox, turn>> /\ \E w \in Works, x \in Ended \cup {"withdrawn"} :
               ResultsOf(record)[w] = NoResult /\ ResultsOf(record') = [ResultsOf(record) EXCEPT ![w] = x]
Told1 == UNCHANGED <<record, turn>> /\ ~Closed /\ \E w \in Works :
            /\ ResultsOf(record)[w] # NoResult /\ inbox[w] = "writing"
            /\ ToldOf(inbox') = ToldOf(inbox) \cup {w}
Quiet == ResultsOf(record') = ResultsOf(record) /\ ToldOf(inbox') = ToldOf(inbox) /\ (Closed => Closed')

\* The record of a work becomes r, with a result only if there was none.
LEMMA RecordMoves ==
  ASSUME DelegationInv, NEW w \in Works, NEW r \in Records, record' = [record EXCEPT ![w] = r],
         UNCHANGED <<inbox, turn>>,
         r.result = ResultsOf(record)[w] \/ (ResultsOf(record)[w] = NoResult /\ r.result \in Ended \cup {"withdrawn"})
  PROVE  Results1 \/ Quiet
<1>1. /\ r # NoRecord /\ record'[w] = r
      /\ \A u \in Works : u # w => record'[u] = record[u]
  BY DelegationsAssumption DEF DelegationInv, TypeOK
<1>2. ResultsOf(record') = [ResultsOf(record) EXCEPT ![w] = r.result]
  <2>1. \A u \in Works : ResultsOf(record')[u] = IF u = w THEN r.result ELSE ResultsOf(record)[u]
    BY <1>1 DEF ResultsOf
  <2>2. ResultsOf(record') = [u \in Works |-> ResultsOf(record')[u]]
    BY DEF ResultsOf
  <2>3. ResultsOf(record) = [u \in Works |-> ResultsOf(record)[u]]
    BY DEF ResultsOf
  <2>. QED BY <2>1, <2>2, <2>3
<1>3. CASE r.result = ResultsOf(record)[w]
  <2>1. ResultsOf(record') = ResultsOf(record)
    BY <1>1, <1>3 DEF ResultsOf
  <2>. QED BY <2>1 DEF Quiet, Closed
<1>4. CASE ResultsOf(record)[w] = NoResult /\ r.result \in Ended \cup {"withdrawn"}
  BY <1>2, <1>4 DEF Results1
<1>. QED BY <1>3, <1>4

LEMMA OperationKeeps ==
  ASSUME DelegationInv, NEW w \in Works, Operation(w)
  PROVE  Results1 \/ Quiet
<1>. USE DEF ResultsOf
<1>1. CASE Read(w) \/ Prepare(w) \/ Check(w) \/ Prompt(w) \/ Recheck(w) \/ Answered(w)
  BY <1>1 DEF Read, Prepare, Check, Prompt, Recheck, Answered, sessions, Quiet, Closed
<1>2. CASE Accept(w)
  <2>1. UNCHANGED <<record, turn>>
    BY <1>2 DEF Accept
  <2>2. UNCHANGED inbox \/ (inbox[w] # "stored" /\ inbox' = [inbox EXCEPT ![w] = "queued"])
    BY <1>2 DEF Accept
  <2>3. ToldOf(inbox') = ToldOf(inbox)
    BY <2>2 DEF ToldOf, DelegationInv, TypeOK
  <2>. QED BY <2>1, <2>3 DEF Quiet, Closed
<1>3. op[w] # "none" => record[w] # NoRecord /\ record[w] \in Records /\ Operated(record[w], op[w], inbox[w])
  BY RecordOf
<1>4. CASE Accepted(w)
  <2>. DEFINE r == [record[w] EXCEPT !.accepted = TRUE,
                      !.execution = IF @ = "stopped" THEN "stopped" ELSE "running"]
  <2>1. r \in Records /\ r.result = record[w].result /\ record' = [record EXCEPT ![w] = r]
    BY <1>3, <1>4 DEF Accepted, Records
  <2>. HIDE DEF r
  <2>2. UNCHANGED <<inbox, turn>> /\ r.result = ResultsOf(record)[w]
    BY <1>3, <1>4, <2>1 DEF Accepted
  <2>. QED BY <2>1, <2>2, RecordMoves
<1>5. CASE Finish(w)
  <2>. DEFINE r == [record[w] EXCEPT !.result = child[w],
                      !.execution = IF @ = "stopped" THEN "stopped" ELSE child[w]]
  <2>1. r \in Records /\ r.result \in Ended /\ record' = [record EXCEPT ![w] = r]
    BY <1>3, <1>5 DEF Finish, Records
  <2>. HIDE DEF r
  <2>2. UNCHANGED <<inbox, turn>> /\ ResultsOf(record)[w] = NoResult
    BY <1>3, <1>5 DEF Finish, sessions, Operated
  <2>. QED BY <2>1, <2>2, RecordMoves
<1>6. CASE Withdraw(w)
  <2>. DEFINE r == [record[w] EXCEPT !.execution = "stopped",
                      !.result = IF @ = NoResult THEN "withdrawn" ELSE @]
  <2>1. r \in Records /\ record' = [record EXCEPT ![w] = r]
        /\ (r.result = record[w].result \/ (record[w].result = NoResult /\ r.result = "withdrawn"))
    BY <1>3, <1>6 DEF Withdraw, Records, Ended
  <2>. HIDE DEF r
  <2>2. UNCHANGED <<inbox, turn>> /\ ResultsOf(record)[w] = record[w].result
    BY <1>3, <1>6 DEF Withdraw, sessions
  <2>. QED BY <2>1, <2>2, RecordMoves
<1>7. CASE Deliver(w)
  <2>. DEFINE r == [record[w] EXCEPT !.delivery = IF @ = "cancelled" THEN "cancelled" ELSE op[w]]
  <2>1. r \in Records /\ r.result = record[w].result /\ record' = [record EXCEPT ![w] = r]
    BY <1>3, <1>7 DEF Deliver, Records
  <2>. HIDE DEF r
  <2>2. UNCHANGED <<inbox, turn>> /\ r.result = ResultsOf(record)[w]
    BY <1>3, <1>7, <2>1 DEF Deliver, sessions
  <2>. QED BY <2>1, <2>2, RecordMoves
<1>8. CASE Fail(w)
  <2>. DEFINE r == [record[w] EXCEPT !.due = FALSE]
  <2>1. r \in Records /\ r.result = record[w].result /\ record' = [record EXCEPT ![w] = r]
    BY <1>3, <1>8 DEF Fail, Records
  <2>. HIDE DEF r
  <2>2. UNCHANGED <<inbox, turn>> /\ r.result = ResultsOf(record)[w]
    BY <1>3, <1>8, <2>1 DEF Fail, sessions
  <2>. QED BY <2>1, <2>2, RecordMoves
<1>. QED BY <1>1, <1>2, <1>4, <1>5, <1>6, <1>7, <1>8 DEF Operation

LEMMA WorkKeeps ==
  ASSUME DelegationInv, NEW w \in Works,
         OperationFails(w) \/ Elapse(w) \/ ChildEnds(w) \/ HostStops(w) \/ Submit(w) \/ StopWork(w)
  PROVE  Results1 \/ Quiet
<1>1. CASE OperationFails(w) \/ ChildEnds(w) \/ HostStops(w) \/ Submit(w) \/ StopWork(w)
  BY <1>1 DEF OperationFails, ChildEnds, HostStops, Submit, StopWork, sessions, Quiet, Closed, ResultsOf
<1>2. CASE Elapse(w)
  <2>1. record[w] # NoRecord /\ record[w] \in Records
    BY <1>2, RecordOf DEF Elapse
  <2>. DEFINE r == [record[w] EXCEPT !.due = TRUE]
  <2>2. r \in Records /\ r.result = record[w].result /\ record' = [record EXCEPT ![w] = r]
    BY <1>2, <2>1 DEF Elapse, Records
  <2>. HIDE DEF r
  <2>3. UNCHANGED <<inbox, turn>> /\ r.result = ResultsOf(record)[w]
    BY <1>2, <2>1, <2>2 DEF Elapse, sessions, ResultsOf
  <2>. QED BY <2>2, <2>3, RecordMoves
<1>. QED BY <1>1, <1>2

LEMMA CancelKeeps ==
  ASSUME DelegationInv, NEW w \in Works, NEW b \in BOOLEAN, Cancelling(w, b)
  PROVE  Results1 \/ Quiet
<1>1. CASE CancelList(w, b) \/ CancelStop(w, b) \/ CancelDone(w, b)
  BY <1>1 DEF CancelList, CancelStop, CancelDone, sessions, Quiet, Closed
<1>2. CASE CancelSave(w, b)
  <2>1. record[w] # NoRecord
    BY <1>2 DEF CancelSave, DelegationInv, RecordedFirst
  <2>2. record[w] \in Records
    BY <2>1, RecordOf
  <2>. DEFINE e == IF record[w].result = NoResult THEN "stopped" ELSE record[w].execution
              d == IF b /\ record[w].delivery # "delivered" THEN "cancelled" ELSE record[w].delivery
              r == [record[w] EXCEPT !.execution = e, !.delivery = d]
  <2>3. e \in {"pending", "running"} \cup Ended /\ d \in {"pending", "delivered", "cancelled", "saved"}
    BY <2>2 DEF Records, Ended
  <2>4. record' = [record EXCEPT ![w] = r]
    <3>1. record' = [record EXCEPT
             ![w] = [record[w] EXCEPT !.execution = IF record[w].result = NoResult THEN "stopped" ELSE @,
                                      !.delivery = IF b /\ @ # "delivered" THEN "cancelled" ELSE @]]
      BY <1>2 DEF CancelSave
    <3>. QED BY <2>2, <3>1 DEF Records
  <2>. HIDE DEF e, d
  <2>5. r \in Records /\ r.result = record[w].result
    BY <2>2, <2>3 DEF Records
  <2>. HIDE DEF r
  <2>6. UNCHANGED <<inbox, turn>> /\ r.result = ResultsOf(record)[w]
    BY <1>2, <2>1, <2>5 DEF CancelSave, sessions, ResultsOf
  <2>. QED BY <2>4, <2>5, <2>6, RecordMoves
<1>. QED BY <1>1, <1>2 DEF Cancelling

\* The Turn that asked ends its queue, its tool calls and its waits without a word to the files.
LEMMA AskingKeeps ==
  ASSUME DelegationInv, Asking
  PROVE  Told1 \/ Results1 \/ Quiet
<1>1. ASSUME NEW w \in Works, Create(w)
      PROVE  Quiet
  <2>1. UNCHANGED <<inbox, turn>>
    BY <1>1 DEF Create
  <2>2. ResultsOf(record') = ResultsOf(record)
    <3>1. CASE closed
      BY <1>1, <3>1 DEF Create
    <3>2. CASE ~closed
      <4>1. /\ record'[w] = IF record[w] = NoRecord THEN NewRecord ELSE record[w]
            /\ \A u \in Works : u # w => record'[u] = record[u]
        BY <1>1, <3>2 DEF Create, DelegationInv, TypeOK
      <4>2. NewRecord.result = NoResult
        BY DEF NewRecord
      <4>. QED BY <4>1, <4>2 DEF ResultsOf
    <3>. QED BY <3>1, <3>2
  <2>. QED BY <2>1, <2>2 DEF Quiet, Closed
<1>2. ASSUME NEW w \in Works, Submitted(w) \/ WaitJoin(w)
      PROVE  Quiet
  BY <1>2 DEF Submitted, WaitJoin, memory, Quiet, Closed
<1>3. ASSUME NEW w \in Works, Checkpoint(w)
      PROVE  Quiet
  <2>1. ToldOf(inbox') = ToldOf(inbox)
    BY <1>3 DEF Checkpoint, ToldOf, DelegationInv, TypeOK
  <2>. QED BY <1>3, <2>1 DEF Checkpoint, Quiet, Closed
<1>4. ASSUME NEW w \in Works, Store(w)
      PROVE  Told1 \/ Quiet
  <2>1. UNCHANGED <<record, turn>> /\ inbox[w] = "writing"
    BY <1>4 DEF Store
  <2>2. op[w] = "queued" /\ record[w] # NoRecord
    BY <2>1 DEF DelegationInv, TypeOK, AllOperated, Operated
  <2>3. ResultsOf(record)[w] # NoResult
    BY <2>2, RecordOf DEF Operated, ResultsOf
  <2>4. ~Closed
    BY <2>1 DEF DelegationInv, Closing, Closed
  <2>5. CASE inbox' = [inbox EXCEPT ![w] = "stored"]
    <3>1. ToldOf(inbox') = ToldOf(inbox) \cup {w}
      BY <2>5 DEF ToldOf, DelegationInv, TypeOK
    <3>. QED BY <2>1, <2>3, <2>4, <3>1 DEF Told1
  <2>6. CASE inbox' = [inbox EXCEPT ![w] = "none"]
    <3>1. ToldOf(inbox') = ToldOf(inbox)
      BY <2>1, <2>6 DEF ToldOf, DelegationInv, TypeOK
    <3>. QED BY <2>1, <3>1 DEF Quiet, Closed
  <2>. QED BY <1>4, <2>5, <2>6 DEF Store
<1>5. CASE ExecutorEnds \/ WaitList \/ InputWakes \/ TurnSucceeds \/ TurnFailed
  <2>1. UNCHANGED <<record, inbox>> /\ ~Closed
    BY <1>5 DEF ExecutorEnds, WaitList, InputWakes, TurnSucceeds, TurnFailed, Cancelled, Closed
  <2>. QED BY <2>1 DEF Quiet
<1>7. CASE CloseTurn \/ CancelChildren
  <2>1. UNCHANGED <<record, inbox>> /\ turn'.phase = turn.phase
    BY <1>7 DEF CloseTurn, CancelChildren, DelegationInv, TypeOK
  <2>. QED BY <2>1 DEF Quiet, Closed
<1>6. CASE WaitRelist
  <2>1. UNCHANGED record /\ ~Closed /\ inbox' \in {inbox, Rejected}
    BY <1>6 DEF WaitRelist, Closed
  <2>2. ToldOf(inbox') = ToldOf(inbox)
    BY <2>1 DEF ToldOf, Rejected
  <2>. QED BY <2>1, <2>2 DEF Quiet
<1>. QED BY <1>1, <1>2, <1>3, <1>4, <1>5, <1>6, <1>7 DEF Asking

LEMMA HostKeeps ==
  ASSUME DelegationInv,
         TurnFails \/ StopCancels \/ ClosingFails \/ TurnUnrecorded \/ TurnResumes \/ TimerFires \/ ScanEnd \/ Suspend \/ Resume \/ Crash
  PROVE  Quiet
<1>1. CASE TurnFails
  <2>1. ToldOf(inbox') = ToldOf(inbox)
    BY <1>1 DEF TurnFails, ToldOf, Rejected
  <2>. QED BY <1>1, <2>1 DEF TurnFails, Quiet, Closed
<1>2. CASE TurnResumes \/ TimerFires \/ ScanEnd \/ Suspend \/ Resume
  BY <1>2 DEF TurnResumes, TimerFires, ScanEnd, Suspend, Resume, sessions, Quiet, Closed
<1>3. CASE Crash
  <2>1. ToldOf(inbox') = ToldOf(inbox)
    BY <1>3 DEF Crash, ToldOf
  <2>2. Closed => Closed'
    BY <1>3 DEF Crash, Closed, DelegationInv, TypeOK
  <2>. QED BY <1>3, <2>1, <2>2 DEF Crash, Quiet
<1>4. CASE StopCancels \/ ClosingFails \/ TurnUnrecorded
  <2>1. UNCHANGED <<record, inbox>> /\ ~Closed
    BY <1>4 DEF StopCancels, ClosingFails, TurnUnrecorded, Cancelled, Closed
  <2>. QED BY <2>1 DEF Quiet
<1>. QED BY <1>1, <1>2, <1>3, <1>4

\* Every step gives a work its result, tells it to the Turn that goes on, closes that Turn, or none.
LEMMA PromiseStep ==
  ASSUME DelegationInv, [Next]_vars
  PROVE  [Promise!Next]_<<ResultsOf(record), ToldOf(inbox), ~Closed>>
<1>1. Told1 \/ Results1 \/ Quiet
  <2>1. CASE UNCHANGED vars
    BY <2>1 DEF vars, sessions, Quiet, Closed
  <2>. QED BY <2>1, OperationKeeps, WorkKeeps, CancelKeeps, AskingKeeps, HostKeeps DEF Next
<1>2. CASE Told1
  <2>1. PICK w \in Works : /\ ResultsOf(record)[w] # NoResult /\ inbox[w] = "writing"
                           /\ ToldOf(inbox') = ToldOf(inbox) \cup {w}
    BY <1>2 DEF Told1
  <2>2. Promise!Tell(w)
    BY <1>2, <2>1 DEF Told1, Promise!Tell, ResultsOf, ToldOf, Closed
  <2>. QED BY <2>2 DEF Promise!Next
<1>3. CASE Results1
  <2>1. PICK w \in Works, x \in Ended \cup {"withdrawn"} :
          ResultsOf(record)[w] = NoResult /\ ResultsOf(record') = [ResultsOf(record) EXCEPT ![w] = x]
    BY <1>3 DEF Results1
  <2>2. Promise!Finish(w, x)
    BY <1>3, <2>1 DEF Results1, Promise!Finish, ResultsOf, Closed
  <2>. QED BY <2>2 DEF Promise!Next
<1>4. CASE Quiet
  BY <1>4 DEF Quiet, Promise!Next, Promise!Close, ResultsOf, ToldOf
<1>. QED BY <1>1, <1>2, <1>3, <1>4

\* However often a work is retried, stopped, cancelled or found again after a restart, it has one
\* result, and the Turn that asked takes it at most once and while it goes on
\* (SessionDelegations.ts:331-520): delegations implement DelegatedWork.
THEOREM WorkKeepsPromise == Spec => KeepsPromise
<1>1. Init => Promise!Init
  BY DEF Init, Promise!Init, Closed
<1>2. DelegationInv /\ [Next]_vars => [Promise!Next]_<<ResultsOf(record), ToldOf(inbox), ~Closed>>
  BY PromiseStep
<1>. QED BY <1>1, <1>2, DelegationAlways, PTL DEF Spec, KeepsPromise, Promise!Spec, ResultsOf, ToldOf
=============================================================================
