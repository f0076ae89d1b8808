-------------------------- MODULE SessionInteractions --------------------------
(***************************************************************************)
(* Questions to the user: SessionInteractions.ts and the writes of         *)
(* SessionAgentMessageState.ts.  A tool asks and waits for a promise; the  *)
(* question is stored in the message of its tool first, and so is what     *)
(* becomes of it.  Answers and cancellations run one after the other in    *)
(* mutation_chain.  A step is the code between two awaits.                 *)
(***************************************************************************)
EXTENDS Integers, Sequences, FiniteSets

CONSTANTS
  Asks,        \* the questions, numbered in the order they are asked
  Stops,       \* the calls of stop
  MaxAnswers   \* how often users answer

ASSUME InteractionAssumption == Asks \subseteq Nat \ {0} /\ MaxAnswers \in Nat

VARIABLES
  private,   \* the questions for a password or a token
  pending,   \* pending_by_id
  message,   \* the status of each question in the canonical message
  result,    \* the promise of each question
  chain,     \* the operations in mutation_chain that have not ended; the first one runs
  receipts,  \* private_receipts
  stop,      \* how far each stop is
  answers,   \* how often users have answered
  accepted   \* history: the results that users were told

interactions == <<private, pending, message, result, chain, receipts, stop, answers, accepted>>

Outcomes == {"resolved", "denied"}

InitInteractions ==
  /\ private = {} /\ pending = {} /\ receipts = {} /\ chain = <<>>
  /\ message = [i \in Asks |-> "none"] /\ result = [i \in Asks |-> "none"]
  /\ stop = [s \in Stops |-> "none"] /\ answers = 0 /\ accepted = {}

-----------------------------------------------------------------------------
\* request: the question waits for an answer before it is stored.
Request(i) ==
  /\ i \in Asks \ pending /\ message[i] = "none" /\ result[i] = "none"
  /\ \A j \in Asks : j < i => message[j] # "none" \/ result[j] = "refused"
  /\ pending' = pending \cup {i}
  /\ private' \in {private, private \cup {i}}
  /\ UNCHANGED <<message, result, chain, receipts, stop, answers, accepted>>

\* request_interaction has stored it, or has not.
Requested(i) ==
  /\ message' = [message EXCEPT ![i] = "pending"]
  /\ UNCHANGED <<private, pending, result, chain, receipts, stop, answers, accepted>>
NotRequested(i) ==
  /\ pending' = pending \ {i}
  /\ result' = [result EXCEPT ![i] = "refused"]
  /\ UNCHANGED <<private, message, chain, receipts, stop, answers, accepted>>

-----------------------------------------------------------------------------
\* The operations.  An answer names a question, a cancellation a stop.

Operation(kind, id, outcome) ==
  [kind |-> kind, id |-> id, outcome |-> outcome, at |-> "queued", rest |-> {}, failed |-> FALSE]

\* respond and submit_private_question; users know the questions that were stored.
Answer(i) ==
  /\ answers < MaxAnswers /\ answers' = answers + 1
  /\ message[i] # "none"
  /\ \/ \E outcome \in Outcomes : chain' = Append(chain, Operation("respond", i, outcome))
     \/ chain' = Append(chain, Operation("submit", i, "resolved"))
  /\ UNCHANGED <<private, pending, message, result, receipts, stop, accepted>>

\* Mistake: an operation does not wait for the ones before it.
RunsAtOnce(k) == TRUE

Runs(k) == k = 1

Ends(k) == chain' = SubSeq(chain, 1, k - 1) \o SubSeq(chain, k + 1, Len(chain))
Told(i, outcome) == accepted' = accepted \cup {[id |-> i, outcome |-> outcome]}

\* An answer is refused, or repeats a receipt, or is to be stored.
BeginAnswer(k) ==
  LET op == chain[k] IN
  /\ op.kind \in {"respond", "submit"} /\ op.at = "queued"
  /\ IF op.kind = "submit" /\ op.id \in receipts THEN Ends(k) /\ Told(op.id, "resolved")
     ELSE IF /\ op.id \in pending /\ message[op.id] = "pending"
             /\ (op.kind = "submit") = (op.id \in private)
     THEN chain' = [chain EXCEPT ![k].at = "storing"] /\ UNCHANGED accepted
     ELSE Ends(k) /\ UNCHANGED accepted
  /\ UNCHANGED <<private, pending, message, result, receipts, stop, answers>>

\* resolve_interaction; the tool must be waiting for the user.
StoreAnswer(k) ==
  LET op == chain[k] IN
  /\ op.kind \in {"respond", "submit"} /\ op.at = "storing"
  /\ \/ /\ message[op.id] = "pending"
        /\ message' = [message EXCEPT ![op.id] = op.outcome]
        /\ chain' = [chain EXCEPT ![k].at = "stored"]
     \/ Ends(k) /\ UNCHANGED message
  /\ UNCHANGED <<private, pending, result, receipts, stop, answers, accepted>>

\* Mistake: only an answer resolves the promise of the tool.
FinishAnswered(i, outcome) ==
  /\ pending' = pending \ {i}
  /\ result' = IF i \in pending /\ outcome \in Outcomes THEN [result EXCEPT ![i] = outcome] ELSE result

\* finish_pending
Finish(i, outcome) ==
  /\ pending' = pending \ {i}
  /\ result' = IF i \in pending THEN [result EXCEPT ![i] = outcome] ELSE result

EndAnswer(k) ==
  LET op == chain[k] IN
  /\ op.kind \in {"respond", "submit"} /\ op.at = "stored"
  /\ Finish(op.id, op.outcome) /\ Ends(k) /\ Told(op.id, op.outcome)
  /\ receipts' = IF op.kind = "submit" THEN receipts \cup {op.id} ELSE receipts
  /\ UNCHANGED <<private, message, stop, answers>>

-----------------------------------------------------------------------------
\* stop and cancel_all

Stop(s) ==
  /\ stop[s] = "none" /\ stop' = [stop EXCEPT ![s] = "cancelling"]
  /\ chain' = Append(chain, Operation("cancel", s, "cancelled"))
  /\ UNCHANGED <<private, pending, message, result, receipts, answers, accepted>>

BeginCancel(k) ==
  /\ chain[k].kind = "cancel" /\ chain[k].at = "queued"
  /\ chain' = [chain EXCEPT ![k].at = "next", ![k].rest = pending]
  /\ UNCHANGED <<private, pending, message, result, receipts, stop, answers, accepted>>

First(asked) == CHOOSE i \in asked : \A j \in asked : i <= j

\* The questions in the order they were asked; one that is not stored as pending is an error.
CancelNext(k) ==
  LET op == chain[k]  i == First(op.rest) IN
  /\ op.kind = "cancel" /\ op.at = "next" /\ op.rest # {}
  /\ chain' = [chain EXCEPT ![k] = IF message[i] = "pending" THEN [op EXCEPT !.at = "storing"]
                                   ELSE [op EXCEPT !.rest = @ \ {i}, !.failed = TRUE]]
  /\ UNCHANGED <<private, pending, message, result, receipts, stop, answers, accepted>>

\* close_interaction, which does not look at the status again, and finish_pending.
StoreCancel(k) ==
  LET op == chain[k]  i == First(op.rest) IN
  /\ op.kind = "cancel" /\ op.at = "storing"
  /\ \/ /\ message' = [message EXCEPT ![i] = "cancelled"]
        /\ chain' = [chain EXCEPT ![k].at = "stored"]
     \/ chain' = [chain EXCEPT ![k].at = "next", ![k].rest = @ \ {i}, ![k].failed = TRUE] /\ UNCHANGED message
  /\ UNCHANGED <<private, pending, result, receipts, stop, answers, accepted>>

EndCancel(k) ==
  LET op == chain[k]  i == First(op.rest) IN
  /\ op.kind = "cancel" /\ op.at = "stored"
  /\ Finish(i, "cancelled")
  /\ chain' = [chain EXCEPT ![k].at = "next", ![k].rest = @ \ {i}]
  /\ UNCHANGED <<private, message, receipts, stop, answers, accepted>>

\* The stop waits for the end of the Turn, or throws the first error.
Cancelled(k) ==
  LET op == chain[k] IN
  /\ op.kind = "cancel" /\ op.at = "next" /\ op.rest = {}
  /\ Ends(k) /\ stop' = [stop EXCEPT ![op.id] = IF op.failed THEN "rejected" ELSE "waiting"]
  /\ UNCHANGED <<private, pending, message, result, receipts, answers, accepted>>

Operate ==
  \E k \in DOMAIN chain :
    /\ Runs(k)
    /\ \/ BeginAnswer(k) \/ StoreAnswer(k) \/ EndAnswer(k)
       \/ BeginCancel(k) \/ CancelNext(k) \/ StoreCancel(k) \/ EndCancel(k) \/ Cancelled(k)
===============================================================================
