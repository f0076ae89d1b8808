------------------------------ MODULE GroupSession ------------------------------
(***************************************************************************)
(* The dispatch of a Group: GroupSession.ts and GroupDispatchRuntime.ts.   *)
(* The messages that nobody has taken on yet are pending; one loop takes   *)
(* all of them, asks the strategy for members, lets them answer and puts   *)
(* their replies in the place of what it took.  Prompts come at any time,  *)
(* and so do stop and the end of the process.                              *)
(*                                                                         *)
(* pending and its copy on disk change only in mutations, which run one    *)
(* after the other; the loop, a prompt and a stop wait for theirs.  A      *)
(* step is the code between two awaits.                                    *)
(***************************************************************************)
EXTENDS Integers, Sequences, FiniteSets

CONSTANTS
  Prompts,       \* the messages of users, each given once
  Replies,       \* the ids of the messages of members, used again when nobody knows them
  Members,
  MaxRounds,     \* max_dispatch_rounds
  MaxFailures,   \* how often a write fails
  MaxCrashes     \* how often the process stops

ASSUME GroupAssumption ==
  /\ Prompts \cap Replies = {}
  /\ MaxRounds \in Nat \ {0} /\ MaxFailures \in Nat /\ MaxCrashes \in Nat

VARIABLES
  prompt,      \* how far each prompt is
  pending,     \* pending_message_ids
  checkpoint,  \* its copy on disk
  chain,       \* state_mutation_chain: the mutations that have not ended, the first one runs
  revision,    \* input_revision, and with it the input_generation of the dispatch runtime
  loop,        \* the loop: its await, the revision and the messages it has read, the rounds since
               \* the last user message, the mutations it waits for, the members chosen, its error
               \* and the replies of the round
  delivery,    \* how far each member of the round is
  stop,        \* a stop: its await, and the mutations it waits for
  up,          \* the process runs
  failures, crashes,
  outcome      \* history: what became of each prompt

memory == <<pending, chain, revision, loop, delivery, stop, up>>
vars == <<prompt, memory, checkpoint, failures, crashes, outcome>>

Messages == Prompts \cup Replies
NoLoop == [at |-> "none", revision |-> 0, batch |-> {}, rounds |-> 0, wait |-> 0, chosen |-> {},
           error |-> "none", outputs |-> {}]
NoStop == [at |-> "none", wait |-> 0]
Quiet  == [m \in Members |-> "none"]

Init ==
  /\ prompt = [p \in Prompts |-> "new"] /\ outcome = [p \in Prompts |-> "open"]
  /\ pending = {} /\ checkpoint = {} /\ chain = <<>> /\ revision = 0
  /\ loop = NoLoop /\ delivery = Quiet /\ stop = NoStop /\ up = TRUE
  /\ failures = 0 /\ crashes = 0

stop_requested == stop.at # "none"
Fails == failures < MaxFailures /\ failures' = failures + 1
Works == UNCHANGED failures

-----------------------------------------------------------------------------
\* The loop of the code is started when there is none; it first waits for what is being saved.
Started == [NoLoop EXCEPT !.at = "waiting", !.wait = Len(chain)]

request_dispatch ==
  loop' = IF stop_requested \/ loop.at # "none" THEN loop ELSE Started

Prompt(p) ==
  /\ up /\ prompt[p] = "new" /\ ~stop_requested
  /\ revision' = revision + 1
  /\ chain' = Append(chain, [kind |-> "prompt", adds |-> {p}, drops |-> {}, at |-> "append"])
  /\ prompt' = [prompt EXCEPT ![p] = "saving"]
  /\ UNCHANGED <<pending, checkpoint, loop, delivery, stop, up, failures, crashes, outcome>>

\* prompt goes on when its message is saved.
PromptReturns(p) ==
  /\ prompt[p] = "saved"
  /\ request_dispatch
  /\ prompt' = [prompt EXCEPT ![p] = "returned"]
  /\ UNCHANGED <<pending, chain, revision, delivery, stop, up, checkpoint, failures, crashes, outcome>>

-----------------------------------------------------------------------------
\* The mutations.

Running(at) == chain # <<>> /\ Head(chain).at = at

\* Mistake: who waits for nothing waits for one less as well.
LessBelow(n) == n - 1

\* The mutation at the head ends; whoever waits for mutations waits for one less.
Less(n) == IF n = 0 THEN 0 ELSE n - 1
MutationEnds(ok) ==
  LET kind == Head(chain).kind IN
  /\ chain' = Tail(chain)
  /\ prompt' = [p \in Prompts |->
       IF kind = "prompt" /\ p \in Head(chain).adds THEN IF ok THEN "saved" ELSE "failed" ELSE prompt[p]]
  /\ loop' = [loop EXCEPT !.wait = Less(@), !.at =
       IF kind # "handover" THEN @
       ELSE IF @ = "handing" THEN IF ok THEN "handed" ELSE "caught"
       ELSE IF ok THEN "dropped" ELSE "rejected",
       !.error = IF kind = "handover" /\ ~ok THEN "failed" ELSE @]
  /\ stop' = [stop EXCEPT !.wait = Less(@), !.at =
       IF kind # "clear" THEN @ ELSE IF ok THEN "cleared" ELSE "unsaved"]

\* The message of a prompt is stored and becomes pending, or cannot be stored.
AppendMessage ==
  /\ Running("append")
  /\ \/ /\ Works
        /\ pending' = pending \cup Head(chain).adds
        /\ chain' = [chain EXCEPT ![1].at = "persist"]
        /\ UNCHANGED <<prompt, loop, stop>>
     \/ Fails /\ MutationEnds(FALSE) /\ UNCHANGED pending
  /\ UNCHANGED <<checkpoint, revision, delivery, up, crashes, outcome>>

\* Mistake: what came during the round goes with what the round has taken.
HandoverForgets(m) == m.adds

\* A handover of the loop; a stop drops everything.
Handover(m) == IF m.kind = "clear" THEN {} ELSE (pending \ m.drops) \cup m.adds

BeginMutation ==
  /\ Running("begin")
  /\ pending' = Handover(Head(chain))
  /\ chain' = [chain EXCEPT ![1].at = "persist"]
  /\ outcome' = [p \in Prompts |->
       IF outcome[p] # "open" \/ p \notin pending THEN outcome[p]
       ELSE IF Head(chain).kind = "clear" THEN "dropped"
       ELSE IF p \in Head(chain).drops THEN "handled" ELSE "open"]
  /\ UNCHANGED <<prompt, checkpoint, revision, loop, delivery, stop, up, failures, crashes>>

\* persist_dispatch_checkpoint
Persist ==
  /\ Running("persist")
  /\ \/ /\ Works /\ checkpoint' = pending /\ MutationEnds(TRUE)
        /\ outcome' = [p \in Prompts |->
             IF Head(chain).kind = "clear" /\ prompt[p] # "new" THEN "stopped" ELSE outcome[p]]
     \/ Fails /\ MutationEnds(FALSE) /\ UNCHANGED <<checkpoint, outcome>>
  /\ UNCHANGED <<pending, revision, delivery, up, crashes>>

Mutation == AppendMessage \/ BeginMutation \/ Persist

-----------------------------------------------------------------------------
\* run_dispatch_loop: what it reads, and what the dispatch runtime does with it.

\* The loop alone moves, and has not written anything.
LoopMoves(next) ==
  /\ loop' = next
  /\ UNCHANGED <<prompt, pending, chain, revision, stop, up, checkpoint, crashes, outcome>>
At(at) == [loop EXCEPT !.at = at]
Throw(at, error) == [loop EXCEPT !.at = at, !.error = error]
Returned == [NoLoop EXCEPT !.at = "returned"]
Again == IF stop_requested THEN Returned ELSE [Started EXCEPT !.rounds = loop.rounds]

\* New input, or a stop, has made the decision pointless.
Superseded == revision # loop.revision
Aborted == Superseded \/ stop_requested
Reason == IF stop_requested THEN "stopped" ELSE IF Superseded THEN "superseded" ELSE "failed"

\* Messages of users start the count of rounds anew.
Read ==
  /\ loop.at = "waiting" /\ loop.wait = 0
  /\ LoopMoves(IF stop_requested \/ pending = {} THEN Returned
               ELSE [loop EXCEPT !.at = "queueing", !.revision = revision, !.batch = pending,
                                 !.rounds = IF pending \cap Prompts # {} THEN 0 ELSE @])
  /\ UNCHANGED <<delivery, failures>>

\* The record of the dispatch is written as queued, running, completed or as what ended it; the
\* answer of a write finds the dispatch aborted or not.
Queue ==
  /\ loop.at = "queueing"
  /\ \/ Works /\ LoopMoves(IF Aborted THEN Throw("ending", Reason) ELSE At("starting"))
     \/ Fails /\ LoopMoves(Throw("caught", "failed"))
  /\ UNCHANGED delivery

Start ==
  /\ loop.at = "starting"
  /\ \/ Works /\ LoopMoves(IF Aborted THEN Throw("ending", Reason) ELSE At("deciding"))
     \/ Fails /\ LoopMoves(Throw("caught", "failed"))
  /\ UNCHANGED delivery

\* The strategy answers with members, or throws.
Decide ==
  /\ loop.at = "deciding"
  /\ \/ LoopMoves(Throw("ending", Reason))
     \/ ~Aborted /\ \E members \in SUBSET Members :
          LoopMoves([loop EXCEPT !.at = "recording", !.chosen = members])
  /\ UNCHANGED <<delivery, failures>>

Record ==
  /\ loop.at = "recording"
  /\ \/ Works /\ LoopMoves(IF Aborted THEN Throw("ending", Reason)
                           ELSE [loop EXCEPT !.at = "settling", !.wait = Len(chain)])
     \/ Fails /\ LoopMoves(Throw("ending", Reason))
  /\ UNCHANGED delivery

End ==
  /\ loop.at = "ending"
  /\ \/ Works /\ LoopMoves(At("caught"))
     \/ Fails /\ LoopMoves(Throw("caught", "failed"))
  /\ UNCHANGED delivery

-----------------------------------------------------------------------------
\* run_dispatch_loop: the round.

\* Mistake: the rounds are not counted.
RoundUncounted(n) == n

RoundAfter(n) == n + 1

\* A decision that is not outdated starts a round, unless members have talked to each other for
\* too long or are about to repeat themselves; whether they are is left open.
Settle ==
  /\ loop.at = "settling" /\ loop.wait = 0
  /\ \/ stop_requested /\ LoopMoves(Returned) /\ UNCHANGED delivery
     \/ ~stop_requested /\ Superseded /\ LoopMoves(Again) /\ UNCHANGED delivery
     \/ /\ ~Aborted /\ loop.chosen # {} /\ loop.rounds > 0
        /\ LoopMoves(At("limiting")) /\ UNCHANGED delivery
     \/ /\ ~Aborted /\ (loop.chosen = {} \/ loop.rounds < MaxRounds)
        /\ LoopMoves([loop EXCEPT !.at = "preparing", !.rounds = RoundAfter(@), !.outputs = {}])
        /\ \E created \in SUBSET loop.chosen :
             delivery' = [m \in Members |-> IF m \notin loop.chosen THEN "none"
                            ELSE IF m \in created THEN "prompting" ELSE "creating"]
  /\ UNCHANGED failures

\* The loop queues a handover of its messages for what is to be pending instead.
HandOver(at, adds) ==
  /\ loop' = [loop EXCEPT !.at = at, !.chosen = {}, !.outputs = {}]
  /\ chain' = Append(chain, [kind |-> "handover", adds |-> adds, drops |-> loop.batch, at |-> "begin"])
  /\ UNCHANGED <<prompt, pending, revision, stop, up, checkpoint, crashes, outcome>>

Limit ==
  /\ loop.at = "limiting"
  /\ \/ Works /\ HandOver("handing", {})
     \/ Fails /\ LoopMoves(Throw("caught", "failed"))
  /\ UNCHANGED delivery

\* All members have been prompted, or could not be.
Prepared ==
  /\ loop.at = "preparing" /\ \A m \in Members : delivery[m] \in {"none", "prepared", "done"}
  /\ delivery' = [m \in Members |-> IF delivery[m] = "prepared" THEN "running" ELSE delivery[m]]
  /\ LoopMoves(At("executing"))
  /\ UNCHANGED failures

\* All of them are done.
RoundEnds ==
  /\ loop.at = "executing" /\ \A m \in Members : delivery[m] \in {"none", "done"}
  /\ delivery' = Quiet
  /\ IF stop_requested THEN LoopMoves(Returned) ELSE HandOver("handing", loop.outputs)
  /\ UNCHANGED failures

HandedOver ==
  /\ loop.at = "handed" /\ LoopMoves(Again)
  /\ UNCHANGED <<delivery, failures>>

\* The catch of the loop.  A failure is reported, and what caused it is not tried again.
Catch ==
  /\ loop.at = "caught"
  /\ LoopMoves(IF stop_requested \/ loop.error = "stopped" THEN Returned
               ELSE IF loop.error = "superseded" \/ Superseded THEN Again
               ELSE At("complaining"))
  /\ UNCHANGED <<delivery, failures>>

Complain ==
  /\ loop.at = "complaining"
  /\ \/ Works /\ HandOver("dropping", {})
     \/ Fails /\ LoopMoves([NoLoop EXCEPT !.at = "rejected"])
  /\ UNCHANGED delivery

Dropped ==
  /\ loop.at = "dropped"
  /\ LoopMoves(IF pending = {} THEN Returned ELSE Again)
  /\ UNCHANGED <<delivery, failures>>

\* Mistake: what became pending while the loop was returning waits for the next prompt.
LoopForgets ==
  /\ loop.at \in {"returned", "rejected"} /\ LoopMoves(NoLoop)
  /\ UNCHANGED <<delivery, failures>>

\* A loop that has returned is followed by another if there is something to do.
LoopEnds ==
  /\ loop.at \in {"returned", "rejected"}
  /\ LoopMoves(IF loop.at = "returned" /\ pending # {} /\ ~stop_requested THEN Started ELSE NoLoop)
  /\ UNCHANGED <<delivery, failures>>

-----------------------------------------------------------------------------
\* One member of a round.

DeliveryMoves(m, at) ==
  /\ delivery' = [delivery EXCEPT ![m] = at]
  /\ UNCHANGED <<prompt, pending, chain, revision, stop, up, checkpoint, crashes, outcome>>

\* append_member_failure: nothing is reported any more when a stop has been requested.
Report(m) == DeliveryMoves(m, IF stop_requested THEN "done" ELSE "reporting")

\* The Session of the member is created, and prompted unless a stop came first.
CreateSession(m) ==
  /\ delivery[m] = "creating"
  /\ Report(m) \/ (~stop_requested /\ DeliveryMoves(m, "prompting"))
  /\ UNCHANGED <<loop, failures>>

PromptMember(m) ==
  /\ delivery[m] = "prompting"
  /\ Report(m) \/ DeliveryMoves(m, "prepared")
  /\ UNCHANGED <<loop, failures>>

\* The Turn of the member ends, with a text or without; a stop of its Session ends it too.
TurnEnds(m) ==
  /\ delivery[m] = "running"
  /\ Report(m) \/ (~stop_requested /\ DeliveryMoves(m, "replying"))
  /\ UNCHANGED <<loop, failures>>

Known == pending \cup checkpoint \cup loop.batch \cup loop.outputs \cup UNION {chain[i].adds : i \in DOMAIN chain}
FreshReply == CHOOSE r \in Replies \ Known : TRUE

Reply(m) ==
  /\ delivery[m] = "replying" /\ Replies \ Known # {}
  /\ \/ Works /\ DeliveryMoves(m, "done") /\ loop' = [loop EXCEPT !.outputs = @ \cup {FreshReply}]
     \/ Fails /\ Report(m) /\ UNCHANGED loop

\* A report that cannot be stored ends the round; nobody waits for the other members any more, and
\* what they still write is history.
ReportFailure(m) ==
  /\ delivery[m] = "reporting"
  /\ \/ Works /\ DeliveryMoves(m, "done") /\ UNCHANGED loop
     \/ Fails /\ delivery' = Quiet /\ LoopMoves(Throw("caught", "failed"))

Delivery(m) == CreateSession(m) \/ PromptMember(m) \/ TurnEnds(m) \/ Reply(m) \/ ReportFailure(m)

-----------------------------------------------------------------------------
\* stop_dispatch

StopMoves(next) ==
  /\ stop' = next
  /\ UNCHANGED <<prompt, pending, revision, loop, delivery, up, checkpoint, failures, crashes, outcome>>

Stop ==
  /\ up /\ ~stop_requested
  /\ StopMoves([at |-> "cancelling", wait |-> 0])
  /\ UNCHANGED chain

\* The decision, if there is one, has ended, and the Sessions of the members have stopped.
Cancelled ==
  /\ stop.at = "cancelling"
  /\ loop.at \notin {"queueing", "starting", "deciding", "recording", "ending"}
  /\ StopMoves([at |-> "draining", wait |-> Len(chain)])
  /\ UNCHANGED chain

\* Mistake: the loop is left to find out by itself.
JoinedNothing == TRUE

\* The loop has ended.
Joined == loop.at = "none"

Clear ==
  /\ stop.at = "draining" /\ stop.wait = 0 /\ Joined
  /\ StopMoves([at |-> "clearing", wait |-> 0])
  /\ chain' = Append(chain, [kind |-> "clear", adds |-> {}, drops |-> {}, at |-> "begin"])

\* stop returns, or throws when the empty checkpoint could not be saved.
StopReturns ==
  /\ stop.at \in {"cleared", "unsaved"}
  /\ StopMoves(NoStop)
  /\ UNCHANGED chain

-----------------------------------------------------------------------------
\* The process stops; what is on disk is all that is left.
Crash ==
  /\ up /\ crashes < MaxCrashes /\ crashes' = crashes + 1
  /\ up' = FALSE /\ pending' = {} /\ chain' = <<>> /\ revision' = 0
  /\ loop' = NoLoop /\ delivery' = Quiet /\ stop' = NoStop
  /\ prompt' = [p \in Prompts |-> IF prompt[p] \in {"saving", "saved"} THEN "failed" ELSE prompt[p]]
  /\ UNCHANGED <<checkpoint, failures, outcome>>

\* initialize
Restore ==
  /\ ~up /\ up' = TRUE
  /\ pending' = checkpoint
  /\ loop' = IF checkpoint # {} THEN Started ELSE NoLoop
  /\ UNCHANGED <<prompt, chain, revision, delivery, stop, checkpoint, failures, crashes, outcome>>

LoopStep ==
  \/ Read \/ Queue \/ Start \/ Decide \/ Record \/ End
  \/ Settle \/ Limit \/ Prepared \/ RoundEnds \/ HandedOver \/ Catch \/ Complain \/ Dropped \/ LoopEnds
StopStep == Cancelled \/ Clear \/ StopReturns

Next ==
  \/ \E p \in Prompts : Prompt(p) \/ PromptReturns(p)
  \/ Mutation \/ LoopStep
  \/ \E m \in Members : Delivery(m)
  \/ Stop \/ StopStep \/ Crash \/ Restore

Spec == Init /\ [][Next]_vars

\* Code goes on, strategies and members answer, and a Group that stopped is opened again.
Fairness ==
  /\ \A p \in Prompts : WF_vars(PromptReturns(p))
  /\ WF_vars(Mutation) /\ WF_vars(LoopStep) /\ WF_vars(StopStep) /\ WF_vars(Restore)
  /\ \A m \in Members : WF_vars(Delivery(m))
FairSpec == Spec /\ Fairness

-----------------------------------------------------------------------------
LoopAwaits ==
  {"none", "waiting", "queueing", "starting", "deciding", "recording", "ending", "settling", "limiting",
   "preparing", "executing", "handing", "handed", "caught", "complaining", "dropping", "dropped",
   "returned", "rejected"}

\* Every variable keeps the shape its field has.
TypeOK ==
  /\ prompt \in [Prompts -> {"new", "saving", "saved", "returned", "failed"}]
  /\ pending \subseteq Messages /\ checkpoint \subseteq Messages
  /\ chain \in Seq([kind : {"prompt", "handover", "clear"}, adds : SUBSET Messages,
                    drops : SUBSET Messages, at : {"append", "begin", "persist"}])
  /\ revision \in Nat
  /\ loop \in [at : LoopAwaits, revision : Nat, batch : SUBSET Messages, rounds : 0..MaxRounds + 1,
               wait : Nat, chosen : SUBSET Members,
               error : {"none", "failed", "stopped", "superseded"}, outputs : SUBSET Replies]
  /\ delivery \in [Members -> {"none", "creating", "prompting", "prepared", "running", "replying",
                               "reporting", "done"}]
  /\ stop \in [at : {"none", "cancelling", "draining", "clearing", "cleared", "unsaved"}, wait : Nat]
  /\ up \in BOOLEAN /\ failures \in 0..MaxFailures /\ crashes \in 0..MaxCrashes
  /\ outcome \in [Prompts -> {"open", "handled", "dropped", "stopped"}]

\* A prompt that has returned is on disk until a round that knew it has ended, its failure was
\* reported, or a stop came (GroupSession.ts:348, :633): no handover takes away what came after the
\* loop had read its messages, and no crash loses it.
NothingLost ==
  \A p \in Prompts : prompt[p] = "returned" /\ outcome[p] = "open" => p \in checkpoint

\* What a stop that has returned found is over: no loop works on it, and no restart brings it back
\* (GroupSession.ts:227, :242).
NothingAfterStop ==
  \A p \in Prompts : outcome[p] = "stopped" => p \notin pending \cup checkpoint \cup loop.batch

\* The round that starts knows all the input there is: a decision is not executed when a newer
\* message is still being saved (GroupSession.ts:316).
RoundKnowsAll ==
  [][loop.at = "settling" /\ loop'.at = "preparing" =>
       \A p \in Prompts : prompt[p] \in {"saving", "saved", "returned"} /\ outcome[p] = "open" =>
         p \in loop.batch]_vars

\* A prompt that has returned is handled or stopped, unless a write has failed: then the code waits
\* for the next prompt or a restart (GroupSession.ts:282).
EventuallyHandled ==
  \A p \in Prompts : prompt[p] = "returned" ~> outcome[p] # "open" \/ failures > 0

\* The Group comes to rest, however the members answer each other, and every stop returns
\* (max_dispatch_rounds, GroupSession.ts:323; stop, :228).
EventuallyAtRest == []<>(loop.at = "none" /\ ~stop_requested)
===============================================================================
