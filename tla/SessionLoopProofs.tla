------------------------- MODULE SessionLoopProofs --------------------------
(***************************************************************************)
(* Theorems about SessionLoop, for any calls, actors, faults and number of *)
(* crashes.  TypeOK and OccupationConsistent are not inductive alone: a    *)
(* command must be bound to a Turn while it is queued, the loop must own   *)
(* the active Turn from the prompt to the end, and a stop that fails a     *)
(* recovered Turn must be alone with it.  IInv adds these facts.           *)
(***************************************************************************)
EXTENDS SessionLoop, SessionQueueProofs

-----------------------------------------------------------------------------
\* The strengthening.

\* A caller that is not admitted holds no lease, and there is none before initialization.
UnleasedBeforeAdmission ==
  /\ \A c \in Calls : pc[c] \in {"idle", "reading", "waiting"} => holder[c] = NoActor
  /\ ~initialized => \A l \in Leases : holder[l] = NoActor

\* From the prompt that starts a Turn to its end the loop has an active Turn, and what it is
\* about to record or to settle is a status.
LoopOwnsTurn ==
  /\ phase \in TurnPhases => active_turn \in Keys
  /\ phase = "persist" => current \in Calls
  /\ phase = "maintenance" => current \in Maintenance
  /\ phase = "sealing" => seal \in Statuses
  /\ phase = "finishing" => journal[active_turn] \in Statuses

\* Every prompt in the queue, in a drained batch or about to start a Turn is bound.
Bound(c) == c \in Calls => command[c].turn \in Keys /\ command[c].from \in Actors

QueueBound == \A i \in DOMAIN queue : Bound(queue[i])

CommandsBound ==
  /\ QueueBound
  /\ \A i \in DOMAIN drained : Bound(drained[i])
  /\ phase = "persist" => Bound(current)

\* While stop fails a recovered Turn no other Turn runs or can start.
StopOwnsRecovery ==
  \A s \in Stoppers : stop_pc[s] = "recovering" =>
    /\ closing /\ active_turn \in Keys /\ phase \notin TurnPhases
    /\ \A i \in DOMAIN queue : queue[i] \notin Calls
    /\ \A c \in Calls : pc[c] # "woken"

\* What the history lists is stored.
HistoryStored == \A i \in DOMAIN history : message[history[i]] # NoMessage

IInv ==
  /\ TypeOK /\ OccupationConsistent /\ UnleasedBeforeAdmission /\ HistoryStored
  /\ LoopOwnsTurn /\ CommandsBound /\ StopOwnsRecovery

-----------------------------------------------------------------------------
\* The occupation.

\* The occupation variables as TypeOK types them.
OccupationTypes ==
  /\ owner \in Actors \cup {NoActor} /\ references \in Nat
  /\ holder \in [Leases -> Actors \cup {NoActor}]

\* There are finitely many leases, the recovery one among them.
LEMMA LeasesFinite ==
  IsFiniteSet(Leases) /\ Recovery \in Leases /\ Calls \subseteq Leases
<1>1. IsFiniteSet(Calls)
  BY LoopAssumption
<1> QED
  BY <1>1, FS_AddElement DEF Leases

\* Any set of leases has a number of elements.
LEMMA LeasesCounted ==
  ASSUME NEW S \in SUBSET Leases
  PROVE  IsFiniteSet(S) /\ Cardinality(S) \in Nat
BY LeasesFinite, FS_Subset, FS_CardinalityType

\* acquire adds one reference for a lease that is not held.
LEMMA AcquireKeeps ==
  ASSUME OccupationTypes, OccupationConsistent, NEW l \in Leases, NEW a \in Actors,
         holder[l] = NoActor, CanAcquire(a), Acquire(l, a)
  PROVE  /\ OccupationTypes' /\ OccupationConsistent'
         /\ \A k \in Leases \ {l} : holder'[k] = holder[k]
<1> DEFINE H == {k \in Leases : holder[k] # NoActor}
<1>1. NoActor \notin Actors
  BY LoopAssumption
<1>2. /\ owner' = a /\ references' = references + 1
      /\ holder' = [holder EXCEPT ![l] = a]
      /\ owner \in {NoActor, a}
  BY DEF Acquire, CanAcquire
<1>3. /\ references \in Nat /\ holder \in [Leases -> Actors \cup {NoActor}]
      /\ references = Cardinality(H)
      /\ \A k \in Leases : holder[k] \in {NoActor, owner}
  BY DEF OccupationTypes, OccupationConsistent
<1>4. {k \in Leases : holder'[k] # NoActor} = H \cup {l} /\ l \notin H
  BY <1>1, <1>2, <1>3
<1>5. IsFiniteSet(H)
  BY LeasesCounted
<1>6. Cardinality(H \cup {l}) = Cardinality(H) + 1
  BY <1>4, <1>5, FS_AddElement
<1>7. references' = Cardinality({k \in Leases : holder'[k] # NoActor}) /\ references' # 0
  BY <1>2, <1>3, <1>4, <1>6
<1>8. \A k \in Leases : holder'[k] \in {NoActor, owner'}
  BY <1>2, <1>3
<1>9. OccupationConsistent'
  BY <1>1, <1>2, <1>7, <1>8 DEF OccupationConsistent
<1> QED
  BY <1>2, <1>3, <1>9 DEF OccupationTypes

\* A set of releases takes back exactly the leases of the set that are held.
LEMMA ReleaseKeeps ==
  ASSUME OccupationTypes, OccupationConsistent, NEW S \in SUBSET Leases, Release(S)
  PROVE  /\ OccupationTypes' /\ OccupationConsistent'
         /\ \A k \in Leases : holder'[k] = IF k \in S THEN NoActor ELSE holder[k]
<1> DEFINE H == {k \in Leases : holder[k] # NoActor}
           R == {l \in S : holder[l] # NoActor}
<1>1. /\ references' = references - Cardinality(R)
      /\ owner' = IF references' = 0 THEN NoActor ELSE owner
      /\ holder' = [l \in Leases |-> IF l \in R THEN NoActor ELSE holder[l]]
  BY DEF Release
<1>2. /\ owner \in Actors \cup {NoActor} /\ references \in Nat
      /\ holder \in [Leases -> Actors \cup {NoActor}]
      /\ references = Cardinality(H)
      /\ references = 0 <=> owner = NoActor
      /\ \A k \in Leases : holder[k] \in {NoActor, owner}
  BY DEF OccupationTypes, OccupationConsistent
<1>3. R \subseteq H /\ H \subseteq Leases
  OBVIOUS
<1>4. \A k \in Leases : holder'[k] = IF k \in S THEN NoActor ELSE holder[k]
  BY <1>1
<1>5. {k \in Leases : holder'[k] # NoActor} = H \ R
  BY <1>1, <1>3
<1>6. IsFiniteSet(H) /\ Cardinality(H) \in Nat /\ IsFiniteSet(H \ R) /\ Cardinality(H \ R) \in Nat
      /\ IsFiniteSet(R) /\ Cardinality(R) \in Nat
  BY <1>3, LeasesCounted
<1>7. Cardinality(H) = Cardinality(H \ R) + Cardinality(R)
  <2>1. H = (H \ R) \cup R /\ (H \ R) \cap R = {}
    BY <1>3
  <2>2. Cardinality((H \ R) \cap R) = 0
    BY <2>1, FS_EmptySet
  <2>3. Cardinality((H \ R) \cup R)
          = Cardinality(H \ R) + Cardinality(R) - Cardinality((H \ R) \cap R)
    BY <1>6, FS_Union
  <2> QED
    BY <1>6, <2>1, <2>2, <2>3
<1> HIDE DEF H, R
<1>8. references' = Cardinality(H \ R) /\ references' \in Nat
  BY <1>1, <1>2, <1>6, <1>7
<1>9. references' = 0 <=> H \ R = {}
  BY <1>6, <1>8, FS_EmptySet
<1>10. \A k \in Leases : holder'[k] \in {NoActor, owner'}
  BY <1>1, <1>2, <1>5, <1>9
<1>11. references' = 0 <=> owner' = NoActor
  BY <1>1, <1>2, <1>6, <1>7, <1>8
<1>12. OccupationConsistent'
  BY <1>5, <1>8, <1>10, <1>11 DEF OccupationConsistent
<1> QED
  BY <1>1, <1>2, <1>4, <1>8, <1>12 DEF OccupationTypes

\* What a step does to the leases unless it admits a call.
LeasesOnlyEnd ==
  /\ OccupationTypes' /\ OccupationConsistent'
  /\ \A l \in Leases : holder'[l] \in {NoActor, holder[l]}

LEMMA OccupationTyped == TypeOK => OccupationTypes
BY DEF TypeOK, OccupationTypes

LEMMA OccupationUnchanged ==
  ASSUME TypeOK, OccupationConsistent, UNCHANGED occupation
  PROVE  LeasesOnlyEnd
BY DEF TypeOK, OccupationTypes, OccupationConsistent, LeasesOnlyEnd, occupation

LEMMA ReleaseOnlyEnds ==
  ASSUME TypeOK, OccupationConsistent, NEW S \in SUBSET Leases, Release(S)
  PROVE  LeasesOnlyEnd
BY OccupationTyped, ReleaseKeeps DEF LeasesOnlyEnd

\* The catch of a submission keeps a lease for the Turn or ends it.
LEMMA RejectedLeasesKeep ==
  ASSUME TypeOK, OccupationConsistent, NEW S \in SUBSET Calls, NEW b \in BOOLEAN,
         RejectedLeases(S, b)
  PROVE  LeasesOnlyEnd /\ on_finish' \subseteq Leases
<1>1. Leased(S) \in SUBSET Leases /\ on_finish \subseteq Leases
  BY LeasesFinite DEF Leased, TypeOK
<1>2. CASE b
  BY <1>1, <1>2, OccupationUnchanged DEF RejectedLeases
<1>3. CASE ~b
  BY <1>1, <1>3, ReleaseOnlyEnds DEF RejectedLeases
<1> QED
  BY <1>2, <1>3

\* No step but an admission can break the rule about calls that are not admitted.
LEMMA UnleasedKeeps ==
  ASSUME UnleasedBeforeAdmission, LeasesOnlyEnd, initialized' = initialized,
         \A c \in Calls : pc'[c] \in {"idle", "reading", "waiting"}
                            => pc[c] \in {"idle", "reading", "waiting"}
  PROVE  UnleasedBeforeAdmission'
BY LeasesFinite DEF UnleasedBeforeAdmission, LeasesOnlyEnd

-----------------------------------------------------------------------------
\* The queue and the calls.

LEMMA SharingCalls ==
  ASSUME NEW c \in Calls
  PROVE  Sharing(c) \in SUBSET Calls
BY DEF Sharing

LEMMA CancelledAreCalls == CancelledCalls \in SUBSET Calls
BY SharingCalls DEF CancelledCalls, Cancelled, PositionsOf

\* The counter of prompts never leaves the natural numbers.
LEMMA CountTyped ==
  ASSUME TypeOK
  PROVE  CountWithout(1) \in Nat /\ CountWithout(Cardinality(Cancelled(queue, Calls))) \in Nat
<1>1. IsFiniteSet(Calls) /\ Cancelled(queue, Calls) \in SUBSET Calls
  BY LoopAssumption DEF Cancelled, PositionsOf
<1>2. Cardinality(Cancelled(queue, Calls)) \in Nat
  BY <1>1, FS_Subset, FS_CardinalityType
<1> QED
  BY <1>2 DEF CountWithout, TypeOK

\* cancel leaves no prompt behind.
LEMMA CancelKeeps ==
  ASSUME TypeOK, CancelQueuedPrompts
  PROVE  /\ queue' \in Seq(Commands) /\ pending_prompt_count' \in Nat
         /\ \A i \in DOMAIN queue' : queue'[i] \notin Calls
<1>1. queue \in Seq(Commands) /\ queue' = AfterCancel(queue, Calls)
  BY DEF TypeOK, CancelQueuedPrompts
<1> QED
  BY <1>1, AfterCancelType, CountTyped DEF CancelQueuedPrompts

-----------------------------------------------------------------------------
\* The steps of the submission.

\* Everything of IInv but the occupation and the types.
Rest == HistoryStored /\ LoopOwnsTurn /\ CommandsBound /\ StopOwnsRecovery

LEMMA InitializeOccupationStep == ASSUME IInv, InitializeOccupation PROVE IInv'
<1> DEFINE latest == message[history[Len(history)]]
           owed == history # <<>> /\ journal[latest.turn] = "none"
<1>1. owed => latest.turn \in Keys /\ latest.from \in Actors
  <2> SUFFICES ASSUME history # <<>> PROVE latest.turn \in Keys /\ latest.from \in Actors
    OBVIOUS
  <2>1. Len(history) \in DOMAIN history
    BY DEF IInv, TypeOK
  <2> QED
    BY <2>1 DEF IInv, TypeOK, HistoryStored
<1>2. /\ OccupationTypes' /\ OccupationConsistent'
      /\ \A k \in Calls : holder'[k] = holder[k]
  <2>1. CASE owed
    <3>1. \A l \in Leases : holder[l] = NoActor
      BY DEF IInv, UnleasedBeforeAdmission, InitializeOccupation
    <3>2. {l \in Leases : holder[l] # NoActor} = {}
      BY <3>1
    <3>3. owner = NoActor
      BY <3>2, FS_EmptySet DEF IInv, OccupationConsistent
    <3>4. Acquire(Recovery, latest.from) /\ CanAcquire(latest.from) /\ holder[Recovery] = NoActor
      BY <2>1, <3>1, <3>3, LeasesFinite DEF InitializeOccupation, CanAcquire
    <3> QED
      BY <1>1, <2>1, <3>4, AcquireKeeps, OccupationTyped, LeasesFinite, LoopAssumption DEF IInv
  <2>2. CASE ~owed
    BY <2>2, OccupationUnchanged DEF IInv, InitializeOccupation, LeasesOnlyEnd, occupation
  <2> QED
    BY <2>1, <2>2
<1>3. UnleasedBeforeAdmission'
  BY <1>2 DEF IInv, UnleasedBeforeAdmission, InitializeOccupation, callers
<1>4. TypeOK'
  <2>1. recovered_turn_id' \in Keys \cup {NoTurn} /\ recovered_release' \in BOOLEAN
    BY <1>1 DEF IInv, TypeOK, InitializeOccupation
  <2> QED
    BY <1>2, <2>1 DEF IInv, TypeOK, InitializeOccupation, OccupationTypes,
                      durable, turn, loop, callers, stops
<1>5. Rest'
  BY DEF IInv, TypeOK, InitializeOccupation, durable, turn, loop, callers, stops,
         Rest, HistoryStored, LoopOwnsTurn, CommandsBound, QueueBound, Bound, StopOwnsRecovery
<1> QED
  BY <1>2, <1>3, <1>4, <1>5 DEF IInv, Rest

LEMMA PromptStep == ASSUME IInv, NEW c \in Calls, Prompt(c) PROVE IInv'
<1>1. LeasesOnlyEnd
  BY OccupationUnchanged DEF IInv, Prompt
<1>2. UnleasedBeforeAdmission'
  BY <1>1, UnleasedKeeps DEF IInv, TypeOK, Prompt, Commands
<1>3. TypeOK'
  BY DEF IInv, TypeOK, Prompt, durable, occupation, releases, turn, loop, stops, Commands, CallPcs
<1>4. Rest'
  BY DEF IInv, TypeOK, Prompt, durable, occupation, releases, turn, loop, stops, Commands,
         Rest, HistoryStored, LoopOwnsTurn, CommandsBound, QueueBound, Bound, StopOwnsRecovery
<1> QED
  BY <1>1, <1>2, <1>3, <1>4 DEF IInv, Rest, LeasesOnlyEnd

\* Admission is the one step that creates a lease for a call.
LEMMA AdmitStep == ASSUME IInv, NEW c \in Calls, Admit(c) PROVE IInv'
<1>1. /\ OccupationTypes' /\ OccupationConsistent'
      /\ \A k \in Leases \ {c} : holder'[k] = holder[k]
      /\ pc'[c] \in {"idle", "reading", "waiting"} => holder'[c] = holder[c]
  <2>1. CASE Acquire(c, ActorOf[c]) /\ CanAcquire(ActorOf[c]) /\ pc' = [pc EXCEPT ![c] = "preparing"]
    <3>1. c \in Leases /\ ActorOf[c] \in Actors /\ holder[c] = NoActor /\ c \in DOMAIN pc
      BY LeasesFinite, LoopAssumption
      DEF IInv, TypeOK, UnleasedBeforeAdmission, Admit, Commands
    <3> QED
      BY <2>1, <3>1, AcquireKeeps, OccupationTyped DEF IInv
  <2>2. CASE UNCHANGED occupation
    BY <2>2, OccupationUnchanged DEF IInv, LeasesOnlyEnd, occupation
  <2> QED
    BY <2>1, <2>2 DEF Admit, Arbitrate, Refuse
<1>2. /\ pc' \in [Commands -> CallPcs \cup {"done"}] /\ gen' \in [Calls -> Nat]
      /\ \A d \in Commands \ {c} : pc'[d] = pc[d]
      /\ pc'[c] \in {"rejected", "joining", "waiting", "preparing"}
  <2>1. pc \in [Commands -> CallPcs \cup {"done"}] /\ gen \in [Calls -> Nat] /\ c \in Commands
        /\ stop_generation \in Nat
    BY DEF IInv, TypeOK, Commands
  <2>2. gen' \in {gen, [gen EXCEPT ![c] = stop_generation]}
    BY DEF Admit, Arbitrate, Refuse
  <2>3. \/ pc' = [d \in Commands |-> IF d \in {c} THEN "rejected" ELSE pc[d]]
        \/ \E v \in {"joining", "waiting", "preparing"} : pc' = [pc EXCEPT ![c] = v]
    BY DEF Admit, Arbitrate, Refuse, Rejected
  <2> QED
    BY <2>1, <2>2, <2>3 DEF CallPcs
<1>3. UnleasedBeforeAdmission'
  BY <1>1, <1>2, LeasesFinite DEF IInv, UnleasedBeforeAdmission, Admit, Commands
<1>4. TypeOK'
  BY <1>1, <1>2 DEF IInv, TypeOK, Admit, OccupationTypes, durable, releases, turn, loop, stops
<1>5. Rest'
  BY <1>2 DEF IInv, Admit, durable, releases, turn, loop, stops, Commands,
         Rest, HistoryStored, LoopOwnsTurn, CommandsBound, QueueBound, Bound, StopOwnsRecovery
<1> QED
  BY <1>1, <1>3, <1>4, <1>5 DEF IInv, Rest

\* What a submission does to the queue: nothing, or it appends a prompt that is bound to a Turn.
QueueKept ==
  /\ queue' \in Seq(Commands) /\ pending_prompt_count' \in Nat
  /\ command' \in [Calls -> [turn : Keys \cup {NoTurn}, stored : BOOLEAN,
                             from : Actors \cup {NoActor}]]
  /\ \A d \in Calls : Bound(d) => Bound(d)'
  /\ QueueBound'
  /\ phase' \in {phase, "take"} /\ (phase # "idle" => phase' = phase)

LEMMA EnqueueKeeps ==
  ASSUME IInv, NEW c \in Calls, NEW from \in Actors, Enqueue(c, from)
  PROVE  /\ QueueKept
         /\ pc' = [pc EXCEPT ![c] = "queued"]
<1> DEFINE k == KeyOf[c]
           t == IF recovered_turn_id # NoTurn THEN recovered_turn_id
                ELSE IF message[k] # NoMessage THEN message[k].turn ELSE k
<1>1. k \in Keys /\ t \in Keys
  BY LoopAssumption DEF IInv, TypeOK
<1>2. command' = [command EXCEPT ![c] =
                    [turn |-> t, stored |-> message[k] # NoMessage, from |-> from]]
  BY DEF Enqueue
<1>3. /\ command'[c].turn \in Keys /\ command'[c].from \in Actors
      /\ \A d \in Calls \ {c} : command'[d] = command[d]
      /\ command' \in [Calls -> [turn : Keys \cup {NoTurn}, stored : BOOLEAN,
                                 from : Actors \cup {NoActor}]]
  BY <1>1, <1>2 DEF IInv, TypeOK
<1>4. \A d \in Commands : Bound(d) => Bound(d)'
  BY <1>3 DEF Bound
<1>6. queue \in Seq(Commands) /\ queue' = Append(queue, c) /\ c \in Commands
  BY DEF IInv, TypeOK, Enqueue, EnqueueCommand, Commands
<1>7. \A i \in DOMAIN queue' : queue'[i] = c \/ (i \in DOMAIN queue /\ queue'[i] = queue[i])
  BY <1>6
<1>8. QueueBound'
  <2> SUFFICES ASSUME NEW i \in DOMAIN queue', queue'[i] \in Calls
               PROVE  command'[queue'[i]].turn \in Keys /\ command'[queue'[i]].from \in Actors
    BY DEF QueueBound, Bound
  <2>1. CASE queue'[i] = c
    BY <1>3, <2>1
  <2>2. CASE queue'[i] # c
    BY <1>3, <1>7, <2>2 DEF IInv, CommandsBound, QueueBound, Bound
  <2> QED
    BY <2>1, <2>2
<1> QED
  BY <1>3, <1>4, <1>6, <1>8 DEF QueueKept, Enqueue, IInv, TypeOK, Commands

\* A stop that fails a recovered Turn keeps the window closed.
LEMMA RecoveryIsClosed ==
  ASSUME IInv, ~Closing \/ \E c \in Calls : pc[c] = "woken"
  PROVE  \A s \in Stoppers : stop_pc[s] # "recovering"
BY LoopAssumption DEF IInv, StopOwnsRecovery, Closing

\* A submission fails, by itself or with the calls that share it.
Fails(c) == \E S \in {{c}, Sharing(c)} : Fail(S)

\* A submission fails, moves on or is queued.
Submitted(c) ==
  \/ Fails(c)
  \/ \E to \in {"sharing", "resolving", "blocked"} : Move(c, to)
  \/ Submit(c) /\ (~Closing \/ pc[c] = "woken")

LEMMA SubmittedKeeps ==
  ASSUME IInv, NEW c \in Calls, Submitted(c)
  PROVE  /\ LeasesOnlyEnd /\ on_finish' \subseteq Leases /\ QueueKept
         /\ pc' \in [Commands -> CallPcs \cup {"done"}]
         /\ \A d \in Commands : pc'[d] \in {pc[d], "rejected", "sharing", "resolving", "blocked",
                                           "queued"}
         /\ queue' = queue \/ \A s \in Stoppers : stop_pc[s] # "recovering"
<1>1. /\ TypeOK /\ OccupationConsistent /\ c \in Commands /\ ActorOf[c] \in Actors
      /\ pc \in [Commands -> CallPcs \cup {"done"}] /\ on_finish \subseteq Leases
  BY LoopAssumption DEF IInv, TypeOK, Commands
<1>2. ASSUME NEW S \in {{c}, Sharing(c)}, Fail(S)
      PROVE  /\ LeasesOnlyEnd /\ on_finish' \subseteq Leases /\ QueueKept /\ queue' = queue
             /\ pc' \in [Commands -> CallPcs \cup {"done"}]
             /\ \A d \in Commands : pc'[d] \in {pc[d], "rejected"}
  <2>1. S \in SUBSET Calls /\ (active_turn # NoTurn) \in BOOLEAN
    BY SharingCalls
  <2>2. LeasesOnlyEnd /\ on_finish' \subseteq Leases
    BY <1>1, <1>2, <2>1, RejectedLeasesKeep DEF Fail
  <2>3. QueueKept /\ queue' = queue
    BY <1>2 DEF Fail, IInv, TypeOK, QueueKept, CommandsBound, QueueBound, Bound
  <2>4. pc' = [d \in Commands |-> IF d \in S THEN "rejected" ELSE pc[d]]
    BY <1>2 DEF Fail, Rejected
  <2> QED
    BY <1>1, <2>2, <2>3, <2>4 DEF CallPcs
<1>3. ASSUME NEW to \in {"sharing", "resolving", "blocked"}, Move(c, to)
      PROVE  /\ LeasesOnlyEnd /\ on_finish' = on_finish /\ QueueKept /\ queue' = queue
             /\ pc' = [pc EXCEPT ![c] = to]
  BY <1>1, <1>3, OccupationUnchanged
  DEF Move, IInv, TypeOK, QueueKept, CommandsBound, QueueBound, Bound
<1>4. CASE Submit(c) /\ (~Closing \/ pc[c] = "woken")
  <2>1. QueueKept /\ pc' = [pc EXCEPT ![c] = "queued"]
    BY <1>1, <1>4, EnqueueKeeps DEF Submit
  <2>2. LeasesOnlyEnd /\ on_finish' = on_finish
    BY <1>1, <1>4, OccupationUnchanged DEF Submit
  <2> QED
    BY <1>1, <1>4, <2>1, <2>2, RecoveryIsClosed DEF CallPcs
<1>5. CASE Fails(c)
  BY <1>2, <1>5 DEF Fails
<1>6. CASE \E to \in {"sharing", "resolving", "blocked"} : Move(c, to)
  BY <1>1, <1>3, <1>6 DEF CallPcs
<1> QED
  BY <1>4, <1>5, <1>6 DEF Submitted

\* The rest of a step that submits leaves everything else alone.
LEMMA SubmittedStep ==
  ASSUME IInv, NEW c \in Calls, Submitted(c),
         UNCHANGED <<durable, initialized, recovered_turn_id, recovered_release, failed_releases,
                     turn, current, drained, result, seal, gen, handle, outcome, stops, crashes>>
  PROVE  IInv'
<1>1. /\ LeasesOnlyEnd /\ on_finish' \subseteq Leases /\ QueueKept
      /\ pc' \in [Commands -> CallPcs \cup {"done"}]
      /\ \A d \in Commands : pc'[d] \in {pc[d], "rejected", "sharing", "resolving", "blocked",
                                        "queued"}
      /\ queue' = queue \/ \A s \in Stoppers : stop_pc[s] # "recovering"
  BY SubmittedKeeps
<1>2. UnleasedBeforeAdmission'
  BY <1>1, UnleasedKeeps DEF IInv, Commands
<1>3. TypeOK'
  BY <1>1 DEF IInv, TypeOK, QueueKept, LeasesOnlyEnd, OccupationTypes, durable, turn, stops, Phases
<1>4. HistoryStored' /\ LoopOwnsTurn'
  BY <1>1 DEF IInv, QueueKept, durable, turn, stops, HistoryStored, LoopOwnsTurn, TurnPhases
<1>5. CommandsBound'
  BY <1>1 DEF IInv, TypeOK, QueueKept, CommandsBound, Bound
<1>6. StopOwnsRecovery'
  BY <1>1 DEF IInv, QueueKept, turn, stops, StopOwnsRecovery, TurnPhases, Commands
<1> QED
  BY <1>1, <1>2, <1>3, <1>4, <1>5, <1>6 DEF IInv, LeasesOnlyEnd

LEMMA EnsureRunnableStep == ASSUME IInv, NEW c \in Calls, EnsureRunnable(c) PROVE IInv'
<1>1. Submitted(c)
  BY DEF EnsureRunnable, Submitted, Fails
<1> QED
  BY <1>1, SubmittedStep DEF EnsureRunnable

LEMMA ResumeSubmissionStep == ASSUME IInv, NEW c \in Calls, ResumeSubmission(c) PROVE IInv'
<1>1. Submitted(c)
  BY DEF ResumeSubmission, Submitted, Fails
<1> QED
  BY <1>1, SubmittedStep DEF ResumeSubmission

\* Acceptance gives handles on a Turn and hands the leases over to its end.
LEMMA AcceptedKeeps ==
  ASSUME TypeOK, NEW S \in SUBSET Calls, NEW t \in Keys, Accepted(S, t)
  PROVE  /\ pc' \in [Commands -> CallPcs \cup {"done"}]
         /\ \A d \in Commands : pc'[d] \in {pc[d], "accepted"}
         /\ handle' \in [Calls -> Keys \cup {NoTurn}]
BY DEF TypeOK, Accepted, CallPcs, Commands

LEMMA AcceptedLeasesKeep ==
  ASSUME TypeOK, NEW S \in SUBSET Calls, AcceptedLeases(S)
  PROVE  /\ on_finish' \subseteq Leases /\ recovered_release' \in BOOLEAN
         /\ recovered_turn_id' \in Keys \cup {NoTurn}
<1>1. Leased(S) \in SUBSET Leases
  BY LeasesFinite DEF Leased
<1> QED
  BY <1>1, LeasesFinite DEF TypeOK, AcceptedLeases

LEMMA PromptWithIdentityStep == ASSUME IInv, NEW c \in Calls, PromptWithIdentity(c) PROVE IInv'
<1> DEFINE S == Sharing(c)
           t == message[KeyOf[c]].turn
<1>1. CASE Join(c) /\ Resolvable(KeyOf[c])
  <2>1. S \in SUBSET Calls /\ t \in Keys /\ (active_turn # t => journal[t] \in Statuses)
        /\ KeyOf[c] \in Keys
    BY <1>1, SharingCalls, LoopAssumption DEF IInv, TypeOK, Resolvable
  <2>2. Leased(S) \in SUBSET Leases /\ failed_releases \subseteq Leases
    BY <2>1, LeasesFinite DEF Leased, IInv, TypeOK
  <2>3. /\ pc' \in [Commands -> CallPcs \cup {"done"}]
        /\ \A d \in Commands : pc'[d] \in {pc[d], "accepted"}
        /\ handle' \in [Calls -> Keys \cup {NoTurn}]
    BY <1>1, <2>1, AcceptedKeeps DEF Join, IInv
  <2>4. /\ LeasesOnlyEnd /\ on_finish' \subseteq Leases /\ failed_releases' \subseteq Leases
        /\ recovered_release' \in BOOLEAN /\ recovered_turn_id' \in Keys \cup {NoTurn}
        /\ outcome' \in [Calls -> Statuses \cup {"pending", "unacknowledged"}]
    <3>1. CASE active_turn = t
      BY <1>1, <2>1, <2>2, <3>1, AcceptedLeasesKeep, OccupationUnchanged DEF Join, IInv, TypeOK
    <3>2. CASE active_turn # t
      <4>1. outcome' \in [Calls -> Statuses \cup {"pending", "unacknowledged"}]
        <5>1. outcome' = [d \in Calls |-> IF d \in S THEN journal[t] ELSE outcome[d]]
          BY <1>1, <3>2 DEF Join
        <5>2. outcome \in [Calls -> Statuses \cup {"pending", "unacknowledged"}]
          BY DEF IInv, TypeOK
        <5> HIDE DEF S, t
        <5> QED
          BY <2>1, <3>2, <5>1, <5>2
      <4>2. CASE Leased(S) = {}
        BY <1>1, <3>2, <4>1, <4>2, OccupationUnchanged DEF Join, IInv, TypeOK, releases
      <4>3. CASE Leased(S) # {}
        <5> DEFINE R == Leased(S) \cup failed_releases
                          \cup (IF recovered_release THEN {Recovery} ELSE {})
        <5>1. R \in SUBSET Leases
          BY <2>2, LeasesFinite
        <5>2. /\ Release(R) /\ failed_releases' = {} /\ recovered_release' = FALSE
              /\ recovered_turn_id' = NoTurn /\ UNCHANGED on_finish
          BY <1>1, <3>2, <4>3 DEF Join
        <5> HIDE DEF R
        <5> QED
          BY <4>1, <5>1, <5>2, ReleaseOnlyEnds DEF IInv, TypeOK
      <4> QED
        BY <4>2, <4>3
    <3> QED
      BY <3>1, <3>2
  <2>5. UNCHANGED <<queue, pending_prompt_count, command, phase, durable, initialized, turn, current,
                    drained, result, seal, gen, stops, crashes>>
    BY <1>1 DEF Join, PromptWithIdentity
  <2>6. UnleasedBeforeAdmission'
    BY <2>3, <2>4, <2>5, UnleasedKeeps DEF IInv, Commands
  <2>7. TypeOK'
    BY <2>3, <2>4, <2>5 DEF IInv, TypeOK, LeasesOnlyEnd, OccupationTypes, durable, turn, stops
  <2>8. Rest'
    BY <2>3, <2>5 DEF IInv, durable, turn, stops, Commands,
           Rest, HistoryStored, LoopOwnsTurn, CommandsBound, QueueBound, Bound, StopOwnsRecovery
  <2> QED
    BY <2>4, <2>6, <2>7, <2>8 DEF IInv, Rest, LeasesOnlyEnd
<1>2. CASE ~(Join(c) /\ Resolvable(KeyOf[c]))
  <2>1. Submitted(c)
    BY <1>2 DEF PromptWithIdentity, Submitted, Fails
  <2> QED
    BY <1>2, <2>1, SubmittedStep DEF PromptWithIdentity
<1> QED
  BY <1>1, <1>2

LEMMA AcceptDelegationResultStep ==
  ASSUME IInv, NEW c \in Calls, AcceptDelegationResult(c) PROVE IInv'
<1> USE DEF AcceptDelegationResult
<1>1. /\ c \in Results /\ TargetOf[c] \in Keys /\ KeyOf[c] \in Keys /\ c \in Commands
      /\ pc \in [Commands -> CallPcs \cup {"done"}]
      /\ \A k \in Keys : message[k].turn \in Keys \cup {NoTurn}
  BY LoopAssumption DEF IInv, TypeOK, Commands, NoMessage
<1>2. /\ QueueKept /\ handle' \in [Calls -> Keys \cup {NoTurn}]
      /\ \E v \in {"accepted", "rejected", "queued", "saved"} : pc' = [pc EXCEPT ![c] = v]
      /\ queue' = queue \/ \A s \in Stoppers : stop_pc[s] # "recovering"
  <2>1. CASE Enqueue(c, owner) /\ owner # NoActor /\ ~closing /\ UNCHANGED handle
    <3>1. owner \in Actors /\ ~Closing
      BY <2>1 DEF IInv, TypeOK, Closing
    <3>2. QueueKept /\ pc' = [pc EXCEPT ![c] = "queued"]
      BY <1>1, <2>1, <3>1, EnqueueKeeps
    <3> QED
      BY <2>1, <3>1, <3>2, RecoveryIsClosed DEF IInv, TypeOK
  <2>2. CASE UNCHANGED <<queue, pending_prompt_count, command, phase>>
    <3>1. QueueKept
      BY <2>2 DEF IInv, TypeOK, QueueKept, CommandsBound, QueueBound, Bound
    <3>2. \/ pc' = [pc EXCEPT ![c] = "accepted"] \/ pc' = [pc EXCEPT ![c] = "rejected"]
          \/ pc' = [pc EXCEPT ![c] = "saved"] \/ pc' = [pc EXCEPT ![c] = "queued"]
      BY DEF Enqueue
    <3>3. handle' \in [Calls -> Keys \cup {NoTurn}]
      BY <1>1 DEF IInv, TypeOK
    <3> QED
      BY <2>2, <3>1, <3>2, <3>3
  <2> QED
    BY <2>1, <2>2 DEF AwaitsResult
<1>3. LeasesOnlyEnd
  BY OccupationUnchanged DEF IInv
<1>4. /\ pc' \in [Commands -> CallPcs \cup {"done"}]
      /\ \A d \in Commands : pc'[d] \in {pc[d], "accepted", "rejected", "queued", "saved"}
  BY <1>1, <1>2 DEF CallPcs
<1>5. UnleasedBeforeAdmission'
  BY <1>3, <1>4, UnleasedKeeps DEF IInv, Commands
<1>6. TypeOK'
  BY <1>2, <1>4 DEF IInv, TypeOK, QueueKept, durable, occupation, releases, turn, stops, Phases
<1>7. HistoryStored' /\ LoopOwnsTurn'
  BY <1>2 DEF IInv, QueueKept, durable, turn, stops, HistoryStored, LoopOwnsTurn, TurnPhases
<1>8. CommandsBound'
  BY <1>2 DEF IInv, TypeOK, QueueKept, CommandsBound, Bound
<1>9. StopOwnsRecovery'
  BY <1>2, <1>4 DEF IInv, QueueKept, turn, stops, StopOwnsRecovery, TurnPhases, Commands
<1> QED
  BY <1>3, <1>5, <1>6, <1>7, <1>8, <1>9 DEF IInv, LeasesOnlyEnd

LEMMA EnqueueMaintenanceStep ==
  ASSUME IInv, NEW m \in Maintenance, EnqueueMaintenance(m) PROVE IInv'
<1>1. /\ m \in Commands /\ m \notin Calls /\ queue \in Seq(Commands) /\ queue' = Append(queue, m)
      /\ pc \in [Commands -> CallPcs \cup {"done"}] /\ pc' = [pc EXCEPT ![m] = "queued"]
      /\ phase' \in {phase, "take"} /\ (phase # "idle" => phase' = phase)
  BY LoopAssumption DEF EnqueueMaintenance, EnqueueCommand, IInv, TypeOK, Commands
<1>2. \A i \in DOMAIN queue' : queue'[i] = m \/ (i \in DOMAIN queue /\ queue'[i] = queue[i])
  BY <1>1
<1>3. queue' \in Seq(Commands) /\ pc' \in [Commands -> CallPcs \cup {"done"}]
      /\ \A c \in Calls : pc'[c] = pc[c]
  BY <1>1 DEF CallPcs, Commands
<1>4. LeasesOnlyEnd
  BY OccupationUnchanged DEF IInv, EnqueueMaintenance
<1>5. UnleasedBeforeAdmission'
  BY <1>3, <1>4, UnleasedKeeps DEF IInv, EnqueueMaintenance
<1>6. TypeOK'
  BY <1>1, <1>3 DEF EnqueueMaintenance, IInv, TypeOK, durable, occupation, releases, turn, stops, Phases
<1>7. Rest'
  BY <1>1, <1>2, <1>3 DEF EnqueueMaintenance, IInv, durable, turn, stops, TurnPhases,
         Rest, HistoryStored, LoopOwnsTurn, CommandsBound, QueueBound, Bound, StopOwnsRecovery
<1> QED
  BY <1>4, <1>5, <1>6, <1>7 DEF IInv, Rest, LeasesOnlyEnd

-----------------------------------------------------------------------------
\* The steps of the loop.

LEMMA TailKeeps ==
  ASSUME NEW T, NEW q \in Seq(T), q # <<>>
  PROVE  /\ Tail(q) \in Seq(T) /\ Head(q) \in T /\ Head(q) = q[1] /\ 1 \in DOMAIN q
         /\ \A i \in DOMAIN Tail(q) : i + 1 \in DOMAIN q /\ Tail(q)[i] = q[i + 1]
OBVIOUS

LEMMA TakeNextStep == ASSUME IInv, TakeNext PROVE IInv'
<1>1. LeasesOnlyEnd
  BY OccupationUnchanged DEF IInv, TakeNext
<1>2. UnleasedBeforeAdmission'
  BY <1>1, UnleasedKeeps DEF IInv, TakeNext, callers
<1>3. CASE ~HasCommand(queue)
  BY <1>1, <1>2, <1>3
  DEF TakeNext, HasCommand, IInv, TypeOK, Phases, LeasesOnlyEnd, HistoryStored, LoopOwnsTurn,
      TurnPhases, CommandsBound, QueueBound, Bound, StopOwnsRecovery,
      durable, occupation, releases, turn, callers, stops
<1>4. CASE HasCommand(queue)
  <2>1. /\ queue' = Tail(queue) /\ current' = Head(queue) /\ Head(queue) \in Commands
        /\ queue \in Seq(Commands) /\ queue # <<>>
    BY <1>4 DEF TakeNext, HasCommand, AfterTakeNext, IInv, TypeOK
  <2>2. /\ queue' \in Seq(Commands) /\ Head(queue) = queue[1] /\ 1 \in DOMAIN queue
        /\ \A i \in DOMAIN queue' : \E j \in DOMAIN queue : queue'[i] = queue[j]
    BY <2>1, TailKeeps
  <2>3. QueueBound' /\ Bound(current)'
    BY <2>1, <2>2 DEF TakeNext, callers, IInv, CommandsBound, QueueBound, Bound
  <2>4. CASE Head(queue) \in Maintenance
    <3>1. Head(queue) \notin Calls
      BY <2>4, LoopAssumption
    <3>2. phase' = "maintenance" /\ UNCHANGED <<pending_prompt_count, turn>>
      BY <1>4, <2>4, <3>1 DEF TakeNext
    <3>3. TypeOK'
      BY <2>1, <2>2, <3>2
      DEF TakeNext, IInv, TypeOK, Phases, durable, occupation, releases, turn, callers, stops
    <3>4. Rest'
      BY <2>1, <2>2, <2>3, <2>4, <3>2
      DEF TakeNext, IInv, Rest, HistoryStored, LoopOwnsTurn, TurnPhases, CommandsBound, Bound,
          StopOwnsRecovery, durable, turn, callers, stops
    <3> QED
      BY <1>1, <1>2, <3>3, <3>4 DEF IInv, Rest, LeasesOnlyEnd
  <2>5. CASE Head(queue) \in Calls
    <3>1. Head(queue) \notin Maintenance /\ Bound(Head(queue))
      BY <2>2, <2>5, LoopAssumption DEF IInv, CommandsBound, QueueBound
    <3>2. /\ phase' = "persist" /\ pending_prompt_count' = CountWithout(1)
          /\ active_turn' = command[Head(queue)].turn /\ aborted' = FALSE /\ closing' = FALSE
      BY <1>4, <2>5, <3>1 DEF TakeNext
    <3>3. active_turn' \in Keys /\ pending_prompt_count' \in Nat
      BY <2>5, <3>1, <3>2, CountTyped DEF Bound, IInv
    <3>4. TypeOK'
      BY <2>1, <2>2, <3>2, <3>3
      DEF TakeNext, IInv, TypeOK, Phases, durable, occupation, releases, callers, stops
    <3>5. \A s \in Stoppers : stop_pc[s] # "recovering"
      BY <2>2, <2>5 DEF IInv, StopOwnsRecovery
    <3>6. Rest'
      BY <2>1, <2>3, <2>5, <3>2, <3>3, <3>5
      DEF TakeNext, IInv, Rest, HistoryStored, LoopOwnsTurn, TurnPhases, CommandsBound, Bound,
          StopOwnsRecovery, durable, callers, stops
    <3> QED
      BY <1>1, <1>2, <3>4, <3>6 DEF IInv, Rest, LeasesOnlyEnd
  <2> QED
    BY <2>1, <2>4, <2>5 DEF Commands
<1> QED
  BY <1>3, <1>4

LEMMA ExecuteMaintenanceStep == ASSUME IInv, ExecuteMaintenance PROVE IInv'
<1>1. LeasesOnlyEnd
  BY OccupationUnchanged DEF IInv, ExecuteMaintenance
<1>2. /\ current \in Maintenance /\ current \notin Calls /\ current \in Commands
      /\ pc \in [Commands -> CallPcs \cup {"done"}] /\ pc' = [pc EXCEPT ![current] = "done"]
  BY LoopAssumption DEF IInv, TypeOK, LoopOwnsTurn, ExecuteMaintenance, Commands
<1>3. pc' \in [Commands -> CallPcs \cup {"done"}] /\ \A c \in Calls : pc'[c] = pc[c]
  BY <1>2 DEF Commands
<1>4. UnleasedBeforeAdmission'
  BY <1>1, <1>3, UnleasedKeeps DEF IInv, ExecuteMaintenance
<1>5. TypeOK'
  BY <1>3 DEF ExecuteMaintenance, IInv, TypeOK, Phases, durable, occupation, releases, turn, stops
<1>6. Rest'
  BY <1>3 DEF ExecuteMaintenance, IInv, Rest, HistoryStored, LoopOwnsTurn, TurnPhases,
         CommandsBound, QueueBound, Bound, StopOwnsRecovery, durable, turn, stops
<1> QED
  BY <1>1, <1>4, <1>5, <1>6 DEF IInv, Rest, LeasesOnlyEnd

\* While the loop runs a Turn no stop is failing a recovered one.
LEMMA NoRecoveryInTurn ==
  ASSUME IInv, phase \in TurnPhases
  PROVE  /\ \A s \in Stoppers : stop_pc[s] # "recovering"
         /\ active_turn \in Keys /\ active_turn # NoTurn
BY LoopAssumption DEF IInv, StopOwnsRecovery, LoopOwnsTurn

\* Storing a message of the active Turn.
LEMMA PersistKeeps ==
  ASSUME IInv, NEW c \in Calls, Bound(c), active_turn \in Keys, NEW saved \in BOOLEAN,
         Persist(c, saved)
  PROVE  /\ message' \in [Keys -> [turn : Keys, from : Actors] \cup {NoMessage}]
         /\ history' \in Seq(Keys) /\ journal' = journal /\ HistoryStored'
<1> DEFINE m == [turn |-> active_turn, from |-> command[c].from]
<1>1. KeyOf[c] \in Keys /\ m \in [turn : Keys, from : Actors] /\ m # NoMessage
  BY LoopAssumption DEF Bound, NoMessage
<1>2. CASE saved /\ ~command[c].stored
  <2>1. message' = [message EXCEPT ![KeyOf[c]] = m] /\ history' = Append(history, KeyOf[c])
        /\ journal' = journal
    BY <1>2 DEF Persist
  <2>2. message' \in [Keys -> [turn : Keys, from : Actors] \cup {NoMessage}]
        /\ history' \in Seq(Keys) /\ history \in Seq(Keys)
    BY <1>1, <2>1 DEF IInv, TypeOK
  <2>3. \A i \in DOMAIN history' :
          history'[i] = KeyOf[c] \/ (i \in DOMAIN history /\ history'[i] = history[i])
    BY <2>1, <2>2
  <2>4. HistoryStored'
    BY <1>1, <2>1, <2>2, <2>3 DEF IInv, TypeOK, HistoryStored
  <2> QED
    BY <2>1, <2>2, <2>4
<1>3. CASE ~(saved /\ ~command[c].stored)
  BY <1>3 DEF Persist, durable, IInv, TypeOK, HistoryStored
<1> QED
  BY <1>2, <1>3

LEMMA RejectedKeeps ==
  ASSUME TypeOK, NEW S \in SUBSET Calls, Rejected(S)
  PROVE  /\ pc' \in [Commands -> CallPcs \cup {"done"}]
         /\ \A d \in Commands : pc'[d] \in {pc[d], "rejected"}
BY DEF TypeOK, Rejected, CallPcs

\* Cancelling the queue, with or without other calls, while a Turn is active or not.
Cancels(S, b) == CancelQueuedPrompts /\ Rejected(S) /\ RejectedLeases(S, b)

LEMMA CancelsKeep ==
  ASSUME IInv, NEW S \in SUBSET Calls, NEW b \in BOOLEAN, Cancels(S, b)
  PROVE  /\ LeasesOnlyEnd /\ on_finish' \subseteq Leases
         /\ queue' \in Seq(Commands) /\ pending_prompt_count' \in Nat
         /\ \A i \in DOMAIN queue' : queue'[i] \notin Calls
         /\ pc' \in [Commands -> CallPcs \cup {"done"}]
         /\ \A d \in Commands : pc'[d] \in {pc[d], "rejected"}
BY RejectedLeasesKeep, CancelKeeps, RejectedKeeps DEF Cancels, IInv

LEMMA StartTurnStep == ASSUME IInv, StartTurn PROVE IInv'
<1> DEFINE S == Sharing(current)
<1>1. /\ phase = "persist" /\ phase \in TurnPhases /\ current \in Calls /\ Bound(current)
      /\ active_turn \in Keys /\ \A s \in Stoppers : stop_pc[s] # "recovering"
      /\ S \in SUBSET Calls /\ CancelledCalls \in SUBSET Calls
  BY NoRecoveryInTurn, SharingCalls, CancelledAreCalls
  DEF StartTurn, IInv, LoopOwnsTurn, CommandsBound, TurnPhases
<1>2. CASE /\ Persist(current, TRUE) /\ Accepted(S, active_turn) /\ AcceptedLeases(S)
           /\ phase' = "run" /\ UNCHANGED <<queue, pending_prompt_count, occupation, closing>>
  <2>1. /\ message' \in [Keys -> [turn : Keys, from : Actors] \cup {NoMessage}]
        /\ history' \in Seq(Keys) /\ journal' = journal /\ HistoryStored'
    BY <1>1, <1>2, PersistKeeps
  <2>2. /\ pc' \in [Commands -> CallPcs \cup {"done"}]
        /\ \A d \in Commands : pc'[d] \in {pc[d], "accepted"}
        /\ handle' \in [Calls -> Keys \cup {NoTurn}]
    BY <1>1, <1>2, AcceptedKeeps DEF IInv
  <2>3. /\ on_finish' \subseteq Leases /\ recovered_release' \in BOOLEAN
        /\ recovered_turn_id' \in Keys \cup {NoTurn}
    BY <1>1, <1>2, AcceptedLeasesKeep DEF IInv
  <2>4. LeasesOnlyEnd
    BY <1>2, OccupationUnchanged DEF IInv
  <2>5. UnleasedBeforeAdmission'
    BY <2>2, <2>4, UnleasedKeeps DEF IInv, StartTurn, Commands
  <2>6. TypeOK'
    BY <1>1, <1>2, <2>1, <2>2, <2>3
    DEF StartTurn, IInv, TypeOK, Phases, occupation, stops
  <2>7. Rest'
    BY <1>1, <1>2, <2>1, <2>2 DEF StartTurn, IInv, Rest, LoopOwnsTurn, TurnPhases,
                             CommandsBound, QueueBound, Bound, StopOwnsRecovery, stops
  <2> QED
    BY <2>4, <2>5, <2>6, <2>7 DEF IInv, Rest, LeasesOnlyEnd
<1>3. ASSUME NEW saved \in BOOLEAN, Persist(current, saved), Cancels(S \cup CancelledCalls, TRUE),
             closing' = TRUE, phase' = "failing",
             UNCHANGED <<handle, recovered_turn_id, recovered_release>>
      PROVE  IInv'
  <2>1. /\ message' \in [Keys -> [turn : Keys, from : Actors] \cup {NoMessage}]
        /\ history' \in Seq(Keys) /\ journal' = journal /\ HistoryStored'
    BY <1>1, <1>3, PersistKeeps
  <2>2. /\ LeasesOnlyEnd /\ on_finish' \subseteq Leases
        /\ queue' \in Seq(Commands) /\ pending_prompt_count' \in Nat
        /\ \A i \in DOMAIN queue' : queue'[i] \notin Calls
        /\ pc' \in [Commands -> CallPcs \cup {"done"}]
        /\ \A d \in Commands : pc'[d] \in {pc[d], "rejected"}
    <3>1. S \cup CancelledCalls \in SUBSET Calls
      BY <1>1
    <3> QED
      BY <1>3, <3>1, CancelsKeep
  <2>3. UnleasedBeforeAdmission'
    BY <2>2, UnleasedKeeps DEF IInv, StartTurn, Commands
  <2>4. TypeOK'
    BY <1>1, <1>3, <2>1, <2>2
    DEF StartTurn, IInv, TypeOK, Phases, LeasesOnlyEnd, OccupationTypes, stops
  <2>5. Rest'
    BY <1>1, <1>3, <2>1, <2>2 DEF StartTurn, IInv, Rest, LoopOwnsTurn, TurnPhases,
                             CommandsBound, QueueBound, Bound, StopOwnsRecovery, stops
  <2> QED
    BY <2>2, <2>3, <2>4, <2>5 DEF IInv, Rest, LeasesOnlyEnd
<1> QED
  BY <1>2, <1>3 DEF StartTurn, Cancels

LEMMA CheckpointStep == ASSUME IInv, Checkpoint PROVE IInv'
<1>1. LeasesOnlyEnd
  BY OccupationUnchanged DEF IInv, Checkpoint
<1>2. UnleasedBeforeAdmission'
  BY <1>1, UnleasedKeeps DEF IInv, Checkpoint, callers
<1>3. TypeOK'
  BY DEF Checkpoint, IInv, TypeOK, Phases, Drained, AfterDrain,
         durable, occupation, releases, turn, callers, stops
<1>4. Rest'
  BY DEF Checkpoint, IInv, Rest, HistoryStored, LoopOwnsTurn, TurnPhases, CommandsBound,
         QueueBound, Bound, StopOwnsRecovery, Drained, AfterDrain, durable, turn, callers, stops
<1> QED
  BY <1>1, <1>2, <1>3, <1>4 DEF IInv, Rest, LeasesOnlyEnd

LEMMA DrainDoneStep == ASSUME IInv, DrainDone PROVE IInv'
<1>1. LeasesOnlyEnd
  BY OccupationUnchanged DEF IInv, DrainDone
<1>2. UnleasedBeforeAdmission'
  BY <1>1, UnleasedKeeps DEF IInv, DrainDone, callers
<1>3. TypeOK'
  BY DEF DrainDone, IInv, TypeOK, Phases, durable, occupation, releases, turn, callers, stops
<1>4. Rest'
  BY DEF DrainDone, IInv, Rest, HistoryStored, LoopOwnsTurn, TurnPhases, CommandsBound,
         QueueBound, Bound, StopOwnsRecovery, durable, turn, callers, stops
<1> QED
  BY <1>1, <1>2, <1>3, <1>4 DEF IInv, Rest, LeasesOnlyEnd

LEMMA AbsorbDrainedStep == ASSUME IInv, AbsorbDrained PROVE IInv'
<1> DEFINE c == Head(drained)
           S == Sharing(c)
<1>1. /\ phase = "drain" /\ phase \in TurnPhases /\ active_turn \in Keys
      /\ \A s \in Stoppers : stop_pc[s] # "recovering"
      /\ drained \in Seq(Commands) /\ drained # <<>> /\ drained' = Tail(drained)
  BY NoRecoveryInTurn DEF AbsorbDrained, IInv, TypeOK, TurnPhases
<1>2. /\ drained' \in Seq(Commands) /\ c \in Commands /\ c = drained[1] /\ 1 \in DOMAIN drained
      /\ \A i \in DOMAIN drained' : \E j \in DOMAIN drained : drained'[i] = drained[j]
  BY <1>1, TailKeeps
<1>3. Bound(c)
  BY <1>2 DEF IInv, CommandsBound
<1>4. /\ LeasesOnlyEnd
      /\ pending_prompt_count' \in Nat
  BY OccupationUnchanged, CountTyped DEF IInv, TypeOK, AbsorbDrained
<1>5. /\ message' \in [Keys -> [turn : Keys, from : Actors] \cup {NoMessage}]
      /\ history' \in Seq(Keys) /\ journal' = journal /\ HistoryStored'
  <2>1. CASE UNCHANGED durable
    BY <2>1 DEF durable, IInv, TypeOK, HistoryStored
  <2>2. CASE \E saved \in BOOLEAN : c \in Calls /\ Persist(c, saved)
    BY <1>1, <1>3, <2>2, PersistKeeps
  <2> QED
    BY <2>1, <2>2 DEF AbsorbDrained
<1>6. /\ pc' \in [Commands -> CallPcs \cup {"done"}]
      /\ \A d \in Calls : pc'[d] \in {pc[d], "accepted", "rejected"}
      /\ handle' \in [Calls -> Keys \cup {NoTurn}]
      /\ on_finish' \subseteq Leases /\ recovered_release' \in BOOLEAN
      /\ recovered_turn_id' \in Keys \cup {NoTurn}
  <2>1. CASE /\ c \in Maintenance /\ pc' = [pc EXCEPT ![c] = "done"]
             /\ UNCHANGED <<handle, recovered_turn_id, recovered_release, on_finish>>
    <3>1. c \notin Calls /\ pc \in [Commands -> CallPcs \cup {"done"}] /\ Calls \subseteq Commands
      BY <2>1, LoopAssumption DEF IInv, TypeOK, Commands
    <3> QED
      BY <2>1, <3>1 DEF IInv, TypeOK
  <2>2. CASE c \in Calls /\ Accepted(S, active_turn) /\ AcceptedLeases(S)
    BY <1>1, <2>2, SharingCalls, AcceptedKeeps, AcceptedLeasesKeep DEF IInv, Commands
  <2>3. CASE /\ c \in Calls /\ Rejected(S) /\ on_finish' = on_finish \cup Leased(S)
             /\ UNCHANGED <<handle, recovered_turn_id, recovered_release>>
    <3>1. S \in SUBSET Calls /\ Leased(S) \in SUBSET Leases
      BY <2>3, SharingCalls, LeasesFinite DEF Leased
    <3> QED
      BY <2>3, <3>1, RejectedKeeps DEF IInv, TypeOK, Commands
  <2> QED
    BY <2>1, <2>2, <2>3 DEF AbsorbDrained
<1>7. UnleasedBeforeAdmission'
  BY <1>4, <1>6, UnleasedKeeps DEF IInv, AbsorbDrained
<1>8. TypeOK'
  BY <1>2, <1>4, <1>5, <1>6 DEF AbsorbDrained, IInv, TypeOK, occupation, turn, stops
<1>9. \A i \in DOMAIN drained' : Bound(drained'[i])
  BY <1>2 DEF IInv, CommandsBound
<1>10. CommandsBound'
  BY <1>1, <1>9 DEF AbsorbDrained, IInv, CommandsBound, QueueBound, Bound
<1>11. LoopOwnsTurn' /\ StopOwnsRecovery'
  BY <1>1, <1>5 DEF AbsorbDrained, IInv, LoopOwnsTurn, StopOwnsRecovery, TurnPhases, turn, stops
<1> QED
  BY <1>4, <1>5, <1>7, <1>8, <1>10, <1>11 DEF IInv, LeasesOnlyEnd

\* A step inside a Turn that cancels the queue or leaves it, or takes it as a batch.
InTurn ==
  /\ phase \in TurnPhases /\ phase' \in TurnPhases /\ phase' \notin {"persist", "sealing", "finishing"}
  /\ \/ Cancels(CancelledCalls, TRUE) /\ UNCHANGED drained
     \/ UNCHANGED <<queue, drained, pending_prompt_count, pc, on_finish, occupation>>
     \/ drained' = queue /\ queue' = <<>> /\ UNCHANGED <<pending_prompt_count, pc, on_finish, occupation>>
  /\ closing' \in BOOLEAN /\ result' \in {"none", "success", "failure"}
  /\ UNCHANGED <<durable, initialized, recovered_turn_id, recovered_release, failed_releases,
                 active_turn, aborted, current, seal, gen, command, handle, outcome, stops, crashes>>

LEMMA InTurnKeeps == ASSUME IInv, InTurn PROVE IInv'
<1>1. /\ phase \in TurnPhases /\ active_turn \in Keys
      /\ \A s \in Stoppers : stop_pc[s] # "recovering"
      /\ phase' \in TurnPhases \ {"persist", "sealing", "finishing"}
  BY NoRecoveryInTurn DEF InTurn
<1>2. /\ LeasesOnlyEnd /\ on_finish' \subseteq Leases
      /\ queue' \in Seq(Commands) /\ drained' \in Seq(Commands) /\ pending_prompt_count' \in Nat
      /\ QueueBound' /\ \A i \in DOMAIN drained' : Bound(drained'[i])
      /\ pc' \in [Commands -> CallPcs \cup {"done"}]
      /\ \A d \in Commands : pc'[d] \in {pc[d], "rejected"}
  <2>1. CASE Cancels(CancelledCalls, TRUE) /\ UNCHANGED drained
    BY <2>1, CancelledAreCalls, CancelsKeep DEF IInv, TypeOK, CommandsBound, QueueBound, Bound
  <2>2. CASE UNCHANGED <<queue, drained, pending_prompt_count, pc, on_finish, occupation>>
    BY <2>2, OccupationUnchanged DEF InTurn, IInv, TypeOK, CommandsBound, QueueBound, Bound
  <2>3. CASE drained' = queue /\ queue' = <<>>
             /\ UNCHANGED <<pending_prompt_count, pc, on_finish, occupation>>
    BY <2>3, OccupationUnchanged DEF InTurn, IInv, TypeOK, CommandsBound, QueueBound, Bound
  <2> QED
    BY <2>1, <2>2, <2>3 DEF InTurn
<1>3. UnleasedBeforeAdmission'
  BY <1>2, UnleasedKeeps DEF IInv, InTurn, Commands
<1>4. TypeOK'
  BY <1>1, <1>2 DEF InTurn, IInv, TypeOK, Phases, TurnPhases, LeasesOnlyEnd, OccupationTypes,
                    durable, stops
<1>5. Rest'
  BY <1>1, <1>2 DEF InTurn, IInv, Rest, HistoryStored, LoopOwnsTurn, TurnPhases, CommandsBound,
                    Bound, StopOwnsRecovery, durable, stops
<1> QED
  BY <1>2, <1>3, <1>4, <1>5 DEF IInv, Rest, LeasesOnlyEnd

LEMMA CloseWindowInTurn ==
  ASSUME phase \in {"run", "children"}, NEW res \in {"success", "failure"}, CloseWindow(res),
         UNCHANGED <<durable, initialized, recovered_turn_id, recovered_release, failed_releases,
                     active_turn, aborted, current, seal, gen, command, handle, outcome, stops,
                     crashes>>
  PROVE  InTurn
BY DEF CloseWindow, InTurn, TurnPhases, Cancels

LEMMA ExecutorReturnsStep == ASSUME IInv, ExecutorReturns PROVE IInv'
<1>1. CASE CloseWindow("success") \/ CloseWindow("failure")
  BY <1>1, CloseWindowInTurn, InTurnKeeps DEF ExecutorReturns
<1>2. CASE ~(CloseWindow("success") \/ CloseWindow("failure"))
  <2>1. InTurn
    BY <1>2 DEF ExecutorReturns, AbsorbOrClose, Drained, AfterDrain, InTurn, TurnPhases, IInv, TypeOK
  <2> QED
    BY <2>1, InTurnKeeps
<1> QED
  BY <1>1, <1>2

LEMMA ChildrenSettleStep == ASSUME IInv, ChildrenSettle PROVE IInv'
<1>1. CASE CloseWindow("success")
  BY <1>1, CloseWindowInTurn, InTurnKeeps DEF ChildrenSettle
<1>2. CASE ~CloseWindow("success")
  <2>1. InTurn
    BY <1>2 DEF ChildrenSettle, AbsorbOrClose, Drained, AfterDrain, InTurn, TurnPhases, IInv, TypeOK
  <2> QED
    BY <2>1, InTurnKeeps
<1> QED
  BY <1>1, <1>2

LEMMA TurnThrowsStep == ASSUME IInv, TurnThrows PROVE IInv'
<1>1. InTurn
  BY DEF TurnThrows, InTurn, TurnPhases, Cancels, IInv, TypeOK
<1> QED
  BY <1>1, InTurnKeeps

LEMMA FixStatusStep == ASSUME IInv, FixStatus PROVE IInv'
<1>1. /\ phase \in TurnPhases /\ active_turn \in Keys
      /\ \A s \in Stoppers : stop_pc[s] # "recovering"
      /\ phase' = "sealing" /\ seal' \in Statuses
  BY NoRecoveryInTurn DEF FixStatus, TurnPhases, Statuses
<1>2. /\ queue' \in Seq(Commands)
      /\ \A n \in DOMAIN queue' : \E i \in DOMAIN queue : queue[i] = queue'[n]
  BY AfterCancelType DEF FixStatus, IInv, TypeOK
<1>3. /\ pc' \in [Commands -> CallPcs \cup {"done"}]
      /\ \A d \in Commands : pc'[d] \in {pc[d], "done"}
  BY DEF FixStatus, IInv, TypeOK
<1>4. LeasesOnlyEnd
  BY OccupationUnchanged DEF IInv, FixStatus
<1>5. UnleasedBeforeAdmission'
  BY <1>3, <1>4, UnleasedKeeps DEF IInv, FixStatus, Commands
<1>6. TypeOK'
  BY <1>1, <1>2, <1>3 DEF FixStatus, IInv, TypeOK, Phases, durable, occupation, releases, turn, stops
<1>7. QueueBound'
  BY <1>2 DEF FixStatus, IInv, CommandsBound, QueueBound, Bound
<1>8. Rest'
  BY <1>1, <1>7 DEF FixStatus, IInv, Rest, HistoryStored, LoopOwnsTurn, TurnPhases, CommandsBound,
                    Bound, StopOwnsRecovery, durable, turn, stops
<1> QED
  BY <1>4, <1>5, <1>6, <1>8 DEF IInv, Rest, LeasesOnlyEnd

-----------------------------------------------------------------------------
\* The end of a Turn.

\* What a settled Turn leaves behind, whoever settles it.
Settled ==
  /\ pc' \in [Commands -> CallPcs \cup {"done"}]
  /\ \A c \in Calls : pc'[c] \in {"idle", "reading", "waiting"}
                       => pc[c] \in {"idle", "reading", "waiting"}
  /\ outcome' \in [Calls -> Statuses \cup {"pending", "unacknowledged"}]
  /\ gen' \in [Calls -> Nat] /\ UNCHANGED <<command, handle>> /\ active_turn' = NoTurn
  /\ stop_pc' \in [Stoppers -> {"idle", "waiting", "recovering", "woken", "done"}]
  /\ \A s \in Stoppers : stop_pc'[s] # "recovering"

LEMMA SettleKeeps ==
  ASSUME TypeOK, NEW status \in Statuses \cup {"unacknowledged"}, Settle(status)
  PROVE  Settled
<1>1. /\ pc \in [Commands -> CallPcs \cup {"done"}] /\ Calls \subseteq Commands
      /\ pc' = [c \in Commands |-> WakeOnFinish(c, status # "unacknowledged")]
  BY DEF TypeOK, Settle, Commands
<1>2. \A c \in Commands :
        /\ pc'[c] \in {pc[c], "reading", "rejected", "woken"}
        /\ pc'[c] = "reading" => pc[c] \in {"reading", "waiting"}
  BY <1>1 DEF WakeOnFinish
<1>3. /\ pc' \in [Commands -> CallPcs \cup {"done"}]
      /\ \A c \in Calls : pc'[c] \in {"idle", "reading", "waiting"}
                           => pc[c] \in {"idle", "reading", "waiting"}
  BY <1>1, <1>2 DEF CallPcs
<1>4. outcome' \in [Calls -> Statuses \cup {"pending", "unacknowledged"}]
  BY DEF TypeOK, Settle
<1>5. /\ gen' \in [Calls -> Nat]
      /\ stop_pc' \in [Stoppers -> {"idle", "waiting", "recovering", "woken", "done"}]
      /\ \A s \in Stoppers : stop_pc'[s] # "recovering"
  BY DEF TypeOK, Settle, WakeStop
<1> QED
  BY <1>3, <1>4, <1>5 DEF Settled, Settle

LEMMA FinishedKeeps ==
  ASSUME TypeOK, OccupationConsistent, NEW status \in Statuses, NEW also \in SUBSET Leases,
         Finished(status, also)
  PROVE  Settled /\ LeasesOnlyEnd /\ failed_releases' \subseteq Leases /\ on_finish' \subseteq Leases
<1> DEFINE parked == IF \E c \in on_finish \cap Calls : pc[c] = "accepted"
                     THEN failed_releases ELSE {}
<1>1. on_finish \cup parked \cup also \in SUBSET Leases /\ failed_releases \subseteq Leases
  BY DEF TypeOK
<1>2. /\ Settle(status) /\ Release(on_finish \cup parked \cup also)
      /\ failed_releases' = failed_releases \ (parked \cup also) /\ on_finish' = {}
  BY DEF Finished
<1> HIDE DEF parked
<1> QED
  BY <1>1, <1>2, SettleKeeps, ReleaseOnlyEnds

LEMMA UnacknowledgedKeeps ==
  ASSUME TypeOK, OccupationConsistent, Unacknowledged
  PROVE  Settled /\ LeasesOnlyEnd /\ failed_releases' \subseteq Leases /\ on_finish' \subseteq Leases
<1> DEFINE R == {c \in Calls : pc'[c] = "rejected" /\ pc[c] # "rejected"}
<1>1. /\ Settle("unacknowledged") /\ Release(R)
      /\ failed_releases' = failed_releases \cup on_finish /\ on_finish' = {}
  BY DEF Unacknowledged
<1>2. R \in SUBSET Leases
  BY LeasesFinite
<1> HIDE DEF R
<1> QED
  BY <1>1, <1>2, SettleKeeps, ReleaseOnlyEnds DEF TypeOK

\* Recording a status of a Turn.
LEMMA SealKeeps ==
  ASSUME TypeOK, NEW status \in Statuses, active_turn \in Keys, Seal(status)
  PROVE  /\ journal' \in [Keys -> Statuses \cup {"none"}] /\ journal'[active_turn] \in Statuses
         /\ UNCHANGED <<message, history>>
BY DEF TypeOK, Seal, Statuses

\* The end of a Turn, seen from the invariant.
Ends ==
  /\ Settled /\ LeasesOnlyEnd /\ failed_releases' \subseteq Leases /\ on_finish' \subseteq Leases
  /\ UNCHANGED <<message, history>> /\ journal' \in [Keys -> Statuses \cup {"none"}]
  /\ phase' \in Phases \ TurnPhases /\ phase' \in {phase, "take"}
  /\ recovered_turn_id' \in Keys \cup {NoTurn} /\ recovered_release' \in BOOLEAN
  /\ closing' \in BOOLEAN
  /\ UNCHANGED <<initialized, queue, pending_prompt_count, aborted, current, drained, result, seal,
                 stopping, stop_generation, stop_gen, crashes>>

LEMMA EndsKeeps == ASSUME IInv, Ends PROVE IInv'
<1>1. UnleasedBeforeAdmission'
  BY UnleasedKeeps DEF IInv, Ends, Settled
<1>2. TypeOK'
  BY DEF IInv, Ends, Settled, TypeOK, LeasesOnlyEnd, OccupationTypes
<1>3. HistoryStored' /\ CommandsBound'
  BY DEF IInv, Ends, Settled, HistoryStored, CommandsBound, QueueBound, Bound, TurnPhases
<1>4. LoopOwnsTurn' /\ StopOwnsRecovery'
  BY DEF IInv, Ends, Settled, LoopOwnsTurn, StopOwnsRecovery, TurnPhases
<1> QED
  BY <1>1, <1>2, <1>3, <1>4 DEF IInv, Ends, LeasesOnlyEnd

LEMMA PrepareCompletionStep == ASSUME IInv, PrepareCompletion PROVE IInv'
<1>1. /\ phase = "sealing" /\ phase \in TurnPhases /\ active_turn \in Keys /\ seal \in Statuses
      /\ \A s \in Stoppers : stop_pc[s] # "recovering"
  BY NoRecoveryInTurn DEF PrepareCompletion, IInv, LoopOwnsTurn, TurnPhases
<1>2. CASE /\ Seal(seal) /\ phase' = "finishing"
           /\ UNCHANGED <<queue, pending_prompt_count, occupation, releases, turn, callers, stops>>
  <2>1. /\ journal' \in [Keys -> Statuses \cup {"none"}] /\ journal'[active_turn] \in Statuses
        /\ UNCHANGED <<message, history>>
    BY <1>1, <1>2, SealKeeps DEF IInv
  <2>2. LeasesOnlyEnd
    BY <1>2, OccupationUnchanged DEF IInv
  <2>3. UnleasedBeforeAdmission'
    BY <1>2, <2>2, UnleasedKeeps DEF IInv, PrepareCompletion, callers
  <2>4. TypeOK'
    BY <1>2, <2>1 DEF PrepareCompletion, IInv, TypeOK, Phases, occupation, releases, turn, callers, stops
  <2>5. Rest'
    BY <1>1, <1>2, <2>1 DEF PrepareCompletion, IInv, Rest, HistoryStored, LoopOwnsTurn, TurnPhases,
                      CommandsBound, QueueBound, Bound, StopOwnsRecovery, turn, callers, stops
  <2> QED
    BY <2>2, <2>3, <2>4, <2>5 DEF IInv, Rest, LeasesOnlyEnd
<1>3. CASE /\ UNCHANGED durable \/ Seal(seal)
           /\ recovered_turn_id' = active_turn /\ closing' = TRUE
           /\ Unacknowledged /\ phase' = "take"
           /\ UNCHANGED <<queue, pending_prompt_count, recovered_release, aborted, stopping,
                          stop_generation, stop_gen>>
  <2>1. journal' \in [Keys -> Statuses \cup {"none"}] /\ UNCHANGED <<message, history>>
    BY <1>1, <1>3, SealKeeps DEF IInv, TypeOK, durable
  <2>2. Settled /\ LeasesOnlyEnd /\ failed_releases' \subseteq Leases /\ on_finish' \subseteq Leases
    BY <1>3, UnacknowledgedKeeps DEF IInv
  <2>3. Ends
    BY <1>1, <1>3, <2>1, <2>2 DEF Ends, PrepareCompletion, IInv, TypeOK, Phases, TurnPhases
  <2> QED
    BY <2>3, EndsKeeps
<1> QED
  BY <1>2, <1>3 DEF PrepareCompletion

LEMMA CompleteTurnStep == ASSUME IInv, CompleteTurn PROVE IInv'
<1>1. journal[active_turn] \in Statuses /\ {} \in SUBSET Leases
  BY DEF CompleteTurn, IInv, LoopOwnsTurn
<1>2. Settled /\ LeasesOnlyEnd /\ failed_releases' \subseteq Leases /\ on_finish' \subseteq Leases
  BY <1>1, FinishedKeeps DEF CompleteTurn, IInv
<1>3. Ends
  BY <1>2 DEF Ends, CompleteTurn, durable, IInv, TypeOK, Phases, TurnPhases
<1> QED
  BY <1>3, EndsKeeps

LEMMA FailTurnStep == ASSUME IInv, FailTurn PROVE IInv'
<1> DEFINE status == IF aborted THEN "stopped" ELSE "failed"
<1>1. active_turn \in Keys /\ status \in Statuses /\ {} \in SUBSET Leases
  BY DEF FailTurn, IInv, LoopOwnsTurn, TurnPhases, Statuses
<1>2. /\ journal' \in [Keys -> Statuses \cup {"none"}] /\ UNCHANGED <<message, history>>
      /\ Settled /\ LeasesOnlyEnd /\ failed_releases' \subseteq Leases /\ on_finish' \subseteq Leases
  <2>1. CASE Seal(status) /\ Finished(journal'[active_turn], {})
    BY <1>1, <2>1, SealKeeps, FinishedKeeps DEF IInv
  <2>2. CASE Unacknowledged /\ UNCHANGED durable
    BY <2>2, UnacknowledgedKeeps DEF IInv, TypeOK, durable
  <2> QED
    BY <2>1, <2>2 DEF FailTurn
<1>3. Ends
  BY <1>2 DEF Ends, FailTurn, IInv, TypeOK, Phases, TurnPhases
<1> QED
  BY <1>3, EndsKeeps

-----------------------------------------------------------------------------
\* stop, and the end of the process.

LEMMA StopBeginStep == ASSUME IInv, NEW s \in Stoppers, StopBegin(s) PROVE IInv'
<1>1. \E b \in BOOLEAN : Cancels(CancelledCalls, b)
  BY DEF StopBegin, Cancels
<1>2. /\ LeasesOnlyEnd /\ on_finish' \subseteq Leases
      /\ queue' \in Seq(Commands) /\ pending_prompt_count' \in Nat
      /\ \A i \in DOMAIN queue' : queue'[i] \notin Calls
      /\ pc' \in [Commands -> CallPcs \cup {"done"}]
      /\ \A d \in Commands : pc'[d] \in {pc[d], "rejected"}
  BY <1>1, CancelledAreCalls, CancelsKeep
<1>3. UnleasedBeforeAdmission'
  BY <1>2, UnleasedKeeps DEF IInv, StopBegin, Commands
<1>4. /\ stop_pc' \in [Stoppers -> {"idle", "waiting", "recovering", "woken", "done"}]
      /\ stop_gen' \in [Stoppers -> Nat] /\ stop_generation' \in Nat /\ stopping' \in BOOLEAN
      /\ \A r \in Stoppers \ {s} : stop_pc'[r] = stop_pc[r]
  <2>1. /\ stop_pc \in [Stoppers -> {"idle", "waiting", "recovering", "woken", "done"}]
        /\ stop_gen \in [Stoppers -> Nat] /\ stop_generation \in Nat
    BY DEF IInv, TypeOK
  <2>2. stop_generation' \in Nat /\ stop_gen' \in [Stoppers -> Nat] /\ stopping' \in BOOLEAN
    BY <2>1 DEF StopBegin
  <2>3. \E v \in {"recovering", "waiting", "woken"} : stop_pc' = [stop_pc EXCEPT ![s] = v]
    BY DEF StopBegin
  <2> QED
    BY <2>1, <2>2, <2>3
<1>5. /\ active_turn' \in Keys \cup {NoTurn} /\ aborted' \in BOOLEAN /\ closing' \in BOOLEAN
      /\ phase \in TurnPhases => active_turn' = active_turn
      /\ \A r \in Stoppers : stop_pc[r] = "recovering" => active_turn' = active_turn /\ closing'
      /\ stop_pc'[s] = "recovering" => active_turn' \in Keys /\ closing' /\ phase \notin TurnPhases
  <2>1. /\ active_turn \in Keys \cup {NoTurn} /\ aborted \in BOOLEAN /\ closing \in BOOLEAN
        /\ recovered_turn_id \in Keys \cup {NoTurn} /\ NoTurn \notin Keys
        /\ DOMAIN stop_pc = Stoppers
    BY LoopAssumption DEF IInv, TypeOK
  <2>2. phase \in TurnPhases => active_turn \in Keys
    BY DEF IInv, LoopOwnsTurn
  <2>3. \A r \in Stoppers : stop_pc[r] = "recovering" => active_turn \in Keys /\ closing
    BY DEF IInv, StopOwnsRecovery
  <2>4. CASE /\ active_turn = NoTurn /\ recovered_turn_id # NoTurn
             /\ active_turn' = recovered_turn_id /\ aborted' = TRUE /\ closing' = TRUE
             /\ stop_pc' = [stop_pc EXCEPT ![s] = "recovering"]
    BY <2>1, <2>2, <2>3, <2>4
  <2>5. CASE /\ active_turn # NoTurn /\ aborted' = TRUE /\ UNCHANGED <<active_turn, closing>>
             /\ stop_pc' = [stop_pc EXCEPT ![s] = "waiting"]
    BY <2>1, <2>2, <2>3, <2>5
  <2>6. CASE /\ active_turn = NoTurn /\ UNCHANGED <<active_turn, aborted, closing>>
             /\ stop_pc' = [stop_pc EXCEPT ![s] = "woken"]
    BY <2>1, <2>2, <2>3, <2>6
  <2> QED
    BY <2>4, <2>5, <2>6 DEF StopBegin, turn
<1>6. TypeOK'
  BY <1>2, <1>4, <1>5 DEF StopBegin, IInv, TypeOK, LeasesOnlyEnd, OccupationTypes, durable, loop
<1>7. HistoryStored' /\ LoopOwnsTurn' /\ CommandsBound'
  BY <1>2, <1>5 DEF StopBegin, IInv, HistoryStored, LoopOwnsTurn, TurnPhases, CommandsBound,
                    QueueBound, Bound, durable, loop
<1>8. StopOwnsRecovery'
  <2> SUFFICES ASSUME NEW r \in Stoppers, stop_pc'[r] = "recovering"
               PROVE  /\ closing' /\ active_turn' \in Keys /\ phase' \notin TurnPhases
                      /\ \A i \in DOMAIN queue' : queue'[i] \notin Calls
                      /\ \A c \in Calls : pc'[c] # "woken"
    BY DEF StopOwnsRecovery
  <2>1. \A c \in Calls : pc'[c] # "woken"
    BY <1>2 DEF StopBegin, Quiet, Commands
  <2>2. closing' /\ active_turn' \in Keys /\ phase \notin TurnPhases
    BY <1>4, <1>5 DEF IInv, StopOwnsRecovery
  <2> QED
    BY <1>2, <2>1, <2>2 DEF StopBegin, loop
<1> QED
  BY <1>2, <1>3, <1>6, <1>7, <1>8 DEF IInv, LeasesOnlyEnd

LEMMA StopRecoversStep == ASSUME IInv, NEW s \in Stoppers, StopRecovers(s) PROVE IInv'
<1> DEFINE also == failed_releases \cup (IF recovered_release THEN {Recovery} ELSE {})
<1>1. /\ active_turn \in Keys /\ phase \notin TurnPhases /\ "stopped" \in Statuses
      /\ also \in SUBSET Leases /\ phase' = phase
  BY LeasesFinite DEF StopRecovers, IInv, TypeOK, StopOwnsRecovery, Statuses, loop
<1>2. /\ journal' \in [Keys -> Statuses \cup {"none"}] /\ UNCHANGED <<message, history>>
      /\ Settled /\ LeasesOnlyEnd /\ failed_releases' \subseteq Leases /\ on_finish' \subseteq Leases
      /\ recovered_turn_id' \in Keys \cup {NoTurn} /\ recovered_release' \in BOOLEAN
  <2>1. CASE /\ Seal("stopped") /\ Finished(journal'[active_turn], also)
             /\ recovered_release' = FALSE /\ recovered_turn_id' = NoTurn
    BY <1>1, <2>1, SealKeeps, FinishedKeeps DEF IInv
  <2>2. CASE Unacknowledged /\ UNCHANGED <<durable, recovered_turn_id, recovered_release>>
    BY <2>2, UnacknowledgedKeeps DEF IInv, TypeOK, durable
  <2> QED
    BY <2>1, <2>2 DEF StopRecovers
<1>3. Ends
  BY <1>1, <1>2 DEF Ends, StopRecovers, IInv, TypeOK, Phases, TurnPhases, loop
<1> QED
  BY <1>3, EndsKeeps

LEMMA StopEndStep == ASSUME IInv, NEW s \in Stoppers, StopEnd(s) PROVE IInv'
<1>1. LeasesOnlyEnd
  BY OccupationUnchanged DEF IInv, StopEnd
<1>2. UnleasedBeforeAdmission'
  BY <1>1, UnleasedKeeps DEF IInv, StopEnd, callers
<1>3. TypeOK'
  BY DEF StopEnd, IInv, TypeOK, durable, occupation, releases, turn, loop, callers
<1>4. Rest'
  BY DEF StopEnd, IInv, TypeOK, Rest, HistoryStored, LoopOwnsTurn, CommandsBound, QueueBound, Bound,
         StopOwnsRecovery, durable, turn, loop, callers
<1> QED
  BY <1>1, <1>2, <1>3, <1>4 DEF IInv, Rest, LeasesOnlyEnd

\* Without leases there is nothing to release.
LEMMA FreeOccupation ==
  ASSUME owner = NoActor, references = 0, holder = [l \in Leases |-> NoActor]
  PROVE  OccupationTypes /\ OccupationConsistent
<1>1. {l \in Leases : holder[l] # NoActor} = {}
  OBVIOUS
<1>2. Cardinality({l \in Leases : holder[l] # NoActor}) = 0
  BY <1>1, FS_EmptySet
<1> QED
  BY <1>2 DEF OccupationTypes, OccupationConsistent

LEMMA CrashStep == ASSUME IInv, Crash PROVE IInv'
<1>1. OccupationTypes' /\ OccupationConsistent'
  <2>1. {l \in Leases : holder'[l] # NoActor} = {}
    BY DEF Crash
  <2>2. Cardinality({l \in Leases : holder'[l] # NoActor}) = 0
    BY <2>1, FS_EmptySet
  <2> QED
    BY <2>2 DEF Crash, OccupationTypes, OccupationConsistent
<1>2. /\ pc' \in [Commands -> CallPcs \cup {"done"}]
      /\ stop_pc' \in [Stoppers -> {"idle", "waiting", "recovering", "woken", "done"}]
      /\ \A s \in Stoppers : stop_pc'[s] # "recovering"
  BY DEF Crash, IInv, TypeOK, CallPcs
<1>3. command' \in [Calls -> [turn : Keys \cup {NoTurn}, stored : BOOLEAN,
                            from : Actors \cup {NoActor}]]
  BY DEF Crash, NoCommand
<1>4. queue' = <<>> /\ drained' = <<>> /\ <<>> \in Seq(Commands) /\ DOMAIN queue' = {}
      /\ DOMAIN drained' = {}
  BY DEF Crash
<1>5. crashes' \in 0 .. MaxCrashes
  BY LoopAssumption DEF Crash, IInv, TypeOK
<1>6. TypeOK'
  BY <1>1, <1>2, <1>3, <1>4, <1>5 DEF Crash, IInv, TypeOK, OccupationTypes, durable, Phases
<1>7. UnleasedBeforeAdmission'
  BY LeasesFinite DEF Crash, UnleasedBeforeAdmission
<1>8. Rest'
  BY <1>2, <1>4 DEF Crash, IInv, Rest, HistoryStored, LoopOwnsTurn, TurnPhases, CommandsBound,
                    QueueBound, StopOwnsRecovery, durable
<1> QED
  BY <1>1, <1>6, <1>7, <1>8 DEF IInv, Rest

-----------------------------------------------------------------------------
\* The invariant and what follows from it.

LEMMA InitInv == ASSUME Init PROVE IInv
<1>1. OccupationTypes /\ OccupationConsistent
  BY FreeOccupation DEF Init
<1>2. /\ queue = <<>> /\ drained = <<>> /\ <<>> \in Seq(Commands) /\ DOMAIN queue = {}
      /\ DOMAIN drained = {} /\ history = <<>> /\ <<>> \in Seq(Keys) /\ DOMAIN history = {}
  BY DEF Init
<1>3. TypeOK
  <2>1. message \in [Keys -> [turn : Keys, from : Actors] \cup {NoMessage}]
    BY DEF Init
  <2>2. journal \in [Keys -> Statuses \cup {"none"}]
    BY DEF Init
  <2>3. /\ pc \in [Commands -> CallPcs \cup {"done"}] /\ gen \in [Calls -> Nat]
        /\ stop_pc \in [Stoppers -> {"idle", "waiting", "recovering", "woken", "done"}]
        /\ stop_gen \in [Stoppers -> Nat]
    BY DEF Init, CallPcs
  <2>4. command \in [Calls -> [turn : Keys \cup {NoTurn}, stored : BOOLEAN,
                              from : Actors \cup {NoActor}]]
    BY DEF Init, NoCommand
  <2>5. /\ handle \in [Calls -> Keys \cup {NoTurn}]
        /\ outcome \in [Calls -> Statuses \cup {"pending", "unacknowledged"}]
        /\ crashes \in 0 .. MaxCrashes
    BY LoopAssumption DEF Init
  <2>6. /\ phase \in Phases /\ current \in Commands \cup {NoTurn}
        /\ result \in {"none", "success", "failure"} /\ seal \in Statuses \cup {"none"}
    BY DEF Init, Phases
  <2> QED
    BY <1>1, <1>2, <2>1, <2>2, <2>3, <2>4, <2>5, <2>6 DEF Init, TypeOK, OccupationTypes
<1>4. UnleasedBeforeAdmission
  BY LeasesFinite DEF Init, UnleasedBeforeAdmission
<1> QED
  BY <1>1, <1>2, <1>3, <1>4 DEF Init, IInv, HistoryStored, LoopOwnsTurn, TurnPhases, CommandsBound,
                                QueueBound, StopOwnsRecovery

LEMMA StutterStep == ASSUME IInv, UNCHANGED vars PROVE IInv'
<1>1. LeasesOnlyEnd
  BY OccupationUnchanged DEF IInv, vars
<1>2. UnleasedBeforeAdmission'
  BY <1>1, UnleasedKeeps DEF IInv, vars, callers
<1>3. TypeOK'
  BY DEF vars, IInv, TypeOK, durable, occupation, releases, turn, loop, callers, stops
<1>4. Rest'
  BY DEF vars, IInv, Rest, HistoryStored, LoopOwnsTurn, CommandsBound, QueueBound, Bound,
         StopOwnsRecovery, durable, turn, loop, callers, stops
<1> QED
  BY <1>1, <1>2, <1>3, <1>4 DEF IInv, Rest, LeasesOnlyEnd

LEMMA NextInv == ASSUME IInv, [Next]_vars PROVE IInv'
<1>1. CASE LoopStep
  BY <1>1, TakeNextStep, ExecuteMaintenanceStep, StartTurnStep, AbsorbDrainedStep, DrainDoneStep,
     ExecutorReturnsStep, ChildrenSettleStep, TurnThrowsStep, FixStatusStep, PrepareCompletionStep,
     CompleteTurnStep, FailTurnStep DEF LoopStep
<1>2. ASSUME NEW c \in Calls, Prompt(c) \/ AcceptDelegationResult(c) \/ CallStep(c) PROVE IInv'
  BY <1>2, PromptStep, AcceptDelegationResultStep, AdmitStep, EnsureRunnableStep,
     PromptWithIdentityStep, ResumeSubmissionStep DEF CallStep
<1>3. ASSUME NEW s \in Stoppers, StopBegin(s) \/ StopStep(s) PROVE IInv'
  BY <1>3, StopBeginStep, StopRecoversStep, StopEndStep DEF StopStep
<1>4. CASE InitializeOccupation \/ Checkpoint \/ Crash
  BY <1>4, InitializeOccupationStep, CheckpointStep, CrashStep
<1>5. CASE \E m \in Maintenance : EnqueueMaintenance(m)
  BY <1>5, EnqueueMaintenanceStep
<1> QED
  BY <1>1, <1>2, <1>3, <1>4, <1>5, StutterStep DEF Next

\* In every reachable state the variables have the values the fields of SessionLoop.ts can have.
THEOREM LoopTyped == Spec => []TypeOK
<1>1. IInv => TypeOK
  BY DEF IInv
<1> QED
  BY InitInv, NextInv, <1>1, PTL DEF Spec

\* The occupation of SessionOccupation.ts counts exactly the releases that have not run, all of
\* one actor, and is free exactly when there is none: through admissions, cancellations, stops,
\* failed acknowledgements and restarts.
THEOREM OccupationSafe == Spec => []OccupationConsistent
<1>1. IInv => OccupationConsistent
  BY DEF IInv
<1> QED
  BY InitInv, NextInv, <1>1, PTL DEF Spec

\* The only write of the journal: a status for the Turn in progress, unless it has one.
Sealed == active_turn \in Keys /\ \E status \in Statuses : Seal(status)

\* prepare never overwrites a record.
LEMMA SealRecords ==
  ASSUME journal \in [Keys -> Statuses \cup {"none"}], Sealed
  PROVE  [Promise!Next]_<<journal, {}>>
<1>1. PICK status \in Statuses : Seal(status)
  BY DEF Sealed
<1>2. CASE journal[active_turn] = "none"
  <2>1. active_turn \in Keys
    BY DEF Sealed
  <2>2. journal' = [journal EXCEPT ![active_turn] = status]
    BY <1>1, <1>2, <2>1 DEF Seal
  <2>3. Promise!Record(active_turn, status)
    BY <1>2, <2>2 DEF Promise!Record
  <2> QED
    BY <2>1, <2>3 DEF Promise!Next
<1>3. CASE journal[active_turn] # "none"
  BY <1>1, <1>3 DEF Seal, Sealed
<1> QED
  BY <1>2, <1>3

\* A step records nothing or the result of one Turn that had none.
LEMMA PromiseStep == ASSUME IInv, [Next]_vars PROVE [Promise!Next]_<<journal, {}>>
<1>1. journal \in [Keys -> Statuses \cup {"none"}]
  BY DEF IInv, TypeOK
<1>2. CASE UNCHANGED vars
  BY <1>2 DEF vars, durable
<1>3. CASE Sealed
  BY <1>1, <1>3, SealRecords
<1>4. CASE InitializeOccupation \/ Checkpoint \/ Crash
  BY <1>4 DEF InitializeOccupation, Checkpoint, Crash, durable
<1>5. ASSUME NEW m \in Maintenance, EnqueueMaintenance(m) PROVE UNCHANGED journal
  BY <1>5 DEF EnqueueMaintenance, durable
<1>6. ASSUME NEW c \in Calls, Prompt(c) \/ AcceptDelegationResult(c) \/ CallStep(c)
      PROVE  UNCHANGED journal
  BY <1>6 DEF Prompt, AcceptDelegationResult, CallStep, Admit, EnsureRunnable,
              PromptWithIdentity, ResumeSubmission, durable
<1>7. ASSUME NEW s \in Stoppers, StopBegin(s) \/ StopStep(s)
      PROVE  UNCHANGED journal \/ Sealed
  <2>1. CASE StopBegin(s) \/ StopEnd(s)
    BY <2>1 DEF StopBegin, StopEnd, durable
  <2>2. CASE StopRecovers(s)
    <3>1. active_turn \in Keys
      BY <2>2 DEF IInv, StopOwnsRecovery, StopRecovers
    <3> QED
      BY <2>2, <3>1 DEF StopRecovers, Sealed, Statuses, durable
  <2> QED
    BY <1>7, <2>1, <2>2 DEF StopStep
<1>8. ASSUME LoopStep PROVE UNCHANGED journal \/ Sealed
  <2>1. ASSUME NEW c, NEW saved, Persist(c, saved) PROVE UNCHANGED journal
    BY <2>1 DEF Persist, durable
  <2>2. CASE PrepareCompletion \/ FailTurn
    <3>1. active_turn \in Keys /\ (phase = "sealing" => seal \in Statuses)
      BY <2>2 DEF IInv, LoopOwnsTurn, TurnPhases, PrepareCompletion, FailTurn
    <3> QED
      BY <2>2, <3>1 DEF PrepareCompletion, FailTurn, Sealed, Statuses, durable
  <2>3. CASE StartTurn \/ AbsorbDrained
    BY <2>1, <2>3 DEF StartTurn, AbsorbDrained, durable
  <2>4. CASE TakeNext \/ ExecuteMaintenance \/ DrainDone \/ CompleteTurn
    BY <2>4 DEF TakeNext, ExecuteMaintenance, DrainDone, CompleteTurn, durable
  <2>5. CASE ExecutorReturns \/ ChildrenSettle \/ TurnThrows \/ FixStatus
    BY <2>5 DEF ExecutorReturns, ChildrenSettle, TurnThrows, FixStatus, durable
  <2> QED
    BY <1>8, <2>2, <2>3, <2>4, <2>5 DEF LoopStep
<1> QED
  BY <1>2, <1>3, <1>4, <1>5, <1>6, <1>7, <1>8 DEF Next

\* The loop implements CompletionJournal: whatever retries, stops, failures and restarts follow, the
\* result of a Turn (SessionCompletions.prepare) is recorded at most once and never changed.
THEOREM LoopKeepsPromise == Spec => KeepsPromise
<1>1. ASSUME Init PROVE Promise!Init
  BY <1>1 DEF Init, Promise!Init
<1> QED
  BY <1>1, PromiseStep, InitInv, NextInv, PTL DEF Spec, KeepsPromise, Promise!Spec
=============================================================================
