---------------------------- MODULE GroupSessionProofs ----------------------------
(***************************************************************************)
(* What holds of GroupSession for all prompts, members, limits, failed     *)
(* writes and restarts: a prompt that has returned is not lost, what a     *)
(* stop has ended does not come back, and members do not answer each other *)
(* for more than MaxRounds rounds.                                         *)
(***************************************************************************)
EXTENDS GroupSession, SequenceTheorems, TLAPS

Mutations == [kind : {"prompt", "handover", "clear"}, adds : SUBSET Messages,
              drops : SUBSET Messages, at : {"append", "begin", "persist"}]
LoopStates == [at : LoopAwaits, revision : Nat, batch : SUBSET Messages, rounds : 0..MaxRounds + 1,
               wait : Nat, chosen : SUBSET Members,
               error : {"none", "failed", "stopped", "superseded"}, outputs : SUBSET Replies]
StopStates == [at : {"none", "cancelling", "draining", "clearing", "cleared", "unsaved"}, wait : Nat]
Deliveries == {"none", "creating", "prompting", "prepared", "running", "replying", "reporting", "done"}
PromptStates == {"new", "saving", "saved", "returned", "failed"}
Outcomes == {"open", "handled", "dropped", "stopped"}

Handing == {"handing", "dropping"}
Deciding == {"queueing", "starting", "deciding", "recording", "ending", "settling", "limiting"}
Round == {"preparing", "executing"}

-----------------------------------------------------------------------------
\* The invariant.

\* What a mutation m is about (prompts p and their outcomes o, loop l, stop s, pending messages P):
\* a prompt waits for its own, the loop for its handover, a stop for its clear; one that has begun
\* has changed P.
Entry(m, p, o, l, s, P) ==
  /\ m.kind = "prompt" =>
       m.adds \subseteq Prompts /\ \A q \in m.adds : p[q] = "saving" /\ o[q] # "stopped"
  /\ m.kind = "handover" =>
       /\ m.adds \subseteq Replies
       /\ l.at = "handing" \/ (l.at = "dropping" /\ m.adds = {})
       /\ l.at = "handing" /\ l.rounds > MaxRounds =>
            /\ m.adds = {}
            /\ m.at = "begin" => P \cap Replies \subseteq m.drops
            /\ m.at = "persist" => P \cap Replies = {}
  /\ m.kind = "clear" => m.adds = {} /\ s.at = "clearing" /\ l.at = "none"
  /\ m.kind = "prompt" /\ m.at = "persist" => m.adds \subseteq P
  /\ m.kind = "clear" /\ m.at = "persist" => P = {}

Entries(c, p, o, l, s, P) == \A i \in 1..Len(c) : Entry(c[i], p, o, l, s, P)

First(kind) == IF kind = "prompt" THEN "append" ELSE "begin"

\* Only the first mutation has begun, nothing comes after a clear, the loop hands over once at a
\* time, and prompts have one mutation each.
Ordered(c) ==
  /\ \A i \in 1..Len(c) :
       /\ c[i].at = First(c[i].kind) \/ (i = 1 /\ c[i].at = "persist")
       /\ c[i].kind = "clear" => i = Len(c)
  /\ \A i, j \in 1..Len(c) : i # j =>
       /\ ~(c[i].kind = "handover" /\ c[j].kind = "handover")
       /\ c[i].kind = "prompt" /\ c[j].kind = "prompt" => c[i].adds \cap c[j].adds = {}

\* The messages that are not saved yet, and those that must be there.
Stored ==
  \A p \in Prompts :
    /\ prompt[p] \in {"saved", "returned"} /\ outcome[p] = "open" => p \in checkpoint /\ (up => p \in pending)
    /\ prompt[p] = "new" => outcome[p] # "stopped"

Down ==
  ~up => /\ chain = <<>> /\ loop.at = "none" /\ stop.at = "none"
         /\ \A p \in Prompts : prompt[p] \notin {"saving", "saved"}

\* A loop l with members d, while P is pending: members answer in a round only, the loop knows all
\* replies that are pending, and the round after the last one has no members and leaves no replies.
InRound(l, d, P) ==
  /\ l.at = "none" => l.batch = {}
  /\ \A m \in Members : d[m] # "none" => l.at \in Round /\ m \in l.chosen
  /\ l.at \in Deciding \cup Round => P \cap Replies \subseteq l.batch
  /\ l.at \in Deciding => l.rounds <= MaxRounds
  /\ l.rounds > MaxRounds =>
       /\ l.at \in Round => l.chosen = {} /\ l.outputs = {}
       /\ l.at \notin Round \cup {"handing"} => P \cap Replies = {}

GroupInv ==
  /\ TypeOK /\ Ordered(chain) /\ Entries(chain, prompt, outcome, loop, stop, pending)
  /\ Stored /\ Down /\ InRound(loop, delivery, pending) /\ NothingAfterStop

-----------------------------------------------------------------------------
\* The chain of mutations.

LEMMA ChainFacts ==
  ASSUME NEW c \in Seq(Mutations)
  PROVE  /\ Len(c) \in Nat /\ \A i \in 1..Len(c) : c[i] \in Mutations
         /\ c # <<>> => 1 \in 1..Len(c) /\ Head(c) = c[1] /\ Head(c) \in Mutations
<1>1. Len(c) \in Nat /\ \A i \in 1..Len(c) : c[i] \in Mutations
  BY LenProperties
<1>2. ASSUME c # <<>> PROVE 1 \in 1..Len(c) /\ Head(c) = c[1] /\ Head(c) \in Mutations
  <2>1. Len(c) \in Nat \ {0}
    BY <1>2, EmptySeq
  <2>2. Head(c) = c[1]
    BY <1>2
  <2>3. Head(c) \in Mutations
    BY <1>2, HeadTailProperties
  <2>. QED BY <2>1, <2>2, <2>3
<1>. QED BY <1>1, <1>2

LEMMA TailFacts ==
  ASSUME NEW c \in Seq(Mutations), c # <<>>
  PROVE  /\ Tail(c) \in Seq(Mutations)
         /\ \A i \in 1..Len(Tail(c)) : /\ Tail(c)[i] = c[i + 1] /\ i + 1 \in 1..Len(c) /\ i + 1 # 1
                                       /\ i + 1 = Len(c) <=> i = Len(Tail(c))
<1>1. /\ Tail(c) \in Seq(Mutations) /\ Len(Tail(c)) = Len(c) - 1
      /\ \A i \in 1..Len(Tail(c)) : Tail(c)[i] = c[i + 1]
  BY HeadTailProperties
<1>2. Len(c) \in Nat
  BY ChainFacts
<1>. QED BY <1>1, <1>2

\* The first mutation leaves the chain, goes on, or another one is queued.
LEMMA OrderedTail ==
  ASSUME NEW c \in Seq(Mutations), c # <<>>, Ordered(c)
  PROVE  /\ Ordered(Tail(c))
         /\ \A i \in 1..Len(Tail(c)) :
              /\ Tail(c)[i].at # "persist" /\ c[1].kind # "clear"
              /\ ~(c[1].kind = "handover" /\ Tail(c)[i].kind = "handover")
              /\ c[1].kind = "prompt" /\ Tail(c)[i].kind = "prompt" => c[1].adds \cap Tail(c)[i].adds = {}
<1>. DEFINE d == Tail(c)
<1>1. \A i \in 1..Len(d) : d[i] = c[i + 1] /\ i + 1 \in 1..Len(c) /\ i + 1 # 1 /\ (i + 1 = Len(c) <=> i = Len(d))
  BY TailFacts
<1>2. Len(c) \in Nat /\ 1 \in 1..Len(c) /\ d \in Seq(Mutations) /\ Len(d) \in Nat
  BY ChainFacts, TailFacts
<1>. HIDE DEF d
<1>3. \A i \in 1..Len(d) : /\ d[i].at = First(d[i].kind)
                           /\ d[i].kind = "clear" => i = Len(d)
  BY <1>1 DEF Ordered
<1>4. ASSUME NEW i \in 1..Len(d), NEW j \in 1..Len(d), i # j
      PROVE  /\ ~(d[i].kind = "handover" /\ d[j].kind = "handover")
             /\ d[i].kind = "prompt" /\ d[j].kind = "prompt" => d[i].adds \cap d[j].adds = {}
  <2>1. i + 1 \in 1..Len(c) /\ j + 1 \in 1..Len(c) /\ i + 1 # j + 1 /\ d[i] = c[i + 1] /\ d[j] = c[j + 1]
    BY <1>1, <1>2, <1>4
  <2>. QED BY <2>1 DEF Ordered
<1>5. Ordered(d)
  BY <1>3, <1>4 DEF Ordered
<1>6. ASSUME NEW i \in 1..Len(d)
      PROVE  /\ d[i].at # "persist" /\ c[1].kind # "clear"
             /\ ~(c[1].kind = "handover" /\ d[i].kind = "handover")
             /\ c[1].kind = "prompt" /\ d[i].kind = "prompt" => c[1].adds \cap d[i].adds = {}
  <2>1. d[i].at # "persist"
    BY <1>3 DEF First
  <2>2. c[1].kind # "clear"
    BY <1>1, <1>2 DEF Ordered
  <2>. QED BY <1>1, <1>2, <2>1, <2>2 DEF Ordered
<1>. QED BY <1>5, <1>6 DEF d

LEMMA OrderedBegun ==
  ASSUME NEW c \in Seq(Mutations), c # <<>>, Ordered(c), NEW d, d = [c EXCEPT ![1].at = "persist"]
  PROVE  /\ Ordered(d) /\ d \in Seq(Mutations) /\ Len(d) = Len(c)
         /\ d[1] \in Mutations /\ d[1].kind = c[1].kind /\ d[1].adds = c[1].adds /\ d[1].drops = c[1].drops
         /\ d[1].at = "persist"
         /\ \A i \in 1..Len(c) : i # 1 => d[i] = c[i] /\ c[i].at # "persist"
<1>. DEFINE m == [c[1] EXCEPT !.at = "persist"]
<1>1. Len(c) \in Nat /\ 1 \in 1..Len(c) /\ c[1] \in Mutations
  BY ChainFacts
<1>2. m \in Mutations /\ m.kind = c[1].kind /\ m.adds = c[1].adds /\ m.drops = c[1].drops /\ m.at = "persist"
  BY <1>1 DEF Mutations
<1>3. d = [c EXCEPT ![1] = m]
  OBVIOUS
<1>. HIDE DEF m
<1>4. d \in Seq(Mutations) /\ Len(d) = Len(c) /\ \A i \in 1..Len(c) : d[i] = IF i = 1 THEN m ELSE c[i]
  BY <1>1, <1>2, <1>3, ExceptSeq
<1>5. \A i \in 1..Len(c) : i # 1 => c[i].at # "persist"
  BY DEF Ordered, First
<1>6. Ordered(d)
  BY <1>1, <1>2, <1>4 DEF Ordered
<1>. QED BY <1>1, <1>2, <1>4, <1>5, <1>6

LEMMA OrderedAppended ==
  ASSUME NEW c \in Seq(Mutations), Ordered(c), NEW m \in Mutations, m.at = First(m.kind),
         \A i \in 1..Len(c) : /\ c[i].kind # "clear"
                              /\ ~(m.kind = "handover" /\ c[i].kind = "handover")
                              /\ m.kind = "prompt" /\ c[i].kind = "prompt" => c[i].adds \cap m.adds = {}
  PROVE  /\ Ordered(Append(c, m)) /\ Append(c, m) \in Seq(Mutations)
         /\ \A i \in 1..Len(Append(c, m)) : Append(c, m)[i] = m \/ \E j \in 1..Len(c) : Append(c, m)[i] = c[j]
<1>. DEFINE d == Append(c, m)
<1>1. /\ d \in Seq(Mutations) /\ Len(d) = Len(c) + 1 /\ d[Len(c) + 1] = m
      /\ \A i \in 1..Len(c) : d[i] = c[i]
  BY AppendProperties
<1>2. Len(c) \in Nat
  BY LenProperties
<1>. HIDE DEF d
<1>3. \A i \in 1..Len(d) : (i \in 1..Len(c) /\ d[i] = c[i]) \/ (i = Len(d) /\ d[i] = m)
  BY <1>1, <1>2
<1>4. \A i \in 1..Len(d) : /\ d[i].at = First(d[i].kind) \/ (i = 1 /\ d[i].at = "persist")
                           /\ d[i].kind = "clear" => i = Len(d)
  BY <1>3 DEF Ordered
<1>5. \A i, j \in 1..Len(d) : i # j =>
         /\ ~(d[i].kind = "handover" /\ d[j].kind = "handover")
         /\ d[i].kind = "prompt" /\ d[j].kind = "prompt" => d[i].adds \cap d[j].adds = {}
  BY <1>3 DEF Ordered
<1>6. Ordered(d)
  BY <1>4, <1>5 DEF Ordered
<1>. QED BY <1>1, <1>3, <1>6 DEF d

-----------------------------------------------------------------------------
\* The loop.

LEMMA GroupInit == Init => GroupInv
<1>. SUFFICES ASSUME Init PROVE GroupInv
  OBVIOUS
<1>1. chain = <<>> /\ Len(chain) = 0 /\ chain \in Seq(Mutations)
  BY EmptySeq DEF Init
<1>2. NoLoop \in LoopStates /\ NoLoop.at = "none" /\ NoLoop.batch = {} /\ NoLoop.rounds = 0
  BY GroupAssumption DEF NoLoop, LoopStates, LoopAwaits
<1>3. TypeOK
  BY <1>1, <1>2, GroupAssumption DEF Init, TypeOK, Quiet, NoStop, Mutations, LoopStates
<1>4. Ordered(chain) /\ Entries(chain, prompt, outcome, loop, stop, pending)
  BY <1>1 DEF Ordered, Entries
<1>5. Stored /\ Down /\ NothingAfterStop
  BY DEF Init, Stored, Down, NothingAfterStop
<1>6. InRound(loop, delivery, pending)
  BY <1>2, GroupAssumption DEF Init, InRound, Quiet, Deciding, Round
<1>. QED BY <1>3, <1>4, <1>5, <1>6 DEF GroupInv

LEMMA FailuresCounted ==
  ASSUME GroupInv, Works \/ Fails \/ UNCHANGED failures
  PROVE  failures' \in 0..MaxFailures
  BY GroupAssumption DEF GroupInv, TypeOK, Works, Fails

\* The loop goes on with l and the members with d while it waits for no handover.
LEMMA LoopKeeps ==
  ASSUME GroupInv, NEW l \in LoopStates, NEW d \in [Members -> Deliveries],
         loop' = l, delivery' = d, failures' \in 0..MaxFailures,
         UNCHANGED <<prompt, pending, chain, revision, stop, up, checkpoint, crashes, outcome>>,
         loop.at \notin {"none", "handing", "dropping"}, InRound(l, d, pending),
         l.batch \subseteq loop.batch \cup pending
  PROVE  GroupInv'
<1>1. TypeOK'
  BY DEF GroupInv, TypeOK, LoopStates, Deliveries
<1>2. Ordered(chain)'
  BY DEF GroupInv
<1>3. Entries(chain, prompt, outcome, loop, stop, pending)'
  BY DEF GroupInv, Entries, Entry
<1>4. Stored' /\ Down'
  BY DEF GroupInv, Stored, Down
<1>5. NothingAfterStop'
  BY DEF GroupInv, NothingAfterStop
<1>. QED BY <1>1, <1>2, <1>3, <1>4, <1>5 DEF GroupInv

\* A loop that is waiting, or is not there: all that is known of it is its rounds.
LEMMA LoopOf ==
  ASSUME GroupInv
  PROVE  /\ loop \in LoopStates /\ delivery \in [Members -> Deliveries] /\ MaxRounds \in Nat \ {0}
         /\ revision \in Nat /\ pending \in SUBSET Messages /\ Len(chain) \in Nat
         /\ chain \in Seq(Mutations) /\ InRound(loop, delivery, pending)
<1>1. chain \in Seq(Mutations)
  BY DEF GroupInv, TypeOK, Mutations
<1>. QED BY <1>1, LenProperties, GroupAssumption DEF GroupInv, TypeOK, LoopStates, Deliveries

\* What a loop goes on with when it returns, and when it looks again.
LEMMA Idle ==
  ASSUME GroupInv
  PROVE  /\ NoLoop \in LoopStates /\ NoLoop.batch = {} /\ NoLoop.rounds = 0 /\ NoLoop.at = "none"
         /\ Returned \in LoopStates /\ Returned.batch = {} /\ Returned.rounds = 0 /\ Returned.at = "returned"
         /\ Started \in LoopStates /\ Started.batch = {} /\ Started.rounds = 0 /\ Started.at = "waiting"
         /\ Again \in LoopStates /\ Again.batch = {} /\ Again.rounds \in {0, loop.rounds}
         /\ Again.at \in {"returned", "waiting"}
<1>1. /\ NoLoop \in LoopStates /\ NoLoop.batch = {} /\ NoLoop.rounds = 0 /\ NoLoop.at = "none"
  BY LoopOf DEF NoLoop, LoopStates, LoopAwaits
<1>2. /\ Returned \in LoopStates /\ Returned.batch = {} /\ Returned.rounds = 0 /\ Returned.at = "returned"
  BY LoopOf DEF Returned, NoLoop, LoopStates, LoopAwaits
<1>3. /\ Started \in LoopStates /\ Started.batch = {} /\ Started.rounds = 0 /\ Started.at = "waiting"
  <2>1. PICK n \in Nat : Started = [NoLoop EXCEPT !.at = "waiting", !.wait = n]
    BY LoopOf DEF Started
  <2>. QED BY <1>1, <2>1 DEF LoopStates, LoopAwaits
<1>4. /\ Again \in LoopStates /\ Again.batch = {} /\ Again.rounds \in {0, loop.rounds}
      /\ Again.at \in {"returned", "waiting"}
  <2>1. CASE stop_requested
    BY <1>2, <2>1 DEF Again
  <2>2. CASE ~stop_requested
    <3>1. Again = [Started EXCEPT !.rounds = loop.rounds] /\ loop.rounds \in 0..MaxRounds + 1
      BY <2>2, LoopOf DEF Again, LoopStates
    <3>. QED BY <1>3, <3>1 DEF LoopStates
  <2>. QED BY <2>1, <2>2
<1>. QED BY <1>1, <1>2, <1>3, <1>4

\* A member outside a round.
LEMMA QuietOutside ==
  ASSUME GroupInv, loop.at \notin Round
  PROVE  \A m \in Members : delivery[m] = "none"
  BY DEF GroupInv, InRound

\* The loop gives its decision up or goes on with it: what it has read stays.
LEMMA DecidingMoves ==
  ASSUME GroupInv, loop.at \in Deciding, NEW l \in LoopStates, loop' = l,
         l.at \in {"queueing", "starting", "deciding", "recording", "ending", "settling", "limiting", "caught"},
         l.batch = loop.batch, l.rounds = loop.rounds, failures' \in 0..MaxFailures,
         UNCHANGED <<prompt, pending, chain, revision, stop, up, checkpoint, crashes, outcome, delivery>>
  PROVE  GroupInv'
<1>1. InRound(l, delivery, pending)
  <2>1. \A m \in Members : delivery[m] = "none"
    BY QuietOutside DEF Deciding, Round
  <2>2. l.rounds <= MaxRounds /\ pending \cap Replies \subseteq l.batch
    BY LoopOf DEF InRound
  <2>3. ~(l.rounds > MaxRounds)
    BY <2>2, LoopOf DEF LoopStates
  <2>. QED BY <2>1, <2>2, <2>3 DEF InRound, Round
<1>2. loop.at \notin {"none", "handing", "dropping"}
  BY DEF Deciding
<1>. QED BY <1>1, <1>2, LoopOf, LoopKeeps

LEMMA DecisionStep ==
  ASSUME GroupInv, Queue \/ Start \/ Decide \/ Record \/ End
  PROVE  GroupInv'
<1>1. loop.at \in Deciding
  BY DEF Queue, Start, Decide, Record, End, Deciding
<1>2. failures' \in 0..MaxFailures
  BY FailuresCounted DEF Queue, Start, Decide, Record, End
<1>3. UNCHANGED <<prompt, pending, chain, revision, stop, up, checkpoint, crashes, outcome, delivery>>
  BY DEF Queue, Start, Decide, Record, End, LoopMoves
<1>4. Reason \in {"none", "failed", "stopped", "superseded"}
  BY DEF Reason
<1>. DEFINE Next1(l) == /\ l \in LoopStates /\ l.at \in Deciding \cup {"caught"}
                        /\ l.batch = loop.batch /\ l.rounds = loop.rounds
<1>5. ASSUME NEW at \in Deciding \cup {"caught"}, NEW error \in {"none", "failed", "stopped", "superseded"}
      PROVE  Next1(Throw(at, error)) /\ Next1(At(at))
  <2>1. at \in LoopAwaits /\ loop \in LoopStates
    BY <1>5, LoopOf DEF LoopAwaits, Deciding
  <2>2. Next1(At(at))
    BY <1>5, <2>1 DEF At, LoopStates
  <2>3. Next1(Throw(at, error))
    BY <1>5, <2>1 DEF Throw, LoopStates
  <2>. QED BY <2>2, <2>3
<1>6. ASSUME NEW members \in SUBSET Members
      PROVE  Next1([loop EXCEPT !.at = "recording", !.chosen = members])
  BY <1>6, LoopOf DEF LoopStates, LoopAwaits, Deciding
<1>7. Next1([loop EXCEPT !.at = "settling", !.wait = Len(chain)])
  BY LoopOf DEF LoopStates, LoopAwaits, Deciding
<1>8. {"ending", "starting", "deciding", "caught"} \subseteq Deciding \cup {"caught"}
  BY DEF Deciding
<1>. HIDE DEF Next1
<1>9. Next1(loop')
  <2>1. CASE Queue \/ Start \/ End
    BY <1>4, <1>5, <1>8, <2>1 DEF Queue, Start, End, LoopMoves
  <2>2. CASE Decide
    BY <1>4, <1>5, <1>6, <1>8, <2>2 DEF Decide, LoopMoves
  <2>3. CASE Record
    BY <1>4, <1>5, <1>7, <1>8, <2>3 DEF Record, LoopMoves
  <2>. QED BY <2>1, <2>2, <2>3
<1>. QED BY <1>1, <1>2, <1>3, <1>9, DecidingMoves DEF Next1, Deciding

\* The loop looks at what is pending, and takes all of it on.
LEMMA ReadStep ==
  ASSUME GroupInv, Read
  PROVE  GroupInv'
<1>1. /\ loop.at = "waiting" /\ delivery' = delivery /\ failures' \in 0..MaxFailures
      /\ UNCHANGED <<prompt, pending, chain, revision, stop, up, checkpoint, crashes, outcome>>
  BY FailuresCounted DEF Read, LoopMoves
<1>2. \A m \in Members : delivery[m] = "none"
  BY <1>1, QuietOutside DEF Round
<1>3. CASE loop' = Returned
  <2>1. InRound(Returned, delivery, pending)
    BY <1>2, Idle, LoopOf DEF InRound, Deciding, Round
  <2>. QED BY <1>1, <1>3, <2>1, Idle, LoopOf, LoopKeeps
<1>4. CASE pending # {} /\ loop' = [loop EXCEPT !.at = "queueing", !.revision = revision, !.batch = pending,
                                    !.rounds = IF pending \cap Prompts # {} THEN 0 ELSE @]
  <2>. DEFINE n == IF pending \cap Prompts # {} THEN 0 ELSE loop.rounds
              l == [loop EXCEPT !.at = "queueing", !.revision = revision, !.batch = pending, !.rounds = n]
  <2>1. n \in 0..MaxRounds + 1
    BY LoopOf DEF LoopStates
  <2>2. n <= MaxRounds
    <3>1. loop.rounds > MaxRounds => pending \cap Replies = {}
      BY <1>1, LoopOf DEF InRound, Round
    <3>2. pending \cap Replies = {} => pending \cap Prompts # {}
      BY <1>4, LoopOf DEF Messages
    <3>3. loop.rounds \in Int /\ MaxRounds \in Nat
      BY LoopOf DEF LoopStates
    <3>. QED BY <3>1, <3>2, <3>3
  <2>3. loop' = l
    BY <1>4
  <2>. HIDE DEF n
  <2>4. l \in LoopStates /\ l.at = "queueing" /\ l.batch = pending /\ l.rounds = n
    BY <2>1, LoopOf DEF LoopStates, LoopAwaits
  <2>. HIDE DEF l
  <2>5. ~(n > MaxRounds)
    BY <2>1, <2>2, LoopOf
  <2>6. InRound(l, delivery, pending)
    BY <1>2, <2>2, <2>4, <2>5 DEF InRound, Deciding, Round
  <2>. QED BY <1>1, <2>3, <2>4, <2>6, LoopOf, LoopKeeps
<1>. QED BY <1>3, <1>4 DEF Read, LoopMoves

\* The loop returns or looks again.
LEMMA LoopPauses ==
  ASSUME GroupInv, loop.at \notin {"none", "handing", "dropping"}, loop.at \notin Round,
         loop.at \in Deciding => loop.rounds <= MaxRounds,
         NEW l \in {Returned, Again, Started, NoLoop}, loop' = l, delivery' = delivery, failures' \in 0..MaxFailures,
         UNCHANGED <<prompt, pending, chain, revision, stop, up, checkpoint, crashes, outcome>>
  PROVE  GroupInv'
<1>1. \A m \in Members : delivery[m] = "none"
  BY QuietOutside
<1>2. l \in LoopStates /\ l.batch = {} /\ l.rounds \in {0, loop.rounds} /\ l.at \in {"none", "returned", "waiting"}
  BY Idle
<1>3. l.rounds > MaxRounds => pending \cap Replies = {}
  <2>1. loop.rounds \in Int /\ MaxRounds \in Nat
    BY LoopOf DEF LoopStates
  <2>2. loop.rounds > MaxRounds => pending \cap Replies = {}
    BY LoopOf DEF InRound
  <2>. QED BY <1>2, <2>1, <2>2
<1>4. InRound(l, delivery, pending)
  BY <1>1, <1>2, <1>3 DEF InRound, Deciding, Round
<1>. QED BY <1>2, <1>4, LoopOf, LoopKeeps

LEMMA PauseSteps ==
  ASSUME GroupInv, HandedOver \/ Dropped \/ LoopEnds
  PROVE  GroupInv'
<1>1. loop.at \in {"handed", "dropped", "returned", "rejected"}
  BY DEF HandedOver, Dropped, LoopEnds
<1>2. /\ loop' \in {Returned, Again, Started, NoLoop} /\ delivery' = delivery
      /\ UNCHANGED <<prompt, pending, chain, revision, stop, up, checkpoint, crashes, outcome>>
  BY DEF HandedOver, Dropped, LoopEnds, LoopMoves
<1>3. failures' \in 0..MaxFailures
  BY FailuresCounted DEF HandedOver, Dropped, LoopEnds
<1>. QED BY <1>1, <1>2, <1>3, LoopPauses DEF Deciding, Round

LEMMA CatchStep ==
  ASSUME GroupInv, Catch
  PROVE  GroupInv'
<1>1. /\ loop.at = "caught" /\ delivery' = delivery /\ failures' \in 0..MaxFailures
      /\ UNCHANGED <<prompt, pending, chain, revision, stop, up, checkpoint, crashes, outcome>>
  BY FailuresCounted DEF Catch, LoopMoves
<1>2. CASE loop' \in {Returned, Again}
  BY <1>1, <1>2, LoopPauses DEF Deciding, Round
<1>3. CASE loop' = At("complaining")
  <2>1. /\ At("complaining") \in LoopStates /\ At("complaining").at = "complaining"
        /\ At("complaining").batch = loop.batch /\ At("complaining").rounds = loop.rounds
    BY LoopOf DEF At, LoopStates, LoopAwaits
  <2>2. InRound(At("complaining"), delivery, pending)
    BY <1>1, <2>1, LoopOf DEF InRound, Deciding, Round
  <2>. QED BY <1>1, <1>3, <2>1, <2>2, LoopOf, LoopKeeps
<1>. QED BY <1>2, <1>3 DEF Catch, LoopMoves

\* A round begins within the limit, or without members.
LEMMA SettleStep ==
  ASSUME GroupInv, Settle
  PROVE  GroupInv'
<1>1. /\ loop.at = "settling" /\ failures' \in 0..MaxFailures
  BY FailuresCounted DEF Settle
<1>2. loop.rounds <= MaxRounds /\ pending \cap Replies \subseteq loop.batch
  BY <1>1, LoopOf DEF InRound, Deciding
<1>3. CASE LoopMoves(Returned) /\ UNCHANGED delivery
  BY <1>1, <1>2, <1>3, LoopPauses DEF LoopMoves, Round
<1>4. CASE LoopMoves(Again) /\ UNCHANGED delivery
  BY <1>1, <1>2, <1>4, LoopPauses DEF LoopMoves, Round
<1>5. CASE LoopMoves(At("limiting")) /\ UNCHANGED delivery
  <2>1. /\ At("limiting") \in LoopStates /\ At("limiting").at = "limiting"
        /\ At("limiting").batch = loop.batch /\ At("limiting").rounds = loop.rounds
    BY LoopOf DEF At, LoopStates, LoopAwaits
  <2>2. loop.at \in Deciding
    BY <1>1 DEF Deciding
  <2>. QED BY <1>1, <1>5, <2>1, <2>2, DecidingMoves DEF LoopMoves
<1>6. CASE /\ loop.chosen = {} \/ loop.rounds < MaxRounds
           /\ LoopMoves([loop EXCEPT !.at = "preparing", !.rounds = RoundAfter(@), !.outputs = {}])
           /\ \E created \in SUBSET loop.chosen :
                delivery' = [m \in Members |-> IF m \notin loop.chosen THEN "none"
                               ELSE IF m \in created THEN "prompting" ELSE "creating"]
  <2>. DEFINE n == loop.rounds + 1
              l == [loop EXCEPT !.at = "preparing", !.rounds = n, !.outputs = {}]
  <2>1. n \in 0..MaxRounds + 1 /\ (n > MaxRounds => loop.chosen = {})
    <3>1. loop.rounds \in 0..MaxRounds + 1 /\ MaxRounds \in Nat
      BY LoopOf DEF LoopStates
    <3>. QED BY <1>2, <1>6, <3>1
  <2>2. loop' = l
    BY <1>6 DEF LoopMoves, RoundAfter
  <2>. HIDE DEF n
  <2>3. /\ l \in LoopStates /\ l.at = "preparing" /\ l.batch = loop.batch /\ l.rounds = n
        /\ l.chosen = loop.chosen /\ l.outputs = {}
    BY <2>1, LoopOf DEF LoopStates, LoopAwaits
  <2>. HIDE DEF l
  <2>4. delivery' \in [Members -> Deliveries] /\ \A m \in Members : delivery'[m] # "none" => m \in loop.chosen
    BY <1>6 DEF Deliveries
  <2>5. InRound(l, delivery', pending)
    BY <1>2, <2>1, <2>3, <2>4 DEF InRound, Deciding, Round
  <2>. QED BY <1>1, <1>6, <2>2, <2>3, <2>4, <2>5, LoopOf, LoopKeeps DEF LoopMoves
<1>. QED BY <1>3, <1>4, <1>5, <1>6 DEF Settle

LEMMA PreparedStep ==
  ASSUME GroupInv, Prepared
  PROVE  GroupInv'
<1>1. /\ loop.at = "preparing" /\ loop' = At("executing") /\ failures' \in 0..MaxFailures
      /\ UNCHANGED <<prompt, pending, chain, revision, stop, up, checkpoint, crashes, outcome>>
  BY FailuresCounted DEF Prepared, LoopMoves
<1>2. /\ delivery' \in [Members -> Deliveries]
      /\ \A m \in Members : delivery'[m] # "none" => delivery[m] # "none"
  BY LoopOf DEF Prepared, Deliveries
<1>3. /\ At("executing") \in LoopStates /\ At("executing").at = "executing"
      /\ At("executing").batch = loop.batch /\ At("executing").rounds = loop.rounds
      /\ At("executing").chosen = loop.chosen /\ At("executing").outputs = loop.outputs
  BY LoopOf DEF At, LoopStates, LoopAwaits
<1>4. InRound(At("executing"), delivery', pending)
  BY <1>1, <1>2, <1>3, LoopOf DEF InRound, Deciding, Round
<1>. QED BY <1>1, <1>2, <1>3, <1>4, LoopOf, LoopKeeps

\* While the loop works there is no handover of it yet, and no clear of a stop.
LEMMA PromptsOnly ==
  ASSUME GroupInv, loop.at \notin {"none", "handing", "dropping"}
  PROVE  \A i \in 1..Len(chain) : chain[i].kind = "prompt" /\ chain[i] \in Mutations
  BY LoopOf, ChainFacts DEF GroupInv, Entries, Entry, Mutations

\* The loop hands over what it has read: the last round left no replies, and no member is at work.
LEMMA HandOverKeeps ==
  ASSUME GroupInv, loop.at \notin {"none", "handing", "dropping"},
         NEW at \in Handing, NEW adds \in SUBSET Replies, HandOver(at, adds),
         failures' \in 0..MaxFailures, delivery' = Quiet,
         at = "dropping" => adds = {},
         loop.rounds > MaxRounds => adds = {},
         loop.rounds > MaxRounds /\ at = "handing" => pending \cap Replies \subseteq loop.batch,
         loop.rounds > MaxRounds /\ at = "dropping" => pending \cap Replies = {}
  PROVE  GroupInv'
<1>. DEFINE m == [kind |-> "handover", adds |-> adds, drops |-> loop.batch, at |-> "begin"]
            l == [loop EXCEPT !.at = at, !.chosen = {}, !.outputs = {}]
<1>1. loop' = l /\ chain' = Append(chain, m)
      /\ UNCHANGED <<prompt, pending, revision, stop, up, checkpoint, crashes, outcome>>
  BY DEF HandOver
<1>2. /\ l \in LoopStates /\ l.at = at /\ l.batch = loop.batch /\ l.rounds = loop.rounds
  BY LoopOf DEF LoopStates, LoopAwaits, Handing
<1>3. m \in Mutations /\ m.kind = "handover" /\ m.adds = adds /\ m.drops = loop.batch /\ m.at = "begin"
  BY LoopOf DEF Mutations, LoopStates, Messages
<1>. HIDE DEF m, l
<1>4. /\ Ordered(chain') /\ chain' \in Seq(Mutations)
      /\ \A i \in 1..Len(chain') : chain'[i] = m \/ \E j \in 1..Len(chain) : chain'[i] = chain[j]
  BY <1>1, <1>3, PromptsOnly, LoopOf, OrderedAppended DEF GroupInv, First
<1>5. delivery' \in [Members -> Deliveries] /\ \A k \in Members : delivery'[k] = "none"
  BY DEF Quiet, Deliveries
<1>6. TypeOK'
  BY <1>1, <1>2, <1>4, <1>5 DEF GroupInv, TypeOK, LoopStates, Deliveries, Mutations
<1>7. \A j \in 1..Len(chain) : Entry(chain[j], prompt, outcome, l, stop, pending)
  BY PromptsOnly DEF GroupInv, Entries, Entry
<1>8. Entry(m, prompt, outcome, l, stop, pending)
  BY <1>2, <1>3 DEF Entry, Handing
<1>9. Entries(chain, prompt, outcome, loop, stop, pending)'
  BY <1>1, <1>4, <1>7, <1>8 DEF Entries
<1>10. InRound(l, delivery', pending)
  BY <1>2, <1>5 DEF InRound, Handing, Deciding, Round
<1>11. Stored' /\ Down' /\ NothingAfterStop'
  BY <1>1, <1>2 DEF GroupInv, Stored, Down, NothingAfterStop
<1>. QED BY <1>1, <1>4, <1>6, <1>9, <1>10, <1>11 DEF GroupInv

LEMMA LimitStep ==
  ASSUME GroupInv, Limit
  PROVE  GroupInv'
<1>1. /\ loop.at = "limiting" /\ loop.at \in Deciding /\ loop.at \notin Round
      /\ failures' \in 0..MaxFailures /\ delivery' = delivery
  BY FailuresCounted DEF Limit, Deciding, Round
<1>2. loop.rounds <= MaxRounds /\ delivery = Quiet
  BY <1>1, QuietOutside, LoopOf DEF InRound, Quiet
<1>3. CASE HandOver("handing", {})
  <2>1. ~(loop.rounds > MaxRounds)
    BY <1>2, LoopOf DEF LoopStates
  <2>. QED BY <1>1, <1>2, <1>3, <2>1, HandOverKeeps DEF Handing
<1>4. CASE LoopMoves(Throw("caught", "failed"))
  <2>1. /\ Throw("caught", "failed") \in LoopStates /\ Throw("caught", "failed").at = "caught"
        /\ Throw("caught", "failed").batch = loop.batch /\ Throw("caught", "failed").rounds = loop.rounds
    BY LoopOf DEF Throw, LoopStates, LoopAwaits
  <2>. QED BY <1>1, <1>4, <2>1, DecidingMoves DEF LoopMoves
<1>. QED BY <1>3, <1>4 DEF Limit

LEMMA RoundEndsStep ==
  ASSUME GroupInv, RoundEnds
  PROVE  GroupInv'
<1>1. /\ loop.at = "executing" /\ failures' \in 0..MaxFailures /\ delivery' = Quiet
  BY FailuresCounted DEF RoundEnds
<1>2. CASE LoopMoves(Returned)
  <2>1. Quiet \in [Members -> Deliveries] /\ \A m \in Members : Quiet[m] = "none"
    BY DEF Quiet, Deliveries
  <2>2. InRound(Returned, Quiet, pending)
    BY <2>1, Idle, LoopOf DEF InRound, Deciding, Round
  <2>. QED BY <1>1, <1>2, <2>1, <2>2, Idle, LoopKeeps DEF LoopMoves
<1>3. CASE HandOver("handing", loop.outputs)
  <2>1. loop.outputs \in SUBSET Replies
    BY LoopOf DEF LoopStates
  <2>2. loop.rounds > MaxRounds => loop.outputs = {} /\ pending \cap Replies \subseteq loop.batch
    BY <1>1, LoopOf DEF InRound, Round
  <2>. QED BY <1>1, <1>3, <2>1, <2>2, HandOverKeeps DEF Handing
<1>. QED BY <1>2, <1>3 DEF RoundEnds

LEMMA ComplainStep ==
  ASSUME GroupInv, Complain
  PROVE  GroupInv'
<1>1. /\ loop.at = "complaining" /\ failures' \in 0..MaxFailures /\ delivery' = delivery
  BY FailuresCounted DEF Complain
<1>2. delivery = Quiet /\ (loop.rounds > MaxRounds => pending \cap Replies = {})
  BY <1>1, QuietOutside, LoopOf DEF InRound, Quiet, Round
<1>3. CASE HandOver("dropping", {})
  BY <1>1, <1>2, <1>3, HandOverKeeps DEF Handing
<1>4. CASE LoopMoves([NoLoop EXCEPT !.at = "rejected"])
  <2>. DEFINE l == [NoLoop EXCEPT !.at = "rejected"]
  <2>1. l \in LoopStates /\ l.at = "rejected" /\ l.batch = {} /\ l.rounds = 0
    BY Idle DEF LoopStates, LoopAwaits
  <2>2. loop' = l
    BY <1>4 DEF LoopMoves
  <2>. HIDE DEF l
  <2>3. InRound(l, delivery, pending)
    BY <1>1, <2>1, QuietOutside, LoopOf DEF InRound, Deciding, Round
  <2>. QED BY <1>1, <1>4, <2>1, <2>2, <2>3, LoopOf, LoopKeeps DEF LoopMoves
<1>. QED BY <1>3, <1>4 DEF Complain

-----------------------------------------------------------------------------
\* The members of a round.

\* A member of the round goes on, and the loop takes what it may have said.
LEMMA DeliveryKeeps ==
  ASSUME GroupInv, NEW m \in Members, delivery[m] # "none",
         NEW d \in [Members -> Deliveries], delivery' = d, \A k \in Members : d[k] # "none" => delivery[k] # "none",
         NEW l \in LoopStates, loop' = l, l.batch = loop.batch, l.rounds = loop.rounds, l.chosen = loop.chosen,
         l.at = loop.at \/ (l.at = "caught" /\ d = Quiet),
         failures' \in 0..MaxFailures,
         UNCHANGED <<prompt, pending, chain, revision, stop, up, checkpoint, crashes, outcome>>
  PROVE  GroupInv'
<1>1. loop.at \in Round /\ m \in loop.chosen /\ \A k \in Members : delivery[k] # "none" => k \in loop.chosen
  BY LoopOf DEF InRound
<1>2. ~(loop.rounds > MaxRounds)
  BY <1>1, LoopOf DEF InRound
<1>3. InRound(l, d, pending)
  BY <1>1, <1>2, LoopOf DEF InRound, Round, Deciding, Quiet
<1>. QED BY <1>1, <1>3, LoopKeeps DEF Round

LEMMA DeliveryStep ==
  ASSUME GroupInv, NEW m \in Members, Delivery(m)
  PROVE  GroupInv'
<1>1. delivery[m] # "none" /\ delivery \in [Members -> Deliveries] /\ loop \in LoopStates
  BY LoopOf DEF Delivery, CreateSession, PromptMember, TurnEnds, Reply, ReportFailure
<1>2. failures' \in 0..MaxFailures
  BY FailuresCounted DEF Delivery, CreateSession, PromptMember, TurnEnds, Reply, ReportFailure
<1>3. ASSUME NEW at \in Deliveries, DeliveryMoves(m, at)
      PROVE  /\ delivery' \in [Members -> Deliveries]
             /\ \A k \in Members : delivery'[k] # "none" => delivery[k] # "none"
             /\ UNCHANGED <<prompt, pending, chain, revision, stop, up, checkpoint, crashes, outcome>>
  BY <1>1, <1>3 DEF DeliveryMoves
<1>4. CASE loop' = loop /\ \E at \in Deliveries : DeliveryMoves(m, at)
  BY <1>1, <1>2, <1>3, <1>4, DeliveryKeeps
<1>5. CASE /\ delivery[m] = "replying" /\ Replies \ Known # {} /\ DeliveryMoves(m, "done")
           /\ loop' = [loop EXCEPT !.outputs = @ \cup {FreshReply}]
  <2>1. FreshReply \in Replies
    BY <1>5 DEF FreshReply
  <2>. DEFINE out == loop.outputs \cup {FreshReply}
              l == [loop EXCEPT !.outputs = out]
  <2>2. loop' = l /\ out \in SUBSET Replies
    BY <1>1, <1>5, <2>1 DEF LoopStates
  <2>. HIDE DEF out
  <2>3. /\ l \in LoopStates /\ l.batch = loop.batch /\ l.rounds = loop.rounds /\ l.chosen = loop.chosen
        /\ l.at = loop.at
    BY <1>1, <2>2 DEF LoopStates
  <2>. HIDE DEF l
  <2>. QED BY <1>1, <1>2, <1>3, <1>5, <2>2, <2>3, DeliveryKeeps DEF Deliveries
<1>6. CASE delivery' = Quiet /\ LoopMoves(Throw("caught", "failed"))
  <2>1. /\ Throw("caught", "failed") \in LoopStates /\ Throw("caught", "failed").at = "caught"
        /\ Throw("caught", "failed").batch = loop.batch /\ Throw("caught", "failed").rounds = loop.rounds
        /\ Throw("caught", "failed").chosen = loop.chosen
    BY LoopOf DEF Throw, LoopStates, LoopAwaits
  <2>2. Quiet \in [Members -> Deliveries] /\ \A k \in Members : Quiet[k] = "none"
    BY DEF Quiet, Deliveries
  <2>. QED BY <1>1, <1>2, <1>6, <2>1, <2>2, DeliveryKeeps DEF LoopMoves
<1>7. CASE CreateSession(m) \/ PromptMember(m) \/ TurnEnds(m)
  BY <1>4, <1>7 DEF CreateSession, PromptMember, TurnEnds, Report, Deliveries
<1>8. CASE Reply(m)
  BY <1>4, <1>5, <1>8 DEF Reply, Report, Deliveries
<1>9. CASE ReportFailure(m)
  BY <1>4, <1>6, <1>9 DEF ReportFailure, Deliveries
<1>. QED BY <1>7, <1>8, <1>9 DEF Delivery

-----------------------------------------------------------------------------
\* The mutations.

\* The mutation that runs.
LEMMA HeadOf ==
  ASSUME GroupInv, chain # <<>>
  PROVE  /\ Head(chain) = chain[1] /\ Head(chain) \in Mutations /\ up /\ 1 \in 1..Len(chain)
         /\ Entry(Head(chain), prompt, outcome, loop, stop, pending)
         /\ Head(chain).at \in {First(Head(chain).kind), "persist"}
<1>1. Head(chain) = chain[1] /\ Head(chain) \in Mutations /\ 1 \in 1..Len(chain)
  BY LoopOf, ChainFacts
<1>2. up
  BY DEF GroupInv, Down
<1>. QED BY <1>1, <1>2 DEF GroupInv, Entries, Ordered

\* Who waits for the mutation m that ends.
LEMMA WaitersOf ==
  ASSUME GroupInv, NEW m, NEW ok \in BOOLEAN, m = Head(chain), chain # <<>>, MutationEnds(ok)
  PROVE  /\ chain' = Tail(chain)
         /\ prompt' \in [Prompts -> PromptStates]
         /\ \A p \in Prompts : \/ prompt'[p] = prompt[p]
                               \/ m.kind = "prompt" /\ p \in m.adds /\ prompt'[p] = IF ok THEN "saved" ELSE "failed"
         /\ loop' \in LoopStates /\ loop'.batch = loop.batch /\ loop'.rounds = loop.rounds
         /\ loop'.chosen = loop.chosen /\ loop'.outputs = loop.outputs
         /\ m.kind # "handover" => loop'.at = loop.at
         /\ m.kind = "handover" =>
              \/ loop.at = "handing" /\ loop'.at \in {"handed", "caught"}
              \/ loop.at = "dropping" /\ loop'.at \in {"dropped", "rejected"}
         /\ stop' \in StopStates /\ (m.kind # "clear" => stop'.at = stop.at)
<1>1. chain' = Tail(chain)
  BY DEF MutationEnds
<1>2. /\ prompt' \in [Prompts -> PromptStates]
      /\ \A p \in Prompts : \/ prompt'[p] = prompt[p]
                            \/ m.kind = "prompt" /\ p \in m.adds /\ prompt'[p] = IF ok THEN "saved" ELSE "failed"
  BY DEF MutationEnds, GroupInv, TypeOK, PromptStates
<1>. DEFINE at == IF m.kind # "handover" THEN loop.at
                  ELSE IF loop.at = "handing" THEN IF ok THEN "handed" ELSE "caught"
                  ELSE IF ok THEN "dropped" ELSE "rejected"
            error == IF m.kind = "handover" /\ ~ok THEN "failed" ELSE loop.error
            halt == IF m.kind # "clear" THEN stop.at ELSE IF ok THEN "cleared" ELSE "unsaved"
<1>3. loop \in LoopStates /\ stop \in StopStates
  BY LoopOf DEF GroupInv, TypeOK, StopStates
<1>4. at \in LoopAwaits /\ error \in {"none", "failed", "stopped", "superseded"}
      /\ halt \in {"none", "cancelling", "draining", "clearing", "cleared", "unsaved"}
  BY <1>3 DEF LoopStates, LoopAwaits, StopStates
<1>5. PICK n \in Nat : loop' = [loop EXCEPT !.wait = n, !.at = at, !.error = error]
  <2>1. Less(loop.wait) \in Nat
    BY <1>3 DEF Less, LoopStates
  <2>2. loop' = [loop EXCEPT !.wait = Less(loop.wait), !.at = at, !.error = error]
    BY <1>3 DEF MutationEnds, LoopStates
  <2>. QED BY <2>1, <2>2
<1>6. PICK k \in Nat : stop' = [stop EXCEPT !.wait = k, !.at = halt]
  <2>1. Less(stop.wait) \in Nat
    BY <1>3 DEF Less, StopStates
  <2>2. stop' = [stop EXCEPT !.wait = Less(stop.wait), !.at = halt]
    BY <1>3 DEF MutationEnds, StopStates
  <2>. QED BY <2>1, <2>2
<1>7. m.kind = "handover" => loop.at \in Handing
  BY HeadOf DEF Entry, Handing
<1>8. (m.kind # "handover" => at = loop.at) /\ (m.kind # "clear" => halt = stop.at)
  OBVIOUS
<1>9. m.kind = "handover" =>
        \/ loop.at = "handing" /\ at \in {"handed", "caught"}
        \/ loop.at = "dropping" /\ at \in {"dropped", "rejected"}
  BY <1>7 DEF Handing
<1>. HIDE DEF at, error, halt
<1>10. /\ loop' \in LoopStates /\ loop'.at = at /\ loop'.batch = loop.batch /\ loop'.rounds = loop.rounds
       /\ loop'.chosen = loop.chosen /\ loop'.outputs = loop.outputs
  BY <1>3, <1>4, <1>5 DEF LoopStates
<1>11. stop' \in StopStates /\ stop'.at = halt
  BY <1>3, <1>4, <1>6 DEF StopStates
<1>. QED BY <1>1, <1>2, <1>8, <1>9, <1>10, <1>11

\* A mutation that ends has changed what it is about, or the write has failed.
LEMMA EndKeeps ==
  ASSUME GroupInv, NEW m, m = Head(chain), chain # <<>>, NEW ok \in BOOLEAN, MutationEnds(ok),
         UNCHANGED <<pending, revision, delivery, up, crashes>>, failures' \in 0..MaxFailures,
         checkpoint' = checkpoint \/ checkpoint' = pending, ok => checkpoint' = pending,
         ok => m.at = "persist", m.at = First(m.kind) => m.kind = "prompt",
         outcome' \in [Prompts -> Outcomes],
         \A p \in Prompts : outcome'[p] = outcome[p] \/ (ok /\ m.kind = "clear" /\ prompt[p] # "new"
                                                          /\ outcome'[p] = "stopped")
  PROVE  GroupInv'
<1>1. /\ m \in Mutations /\ m = chain[1] /\ up /\ Entry(m, prompt, outcome, loop, stop, pending)
      /\ m.at \in {First(m.kind), "persist"}
  BY HeadOf
<1>2. /\ chain' = Tail(chain) /\ prompt' \in [Prompts -> PromptStates]
      /\ \A p \in Prompts : \/ prompt'[p] = prompt[p]
                            \/ m.kind = "prompt" /\ p \in m.adds /\ prompt'[p] = IF ok THEN "saved" ELSE "failed"
      /\ loop' \in LoopStates /\ loop'.batch = loop.batch /\ loop'.rounds = loop.rounds
      /\ loop'.chosen = loop.chosen /\ loop'.outputs = loop.outputs
      /\ m.kind # "handover" => loop'.at = loop.at
      /\ m.kind = "handover" =>
           \/ loop.at = "handing" /\ loop'.at \in {"handed", "caught"}
           \/ loop.at = "dropping" /\ loop'.at \in {"dropped", "rejected"}
      /\ stop' \in StopStates /\ (m.kind # "clear" => stop'.at = stop.at)
  BY WaitersOf
<1>3. /\ chain' \in Seq(Mutations) /\ Ordered(chain')
      /\ \A i \in 1..Len(chain') : /\ chain'[i] = chain[i + 1] /\ i + 1 \in 1..Len(chain)
                                   /\ chain'[i].at # "persist" /\ m.kind # "clear"
                                   /\ ~(m.kind = "handover" /\ chain'[i].kind = "handover")
                                   /\ m.kind = "prompt" /\ chain'[i].kind = "prompt" =>
                                        m.adds \cap chain'[i].adds = {}
  BY <1>1, <1>2, LoopOf, TailFacts, OrderedTail DEF GroupInv
<1>4. TypeOK'
  <2>1. checkpoint' \subseteq Messages /\ delivery' = delivery
    BY DEF GroupInv, TypeOK
  <2>. QED BY <1>2, <1>3, <2>1 DEF GroupInv, TypeOK, LoopStates, StopStates, Outcomes, PromptStates, Mutations
<1>5. Entries(chain, prompt, outcome, loop, stop, pending)'
  <2>1. ASSUME NEW i \in 1..Len(chain')
        PROVE  Entry(chain'[i], prompt', outcome', loop', stop', pending)
    <3>1. /\ Entry(chain'[i], prompt, outcome, loop, stop, pending) /\ chain'[i].at # "persist" /\ m.kind # "clear"
          /\ ~(m.kind = "handover" /\ chain'[i].kind = "handover")
          /\ m.kind = "prompt" /\ chain'[i].kind = "prompt" => m.adds \cap chain'[i].adds = {}
      BY <1>3 DEF GroupInv, Entries
    <3>2. chain'[i].kind = "prompt" => \A q \in chain'[i].adds : prompt'[q] = "saving" /\ outcome'[q] # "stopped"
      BY <1>2, <3>1 DEF Entry
    <3>3. chain'[i].kind # "prompt" => loop'.at = loop.at /\ stop'.at = stop.at
      <4>1. chain'[i].kind \in {"prompt", "handover", "clear"}
        BY <1>3, ChainFacts DEF Mutations
      <4>. QED BY <1>1, <1>2, <3>1, <4>1 DEF Entry
    <3>4. chain'[i].kind = "handover" =>
            /\ chain'[i].adds \subseteq Replies
            /\ loop'.at = "handing" \/ (loop'.at = "dropping" /\ chain'[i].adds = {})
            /\ loop'.at = "handing" /\ loop'.rounds > MaxRounds =>
                 /\ chain'[i].adds = {}
                 /\ chain'[i].at = "begin" => pending \cap Replies \subseteq chain'[i].drops
      BY <1>2, <3>1, <3>3 DEF Entry
    <3>5. chain'[i].kind = "clear" => chain'[i].adds = {} /\ stop'.at = "clearing" /\ loop'.at = "none"
      BY <3>1, <3>3 DEF Entry
    <3>. QED BY <3>1, <3>2, <3>4, <3>5 DEF Entry
  <2>. QED BY <2>1 DEF Entries
<1>6. m.kind = "prompt" /\ ok => m.adds \subseteq pending
  BY <1>1 DEF Entry
<1>7. Stored'
  <2>1. ASSUME NEW p \in Prompts, prompt'[p] \in {"saved", "returned"}, outcome'[p] = "open"
        PROVE  p \in checkpoint' /\ p \in pending
    BY <1>1, <1>2, <1>6, <2>1 DEF GroupInv, Stored
  <2>2. ASSUME NEW p \in Prompts, prompt'[p] = "new"
        PROVE  outcome'[p] # "stopped"
    BY <1>2, <2>2 DEF GroupInv, Stored
  <2>. QED BY <2>1, <2>2 DEF Stored
<1>8. Down'
  BY <1>1 DEF Down
<1>9. InRound(loop', delivery, pending)
  <2>1. CASE m.kind # "handover"
    BY <1>2, <2>1, LoopOf DEF InRound
  <2>2. CASE m.kind = "handover"
    <3>1. m.at = "persist"
      BY <1>1, <2>2
    <3>2. loop.rounds > MaxRounds => pending \cap Replies = {}
      BY <1>1, <2>2, <3>1, LoopOf DEF Entry, InRound, Round
    <3>3. \A k \in Members : delivery[k] = "none"
      BY <1>2, <2>2, QuietOutside DEF Round
    <3>. QED BY <1>2, <2>2, <3>2, <3>3 DEF InRound, Round, Deciding
  <2>. QED BY <2>1, <2>2
<1>10. NothingAfterStop'
  <2>1. ASSUME NEW p \in Prompts, outcome'[p] = "stopped"
        PROVE  p \notin pending \cup checkpoint' \cup loop'.batch
    <3>1. CASE outcome[p] = "stopped"
      BY <1>2, <3>1 DEF GroupInv, NothingAfterStop
    <3>2. CASE ok /\ m.kind = "clear"
      <4>1. pending = {} /\ loop.at = "none"
        BY <1>1, <3>2 DEF Entry
      <4>. QED BY <1>2, <3>2, <4>1, LoopOf DEF InRound
    <3>. QED BY <2>1, <3>1, <3>2
  <2>. QED BY <2>1 DEF NothingAfterStop
<1>. QED BY <1>3, <1>4, <1>5, <1>7, <1>8, <1>9, <1>10 DEF GroupInv

LEMMA PersistStep ==
  ASSUME GroupInv, Persist
  PROVE  GroupInv'
<1>1. /\ chain # <<>> /\ Head(chain).at = "persist" /\ failures' \in 0..MaxFailures
      /\ UNCHANGED <<pending, revision, delivery, up, crashes>>
  BY FailuresCounted DEF Persist, Running
<1>2. outcome \in [Prompts -> Outcomes] /\ Head(chain).at # First(Head(chain).kind)
  BY <1>1 DEF GroupInv, TypeOK, Outcomes, First
<1>3. CASE /\ checkpoint' = pending /\ MutationEnds(TRUE)
           /\ outcome' = [p \in Prompts |->
                IF Head(chain).kind = "clear" /\ prompt[p] # "new" THEN "stopped" ELSE outcome[p]]
  <2>1. outcome' \in [Prompts -> Outcomes]
    BY <1>2, <1>3 DEF Outcomes
  <2>2. \A p \in Prompts : outcome'[p] = outcome[p] \/ (Head(chain).kind = "clear" /\ prompt[p] # "new"
                                                        /\ outcome'[p] = "stopped")
    BY <1>3
  <2>. QED BY <1>1, <1>2, <1>3, <2>1, <2>2, EndKeeps
<1>4. CASE MutationEnds(FALSE) /\ UNCHANGED <<checkpoint, outcome>>
  BY <1>1, <1>2, <1>4, EndKeeps
<1>. QED BY <1>3, <1>4 DEF Persist

\* The first mutation begins, and has done with P what it is about.
LEMMA BegunKeeps ==
  ASSUME GroupInv, chain # <<>>, chain' = [chain EXCEPT ![1].at = "persist"],
         NEW P \in SUBSET Messages, pending' = P,
         UNCHANGED <<prompt, checkpoint, revision, loop, delivery, stop, up, crashes>>,
         failures' \in 0..MaxFailures, outcome' \in [Prompts -> Outcomes],
         \A p \in Prompts : outcome'[p] = outcome[p] \/ outcome'[p] \in {"handled", "dropped"},
         \A p \in Prompts : outcome'[p] = "open" /\ prompt[p] \in {"saved", "returned"} => p \in P,
         \A p \in Prompts : p \in P => p \in pending \/ outcome[p] # "stopped",
         loop.at # "handing" => P \cap Replies \subseteq pending \cap Replies,
         \A i \in 2..Len(chain) : chain[i].kind = "handover" => P \cap Replies \subseteq pending \cap Replies,
         NEW m, m = Head(chain),
         m.kind = "prompt" => m.adds \subseteq P,
         m.kind = "clear" => P = {},
         m.kind = "handover" /\ loop.at = "handing" /\ loop.rounds > MaxRounds => P \cap Replies = {}
  PROVE  GroupInv'
<1>1. /\ m \in Mutations /\ m = chain[1] /\ up /\ 1 \in 1..Len(chain)
      /\ Entry(m, prompt, outcome, loop, stop, pending)
  BY HeadOf
<1>2. /\ Ordered(chain') /\ chain' \in Seq(Mutations) /\ Len(chain') = Len(chain)
      /\ chain'[1] \in Mutations /\ chain'[1].kind = m.kind /\ chain'[1].adds = m.adds
      /\ chain'[1].drops = m.drops /\ chain'[1].at = "persist"
      /\ \A i \in 1..Len(chain) : i # 1 => chain'[i] = chain[i] /\ chain[i].at # "persist"
  <2>1. chain \in Seq(Mutations) /\ Ordered(chain)
    BY LoopOf DEF GroupInv
  <2>. DEFINE d == [chain EXCEPT ![1].at = "persist"]
  <2>2. /\ Ordered(d) /\ d \in Seq(Mutations) /\ Len(d) = Len(chain)
        /\ d[1] \in Mutations /\ d[1].kind = m.kind /\ d[1].adds = m.adds /\ d[1].drops = m.drops
        /\ d[1].at = "persist"
        /\ \A i \in 1..Len(chain) : i # 1 => d[i] = chain[i] /\ chain[i].at # "persist"
    BY ONLY <1>1, <2>1, OrderedBegun, chain # <<>>
  <2>. HIDE DEF d
  <2>3. chain' = d
    BY DEF d
  <2>. QED BY <2>2, <2>3
<1>3. TypeOK'
  BY <1>2 DEF GroupInv, TypeOK, Mutations, Outcomes
<1>4. Entry(chain'[1], prompt, outcome', loop, stop, P)
  <2>1. m.kind = "prompt" => \A q \in m.adds : outcome'[q] # "stopped"
    BY <1>1 DEF Entry
  <2>. QED BY <1>1, <1>2, <2>1 DEF Entry
<1>5. ASSUME NEW i \in 1..Len(chain), i # 1
      PROVE  Entry(chain[i], prompt, outcome', loop, stop, P)
  <2>1. Entry(chain[i], prompt, outcome, loop, stop, pending) /\ chain[i].at # "persist"
    BY <1>2, <1>5 DEF GroupInv, Entries
  <2>2. chain[i].kind = "prompt" => \A q \in chain[i].adds : outcome'[q] # "stopped"
    BY <2>1 DEF Entry
  <2>3. chain[i].kind = "handover" => P \cap Replies \subseteq pending \cap Replies
    <3>1. i \in 2..Len(chain)
      BY <1>5, LoopOf
    <3>. QED BY <3>1
  <2>. QED BY <2>1, <2>2, <2>3 DEF Entry
<1>6. Entries(chain, prompt, outcome, loop, stop, pending)'
  BY <1>2, <1>4, <1>5 DEF Entries
<1>7. Stored' /\ Down'
  BY <1>1 DEF GroupInv, Stored, Down
<1>8. InRound(loop, delivery, P)
  BY LoopOf DEF InRound, Deciding, Round
<1>9. NothingAfterStop'
  BY DEF GroupInv, NothingAfterStop
<1>. QED BY <1>2, <1>3, <1>6, <1>7, <1>8, <1>9 DEF GroupInv

LEMMA AppendMessageStep ==
  ASSUME GroupInv, AppendMessage
  PROVE  GroupInv'
<1>. DEFINE m == Head(chain)
<1>1. /\ chain # <<>> /\ m.at = "append" /\ failures' \in 0..MaxFailures
      /\ UNCHANGED <<checkpoint, revision, delivery, up, crashes, outcome>>
  BY FailuresCounted DEF AppendMessage, Running
<1>2. /\ m.kind = "prompt" /\ m \in Mutations /\ m.adds \subseteq Prompts
      /\ \A q \in m.adds : outcome[q] # "stopped"
  BY <1>1, HeadOf DEF First, Entry
<1>3. outcome \in [Prompts -> Outcomes]
  BY DEF GroupInv, TypeOK, Outcomes
<1>4. CASE pending' = pending \cup m.adds /\ chain' = [chain EXCEPT ![1].at = "persist"]
           /\ UNCHANGED <<prompt, loop, stop>>
  <2>. DEFINE P == pending \cup m.adds
  <2>1. P \in SUBSET Messages /\ P \cap Replies = pending \cap Replies
    BY <1>2, LoopOf, GroupAssumption DEF Messages
  <2>2. \A p \in Prompts : outcome'[p] = "open" /\ prompt[p] \in {"saved", "returned"} => p \in P
    BY <1>1, HeadOf DEF GroupInv, Stored
  <2>. HIDE DEF m
  <2>. QED BY <1>1, <1>2, <1>3, <1>4, <2>1, <2>2, BegunKeeps DEF m
<1>5. CASE MutationEnds(FALSE) /\ UNCHANGED pending
  BY <1>1, <1>2, <1>3, <1>5, EndKeeps
<1>. QED BY <1>4, <1>5 DEF AppendMessage

LEMMA BeginMutationStep ==
  ASSUME GroupInv, BeginMutation
  PROVE  GroupInv'
<1>. DEFINE m == Head(chain)
<1>1. /\ chain # <<>> /\ m.at = "begin" /\ failures' \in 0..MaxFailures
      /\ pending' = Handover(m) /\ chain' = [chain EXCEPT ![1].at = "persist"]
      /\ UNCHANGED <<prompt, checkpoint, revision, loop, delivery, stop, up, crashes>>
  BY FailuresCounted DEF BeginMutation, Running
<1>2. /\ m.kind \in {"handover", "clear"} /\ m \in Mutations /\ m = chain[1] /\ up
      /\ Entry(m, prompt, outcome, loop, stop, pending)
  BY <1>1, HeadOf DEF First, Mutations
<1>3. outcome \in [Prompts -> Outcomes]
  BY DEF GroupInv, TypeOK, Outcomes
<1>4. /\ outcome' \in [Prompts -> Outcomes]
      /\ \A p \in Prompts : outcome'[p] = outcome[p] \/ outcome'[p] \in {"handled", "dropped"}
      /\ \A p \in Prompts : outcome'[p] = "open" =>
           outcome[p] = "open" /\ (p \in pending => m.kind # "clear" /\ p \notin m.drops)
  BY <1>3 DEF BeginMutation, Outcomes
<1>. HIDE DEF m
<1>5. \A p \in Prompts : outcome'[p] = "open" /\ prompt[p] \in {"saved", "returned"} =>
        p \in pending /\ m.kind # "clear" /\ p \notin m.drops
  BY <1>2, <1>4 DEF GroupInv, Stored
<1>6. CASE m.kind = "clear"
  <2>1. pending' = {}
    BY <1>1, <1>6 DEF Handover
  <2>. QED BY <1>1, <1>2, <1>4, <1>5, <1>6, <2>1, BegunKeeps DEF m
<1>7. CASE m.kind = "handover"
  <2>. DEFINE P == (pending \ m.drops) \cup m.adds
  <2>1. pending' = P /\ m.adds \subseteq Replies
    BY <1>1, <1>2, <1>7 DEF Handover, Entry
  <2>2. P \in SUBSET Messages
    BY <2>1, LoopOf DEF Messages
  <2>3. \A p \in Prompts : p \in P => p \in pending
    BY <2>1, GroupAssumption
  <2>4. loop.at # "handing" => P \cap Replies \subseteq pending \cap Replies
    BY <1>2, <1>7 DEF Entry
  <2>5. \A i \in 2..Len(chain) : chain[i].kind # "handover"
    <3>1. ASSUME NEW i \in 2..Len(chain) PROVE chain[i].kind # "handover"
      <4>1. i \in 1..Len(chain) /\ 1 \in 1..Len(chain) /\ i # 1
        BY LoopOf
      <4>. QED BY <1>2, <1>7, <4>1 DEF GroupInv, Ordered
    <3>. QED BY <3>1
  <2>6. loop.at = "handing" /\ loop.rounds > MaxRounds => P \cap Replies = {}
    BY <1>1, <1>2, <1>7 DEF Entry, m
  <2>7. \A p \in Prompts : outcome'[p] = "open" /\ prompt[p] \in {"saved", "returned"} => p \in P
    BY <1>5
  <2>. HIDE DEF P
  <2>. QED BY <1>1, <1>2, <1>4, <1>7, <2>1, <2>2, <2>3, <2>4, <2>5, <2>6, <2>7, BegunKeeps DEF m
<1>. QED BY <1>2, <1>6, <1>7

-----------------------------------------------------------------------------
\* Prompts, stops and restarts.

LEMMA PromptStep ==
  ASSUME GroupInv, NEW p \in Prompts, Prompt(p)
  PROVE  GroupInv'
<1>. DEFINE m == [kind |-> "prompt", adds |-> {p}, drops |-> {}, at |-> "append"]
<1>1. /\ up /\ prompt[p] = "new" /\ stop.at = "none" /\ chain' = Append(chain, m)
      /\ prompt' = [prompt EXCEPT ![p] = "saving"] /\ revision' = revision + 1
      /\ UNCHANGED <<pending, checkpoint, loop, delivery, stop, up, failures, crashes, outcome>>
  BY DEF Prompt, stop_requested
<1>2. m \in Mutations /\ m.kind = "prompt" /\ m.adds = {p} /\ m.at = "append"
  BY DEF Mutations, Messages
<1>. HIDE DEF m
<1>3. ASSUME NEW i \in 1..Len(chain)
      PROVE  chain[i].kind # "clear" /\ (chain[i].kind = "prompt" => p \notin chain[i].adds)
  BY <1>1 DEF GroupInv, Entries, Entry
<1>4. /\ Ordered(chain') /\ chain' \in Seq(Mutations)
      /\ \A i \in 1..Len(chain') : chain'[i] = m \/ \E j \in 1..Len(chain) : chain'[i] = chain[j]
  BY <1>1, <1>2, <1>3, LoopOf, OrderedAppended DEF GroupInv, First
<1>5. prompt \in [Prompts -> PromptStates] /\ prompt'[p] = "saving" /\ \A q \in Prompts : q # p => prompt'[q] = prompt[q]
  BY <1>1 DEF GroupInv, TypeOK, PromptStates
<1>6. TypeOK'
  <2>1. revision' \in Nat
    BY <1>1, LoopOf
  <2>2. prompt' \in [Prompts -> PromptStates]
    BY <1>1, <1>5 DEF PromptStates
  <2>. QED BY <1>1, <1>4, <2>1, <2>2 DEF GroupInv, TypeOK, Mutations, PromptStates
<1>7. \A j \in 1..Len(chain) : Entry(chain[j], prompt', outcome, loop, stop, pending)
  BY <1>3, <1>5 DEF GroupInv, Entries, Entry
<1>8. Entry(m, prompt', outcome, loop, stop, pending)
  BY <1>1, <1>2, <1>5 DEF Entry, GroupInv, Stored
<1>9. Entries(chain, prompt, outcome, loop, stop, pending)'
  BY <1>1, <1>4, <1>7, <1>8 DEF Entries
<1>10. Stored'
  BY <1>1, <1>5 DEF GroupInv, Stored
<1>11. Down' /\ InRound(loop, delivery, pending)' /\ NothingAfterStop'
  BY <1>1 DEF GroupInv, Down, NothingAfterStop
<1>. QED BY <1>4, <1>6, <1>9, <1>10, <1>11 DEF GroupInv

LEMMA PromptReturnsStep ==
  ASSUME GroupInv, NEW p \in Prompts, PromptReturns(p)
  PROVE  GroupInv'
<1>1. /\ prompt[p] = "saved" /\ prompt' = [prompt EXCEPT ![p] = "returned"]
      /\ UNCHANGED <<pending, chain, revision, delivery, stop, up, checkpoint, failures, crashes, outcome>>
      /\ loop' = loop \/ (stop.at = "none" /\ loop.at = "none" /\ loop' = Started)
  BY DEF PromptReturns, request_dispatch, stop_requested
<1>2. up
  BY <1>1 DEF GroupInv, Down
<1>3. /\ prompt \in [Prompts -> PromptStates] /\ prompt'[p] = "returned"
      /\ \A q \in Prompts : q # p => prompt'[q] = prompt[q]
  BY <1>1 DEF GroupInv, TypeOK, PromptStates
<1>4. loop' \in LoopStates
  BY <1>1, LoopOf, Idle
<1>5. TypeOK'
  <2>1. prompt' \in [Prompts -> PromptStates]
    BY <1>1, <1>3 DEF PromptStates
  <2>. QED BY <1>1, <1>4, <2>1 DEF GroupInv, TypeOK, LoopStates, PromptStates
<1>6. ASSUME NEW i \in 1..Len(chain)
      PROVE  Entry(chain[i], prompt', outcome, loop', stop, pending)
  <2>1. Entry(chain[i], prompt, outcome, loop, stop, pending)
    BY DEF GroupInv, Entries
  <2>2. loop' = loop \/ (chain[i].kind # "handover" /\ chain[i].kind # "clear")
    BY <1>1, <2>1 DEF Entry
  <2>3. chain[i].kind = "prompt" => \A q \in chain[i].adds : prompt'[q] = "saving"
    BY <1>1, <1>3, <2>1 DEF Entry
  <2>. QED BY <2>1, <2>2, <2>3 DEF Entry
<1>7. Ordered(chain)' /\ Entries(chain, prompt, outcome, loop, stop, pending)'
  BY <1>1, <1>6 DEF GroupInv, Entries
<1>8. Stored' /\ Down'
  BY <1>1, <1>2, <1>3 DEF GroupInv, Stored, Down
<1>9. InRound(loop', delivery, pending)
  <2>1. CASE loop.at = "none" /\ loop' = Started
    BY <2>1, QuietOutside, Idle, LoopOf DEF InRound, Deciding, Round
  <2>. QED BY <1>1, <2>1, LoopOf
<1>10. NothingAfterStop'
  BY <1>1, Idle DEF GroupInv, NothingAfterStop
<1>. QED BY <1>1, <1>5, <1>7, <1>8, <1>9, <1>10 DEF GroupInv

\* A stop goes on with s, unless it waits for its clear.
LEMMA StopKeeps ==
  ASSUME GroupInv, up, stop.at # "clearing", NEW s \in StopStates, StopMoves(s), UNCHANGED chain
  PROVE  GroupInv'
<1>1. /\ stop' = s
      /\ UNCHANGED <<prompt, pending, revision, loop, delivery, up, checkpoint, failures, crashes, outcome>>
  BY DEF StopMoves
<1>2. TypeOK'
  BY <1>1 DEF GroupInv, TypeOK, StopStates
<1>3. Entries(chain, prompt, outcome, loop, stop, pending)'
  BY <1>1 DEF GroupInv, Entries, Entry
<1>4. Ordered(chain)' /\ Stored' /\ Down' /\ InRound(loop, delivery, pending)' /\ NothingAfterStop'
  BY <1>1 DEF GroupInv, Stored, Down, NothingAfterStop
<1>. QED BY <1>2, <1>3, <1>4 DEF GroupInv

LEMMA StopMovesStep ==
  ASSUME GroupInv, Stop \/ Cancelled \/ StopReturns
  PROVE  GroupInv'
<1>1. up /\ stop.at # "clearing"
  BY DEF Stop, Cancelled, StopReturns, stop_requested, GroupInv, Down
<1>2. Len(chain) \in Nat
  BY LoopOf
<1>3. CASE Stop
  BY <1>1, <1>3, StopKeeps DEF Stop, StopStates
<1>4. CASE Cancelled
  BY <1>1, <1>2, <1>4, StopKeeps DEF Cancelled, StopStates
<1>5. CASE StopReturns
  BY <1>1, <1>5, StopKeeps DEF StopReturns, NoStop, StopStates
<1>. QED BY <1>3, <1>4, <1>5

\* A stop that has joined the loop queues the last mutation.
LEMMA ClearStep ==
  ASSUME GroupInv, Clear
  PROVE  GroupInv'
<1>. DEFINE m == [kind |-> "clear", adds |-> {}, drops |-> {}, at |-> "begin"]
            s == [at |-> "clearing", wait |-> 0]
<1>1. /\ stop.at = "draining" /\ loop.at = "none" /\ chain' = Append(chain, m) /\ stop' = s
      /\ UNCHANGED <<prompt, pending, revision, loop, delivery, up, checkpoint, failures, crashes, outcome>>
  BY DEF Clear, Joined, StopMoves
<1>2. /\ m \in Mutations /\ m.kind = "clear" /\ m.adds = {} /\ m.at = "begin"
      /\ s \in StopStates /\ s.at = "clearing"
  BY DEF Mutations, StopStates
<1>. HIDE DEF m, s
<1>3. \A i \in 1..Len(chain) : chain[i].kind # "clear" /\ chain[i].kind # "handover"
  BY <1>1 DEF GroupInv, Entries, Entry
<1>4. /\ Ordered(chain') /\ chain' \in Seq(Mutations)
      /\ \A i \in 1..Len(chain') : chain'[i] = m \/ \E j \in 1..Len(chain) : chain'[i] = chain[j]
  BY <1>1, <1>2, <1>3, LoopOf, OrderedAppended DEF GroupInv, First
<1>5. TypeOK'
  BY <1>1, <1>2, <1>4 DEF GroupInv, TypeOK, StopStates, Mutations
<1>6. \A j \in 1..Len(chain) : Entry(chain[j], prompt, outcome, loop, s, pending)
  BY <1>3 DEF GroupInv, Entries, Entry
<1>7. Entry(m, prompt, outcome, loop, s, pending)
  BY <1>1, <1>2 DEF Entry
<1>8. Entries(chain, prompt, outcome, loop, stop, pending)'
  BY <1>1, <1>4, <1>6, <1>7 DEF Entries
<1>9. up
  BY <1>1 DEF GroupInv, Down
<1>10. Stored' /\ Down' /\ InRound(loop, delivery, pending)' /\ NothingAfterStop'
  BY <1>1, <1>9 DEF GroupInv, Stored, Down, NothingAfterStop
<1>. QED BY <1>4, <1>5, <1>8, <1>10 DEF GroupInv

\* The process stops: what is on disk is what a prompt that has returned relies on.
LEMMA CrashStep ==
  ASSUME GroupInv, Crash
  PROVE  GroupInv'
<1>1. /\ up' = FALSE /\ pending' = {} /\ chain' = <<>> /\ revision' = 0
      /\ loop' = NoLoop /\ delivery' = Quiet /\ stop' = NoStop
      /\ UNCHANGED <<checkpoint, failures, outcome>> /\ crashes' \in 0..MaxCrashes
  BY GroupAssumption DEF Crash, GroupInv, TypeOK
<1>2. /\ prompt' \in [Prompts -> PromptStates]
      /\ \A p \in Prompts : prompt'[p] = prompt[p] \/ (prompt[p] \in {"saving", "saved"} /\ prompt'[p] = "failed")
      /\ \A p \in Prompts : prompt'[p] \notin {"saving", "saved"}
  BY DEF Crash, GroupInv, TypeOK, PromptStates
<1>3. chain' \in Seq(Mutations) /\ Len(chain') = 0
  BY <1>1, EmptySeq
<1>4. delivery' \in [Members -> Deliveries] /\ \A m \in Members : delivery'[m] = "none"
  BY <1>1 DEF Quiet, Deliveries
<1>5. NoLoop \in LoopStates /\ NoLoop.batch = {} /\ NoLoop.rounds = 0 /\ NoLoop.at = "none"
  BY Idle
<1>6. TypeOK'
  BY <1>1, <1>2, <1>3, <1>4, <1>5
  DEF GroupInv, TypeOK, PromptStates, Deliveries, Mutations, LoopStates, NoStop
<1>7. Ordered(chain)' /\ Entries(chain, prompt, outcome, loop, stop, pending)'
  BY <1>3 DEF Ordered, Entries
<1>8. Stored'
  BY <1>1, <1>2 DEF GroupInv, Stored
<1>9. Down'
  BY <1>1, <1>2, <1>5 DEF Down, NoStop
<1>10. InRound(loop, delivery, pending)'
  BY <1>1, <1>4, <1>5, LoopOf DEF InRound, Deciding, Round
<1>11. NothingAfterStop'
  BY <1>1, <1>5 DEF GroupInv, NothingAfterStop
<1>. QED BY <1>6, <1>7, <1>8, <1>9, <1>10, <1>11 DEF GroupInv

LEMMA RestoreStep ==
  ASSUME GroupInv, Restore
  PROVE  GroupInv'
<1>1. /\ ~up /\ up' = TRUE /\ pending' = checkpoint /\ loop' \in {Started, NoLoop}
      /\ UNCHANGED <<prompt, chain, revision, delivery, stop, checkpoint, failures, crashes, outcome>>
  BY DEF Restore
<1>2. chain = <<>> /\ Len(chain) = 0 /\ loop.at = "none"
  BY <1>1, EmptySeq DEF GroupInv, Down
<1>3. loop' \in LoopStates /\ loop'.batch = {} /\ loop'.rounds = 0 /\ loop'.at \in {"none", "waiting"}
  BY <1>1, Idle
<1>4. TypeOK'
  BY <1>1, <1>3 DEF GroupInv, TypeOK, LoopStates
<1>5. Ordered(chain)' /\ Entries(chain, prompt, outcome, loop, stop, pending)'
  BY <1>1, <1>2 DEF Ordered, Entries
<1>6. Stored' /\ Down'
  BY <1>1 DEF GroupInv, Stored, Down
<1>7. InRound(loop, delivery, pending)'
  BY <1>1, <1>2, <1>3, QuietOutside, LoopOf DEF InRound, Deciding, Round
<1>8. NothingAfterStop'
  BY <1>1, <1>3 DEF GroupInv, NothingAfterStop
<1>. QED BY <1>4, <1>5, <1>6, <1>7, <1>8 DEF GroupInv

-----------------------------------------------------------------------------
LEMMA GroupStep == GroupInv /\ [Next]_vars => GroupInv'
<1>. SUFFICES ASSUME GroupInv, [Next]_vars PROVE GroupInv'
  OBVIOUS
<1>1. CASE \E p \in Prompts : Prompt(p) \/ PromptReturns(p)
  BY <1>1, PromptStep, PromptReturnsStep
<1>2. CASE Mutation
  BY <1>2, AppendMessageStep, BeginMutationStep, PersistStep DEF Mutation
<1>3. CASE Read \/ Queue \/ Start \/ Decide \/ Record \/ End
  BY <1>3, ReadStep, DecisionStep
<1>4. CASE Settle \/ Limit \/ Prepared \/ RoundEnds
  BY <1>4, SettleStep, LimitStep, PreparedStep, RoundEndsStep
<1>5. CASE HandedOver \/ Catch \/ Complain \/ Dropped \/ LoopEnds
  BY <1>5, PauseSteps, CatchStep, ComplainStep
<1>6. CASE \E m \in Members : Delivery(m)
  BY <1>6, DeliveryStep
<1>7. CASE Stop \/ StopStep
  BY <1>7, StopMovesStep, ClearStep DEF StopStep
<1>8. CASE Crash \/ Restore
  BY <1>8, CrashStep, RestoreStep
<1>9. CASE UNCHANGED vars
  BY <1>9 DEF vars, memory, GroupInv, TypeOK, Stored, Down, NothingAfterStop
<1>. QED BY <1>1, <1>2, <1>3, <1>4, <1>5, <1>6, <1>7, <1>8, <1>9 DEF Next, LoopStep

LEMMA GroupAlways == Spec => []GroupInv
<1>. QED BY GroupInit, GroupStep, PTL DEF Spec

\* Every variable keeps the shape of its field, and members answer each other for at most MaxRounds
\* rounds after a message of a user: the one round that may follow has no members
\* (max_dispatch_rounds, GroupSession.ts:323).
THEOREM GroupTypes == Spec => []TypeOK
<1>1. GroupInv => TypeOK
  BY DEF GroupInv
<1>. QED BY <1>1, GroupAlways, PTL

\* A prompt that has returned is on disk until a round that knew it has ended, its failure was
\* reported, or a stop came, whatever writes fail and whenever the process stops
\* (GroupSession.ts:348, :633).
THEOREM ReturnedIsStored == Spec => []NothingLost
<1>1. GroupInv => NothingLost
  BY DEF GroupInv, Stored, NothingLost
<1>. QED BY <1>1, GroupAlways, PTL

\* What a stop that has returned found does not come back: it is not pending, no loop works on it,
\* and it is not on disk for a restart (GroupSession.ts:227, :242).
THEOREM StoppedStaysOut == Spec => []NothingAfterStop
<1>1. GroupInv => NothingAfterStop
  BY DEF GroupInv
<1>. QED BY <1>1, GroupAlways, PTL
=============================================================================
