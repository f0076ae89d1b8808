---------------------------- MODULE SessionQueue ----------------------------
(***************************************************************************)
(* The in-process FIFO of one Session, SessionQueue.ts.  The queue stores  *)
(* commands and knows nothing of their meaning except two facts each       *)
(* command carries: whether it is a maintenance command, and whether it    *)
(* can be cancelled (in this program exactly the prompts can).             *)
(*                                                                         *)
(* The operators are pure: the module that owns the queue variable applies *)
(* them.  Keep is SelectSeq written without recursion, so that what the    *)
(* operators preserve can be proved and not only evaluated; the model of   *)
(* the loop checks that the two agree.                                     *)
(***************************************************************************)
EXTENDS Integers, Sequences, FiniteSets

\* The positions of s that hold a member of S.
PositionsOf(s, S) == {i \in DOMAIN s : s[i] \in S}

\* How many of the positions of P are at or before i.
RankIn(P, i) == Cardinality({j \in P : j <= i})

\* The members of S in s, in the order of s.
Keep(s, S) ==
  LET P == PositionsOf(s, S)
  IN  [n \in 1 .. Cardinality(P) |-> s[CHOOSE i \in P : RankIn(P, i) = n]]

-----------------------------------------------------------------------------
EnqueueCommand(q, c) == Append(q, c)

HasCommand(q) == q # <<>>

\* take_next hands out Head(q) and leaves the rest.
AfterTakeNext(q) == Tail(q)

\* drain hands out the whole queue, in order, and leaves it empty.
Drained(q) == q
AfterDrain(q) == <<>>

\* drain_maintenance hands out the maintenance commands and leaves the rest.
AfterDrainMaintenance(q, maintenance) == Keep(q, {q[i] : i \in DOMAIN q} \ maintenance)

\* cancel runs the cancel action of the commands that have one and keeps the others.
Cancelled(q, cancellable) == {q[i] : i \in PositionsOf(q, cancellable)}
AfterCancel(q, cancellable) == Keep(q, {q[i] : i \in DOMAIN q} \ cancellable)
=============================================================================
