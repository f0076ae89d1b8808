----------------------------- MODULE CreditsLedger -----------------------------
(***************************************************************************)
(* The tables of CreditsService for one user, and the groups of commands   *)
(* it sends to them (service.ts, transaction-commands.ts).  A group is one *)
(* transaction of the database, and none of its commands may raise an      *)
(* error to undo the others: a command that finds its condition false does *)
(* nothing, and the last ones of the group take back what was done.        *)
(*                                                                         *)
(* A ledger d has the rows of the cards (row, credits, marker), of the     *)
(* transactions (tx) and of their entries.  past is the set of the cards   *)
(* whose expires_at has passed.                                            *)
(***************************************************************************)
EXTENDS Integers, FiniteSetsExt, Functions

CONSTANTS
  Cards, Primary,     \* the Primary Card and the Ephemeral Cards of the user
  Expiry,             \* the order in which cards expire; the Primary Card never does
  Charges, TopUps,    \* the idempotency keys of the two kinds
  Amount,             \* the credits of a charge or of a top-up
  CardOf,             \* the card a top-up is for
  Opens,              \* the top-ups that create their Ephemeral Card
  MaxCredits,         \* MAX_USER_CREDITS
  MaxActive,          \* MAX_ACTIVE_EPHEMERAL_CARDS
  NoTx

Keys == Charges \cup TopUps

ASSUME LedgerAssumption ==
  /\ Primary \in Cards /\ IsFiniteSet(Cards)
  /\ Expiry \in [Cards -> Nat]
  /\ \A c, e \in Cards : c # e => Expiry[c] # Expiry[e]
  /\ \A c \in Cards \ {Primary} : Expiry[c] < Expiry[Primary]
  /\ Charges \cap TopUps = {} /\ NoTx \notin Keys
  /\ Amount \in [Keys -> Nat \ {0}]
  /\ CardOf \in [TopUps -> Cards]
  /\ Opens \subseteq TopUps /\ \A t \in Opens : CardOf[t] # Primary
  /\ \A s, t \in Opens : CardOf[s] = CardOf[t] => s = t   \* card_id is random: service.ts:219
  /\ MaxCredits \in Nat /\ MaxActive \in Nat

EmptyLedger ==
  [row     |-> [c \in Cards |-> c = Primary],
   credits |-> [c \in Cards |-> 0],
   marker  |-> [c \in Cards |-> NoTx],
   tx      |-> [k \in Keys |-> "absent"],
   entries |-> {}]

Live(d, past, c) == d.row[c] /\ c \notin past
Available(d, past) == SumFunctionOnSet(d.credits, {c \in Cards : Live(d, past, c)})
Active(d, past) == {c \in Cards \ {Primary} : Live(d, past, c) /\ d.credits[c] > 0}

-----------------------------------------------------------------------------
\* The commands.

\* A key that has a transaction already does not get a second one.
InsertTransaction(d, k) ==
  [d EXCEPT !.tx[k] = IF @ = "absent" THEN "pending" ELSE @]

Pending(d, k) == d.tx[k] = "pending"

\* The credits of the cards of a set change and the cards are marked.
Move(d, k, delta, hit) ==
  [d EXCEPT !.credits = [c \in Cards |-> IF c \in hit THEN @[c] + delta[c] ELSE @[c]],
            !.marker  = [c \in Cards |-> IF c \in hit THEN k ELSE @[c]]]

\* Mistake: a card may be overdrawn.
DebitAnyway(d, k, delta, past) ==
  Move(d, k, delta, {c \in DOMAIN delta : Pending(d, k) /\ Live(d, past, c)})

\* Every card that has what is to be taken from it is debited.
Debit(d, k, delta, past) ==
  Move(d, k, delta, {c \in DOMAIN delta :
    Pending(d, k) /\ Live(d, past, c) /\ d.credits[c] + delta[c] >= 0})

\* A card is topped up within the limits of the user.
Credit(d, k, delta, past) ==
  Move(d, k, delta, {c \in DOMAIN delta :
    /\ Pending(d, k) /\ Live(d, past, c)
    /\ c = Primary \/ d.credits[c] > 0 \/ Cardinality(Active(d, past)) < MaxActive
    /\ Available(d, past) + delta[c] <= MaxCredits})

\* A card is created within the same limits; one that has expired already counts for neither.
CreateCard(d, k, delta, past) ==
  LET c  == CardOf[k]
      ok == /\ Pending(d, k) /\ ~d.row[c]
            /\ \/ c \in past
               \/ /\ Cardinality(Active(d, past)) < MaxActive
                  /\ Available(d, past) + delta[c] <= MaxCredits
  IN  IF ok THEN Move([d EXCEPT !.row[c] = TRUE], k, delta, {c}) ELSE d

\* An entry for every card that is marked.
Marked(d, k, delta) == {c \in DOMAIN delta : d.row[c] /\ d.marker[c] = k}
NewEntries(d, k, delta) == {[key |-> k, card |-> c, delta |-> delta[c]] : c \in Marked(d, k, delta)}

\* The transaction is applied: its entries stay.
Apply(d, k, delta) ==
  [d EXCEPT !.tx[k] = "applied", !.entries = @ \cup NewEntries(d, k, delta)]

\* Mistake: cards that were debited keep the debit when another one could not be.
KeepDebits(d, k, delta) == [d EXCEPT !.tx[k] = "absent"]

\* It is not: what was done to the cards is undone, a card that was created is deleted, and the
\* entries and the transaction go.
Undo(d, k, delta) ==
  LET hit == Marked(d, k, delta) IN
  [d EXCEPT !.tx[k] = "absent",
            !.credits = [c \in Cards |-> IF c \in hit THEN @[c] - delta[c] ELSE @[c]],
            !.row = [c \in Cards |-> @[c] /\ (k \in Opens => c \notin hit)]]

\* Mistake: the marks stay for the next attempt with the same key.
KeepMarkers(d, k) == d

ClearMarkers(d, k) ==
  [d EXCEPT !.marker = [c \in Cards |-> IF @[c] = k THEN NoTx ELSE @[c]]]

\* The commands that follow the change of the cards: the transaction is applied if every card has
\* its entry.
Conclude(d, k, delta) ==
  IF ~Pending(d, k) THEN ClearMarkers(d, k)
  ELSE IF Marked(d, k, delta) = DOMAIN delta THEN ClearMarkers(Apply(d, k, delta), k)
  ELSE ClearMarkers(Undo(d, k, delta), k)

DeleteExpired(d, past) ==
  [d EXCEPT !.row = [c \in Cards |-> @[c] /\ c \notin past],
            !.credits = [c \in Cards |-> IF c \in past THEN 0 ELSE @[c]]]

-----------------------------------------------------------------------------
\* The groups.

\* charge, with what is to be taken from each card.
ChargeBatch(d, k, allocation, past) ==
  LET delta == [c \in {c \in Cards : allocation[c] > 0} |-> -allocation[c]]
  IN  Conclude(Debit(InsertTransaction(d, k), k, delta, past), k, delta)

\* topup and create_ephemeral_card; only the group of the latter deletes what has expired.
TopUpBatch(d, k, past) ==
  LET delta == [c \in {CardOf[k]} |-> Amount[k]]
  IN  IF k \in Opens
      THEN Conclude(CreateCard(InsertTransaction(DeleteExpired(d, past), k), k, delta, past), k, delta)
      ELSE Conclude(Credit(InsertTransaction(d, k), k, delta, past), k, delta)

-----------------------------------------------------------------------------
\* allocate_cards: the card that expires first pays first; seen is what was read of the cards.

Short(seen, amount) == SumFunction(seen) < amount

Allocation(seen, amount) ==
  LET before(c) == SumFunctionOnSet(seen, {e \in Cards : Expiry[e] < Expiry[c]})
      left(c)   == IF before(c) >= amount THEN 0 ELSE amount - before(c)
      take(c)   == IF seen[c] < left(c) THEN seen[c] ELSE left(c)
  IN  [c \in Cards |-> take(c)]
================================================================================
