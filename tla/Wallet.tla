-------------------------------- MODULE Wallet --------------------------------
(***************************************************************************)
(* What the Credits of one user promise: a top-up is counted at most once, *)
(* and a charge is taken at most once, whole or not at all and never       *)
(* beyond what is there.  Besides them credits may only get fewer, as they *)
(* do when they expire; that they get fewer in no other way is left to the *)
(* entries of the ledger, which a wallet does not have.                    *)
(***************************************************************************)
EXTENDS Naturals

CONSTANTS Charges, TopUps, Amount

VARIABLES balance, charged, funded

Init == balance = 0 /\ charged = {} /\ funded = {}

Charge(u) ==
  /\ u \notin charged /\ balance >= Amount[u]
  /\ balance' = balance - Amount[u] /\ charged' = charged \cup {u}
  /\ UNCHANGED funded

\* A top-up that is restored after its credits have expired adds nothing.
TopUp(t) ==
  /\ t \notin funded
  /\ funded' = funded \cup {t} /\ balance' \in {balance, balance + Amount[t]}
  /\ UNCHANGED charged

\* Which credits expire, and when, does not matter here: any of them, at any time.
Expire ==
  /\ balance' < balance /\ balance' \in Nat
  /\ UNCHANGED <<charged, funded>>

Next == (\E u \in Charges : Charge(u)) \/ (\E t \in TopUps : TopUp(t)) \/ Expire

Spec == Init /\ [][Next]_<<balance, charged, funded>>
===============================================================================
