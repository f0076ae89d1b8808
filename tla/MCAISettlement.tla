---------------------------- MODULE MCAISettlement ----------------------------
(***************************************************************************)
(* AISettlement with two calls, a Primary and an Ephemeral Card, and two   *)
(* situations that TLC explores in one run: usages that charge one wallet, *)
(* and one usage with faults and a lease that expires under its holder.    *)
(***************************************************************************)
EXTENDS AISettlement, TLC

CONSTANTS p, e, u1, u2, t1, t2, t3, c1, c2

MCExpiry == (e :> 1) @@ (p :> 2)
MCAmount == (u1 :> 2) @@ (u2 :> 1) @@ (t1 :> 1) @@ (t2 :> 1) @@ (t3 :> 1)
MCCardOf == (t1 :> p) @@ (t2 :> e) @@ (t3 :> p)

VARIABLE faulty
MCInit == Init /\ faulty \in BOOLEAN
MCNext ==
  /\ Next /\ UNCHANGED faulty
  /\ IF faulty THEN job'[u2] = NoJob /\ ledger'.tx[t3] = "absent" ELSE faults' = 0 /\ events' = 0
MCSpec == MCInit /\ [][MCNext]_<<vars, faulty>>
MCFairSpec == MCSpec /\ Fairness
===============================================================================
