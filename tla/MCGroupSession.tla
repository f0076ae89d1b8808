---------------------------- MODULE MCGroupSession ----------------------------
(***************************************************************************)
(* GroupSession with two prompts and two situations that TLC explores in   *)
(* one run: two members and a write that fails, and one member and the end *)
(* of the process.                                                         *)
(***************************************************************************)
EXTENDS GroupSession

CONSTANTS p1, p2

VARIABLE restarts
MCInit == Init /\ restarts \in BOOLEAN
MCNext ==
  /\ Next /\ UNCHANGED restarts
  /\ IF restarts THEN failures' = 0 /\ loop'.chosen \subseteq {1} ELSE crashes' = 0
MCFairSpec == MCInit /\ [][MCNext]_<<vars, restarts>> /\ Fairness
===============================================================================
