--------------------------- MODULE MCSessionExecutor ---------------------------
(***************************************************************************)
(* SessionExecutor in two situations that TLC explores in one run: Turns   *)
(* with every failure, retry and limit, one of whose tools may ask once    *)
(* until a stop comes, and Turns without retries, with several questions,  *)
(* answers and stops at once.                                              *)
(***************************************************************************)
EXTENDS SessionExecutor

VARIABLE talks
MCInit == Init /\ talks \in BOOLEAN
MCNext ==
  /\ Next /\ UNCHANGED talks
  /\ IF talks THEN turn'.at # "backoff" /\ turn'.error # "context_limit" /\ turn'.recoveries = 0 /\ prompts' = 0
     ELSE stop'[2] = "none" /\ answers' = 0 /\ pending' \subseteq {1}
MCFairSpec == MCInit /\ [][MCNext]_<<vars, talks>> /\ Fairness
===============================================================================
