-------------------------- MODULE MCSessionLoopCalls --------------------------
(* Instances for liveness: several groups of calls, explored in one run.   *)
EXTENDS MCSessionLoop

\* Each group on its own: two stops, a stop and a restart, merging, and a retry.
VARIABLE scenario
Scenarios ==
  {Scenario({ask1, plain},       {s1, s2}, 0),
   Scenario({ask1, plain},       {s1},     1),
   Scenario({ask1, result1, m1}, {s1},     0),
   Scenario({ask1, retry1},      {s1},     0)}

MCInit     == Init /\ scenario \in Scenarios
MCNext     == Next /\ UNCHANGED scenario /\ Only(scenario)
MCFairSpec == MCInit /\ [][MCNext]_<<vars, scenario>> /\ Fairness
=============================================================================
