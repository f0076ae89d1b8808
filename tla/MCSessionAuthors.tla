--------------------------- MODULE MCSessionAuthors ---------------------------
(* Instances for safety: several groups of calls, explored in one run.     *)
EXTENDS MCSessionLoop, SessionAuthors

\* Each group on its own: what competes for the Session while a stop comes; what is merged into a Turn
\* that runs, waits for its works and closes; a Turn that is lost, retried and resumed while others
\* hold the Session; and what a restart, with or without a stop, may lose or repeat.
VARIABLE scenario
Scenarios ==
  {Scenario({ask1, retry1, theft},         {s1}, 0),
   Scenario({ask1, retry1, guest},         {s1}, 0),
   Scenario({ask1, result1, again1, m1},   {s1}, 0),
   Scenario({ask1, retry1, plain, guest},  {},   0),
   Scenario({ask1, retry1, guest},         {},   1),
   Scenario({ask1, retry1},                {s1}, 1),
   Scenario({ask1, guest},                 {s1}, 1)}

MCInit == AuthorInit /\ scenario \in Scenarios
MCNext == AuthorNext /\ UNCHANGED scenario /\ Only(scenario)
MCSpec == MCInit /\ [][MCNext]_<<vars, unknown, scenario>>
=============================================================================
