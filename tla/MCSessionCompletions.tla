------------------------- MODULE MCSessionCompletions -------------------------
(***************************************************************************)
(* SessionCompletions with one registered handler and one callback, in two *)
(* situations that TLC explores in one run: a calm one, in which only what *)
(* the retry is meant for fails and scans end within a second, and one in  *)
(* which anything happens, but less often.                                 *)
(***************************************************************************)
EXTENDS SessionCompletions

CONSTANTS handler, callback, asking, success, failure

MCHandlers  == {handler}
MCCallbacks == {callback}
MCTurns     == {asking}
MCOrder     == <<handler, callback>>
MCWanted    == [t \in Turns |-> {callback}]

\* Only a delivery or a commit fails, no scan is outlasted by the timer, and nothing suspends or
\* resumes the host.
CalmStep ==
  /\ hosted' = hosted
  /\ faults' # faults => ~ \E t \in Turns : PrepareEnd(t) \/ SkipCommit(t) \/ ScanList \/ ScanRead(t)
  /\ timer /\ scanning # NoScan => timer' \/ scanning' = NoScan
  /\ \A t \in Turns : record'[t] # NoRecord => record'[t].result = success

VARIABLE calm
MCInit == Init /\ calm \in BOOLEAN
MCNext == Next /\ UNCHANGED calm /\ IF calm THEN CalmStep ELSE faults' <= 1
MCFairSpec == MCInit /\ [][MCNext]_<<vars, calm>> /\ Fairness

\* Every recipient of a recorded completion handles it in the end, when it is calm.
DeliveredWhenCalm == calm => EventuallyDelivered
=============================================================================
