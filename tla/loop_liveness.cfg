\* Every submission and every stop is answered, and nobody is forgotten: two stops, or a stop
\* and a restart, or merging, or a retry; with failures.
SPECIFICATION MCFairSpec
CONSTANTS
  alice = alice
  bob = bob
  k1 = k1
  k2 = k2
  k3 = k3
  k4 = k4
  ask1 = ask1
  retry1 = retry1
  theft = theft
  plain = plain
  guest = guest
  result1 = result1
  again1 = again1
  m1 = m1
  s1 = s1
  s2 = s2
  Recovery = Recovery
  NoActor = NoActor
  NoTurn = NoTurn
  Actors = {alice, bob}
  Keys = {k1, k2, k4}
  KeyOf <- MCKeyOf
  ActorOf <- MCActorOf
  Identified <- MCIdentified
  TargetOf <- MCTargetOf
  Calls = {ask1, retry1, plain, result1}
  Results = {result1}
  Maintenance = {m1}
  Stoppers = {s1, s2}
  Faults = {"internal", "journal", "failure_journal"}
  MaxCrashes = 1
INVARIANT
  NobodyForgotten
PROPERTIES
  CallerAnswered StopReturns
CHECK_DEADLOCK FALSE
