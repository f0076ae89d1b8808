\* Actors compete for the Session, results and maintenance are merged into a Turn, Turns are lost and resumed, a stop and a restart come between; with every fault.
SPECIFICATION MCSpec
CONSTANTS
  alice = alice
  bob = bob
  k1 = k1
  k2 = k2
  k3 = k3
  k4 = k4
  ask1 = ask1
  retry1 = retry1
  theft = theft
  plain = plain
  guest = guest
  result1 = result1
  again1 = again1
  m1 = m1
  s1 = s1
  s2 = s2
  Recovery = Recovery
  NoActor = NoActor
  NoTurn = NoTurn
  Actors = {alice, bob}
  Keys = {k1, k2, k3, k4}
  KeyOf <- MCKeyOf
  ActorOf <- MCActorOf
  Identified <- MCIdentified
  TargetOf <- MCTargetOf
  Calls = {ask1, retry1, theft, plain, guest, result1, again1}
  Results = {result1, again1}
  Maintenance = {m1}
  Stoppers = {s1}
  Faults = {"not_runnable", "persist", "internal", "journal", "failure_journal", "late_journal"}
  MaxCrashes = 1
INVARIANTS
  TypeOK OccupationConsistent QueuedIsCurrent ResultStaysInItsTurn
  PendingCountExact NoLeaseLost StoredOnce SettledAsRecorded
  KnownTurnHasOneAuthor AcceptedIsStored
PROPERTY
  KeepsPromise
CHECK_DEADLOCK FALSE
