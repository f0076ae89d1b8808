\* A Turn whose failure cannot be recorded either is resumed by a retry while another author is let in.
SPECIFICATION MCSpec
CONSTANTS
  alice = alice
  bob = bob
  k1 = k1
  k2 = k2
  k3 = k3
  k4 = k4
  ask1 = ask1
  retry1 = retry1
  theft = theft
  plain = plain
  guest = guest
  result1 = result1
  again1 = again1
  m1 = m1
  s1 = s1
  s2 = s2
  Recovery = Recovery
  NoActor = NoActor
  NoTurn = NoTurn
  Actors = {alice, bob}
  Keys = {k1, k2, k3}
  KeyOf <- MCKeyOf
  ActorOf <- MCActorOf
  Identified <- MCIdentified
  TargetOf <- MCTargetOf
  Calls = {ask1, retry1, plain, guest}
  Results = {}
  Maintenance = {}
  Stoppers = {}
  Faults = {"internal", "failure_journal"}
  MaxCrashes = 0
INVARIANT
  OneAuthorPerTurn
CHECK_DEADLOCK FALSE
