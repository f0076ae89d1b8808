\* A lease expires under a call that goes on to charge.
SPECIFICATION MCSpec
CONSTANTS
  p = p
  e = e
  u1 = u1
  u2 = u2
  t1 = t1
  t2 = t2
  t3 = t3
  c1 = c1
  c2 = c2
  Callers = {c1, c2}
  Usages = {u1, u2}
  Tokens = {1, 2, 3, 4, 5, 6}
  Faults = {"database", "crash"}
  MaxFaults = 1
  MaxEvents = 1
  NoToken = 0
  NoUsage = NoUsage
  Cards = {p, e}
  Primary = p
  Expiry <- MCExpiry
  Charges = {u1, u2}
  TopUps = {t1, t2, t3}
  Amount <- MCAmount
  CardOf <- MCCardOf
  Opens = {t2}
  MaxCredits = 2
  MaxActive = 1
  NoTx = NoTx
INVARIANTS
  RejectedIsUnpaid
CHECK_DEADLOCK FALSE
