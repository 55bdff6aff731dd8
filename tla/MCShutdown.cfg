SPECIFICATION FairServerSpec
CONSTANTS
  r1 = r1
  r2 = r2
  r3 = r3
  Req = {r1, r2, r3}
  Limit = 2
  PlansOf <- AnyBesideTwo
INVARIANTS PoolTypeOK NoLostWakeup NotExhausted
PROPERTIES StayersServed SignalEndsProcess ServedUnlessNested
CHECK_DEADLOCK FALSE
