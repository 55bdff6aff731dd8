SPECIFICATION FairPoolSpec
CONSTANTS
  r1 = r1
  r2 = r2
  r3 = r3
  Req = {r1, r2}
  Limit = 2
  PlansOf <- MailPlans
PROPERTIES AllServed
CHECK_DEADLOCK FALSE
