SPECIFICATION FairSpec
CONSTANTS
  Switch <- Four
  Link <- Ring
  MaxQueue = 1
INVARIANTS CostIsReal LinkIsServed
PROPERTIES NeverWorse Converges
CHECK_DEADLOCK FALSE
