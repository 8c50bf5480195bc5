SPECIFICATION FairSpec
CONSTANTS
  Subscriptions = {s1, s2}
  Source = source
  Cancellers = {c1}
INVARIANTS TypeOK CountedOnce OneSampleEach CountedAsItEnded SoleWinner
PROPERTIES SignalsForwarded
CHECK_DEADLOCK FALSE
