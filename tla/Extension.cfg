SPECIFICATION FairSpec
CONSTANTS
  Tabs = {t1, t2}
  MaxRequests = 2
  MaxCalls = 3
  MaxKills = 1
INVARIANT TypeOK
INVARIANT SignedMeansTaken
PROPERTY EverybodyIsAnswered
CHECK_DEADLOCK FALSE
