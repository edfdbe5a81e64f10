CONSTANTS
  f1 = f1
  f2 = f2
  Fds = {f1, f2}
  Conditions <- MCConditions
  Interests <- MCInterests
  Timeouts = {1, 3, 5}
  PerMilli = 2
  MaxInt = 1
  MaxEntries = 2
  Forever = Forever
  NoCall = NoCall
SPECIFICATION FairSpec
INVARIANTS
  PollTypeOK
  TimeoutHonoured
PROPERTIES
  PollTellsTruth
  CallReturns
