\* Two messages, one of which is from outside the authorised domains and is
\* delivered up to twice, and just enough failures to exhaust the attempts at
\* one of them.  The mistake of pipeline.py:321 strikes the other.  A third
\* message cannot be read.
CONSTANTS
  Ids = {m1, m2, m3}
  Copies = 2
  Redelivered = {m1}
  RaisesFor = {m2}
  Outside = {m1, m3}
  Unreadable = {m3}
  Admins = {TRUE}
  MaxOutages = 2
  MaxFaults = 1
SPECIFICATION FairSpec
INVARIANTS ReadIsSettled RepeatsCostFaults GivingUpCosts SettledIsTold
PROPERTIES UnreadIsRead AnsweredUnlessGivenUp
