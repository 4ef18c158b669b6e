\* A weekly mail, which both loops may send, and another one, which may name
\* the transcript of a job; exceptions and crashes enough to give one up.
CONSTANTS
  Rows = {r1, r2}
  WeeklyRows = {r1}
  MaxAttempts = 2
  MaxRaises = 2
  MaxCrashes = 1
SPECIFICATION FairSpec
INVARIANTS TypeOK SentIsDelivered SentIsLinked GivenUpIsEarned TranscriptIsAttached CopiesAreCounted
PROPERTIES EventuallySettled
