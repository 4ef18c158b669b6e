\* Two owners, who can forward each other their mails, and two jobs; threads of
\* up to six mails, a crash.
CONSTANTS
  Users = {alice, bob}
  Jobs = {j1, j2}
  Example = j2
  NoJob = NoJob
  Patient = TRUE
  MaxMails = 6
  MaxFaults = 1
SPECIFICATION Spec
CHECK_DEADLOCK FALSE
INVARIANTS TypeOK OwnJobsOnly ReplyReachesItsJob ActedIsMentioned
