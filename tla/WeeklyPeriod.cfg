\* Two processes, one of which may be started again instead, with an exception
\* or a crash; two owners who share a group and may ask about its report.
CONSTANTS
  Processes = {w1, w2}
  Owners = {o1, o2}
  Groups = {g1}
  Sources = {meetings}
  MaxRuns = 2
  MaxReplies = 1
  MaxFaults = 1
SPECIFICATION Spec
CHECK_DEADLOCK FALSE
INVARIANTS OneReportMail SnapshotIsSource SentIsMailed
