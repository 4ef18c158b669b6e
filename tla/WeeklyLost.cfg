\* One run, which is stopped between two statements, and another.
CONSTANTS
  Processes = {w1}
  Owners = {o1, o2}
  Groups = {g1}
  Sources = {meetings, github}
  MaxRuns = 2
  MaxReplies = 0
  MaxFaults = 1
SPECIFICATION Spec
CHECK_DEADLOCK FALSE
INVARIANTS PassedOverIsMailed
