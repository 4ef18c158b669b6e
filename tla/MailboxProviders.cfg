\* Either provider, with more messages than one fetch takes, deletions by
\* another mail program, exceptions and crashes.
\* One message cannot be read.
CONSTANTS
  Messages = {m1, m2, m3, m4}
  Anonymous = {m2}
  Unreadable = {m4}
  Providers = {"imap", "graph"}
  Limit = 2
  MaxDeletes = 1
  MaxFaults = 2
SPECIFICATION FairSpec
CHECK_DEADLOCK FALSE
INVARIANTS SeenIsHandled OldestFirst
PROPERTIES EveryMessageHandled
