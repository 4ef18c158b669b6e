\* Nothing fails and chosen groups stay: what must eventually happen.
CONSTANTS
  Jobs = {1, 2}
  Requests = {"submit_transcript", "assess_query", "cancel", "answer"}
  MaxPosts = 1
  MaxFaults = 0
  GroupsChange = FALSE
SPECIFICATION FairSpec
PROPERTIES QueuedIsAnswered
