\* Two transcript jobs and everything their owners can ask for, retried POSTs,
\* one crash or failed file move.
CONSTANTS
  Jobs = {1, 2}
  Requests = {"submit_transcript", "cancel", "answer"}
  MaxPosts = 2
  MaxFaults = 1
  GroupsChange = TRUE
SPECIFICATION Spec
INVARIANTS SubmittedOnce RunnableFileInPlace CompletedIsSubmitted VerdictIsTrue
PROPERTIES KeepsContract
