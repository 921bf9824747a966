SPECIFICATION Spec
CONSTANTS
  MaxRuns = 2
  Prompts = {p1}
  Steers = {s1, s2}
  FollowUps = {f1}
  MaxReplies = 1
  MaxForced = 1
  MaxLeaks = 1
  MaxTroubles = 1
INVARIANTS AbortReachesTheRun ModelSeesTranscript CallsArePaired SaidInOrder AnsweredUnlessLeaked
PROPERTIES AbortKeepsQueues OnlyBrokenRunsLose RunsEnd
CHECK_DEADLOCK FALSE
