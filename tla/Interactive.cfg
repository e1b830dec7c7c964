SPECIFICATION FairSpec
CONSTANTS
  Messages = {m1, m2}
  Stops = {s}
  Finishes = {f}
  Configures = {c}
  Answers = {"chat", "end", "error", "uncertain", "accepted"}
  SteerAnswers = {"landed", "dropped", "error"}
  MaxInputs = 3
  MaxOccurrences = 2
  MaxFaults = 1
CHECK_DEADLOCK FALSE
INVARIANTS
  AssignedOnce
  FinishPreventsTurns
  TranscriptInOrder
  NothingLost
  ReplyIsKept
PROPERTIES
  ControlsTakeEffect
