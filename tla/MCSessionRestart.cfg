SPECIFICATION Spec
CONSTANTS
  Callers = {c1}
  Main = "main"
  Branches = {}
  GenerateAttempts = 2
  ProtocolAttempts = 2
  Answers = {"valid", "protocol", "uncertain"}
  CreateAnswers = {"valid", "rejected", "uncertain"}
  Cancels = {"scope"}
  Faults = TRUE
  MaxGens = 2
  MaxStops = 1
INVARIANTS
  IntentFirst
  CompletedNotRepeated
  RepeatIsAnnounced
  ResumesConversation
  ReplayAgrees
