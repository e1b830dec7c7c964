SPECIFICATION FairSpec
CONSTANTS
  Callers = {c1, c2}
  Main = "main"
  Branches = {}
  GenerateAttempts = 2
  ProtocolAttempts = 2
  Answers = {"valid", "error"}
  CreateAnswers = {"valid", "uncertain"}
  Cancels = {"turn", "scope"}
  Faults = FALSE
  MaxGens = 2
  MaxStops = 0
INVARIANTS
  ReleasedOnce
  SteerSettlesFirst
PROPERTIES
  CancelledRunEnds
