SPECIFICATION Spec
CONSTANTS
  Callers = {c1, c2}
  Main = "main"
  Branches = {"fork"}
  GenerateAttempts = 2
  ProtocolAttempts = 2
  Answers = {"valid"}
  CreateAnswers = {"valid"}
  Cancels = {"scope"}
  Faults = FALSE
  MaxGens = 1
  MaxStops = 0
SYMMETRY MCSymmetry
INVARIANTS
  ReleasedOnce
