SPECIFICATION Spec
CONSTANTS
  Callers = {c1}
  Main = "main"
  Branches = {}
  GenerateAttempts = 2
  ProtocolAttempts = 2
  Answers = {"valid", "uncertain"}
  CreateAnswers = {"valid"}
  Cancels = {}
  Faults = FALSE
  MaxGens = 1
  MaxStops = 2
PROPERTIES
  ResultsReused
