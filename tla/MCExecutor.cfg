SPECIFICATION FairSpec
CONSTANTS
  Callers = {c1, c2}
  c1 = c1
  c2 = c2
  Turns = {"t1", "t2"}
  Forks = {"f"}
  Closes = {"x", "y"}
  Commands = {"k"}
  Sessions = {"s", "u"}
  SessionOf <- MCSessionOf
  ParentOf <- MCParentOf
  Inputs = {"i", "j"}
  Plans <- MCPlans
  MaxEvents = 1
  MaxDeaths = 1
  MaxCancels = 1
INVARIANTS
  PanicMeansLoss
  EventsComplete
  CloseIsFinal
  OneConversation
PROPERTIES
  ImplementsOperation
  EveryCallerAnswered
