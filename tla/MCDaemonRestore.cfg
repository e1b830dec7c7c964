SPECIFICATION Spec
CONSTANTS
  Turns = {"t", "m"}
  Commands = {"k"}
  Messaged = {"m"}
  Bodies <- MCBodies
  MaxFaults = 2
  MaxEntries = 1
  MaxSteers = 2
INVARIANTS
  AcceptedTurnsResume
