SPECIFICATION Spec
CONSTANTS
  Sensors = {s1, s2}
  Dead = {}
  Threshold = 1
  Cooldown = 2
  MaxAttempts = 2
  MaxPerCycle = 1
  MinStalled = 1
  EscCooldown = 1
  MaxRestarts = 1
  MaxFaults = 1

INVARIANTS RestartsAreCapped
