SPECIFICATION Spec
CONSTANTS
  s1 = s1
  s2 = s2
  None = None
  Servers <- TwoServers
  NMethods = 2
  TTL = 4
  MinInterval = 1
  MaxDelay = 1
  MaxUpsets = 2
INVARIANTS
  LiveServiceFound
  DeadServiceForgotten
PROPERTIES
  RegistryRecovers
  SurvivorTakesOver
