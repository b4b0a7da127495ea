SPECIFICATION Spec
CONSTANTS
  a1 = a1
  a2 = a2
  p1 = p1
  Agents <- MCAgents
  Sleepers <- MCSleepers
  Projects <- MCProjects
  Configs <- MCHealth
  MaxCalls = 1
  MaxNow = 0
PROPERTY AutoRecovers
CHECK_DEADLOCK FALSE
