SPECIFICATION Spec
CONSTANTS
  a1 = a1
  a2 = a2
  p1 = p1
  Agents <- MCAgents
  Sleepers <- MCSleepers
  Projects <- MCProjects
  Configs <- MCConfigs
  MaxCalls = 1
  MaxNow = 1
INVARIANTS AckedSurvives StoredIsCurrent
PROPERTIES Consecutive ScheduleMoves RecoversWhileWatched StopReturns
CHECK_DEADLOCK FALSE
