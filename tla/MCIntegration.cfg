SPECIFICATION IntegrationSpec
CONSTANTS
  a1 = a1
  a2 = a2
  AgentIds <- MCAgentIds
  Tests = {t1, t2}
  MaxRuns = 3
  MaxHunks = 2
  None = None
INVARIANTS PublishedIsTested FailuresOwned
