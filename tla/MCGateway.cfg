SPECIFICATION Spec
CONSTANTS
  Agents = {a1}
  Strategist = Strategist
  Channels = {x1}
  Home = Home
  MaxHandles = 3
  Tasks = {t1, t2}
  None = None
INVARIANT RouterCurrent
PROPERTY NoEcho
SYMMETRY Symm
VIEW Referred
CHECK_DEADLOCK FALSE
