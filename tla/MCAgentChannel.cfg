SPECIFICATION ChannelSpec
CONSTANTS
  Jobs = {j1, j2}
  Questions = {q1}
  Grain = 2
  MaxWrites = 2
  MaxPolls = 2
INVARIANT ExecutedOnce
PROPERTIES ChannelSettles AskEnds
CHECK_DEADLOCK FALSE
