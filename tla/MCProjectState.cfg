SPECIFICATION Spec
CONSTANTS
  Items = {i1, i2}
  Agents = {a1, a2}
  Nobody = Nobody
  NoItem = NoItem
  Tasks = {"pm", "sweep", "edit"}
  NoTask = NoTask
INVARIANTS RecordsMatch ExclusiveWork OncePerItem Saved
PROPERTIES NothingLost KeepsLedger CompletionStays
SYMMETRY Symm
CONSTRAINT Bounded
