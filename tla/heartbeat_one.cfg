SPECIFICATION FairSpec
CONSTANTS
  h1 = h1
  h2 = h2
  a = a
  Ids = {h1}
  Agents = {a}
  AgentOf <- MCOne
  Docs = {d}
  Fresh = {f}
  Values = {v, w}
  None = None
  Untouched = Untouched
  Reverters = {u, t}
  Cap = 1
  MaxSteps = 1
  MaxCalls = 2
  MaxCrashes = 1
INVARIANTS
  TypeOK
  WritesRecorded
  RevertedIsUndone
  StopsWithinOneWrite
PROPERTY RowsEnd
