SPECIFICATION Spec
CONSTANTS
  h1 = h1
  h2 = h2
  a = a
  Ids = {h1}
  Agents = {a}
  AgentOf <- MCOne
  Docs = {d}
  Fresh = {}
  Values = {v}
  None = None
  Untouched = Untouched
  Reverters = {}
  Cap = 1
  MaxSteps = 1
  MaxCalls = 1
  MaxCrashes = 0
INVARIANT NoWriteUnrecorded
