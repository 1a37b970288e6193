SPECIFICATION Spec
CONSTANTS
  c1 = c1
  c2 = c2
  Clients = {c1}
  Items = {x}
  PoolSize = 3
  MaxStatements = 2
  Style <- MCAlone
  Victims = {}
  Listening = FALSE
INVARIANT ModelsRollBack
