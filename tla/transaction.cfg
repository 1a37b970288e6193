SPECIFICATION FairSpec
CONSTANTS
  c1 = c1
  c2 = c2
  Clients = {c1, c2}
  Items = {x, y}
  PoolSize = 3
  MaxStatements = 2
  Style <- MCStyle
  Victims = {c1}
  Listening = TRUE
INVARIANTS AllOrNothing NothingLeaks PoolSuffices
PROPERTY Ends
