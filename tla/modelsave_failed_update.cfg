SPECIFICATION Spec
CONSTANTS
  Columns = {"name"}
  Opaque = {}
  Values = {0, 1}
  Zero = 0
  Types <- MCPlainTypes
  Filters = {}
  Hooks = {}
  HookEdits = {}
  MaxInserts = 2
  NoRow = NoRow
INVARIANT OriginFromDatabase
