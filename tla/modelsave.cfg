SPECIFICATION Spec
CONSTANTS
  Columns = {"name", "tags"}
  Opaque = {"tags"}
  Values = {0, 1}
  Zero = 0
  Types <- MCTypes
  Filters <- MCFilters
  Hooks = {"saving", "creating", "created", "updating", "updated", "saved", "deleting", "deleted"}
  HookEdits = {"saving", "updated", "saved"}
  MaxInserts = 2
  NoRow = NoRow
INVARIANTS TypeOK OriginKnown InsertedOnce DeleteReported
PROPERTY OwnColumnsOnly
