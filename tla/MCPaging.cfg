CONSTANTS
  Kind = {"history", "files", "channels"}
  PageSize <- MCPageSize
  MaxRows = 4
  Size = {1, 2}
  Time = {1, 2}
  Name <- MCName
SPECIFICATION Spec
INVARIANTS
  WalkIsExact
  ContextFits
