SPECIFICATION Spec
CONSTANTS
  Ids = {x, y, z}
  x = x  y = y  z = z
  Priority <- MCPriority
  Literals = {"a", "b"}
  MaxLength = 3
  MaxDepth = 2
INVARIANTS
  LookupExact
