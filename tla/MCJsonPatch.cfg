CONSTANTS
  None = None
  x = x
  y = y
  a = a
  zero = zero
  one = one
  dash = dash
  Scalars = {x, y}
  Tokens = {a, zero, one, dash}
  Dash = dash
  IndexOf <- Indices
  Documents <- SomeDocuments
  Operations <- SomeOperations
  MaxLength = 2
SPECIFICATION PatchSpec
CHECK_DEADLOCK FALSE
INVARIANTS
  PatchTypeOK
  PatchResultExact
