CONSTANTS
  i1 = i1  i2 = i2  i3 = i3
  T1 = T1  T2 = T2
  Ids = {i1, i2, i3}
  EarlyIds = {i2}
  Leavers = {i1, i3}
  Types = {T1, T2}
  TypeOf <- McTypeOf
  Tokens = {"a", "b", "*", ">"}
  Patterns <- McPatterns
  Wanted <- McWanted
  MaxTokens = 3
SPECIFICATION Spec
INVARIANTS
  FindsNoOther
  FindsRegistered
