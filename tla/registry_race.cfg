CONSTANTS
  i1 = i1  i2 = i2  i3 = i3
  T1 = T1  T2 = T2
  Ids = {i1, i2}
  EarlyIds = {i1}
  Leavers = {i1}
  Types = {T1, T2}
  TypeOf <- McTypeOf
  Tokens = {"a", "b", "*", ">"}
  Patterns <- OnePattern
  Wanted <- RaceWanted
  MaxTokens = 1
SPECIFICATION Spec
INVARIANTS
  FindsAllActive
