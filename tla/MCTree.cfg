SPECIFICATION Spec
CONSTANT v0 = v0
CONSTANT v3 = v3
CONSTANT PageSize = 132
CONSTANT Keys <- SmallKeys
CONSTANT Values <- SmallValues
CONSTANT KeyLen <- OneByte
CONSTANT ValueLen <- SmallValueLen
CONSTANT MaxHeight = 4
CONSTANT Scenarios <- FlatAndDeep
INVARIANT TreeTypeOK
INVARIANT NeverRaises
INVARIANT Answers
INVARIANT ScanComplete
INVARIANT TreeInvariants
INVARIANT PagesAccounted
CHECK_DEADLOCK FALSE
