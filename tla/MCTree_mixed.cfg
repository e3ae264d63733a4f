SPECIFICATION Spec
CONSTANT v0 = v0
CONSTANT v3 = v3
CONSTANT PageSize = 512
CONSTANT Keys <- MixedKeys
CONSTANT Values <- MixedValues
CONSTANT KeyLen <- MixedKeyLen
CONSTANT ValueLen <- MixedValueLen
CONSTANT MaxHeight = 4
CONSTANT Scenarios <- Mixed
INVARIANT AlwaysRebalances
CHECK_DEADLOCK FALSE
