SPECIFICATION Spec
CONSTANT v1 = v1
CONSTANT v2 = v2
CONSTANT PageSize = 132
CONSTANT Keys <- SixKeys
CONSTANT Values <- TwoValues
CONSTANT KeyLen <- OneByte
CONSTANT ValueLen <- ThreeBytes
CONSTANT MaxHeight = 2
CONSTANT Scenarios <- SplitAnywhere
CONSTANT TornKinds = {"short", "badcrc"}
CONSTANT MaxLSN = 30
CONSTANT MaxCalls = 2
CONSTANT MaxCrashes = 1
INVARIANT NothingLost
CHECK_DEADLOCK FALSE
