SPECIFICATION FaultsFairSpec
CONSTANT v1 = v1
CONSTANT v2 = v2
CONSTANT PageSize = 132
CONSTANT Keys <- SixKeys
CONSTANT Values <- TwoValues
CONSTANT KeyLen <- OneByte
CONSTANT ValueLen <- ThreeBytes
CONSTANT MaxHeight = 2
CONSTANT Scenarios <- SplitGivenUp
CONSTANT TornKinds = {"short", "badcrc", "zeros"}
CONSTANT MaxLSN = 40
CONSTANT MaxCalls = 2
CONSTANT MaxCrashes = 1
CONSTANT MaxFaults = 1
INVARIANT RecoveryRestarts
