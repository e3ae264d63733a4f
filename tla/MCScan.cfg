SPECIFICATION ScanFairSpec
CONSTANT v3 = v3
CONSTANT PageSize = 132
CONSTANT Keys <- MCKeys
CONSTANT Values <- MCValues
CONSTANT KeyLen <- MCKeyLen
CONSTANT ValueLen <- MCValueLen
CONSTANT MaxHeight = 2
CONSTANT Scenarios <- MCScenarios
CONSTANT Ranges <- MCRanges
CONSTANT IteratorsOutliveClose = FALSE
INVARIANT ScanExact
PROPERTY OvertakenRaises
PROPERTY UnstartedRaisesUnlessEmpty
PROPERTY ScanEnds
