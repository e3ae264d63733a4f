SPECIFICATION PoolSpecification
CONSTANT v3 = v3
CONSTANT PageSize = 132
CONSTANT Keys <- PoolKeys
CONSTANT Values <- OneValue
CONSTANT KeyLen <- OneByte
CONSTANT ValueLen <- OneValueLen
CONSTANT MaxHeight = 4
CONSTANT Capacity = 7
CONSTANT DirtyNum = 1
CONSTANT DirtyDen = 2
CONSTANT Scripts <- PoolScripts
CONSTANT PutKeys <- PoolPutKeys
CONSTANT DeleteKeys <- PoolDeleteKeys
CONSTANT GetKeys <- PoolGetKeys
CONSTANT MaxOps = 3
CONSTANT MaxRestarts = 1
INVARIANT PoolHoldsTreePages
INVARIANT ChangedPagesAreDirty
INVARIANT RoomForRebalancing
PROPERTY DirtyPagesStay
PROPERTY PoolStopsGrowing
CHECK_DEADLOCK FALSE
