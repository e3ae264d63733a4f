SPECIFICATION FairSpec
CONSTANT PageSize = 52
CONSTANT Keys = {1}
CONSTANT v = v
CONSTANT Values <- MCValues
CONSTANT KeyLen <- MCKeyLen
CONSTANT ValueLen <- MCValueLen
CONSTANT MaxPages = 7
CONSTANT Roots = {1, 2}
CONSTANT KillPhases = {"touched", "extended", "leafWritten", "metaWritten", "fileSynced", "open"}
INVARIANT PagerTypeOK
INVARIANT PagesOwned
INVARIANT TreePagesIntact
INVARIANT MetaNamesRoot
PROPERTY PagesAllocated
PROPERTY ReopensOnceCreated
