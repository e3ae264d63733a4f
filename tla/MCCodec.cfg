SPECIFICATION MCSpec
CONSTANT PageSize = 96
CONSTANT Keys <- CodecKeys
CONSTANT Values <- CodecValues
CONSTANT KeyLen <- CodecKeyLen
CONSTANT ValueLen <- CodecValueLen
CONSTANT PageIds <- CodecPageIds
CONSTANT MaxSlots = 5
CONSTANT LogOps <- FormatOps
CONSTANT MaxRecords = 2
CONSTANT MaxTears = 2
INVARIANT PagesReadBack
INVARIANT TornMetaIsDetected
INVARIANT YieldsWhatWasWritten
INVARIANT TornKindsAreExact
INVARIANT ReplayLeavesWholeFrames
CHECK_DEADLOCK FALSE
