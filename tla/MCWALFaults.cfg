SPECIFICATION MCSpec
CONSTANT put = put
CONSTANT ckpt = ckpt
CONSTANT Payload <- MCPayload
CONSTANT RecoveryOps <- MCRecoveryOps
CONSTANT TornKinds = {"short", "badcrc"}
CONSTANT MaxLSN = 5
CONSTANT MaxFaultyLSN = 4
CONSTANT FailKinds = {"kept"}
INVARIANT WALTypeOK
INVARIANT AckedSurvive
INVARIANT LogReadable
INVARIANT AckedOutliveFaults
INVARIANT LogOutlivesFaults
PROPERTY AckedLsnsIncrease
PROPERTY ReplayEnds
