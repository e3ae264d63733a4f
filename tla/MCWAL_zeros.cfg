SPECIFICATION Spec
CONSTANT put = put
CONSTANT ckpt = ckpt
CONSTANT Payload <- MCPayload
CONSTANT RecoveryOps <- MCRecoveryOps
CONSTANT TornKinds = {"short", "badcrc", "zeros"}
CONSTANT MaxLSN = 5
INVARIANT LogReadable
