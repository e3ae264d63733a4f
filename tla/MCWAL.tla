------------------------------- MODULE MCWAL -------------------------------
(***************************************************************************)
(* Instances of WAL for TLC.                                               *)
(***************************************************************************)
EXTENDS WAL

CONSTANTS put, ckpt   \* one body of a client's record, and the CHECKPOINT's

MCPayload == {put, ckpt}
MCRecoveryOps == {ckpt}

=============================================================================
