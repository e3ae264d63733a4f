---------------------------- MODULE MCWALFaults ----------------------------
(***************************************************************************)
(* The log for TLC: WAL, whose calls never raise, and WALFaults beside it, *)
(* where fewer records make as many states.                                *)
(***************************************************************************)
EXTENDS WALFaults

CONSTANTS
    put, ckpt,     \* one body of a client's record, and the CHECKPOINT's
    MaxFaultyLSN   \* bound on the LSNs in WALFaults

VARIABLE raising   \* whether calls of the log raise, which never changes

MCPayload == {put, ckpt}
MCRecoveryOps == {ckpt}

MCInit == Init /\ raising \in BOOLEAN

MCNext ==
    \/ ~raising /\ Next /\ UNCHANGED raising
    \/ raising /\ FaultsNext /\ current_lsn' <= MaxFaultyLSN /\ UNCHANGED raising

MCSpec ==
    /\ MCInit /\ [][MCNext]_<<walVars, raising>>
    /\ WF_walVars(Replay) /\ WF_walVars(ReplaySync)

=============================================================================
