----------------------------- MODULE WALFaults -----------------------------
(***************************************************************************)
(* The write-ahead log when its own calls raise (wal.py, fs.py).  A full   *)
(* disk, an interrupt or a directory that cannot be opened ends a call     *)
(* half-way; the object stays in use, is closed, or is opened once more.   *)
(* Nothing in wal.py undoes the half that was done.                        *)
(*                                                                         *)
(* Not covered: an fsync that fails after the kernel has dropped the pages *)
(* it could not write, which no later fsync reports.                       *)
(***************************************************************************)
EXTENDS WAL

CONSTANT FailKinds    \* how a call can be cut short, see below

\* "kept": the record is in the write buffer or in the kernel, the flush or
\* the fsync raised.  "lost": the call ended after current_lsn was set and
\* before the bytes were taken, by an interrupt or because the record is
\* larger than the write buffer and the disk is full.  "undirected": the
\* directory could not be opened, and fsync_directory returned all the same.
ASSUME FaultsAssumption == FailKinds \subseteq {"kept", "lost", "undirected"}

-----------------------------------------------------------------------------
(* What an interruption leaves, when more than one record may be unsynced. *)

Unsynced == IF Len(file) > Len(durable) THEN Len(durable)..Len(file) ELSE {}

\* The bytes of the inode reach the medium from the front.
Fronts(kinds) ==
    {SubSeq(file, 1, n) : n \in Unsynced} \cup
    {Append(SubSeq(file, 1, n), Torn(k)) : n \in Unsynced \ {Len(file)}, k \in kinds}

Survivors == {file, durable} \cup Fronts(TornKinds) \cup stale

-----------------------------------------------------------------------------

\* Mutant: current_lsn is set after the fsync, so that a record which was
\* written all the same is followed by another one with its LSN.
AppendFailsUncounted(p) ==
    /\ wpc = "ready"
    /\ online \/ p \in RecoveryOps
    /\ current_lsn < MaxLSN
    /\ wpc' = IF online THEN "ready" ELSE "failed"
    /\ file' = Append(file, Record(current_lsn + 1, p))
    /\ UNCHANGED <<durable, stale, temp, current_lsn, online, needed, lastAcked>>

\* _append() raises: current_lsn has advanced, the caller gets no LSN.  In
\* recovery the exception ends open().
AppendFails(p) ==
    /\ wpc = "ready"
    /\ online \/ p \in RecoveryOps
    /\ current_lsn < MaxLSN
    /\ wpc' = IF online THEN "ready" ELSE "failed"
    /\ current_lsn' = current_lsn + 1
    /\ file' \in (IF "kept" \in FailKinds
                  THEN {Append(file, Record(current_lsn + 1, p))} ELSE {})
           \cup (IF "lost" \in FailKinds THEN {file} ELSE {})
    /\ UNCHANGED <<durable, stale, temp, online, needed, lastAcked>>

\* truncate_before reads the log through _iter_records, which may refuse it.
RotateReadable(lsn) == ~IterRaises(file) /\ RotateWrite(lsn)

\* The rename; whatever was unsynced in the old inode may come back with it.
RotateReplace ==
    /\ wpc = "rotating"
    /\ wpc' = "renamed"
    /\ file' = temp /\ durable' = temp /\ temp' = <<>>
    /\ stale' = stale \cup {durable} \cup Fronts(TornKinds)
    /\ UNCHANGED <<current_lsn, online, needed, lastAcked>>

\* truncate_before raises with _fd = None: the rename, the fsync of the
\* directory or the reopen failed.  Every later append raises on the assert.
RotateFails ==
    /\ wpc \in {"rotating", "renamed"}
    /\ wpc' = "nofd"
    /\ UNCHANGED <<file, durable, stale, temp, current_lsn, online, needed, lastAcked>>

\* Mutant: the directory is not fsynced after the rename.
RotateEndUnsynced ==
    /\ wpc = "renamed"
    /\ wpc' = "ready"
    /\ online' = TRUE
    /\ UNCHANGED <<file, durable, stale, temp, current_lsn, needed, lastAcked>>

\* fsync_directory returns, having synced the directory or not; the log is
\* reopened for appending.
RotateEnd ==
    /\ wpc = "renamed"
    /\ wpc' = "ready"
    /\ online' = TRUE
    /\ stale' \in {{}} \cup (IF "undirected" \in FailKinds THEN {stale} ELSE {})
    /\ UNCHANGED <<file, durable, temp, current_lsn, needed, lastAcked>>

\* close(), or the end of a failed open(): without a descriptor there is
\* nothing to fsync.
CloseAny ==
    /\ wpc \in {"opened", "ready", "failed", "nofd"}
    /\ wpc' = "closed"
    /\ durable' = IF wpc = "nofd" THEN durable ELSE file
    /\ online' = FALSE
    /\ UNCHANGED <<file, stale, temp, current_lsn, needed, lastAcked>>

\* close() raised in its fsync and left _fd set: the next open() on the same
\* object returns at once, and replay() reads through the old descriptor.
ReopenUnclosed ==
    /\ wpc \in {"ready", "failed"}
    /\ wpc' = "opened"
    /\ online' = FALSE
    /\ UNCHANGED <<file, durable, stale, temp, current_lsn, needed, lastAcked>>

\* The process dies with part of what it wrote still in its buffer.
KillAny ==
    /\ wpc # "closed"
    /\ wpc' = "closed"
    /\ file' \in {file} \cup (IF wpc \in {"ready", "appended", "failed"}
                              THEN Fronts(TornKinds \cap {"short"}) ELSE {})
    /\ online' = FALSE
    /\ UNCHANGED <<durable, stale, temp, current_lsn, needed, lastAcked>>

PowerLossAny ==
    /\ wpc' = "closed"
    /\ file' \in Survivors
    /\ durable' = file' /\ stale' = {}
    /\ online' = FALSE
    /\ UNCHANGED <<temp, current_lsn, needed, lastAcked>>

FaultsNext ==
    \/ Open \/ Replay \/ ReplaySync
    \/ \E p \in Payload : AppendWrite(p) \/ AppendFails(p)
    \/ AppendSync
    \/ \E lsn \in 1..current_lsn : RotateReadable(lsn)
    \/ RotateReplace \/ RotateFails \/ RotateEnd
    \/ CloseAny \/ ReopenUnclosed \/ KillAny \/ PowerLossAny

\* A replay that has begun goes on unless the process ends or the call raises.
FaultsSpec ==
    /\ Init /\ [][FaultsNext]_walVars
    /\ WF_walVars(Replay) /\ WF_walVars(ReplaySync)

-----------------------------------------------------------------------------

\* Every acknowledged record that no truncate_before has dropped is decoded
\* from whatever file an interruption leaves, although other appends raised
\* and the object was closed without a descriptor or opened over its old one:
\* the flush of a later _append takes the unsynced records before it along,
\* and fsync_directory makes the rename durable.
AckedOutliveFaults == \A m \in Survivors : \A r \in needed : \E i \in 1..GoodLen(m) : m[i] = r

\* No interruption leaves a log that _iter_records refuses, although the
\* record of an append that raised may be in it.
LogOutlivesFaults == \A m \in Survivors : ~IterRaises(m)

\* Every replay() of an opened log ends: the failed calls and interruptions
\* before it have left nothing that makes open() raise for ever.
ReplayEnds == (wpc = "opened") ~> (wpc \in {"ready", "closed"})

=============================================================================
