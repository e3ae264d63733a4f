-------------------------------- MODULE WAL --------------------------------
(***************************************************************************)
(* The write-ahead log of bptreedb (wal.py, with the record framing of     *)
(* codec.py): open, replay, append, truncate_before, close, and what a     *)
(* kill of the process or a loss of power leaves of the file.              *)
(*                                                                         *)
(* A file is a sequence of cells.  A cell is one well-framed record, or    *)
(* what a write that never reached its fsync left of one.  `file' is what  *)
(* the process reads back; `durable' is the part of the same inode that a  *)
(* power loss cannot take away; `stale' holds the contents of inodes that  *)
(* a rename replaced and that the directory may still name after a power   *)
(* loss, because the directory has not been fsynced since.                 *)
(***************************************************************************)
EXTENDS Naturals, Sequences

CONSTANTS
    Payload,      \* what callers append: PUT, DELETE and CHECKPOINT bodies
    RecoveryOps,  \* the payloads appended before open() has returned
    TornKinds,    \* what an interrupted write may leave at the tail
    MaxLSN        \* bound on the LSNs handed out

\* "short": fewer bytes than the frame announces (EOFError); "badcrc": all
\* the bytes, not the right ones (DBChecksumError); "zeros": the file was
\* extended but its blocks were never written.
ASSUME WALAssumption ==
    /\ RecoveryOps \subseteq Payload
    /\ TornKinds \subseteq {"short", "badcrc", "zeros"}
    /\ MaxLSN \in Nat

VARIABLES
    wpc,          \* where the WAL object is between two calls, or inside one
    file,         \* the cells of wal.log as the running process sees them
    durable,      \* the cells of this inode that survive a power loss
    stale,        \* contents of renamed-over inodes that may come back
    temp,         \* checkpoint_temp_path; <<>> when there is no such file
    current_lsn,  \* WAL.current_lsn
    online,       \* a truncate_before has completed since open()
    needed,       \* ghost: acknowledged records no truncate_before has dropped
    lastAcked     \* ghost: LSN of the newest acknowledged record

walVars == <<wpc, file, durable, stale, temp, current_lsn, online, needed, lastAcked>>

-----------------------------------------------------------------------------
(* Records, and what the decoder makes of a file. *)

Record(n, p) == [kind |-> "good", lsn |-> n, op |-> p]

Torn(k) == [kind |-> k]

Records == [kind : {"good"}, lsn : Nat \ {0}, op : Payload]

Cell == Records \cup [kind : TornKinds]

\* The cells _iter_records yields: all the well-formed ones up to the first
\* one the decoder rejects.
GoodLen(s) ==
    CHOOSE n \in 0..Len(s) :
        /\ \A i \in 1..n : s[i].kind = "good"
        /\ n < Len(s) => s[n + 1].kind # "good"

GoodPart(s) == SubSeq(s, 1, GoodLen(s))

LastLsn(s) == IF GoodLen(s) = 0 THEN 0 ELSE s[GoodLen(s)].lsn

NonSequential(s) == \E i \in 1..(GoodLen(s) - 1) : s[i + 1].lsn # s[i].lsn + 1

\* The records truncate_before keeps: in a log whose LSNs increase, the ones
\* with record.lsn >= lsn are a suffix.
KeptFrom(s, lsn) ==
    LET first == CHOOSE i \in 1..(Len(s) + 1) :
                     /\ \A j \in 1..(i - 1) : s[j].lsn < lsn
                     /\ i <= Len(s) => s[i].lsn >= lsn
    IN SubSeq(s, first, Len(s))

\* A frame of zeros has length 0 and the CRC of nothing, so it passes the
\* checksum and the header decoder then runs out of bytes.  A bad checksum is
\* remembered, and a valid record after it is refused.
TailRaises(s) ==
    LET n == GoodLen(s) + 1
    IN /\ n <= Len(s)
       /\ \/ s[n].kind = "zeros"
          \/ /\ s[n].kind = "badcrc"
             /\ \E j \in (n + 1)..Len(s) : s[j].kind \in {"good", "zeros"}

IterRaises(s) == NonSequential(s) \/ TailRaises(s)

-----------------------------------------------------------------------------
(* What an interruption leaves. *)

\* A record that is written but not fsynced can be there, be gone, or be torn.
TornTails == IF Len(file) = Len(durable) + 1
             THEN {Append(durable, Torn(k)) : k \in TornKinds}
             ELSE {}

\* The files a power loss may leave.
Media == {file, durable} \cup TornTails \cup stale

-----------------------------------------------------------------------------

Init ==
    /\ wpc = "closed"
    /\ file = <<>> /\ durable = <<>> /\ stale = {} /\ temp = <<>>
    /\ current_lsn = 0 /\ online = FALSE
    /\ needed = {} /\ lastAcked = 0

\* open(): a leftover rotation file is unlinked, nothing is read yet.
Open ==
    /\ wpc = "closed"
    /\ wpc' = "opened"
    /\ temp' = <<>> /\ current_lsn' = 0
    /\ UNCHANGED <<file, durable, stale, online, needed, lastAcked>>

\* Mutant: replay() forgets to cut the torn tail off.
ReplayKeepsTail ==
    /\ wpc = "opened"
    /\ ~IterRaises(file)
    /\ wpc' = "replayed"
    /\ current_lsn' = LastLsn(file)
    /\ UNCHANGED <<file, durable, stale, temp, online, needed, lastAcked>>

\* Mutant: replay() takes the LSN before the last one for the current one.
ReplayCountsOneLess ==
    /\ wpc = "opened"
    /\ ~IterRaises(file)
    /\ wpc' = "replayed"
    /\ file' = GoodPart(file)
    /\ current_lsn' = LastLsn(file) - 1
    /\ UNCHANGED <<durable, stale, temp, online, needed, lastAcked>>

\* Mutant: the torn record at the tail is read again and again.
ReplayStaysAtTornTail ==
    /\ wpc = "opened"
    /\ ~IterRaises(file) /\ GoodPart(file) = file
    /\ wpc' = "replayed"
    /\ current_lsn' = LastLsn(file)
    /\ UNCHANGED <<file, durable, stale, temp, online, needed, lastAcked>>

\* replay(), up to its truncate(): every good record has gone through the
\* callback, and the file now ends after the last of them.
Replay ==
    /\ wpc = "opened"
    /\ ~IterRaises(file)
    /\ wpc' = "replayed"
    /\ file' = GoodPart(file)
    /\ current_lsn' = LastLsn(file)
    /\ UNCHANGED <<durable, stale, temp, online, needed, lastAcked>>

\* The fsync that ends replay().
ReplaySync ==
    /\ wpc = "replayed"
    /\ wpc' = "ready"
    /\ durable' = file
    /\ UNCHANGED <<file, stale, temp, current_lsn, online, needed, lastAcked>>

\* _append(), up to the fsync.  Before open() has returned, the only record
\* appended is the CHECKPOINT that ends recovery.
AppendWrite(p) ==
    /\ wpc = "ready"
    /\ online \/ p \in RecoveryOps
    /\ current_lsn < MaxLSN
    /\ wpc' = "appended"
    /\ current_lsn' = current_lsn + 1
    /\ file' = Append(file, Record(current_lsn + 1, p))
    /\ UNCHANGED <<durable, stale, temp, online, needed, lastAcked>>

\* The fsync of _append(), after which the LSN is returned to the caller.
AppendSync ==
    /\ wpc = "appended"
    /\ wpc' = "ready"
    /\ durable' = file
    /\ needed' = IF online THEN needed \cup {file[Len(file)]} ELSE needed
    /\ lastAcked' = IF online THEN current_lsn ELSE lastAcked
    /\ UNCHANGED <<file, stale, temp, current_lsn, online>>

\* Mutant: truncate_before drops the record with that LSN too, so that it may
\* leave nothing to count from.
RotateWriteInclusive(lsn) ==
    /\ wpc = "ready"
    /\ lsn \in 1..current_lsn
    /\ wpc' = "rotating"
    /\ temp' = KeptFrom(file, lsn + 1)
    /\ needed' = {r \in needed : r.lsn > lsn}
    /\ UNCHANGED <<file, durable, stale, current_lsn, online, lastAcked>>

\* truncate_before(lsn): the temp file gets the records to keep and is fsynced.
RotateWrite(lsn) ==
    /\ wpc = "ready"
    /\ lsn \in 1..current_lsn
    /\ wpc' = "rotating"
    /\ temp' = KeptFrom(file, lsn)
    /\ needed' = {r \in needed : r.lsn >= lsn}
    /\ UNCHANGED <<file, durable, stale, current_lsn, online, lastAcked>>

\* Mutant: the directory is not fsynced before truncate_before returns.
RotateSyncForgetsDirectory ==
    /\ wpc = "renamed"
    /\ wpc' = "ready"
    /\ online' = TRUE
    /\ UNCHANGED <<file, durable, stale, temp, current_lsn, needed, lastAcked>>

\* The temp file replaces the log; the directory does not know it for good yet.
RotateRename ==
    /\ wpc = "rotating"
    /\ wpc' = "renamed"
    /\ file' = temp /\ durable' = temp /\ temp' = <<>>
    /\ stale' = stale \cup {durable}
    /\ UNCHANGED <<current_lsn, online, needed, lastAcked>>

\* fsync_directory, and the log is reopened for appending.
RotateSync ==
    /\ wpc = "renamed"
    /\ wpc' = "ready"
    /\ stale' = {} /\ online' = TRUE
    /\ UNCHANGED <<file, durable, temp, current_lsn, needed, lastAcked>>

\* close(): also the path open() takes when recovery raised.
Close ==
    /\ wpc \in {"opened", "ready"}
    /\ wpc' = "closed"
    /\ durable' = file /\ online' = FALSE
    /\ UNCHANGED <<file, stale, temp, current_lsn, needed, lastAcked>>

\* The process dies and the machine does not: buffered bytes are lost from
\* the end, what reached the kernel stays, and nothing more becomes durable.
Kill ==
    /\ wpc # "closed"
    /\ wpc' = "closed"
    /\ file' \in {file} \cup
         (IF wpc = "appended"
          THEN {durable} \cup {Append(durable, Torn(k)) : k \in TornKinds \cap {"short"}}
          ELSE {})
    /\ online' = FALSE
    /\ UNCHANGED <<durable, stale, temp, current_lsn, needed, lastAcked>>

PowerLoss ==
    /\ wpc' = "closed"
    /\ file' \in Media
    /\ durable' = file' /\ stale' = {}
    /\ online' = FALSE
    /\ UNCHANGED <<temp, current_lsn, needed, lastAcked>>

Next ==
    \/ Open \/ Replay \/ ReplaySync
    \/ \E p \in Payload : AppendWrite(p)
    \/ AppendSync
    \/ \E lsn \in 1..current_lsn : RotateWrite(lsn)
    \/ RotateRename \/ RotateSync
    \/ Close \/ Kill \/ PowerLoss

Spec == Init /\ [][Next]_walVars

-----------------------------------------------------------------------------

\* The last two come with calls that raise, in WALFaults.
Phases == {"closed", "opened", "replayed", "ready", "appended", "rotating", "renamed",
           "failed", "nofd"}

\* The types of the WAL object's fields and of the files it leaves behind.
WALTypeOK ==
    /\ wpc \in Phases
    /\ file \in Seq(Cell) /\ durable \in Seq(Cell) /\ temp \in Seq(Records)
    /\ stale \in SUBSET Seq(Cell)
    /\ current_lsn \in Nat /\ online \in BOOLEAN
    /\ needed \in SUBSET Records /\ lastAcked \in Nat

\* Every record whose append returned and that no truncate_before has dropped
\* since is decoded from whatever file an interruption at this point leaves:
\* the fsync in _append, the temp file and the two fsyncs of the rotation.
AckedSurvive == \A m \in Media : \A r \in needed : \E i \in 1..GoodLen(m) : m[i] = r

\* No interruption leaves a log that _iter_records refuses: opening it again
\* raises neither "broken record followed by a valid record" nor
\* "non-sequential LSNs", nor anything else.
LogReadable == \A m \in Media : ~IterRaises(m)

\* An LSN that was returned to a caller is never given out again, whatever
\* replay() found in the file to count from.
AckedLsnsIncrease == [][\A r \in needed' \ needed : r.lsn > lastAcked]_walVars

=============================================================================
