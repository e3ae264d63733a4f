------------------------------ MODULE LogFormat ------------------------------
(***************************************************************************)
(* The log as bytes: records appended one after the other, a write that is *)
(* interrupted after any of its bytes, and _iter_records and replay(),     *)
(* which read frame by frame.  Module WAL tells the torn tails apart by    *)
(* kind only; here every torn tail is read byte by byte, and what it does  *)
(* to the reader is compared with what WAL says of its kind.               *)
(***************************************************************************)
EXTENDS Codec

CONSTANTS
    LogOps,      \* the operations that are logged
    MaxRecords,  \* bound on the records
    MaxTears     \* bound on the interrupted writes

\* The operations, with numbers and lengths that fit their fields.
ASSUME FormatAssumption ==
    /\ IsNumber(MaxRecords) /\ MaxTears \in Nat
    /\ \A op \in LogOps :
        /\ \/ \E k \in Keys, v \in Values : op = <<"put", k, v>>
           \/ \E k \in Keys : op = <<"delete", k>>
           \/ /\ op = <<"checkpoint", op[2], op[3], op[4]>>
              /\ \A i \in 2..4 : IsNumber(op[i])
        /\ IsNumber(13 + Len(RecordPayload(op)))

VARIABLES
    bytes,       \* wal.log
    written,     \* ghost: the records that were written whole
    tail,        \* ghost: "none", or what kind of cell the torn tail is to WAL
    reader,      \* _iter_records: its position, what it has yielded, ...
    tears        \* interrupted writes so far

formatVars == <<bytes, written, tail, reader, tears>>

\* The whole log of module WAL: the cells that `bytes' stands for.
Cells == [i \in DOMAIN written |-> [kind |-> "good", lsn |-> written[i].lsn, op |-> written[i].op]]
            \o IF tail = "none" THEN <<>> ELSE <<[kind |-> tail]>>

Log == INSTANCE WAL WITH
            Payload <- LogOps, RecoveryOps <- {}, TornKinds <- {"short", "badcrc", "zeros"},
            MaxLSN <- MaxRecords, wpc <- "opened", file <- Cells, durable <- Cells, stale <- {},
            temp <- <<>>, current_lsn <- 0, online <- FALSE, needed <- {}, lastAcked <- 0

NotReading == [at |-> 0, good |-> 0, yielded |-> <<>>, broken |-> FALSE, state |-> "off"]

FormatInit ==
    /\ bytes = <<>> /\ written = <<>> /\ tail = "none"
    /\ reader = NotReading /\ tears = 0

NextLsn == Len(written) + 1

\* _append.
AppendRecord(op) ==
    /\ reader.state = "off" /\ tail = "none" /\ Len(written) < MaxRecords
    /\ bytes' = bytes \o EncodeWalRecord(NextLsn, op)
    /\ written' = Append(written, [lsn |-> NextLsn, op |-> op])
    /\ UNCHANGED <<tail, reader, tears>>

Interrupted == reader.state = "off" /\ tail = "none" /\ tears < MaxTears /\ tears' = tears + 1

\* The process is killed, or the file ends where the power went: the first n
\* bytes of the record are there.
CutShort(op, n) ==
    /\ Interrupted /\ n > 0
    /\ bytes' = bytes \o SubSeq(EncodeWalRecord(NextLsn, op), 1, n)
    /\ tail' = "short"
    /\ UNCHANGED <<written, reader>>

\* The file has its new length but only the first n bytes of the record, the
\* others being zero.  To WAL it is a frame with a bad checksum as long as its
\* length is the one that was written.
ZeroFilled(op, n) ==
    LET record == EncodeWalRecord(NextLsn, op)
        torn == SubSeq(record, 1, n) \o Zeros(Len(record) - n)
    IN /\ Interrupted
       /\ bytes' = bytes \o torn
       /\ tail' = IF Number(torn) = Len(record) - LengthField THEN "badcrc" ELSE "zeros"
       /\ UNCHANGED <<written, reader>>

\* The exceptions of the decoder that leave _iter_records.
Uncaught == {"struct.error", "ValueError"}

StartReading ==
    /\ reader.state = "off"
    /\ reader' = [NotReading EXCEPT !.state = "reading"]
    /\ UNCHANGED <<bytes, written, tail, tears>>

\* Mutant: a broken record ends the reading as the end of the file does.
ReadFrameStopsAtBroken ==
    LET frame == DecodeNext(bytes, reader.at)
    IN /\ reader.state = "reading"
       /\ reader' = CASE frame.kind \in {"EOFError", "DBChecksumError"} ->
                            [reader EXCEPT !.state = "ended"]
                      [] frame.kind \in Uncaught -> [reader EXCEPT !.state = "raised"]
                      [] frame.kind = "record" ->
                            [reader EXCEPT !.at = frame.next, !.good = frame.next,
                                           !.yielded = Append(@, [lsn |-> frame.lsn, op |-> frame.op])]
       /\ UNCHANGED <<bytes, written, tail, tears>>

\* Mutant: replay() takes the end of a broken record for its last good position.
ReadFrameKeepsBroken ==
    LET frame == DecodeNext(bytes, reader.at)
    IN /\ reader.state = "reading"
       /\ reader' = CASE frame.kind = "EOFError" -> [reader EXCEPT !.state = "ended"]
                      [] frame.kind = "DBChecksumError" ->
                            [reader EXCEPT !.at = frame.next, !.good = frame.next, !.broken = TRUE]
                      [] frame.kind \in Uncaught -> [reader EXCEPT !.state = "raised"]
                      [] frame.kind = "record" ->
                            [reader EXCEPT !.at = frame.next, !.good = frame.next,
                                           !.yielded = Append(@, [lsn |-> frame.lsn, op |-> frame.op])]
       /\ UNCHANGED <<bytes, written, tail, tears>>

\* One turn of the loop of _iter_records, with the bookkeeping of replay().
ReadFrame ==
    LET frame == DecodeNext(bytes, reader.at)
        refused == \/ reader.broken
                   \/ reader.yielded # <<>> /\ frame.lsn # Last(reader.yielded).lsn + 1
    IN /\ reader.state = "reading"
       /\ reader' = CASE frame.kind = "EOFError" -> [reader EXCEPT !.state = "ended"]
                      [] frame.kind = "DBChecksumError" ->
                            [reader EXCEPT !.at = frame.next, !.broken = TRUE]
                      [] frame.kind \in Uncaught -> [reader EXCEPT !.state = "raised"]
                      [] frame.kind = "record" ->
                            IF refused THEN [reader EXCEPT !.state = "raised"]
                            ELSE [reader EXCEPT
                                    !.at = frame.next, !.good = frame.next,
                                    !.yielded = Append(@, [lsn |-> frame.lsn, op |-> frame.op])]
       /\ UNCHANGED <<bytes, written, tail, tears>>

\* The end of replay(): what is behind the last good record is cut off.
CutTail ==
    /\ reader.state = "ended"
    /\ bytes' = SubSeq(bytes, 1, reader.good)
    /\ tail' = "none" /\ reader' = NotReading
    /\ UNCHANGED <<written, tears>>

\* Bound: a write of n bytes stops at a byte of the length field, of the LSN,
\* at the tag or behind it, or at a byte of the checksum.
TearPoints(n) == 0..5 \cup {12, 13} \cup (n - 5)..(n - 1)

FormatNext ==
    \/ \E op \in LogOps : AppendRecord(op)
    \/ \E op \in LogOps : \E n \in TearPoints(Len(EncodeWalRecord(NextLsn, op))) :
            CutShort(op, n) \/ ZeroFilled(op, n)
    \/ StartReading \/ ReadFrame \/ CutTail

FormatSpec == FormatInit /\ [][FormatNext]_formatVars

-----------------------------------------------------------------------------

OpInBytes(op) ==
    CASE op[1] = "put" -> <<"put", KeyBytes(op[2]), ValueBytes(op[3])>>
      [] op[1] = "delete" -> <<"delete", KeyBytes(op[2])>>
      [] op[1] = "checkpoint" -> op

\* Whatever bytes the interrupted write has left, the reader yields the records
\* that were written whole, in their order and as they were, and all of them
\* when it ends: no torn record passes its checksum.
YieldsWhatWasWritten ==
    LET whole == [i \in DOMAIN written |-> [lsn |-> written[i].lsn, op |-> OpInBytes(written[i].op)]]
    IN /\ IsPrefix(reader.yielded, whole)
       /\ reader.state = "ended" => reader.yielded = whole

\* Module WAL is right about its torn tails: _iter_records raises on the bytes
\* exactly when WAL's IterRaises says so of their kind.
TornKindsAreExact ==
    /\ reader.state = "raised" => Log!IterRaises(Cells)
    /\ reader.state = "ended" => ~Log!IterRaises(Cells)

\* The log that replay() leaves behind, and every later append to it, is whole
\* frames: the next record starts where the last good one ends.
ReplayLeavesWholeFrames ==
    tail = "none" =>
        bytes = FlattenSeq([i \in DOMAIN written |-> EncodeWalRecord(written[i].lsn, written[i].op)])

=============================================================================
