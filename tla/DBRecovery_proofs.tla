-------------------------- MODULE DBRecovery_proofs --------------------------
(***************************************************************************)
(* The log of the database keeps the promises of WAL_proofs, and together  *)
(* with the meta page it never has a gap: for any tree, any scenarios, any *)
(* torn tails, interruptions and failed writes, the log that is left and   *)
(* the meta page that is left give recovery every acknowledged record      *)
(* which it does not skip; and none is acknowledged with an LSN that       *)
(* recovery skips.                                                         *)
(*                                                                         *)
(* What the tree does enters in one place: a CHECKPOINT record has page    *)
(* ids in its fields.  The theorems take this part of DBTypeOK, which is   *)
(* model-checked, as their hypothesis.                                     *)
(***************************************************************************)
EXTENDS DBFaults, TLAPS

-----------------------------------------------------------------------------
(* LSNs: the inductive invariant.  The argument does not depend on what the *)
(* tree does, nor on what the log holds after an interruption: open()       *)
(* returns only after a checkpoint of its own.                              *)

\* The meta page has the LSN of the newest record of the log.
Stamped == meta.last_checkpoint_lsn = current_lsn

StampedForGood == Stamped /\ synced.meta.last_checkpoint_lsn = current_lsn

\* While the log takes records, they are above both checkpoint LSNs.
Above ==
    /\ current_lsn \in Nat
    /\ \A lsn \in {meta.last_checkpoint_lsn, synced.meta.last_checkpoint_lsn} :
          /\ lsn \in Nat
          /\ lsn <= current_lsn
          /\ wpc = "appended" => lsn < current_lsn

LsnInv ==
    /\ online => Above
    /\ online => pc \notin {"closed", "opening", "recovering", "replayed", "recovered"}
    /\ pc \in {"logging", "marking"} <=> wpc = "appended"
    /\ pc = "stamping" => Stamped
    /\ pc = "stamped" => StampedForGood
    /\ pc \in {"rotating", "renamed"} => StampedForGood /\ current_lsn \in Nat

-----------------------------------------------------------------------------
(* LsnInv is inductive: one step per action of the database. *)

LEMMA InitLsn == Init => LsnInv
  BY DEF Init, LsnInv, Log!Init

\* open() and _recover(): the log takes no records yet.
LEMMA OpeningLsn ==
    LsnInv /\ (Open \/ Recover \/ CutTail \/ ReplaySync \/ OpenFails) => LsnInv'
  <1> SUFFICES ASSUME LsnInv, Open \/ Recover \/ CutTail \/ ReplaySync \/ OpenFails
               PROVE  LsnInv'
    OBVIOUS
  <1>1. online' = FALSE \/ online' = online
    BY DEF Open, Recover, CutTail, ReplaySync, OpenFails, logVars, Log!Open, Log!Replay,
           Log!ReplaySync, Log!Close
  <1>2. pc \in {"closed", "opening", "recovering", "replayed", "recovered"}
        /\ pc' \in {"closed", "opening", "recovering", "replayed", "recovered"}
    BY DEF Open, Recover, CutTail, ReplaySync, OpenFails
  <1>3. ~online'
    BY <1>1, <1>2 DEF LsnInv
  <1>4. wpc' # "appended"
    BY <1>2 DEF LsnInv, Open, Recover, CutTail, ReplaySync, OpenFails, logVars, Log!Open,
                Log!Replay, Log!ReplaySync, Log!Close
  <1> QED
    BY <1>2, <1>3, <1>4 DEF LsnInv

\* _append of a put, a delete or a CHECKPOINT.
LEMMA AppendLsn ==
    ASSUME LsnInv, NEW op, Log!AppendWrite(op), pc \in {"idle", "flushed"},
           pc' \in {"logging", "marking"}, meta' = meta, synced' = synced
    PROVE  LsnInv'
  <1>1. /\ wpc = "ready" /\ wpc' = "appended" /\ current_lsn' = current_lsn + 1
        /\ online' = online
    BY DEF Log!AppendWrite
  <1>2. online => Above'
    BY <1>1 DEF LsnInv, Above
  <1> QED
    BY <1>1, <1>2 DEF LsnInv

\* The fsync of _append.
LEMMA AppendSyncLsn ==
    ASSUME LsnInv, Log!AppendSync, pc \in {"logging", "marking"},
           pc' \in {"returning", "marked"}, meta' = meta, synced' = synced
    PROVE  LsnInv'
  <1>1. wpc' = "ready" /\ current_lsn' = current_lsn /\ online' = online
    BY DEF Log!AppendSync
  <1>2. online => Above'
    BY <1>1 DEF LsnInv, Above
  <1> QED
    BY <1>1, <1>2 DEF LsnInv

\* Steps that leave the log and the two meta pages alone.
LEMMA QuietLsn ==
    ASSUME LsnInv, UNCHANGED logVars, meta' = meta,
           synced'.meta \in {meta, synced.meta},
           pc \in {"idle", "returning", "recovered", "flushing"},
           pc' \in {"idle", "flushing", "flushed", "down"}
    PROVE  LsnInv'
  <1>1. wpc' = wpc /\ current_lsn' = current_lsn /\ online' = online
    BY DEF logVars
  <1>2. online => Above'
    BY <1>1 DEF LsnInv, Above
  <1>3. online' => pc' \notin {"closed", "opening", "recovering", "replayed", "recovered"}
    OBVIOUS
  <1> QED
    BY <1>1, <1>2, <1>3 DEF LsnInv

LEMMA ClientLsn == LsnInv /\ (Client \/ Logged \/ Return) => LsnInv'
  <1>1. ASSUME LsnInv, NEW op, Call(op) PROVE LsnInv'
    BY <1>1, AppendLsn DEF Call, fileVars
  <1>2. ASSUME LsnInv, Checkpoint \/ Close PROVE LsnInv'
    BY <1>2, QuietLsn DEF Checkpoint, Close, BeginCheckpoint, fileVars
  <1>3. LsnInv /\ Client => LsnInv'
    BY <1>1, <1>2 DEF Client, Put, DeleteKey
  <1>4. LsnInv /\ Logged => LsnInv'
    BY AppendSyncLsn DEF Logged
  <1>5. LsnInv /\ Return => LsnInv'
    BY QuietLsn DEF Return, fileVars
  <1> QED
    BY <1>3, <1>4, <1>5

\* checkpoint() up to the meta page.
LEMMA FlushLsn ==
    LsnInv /\ (\/ RecoveryCheckpoint \/ \E id \in DOMAIN im.pool : FlushPage(id)
               \/ FlushFreelist \/ SyncPages \/ LogCheckpoint \/ LogCheckpointSync) => LsnInv'
  <1>1. LsnInv /\ RecoveryCheckpoint => LsnInv'
    BY QuietLsn DEF RecoveryCheckpoint, BeginCheckpoint, fileVars
  <1>2. ASSUME LsnInv, (\E id \in DOMAIN im.pool : FlushPage(id)) \/ FlushFreelist PROVE LsnInv'
    BY <1>2, QuietLsn DEF FlushPage, FlushFreelist
  <1>3. LsnInv /\ SyncPages => LsnInv'
    BY QuietLsn DEF SyncPages
  <1>4. LsnInv /\ LogCheckpoint => LsnInv'
    BY AppendLsn DEF LogCheckpoint, fileVars
  <1>5. LsnInv /\ LogCheckpointSync => LsnInv'
    BY AppendSyncLsn DEF LogCheckpointSync, fileVars
  <1> QED
    BY <1>1, <1>2, <1>3, <1>4, <1>5

\* The meta page gets the LSN of the CHECKPOINT record, which is the newest.
LEMMA StampLsn == LsnInv /\ (WriteMeta \/ SyncMeta) => LsnInv'
  <1>1. ASSUME LsnInv, WriteMeta PROVE LsnInv'
    <2>1. /\ wpc' = wpc /\ current_lsn' = current_lsn /\ online' = online /\ synced' = synced
          /\ meta'.last_checkpoint_lsn = current_lsn /\ pc = "marked" /\ pc' = "stamping"
      BY <1>1 DEF WriteMeta, logVars, Meta
    <2>2. online => Above'
      BY <1>1, <2>1 DEF LsnInv, Above
    <2> QED
      BY <1>1, <2>1, <2>2 DEF LsnInv, Stamped
  <1>2. ASSUME LsnInv, SyncMeta PROVE LsnInv'
    <2>1. /\ wpc' = wpc /\ current_lsn' = current_lsn /\ online' = online /\ meta' = meta
          /\ synced'.meta = meta /\ pc = "stamping" /\ pc' = "stamped"
      BY <1>2 DEF SyncMeta, logVars
    <2>2. online => Above'
      BY <1>2, <2>1 DEF LsnInv, Above
    <2> QED
      BY <1>2, <2>1, <2>2 DEF LsnInv, Stamped, StampedForGood
  <1> QED
    BY <1>1, <1>2

\* The rotation: the log takes records once it is over.
LEMMA RotateLsn == LsnInv /\ (RotateWrite \/ RotateRename \/ RotateSync) => LsnInv'
  <1> SUFFICES ASSUME LsnInv, RotateWrite \/ RotateRename \/ RotateSync PROVE LsnInv'
    OBVIOUS
  <1>1. /\ current_lsn' = current_lsn /\ meta' = meta /\ synced' = synced
        /\ wpc \in {"ready", "rotating", "renamed"} /\ wpc' \in {"ready", "rotating", "renamed"}
        /\ pc \in {"stamped", "rotating", "renamed"}
        /\ pc' \in {"rotating", "renamed", "closing", "idle"}
        /\ pc = "renamed" <=> pc' \in {"closing", "idle"}
        /\ pc # "renamed" => online' = online
    BY DEF RotateWrite, RotateRename, RotateSync, fileVars, Log!RotateWrite, Log!RotateRename,
           Log!RotateSync
  <1>2. StampedForGood /\ StampedForGood'
    BY <1>1 DEF LsnInv, Stamped, StampedForGood
  <1>3. current_lsn \in Nat
    <2>1. RotateWrite => current_lsn \in 1..current_lsn
      BY DEF RotateWrite, Log!RotateWrite
    <2>2. pc = "stamped" => RotateWrite
      BY DEF RotateRename, RotateSync
    <2> QED
      BY <1>1, <2>1, <2>2 DEF LsnInv
  <1>4. Above'
    BY <1>1, <1>2, <1>3 DEF Above, Stamped, StampedForGood
  <1> QED
    BY <1>1, <1>2, <1>3, <1>4 DEF LsnInv

\* Whatever ends the use of the log, it takes no more records.
LEMMA StopLsn ==
    ASSUME LsnInv, online' = FALSE, wpc' \in {"closed", "opened"}, pc' \in {"closed", "opening"}
    PROVE  LsnInv'
  BY DEF LsnInv

LEMMA EndLsn == LsnInv /\ (CloseFiles \/ Kill \/ PowerLoss) => LsnInv'
  BY StopLsn DEF CloseFiles, Kill, PowerLoss, Interrupt, Log!Close, Log!Kill, Log!PowerLoss

LEMMA WorkLsn == LsnInv /\ Work => LsnInv'
  BY OpeningLsn, ClientLsn, FlushLsn, StampLsn, RotateLsn, EndLsn DEF Work

LEMMA StutterLsn == LsnInv /\ UNCHANGED dbVars => LsnInv'
  BY DEF LsnInv, Above, Stamped, StampedForGood, dbVars, logVars, fileVars

LEMMA FaultsNextLsn == LsnInv /\ [FaultsNext]_dbFaultVars => LsnInv'
  <1> SUFFICES ASSUME LsnInv, [FaultsNext]_dbFaultVars PROVE LsnInv'
    OBVIOUS
  <1>1. CASE UNCHANGED dbFaultVars \/ Lookup
    BY <1>1, StutterLsn DEF dbFaultVars, Lookup
  <1>2. CASE Client \/ Work \/ RotateSync \/ Open \/ Kill \/ PowerLoss
    BY <1>2, ClientLsn, WorkLsn, RotateLsn, OpeningLsn, EndLsn
  <1>3. CASE CheckpointFails \/ CloseFails
    BY <1>3, QuietLsn DEF CheckpointFails, CloseFails, FlushRaises, fileVars
  <1>4. CASE RecoveryFails
    BY <1>4, StopLsn DEF RecoveryFails, Log!Close
  <1>5. CASE ReopenUnclosed
    BY <1>5, StopLsn DEF ReopenUnclosed
  <1>6. CASE ReopenObject
    <2>1. ~online /\ online' = online /\ wpc' = "opened" /\ pc' = "opening"
      BY <1>6 DEF ReopenObject, Log!Open, LsnInv
    <2> QED
      BY <2>1 DEF LsnInv
  <1> QED
    BY <1>1, <1>2, <1>3, <1>4, <1>5, <1>6 DEF FaultsNext

-----------------------------------------------------------------------------
(* What follows for LSNs. *)

\* In every reachable state, while the log takes records, they come to lie above
\* the checkpoint LSN of the meta page.
THEOREM LsnInvariant == FaultsFairSpec => []LsnInv
  BY InitLsn, FaultsNextLsn, PTL DEF FaultsFairSpec, FaultsInit

\* No acknowledged record is one that a recovery would skip.
THEOREM AcknowledgedAboveCheckpoint == FaultsFairSpec => AckedAboveCheckpoint
  <1>1. LsnInv /\ [FaultsNext]_dbFaultVars =>
          [lastAcked' # lastAcked => /\ lastAcked' > meta.last_checkpoint_lsn
                                     /\ lastAcked' > synced.meta.last_checkpoint_lsn]_dbVars
    <2> SUFFICES ASSUME LsnInv, FaultsNext, lastAcked' # lastAcked
                 PROVE  /\ lastAcked' > meta.last_checkpoint_lsn
                        /\ lastAcked' > synced.meta.last_checkpoint_lsn
      BY DEF dbFaultVars
    <2>1. Log!AppendSync
      BY DEF FaultsNext, Lookup, Client, Work, Put, DeleteKey, Call, Checkpoint, Close,
             BeginCheckpoint, Recover, CutTail, ReplaySync, OpenFails, Logged, Return,
             RecoveryCheckpoint, FlushPage, FlushFreelist, SyncPages, LogCheckpoint,
             LogCheckpointSync, WriteMeta, SyncMeta, RotateWrite, RotateRename, RotateSync,
             CloseFiles, Open, Kill, PowerLoss, CheckpointFails, CloseFails, RecoveryFails,
             ReopenUnclosed, ReopenObject, dbVars, logVars, Log!Open, Log!Replay,
             Log!ReplaySync, Log!AppendWrite, Log!RotateWrite, Log!RotateRename,
             Log!RotateSync, Log!Close, Log!Kill, Log!PowerLoss
    <2>2. online /\ lastAcked' = current_lsn /\ wpc = "appended"
      BY <2>1 DEF Log!AppendSync
    <2> QED
      BY <2>2 DEF LsnInv, Above
  <1> QED
    BY <1>1, LsnInvariant, PTL DEF FaultsFairSpec, AckedAboveCheckpoint

-----------------------------------------------------------------------------
(* The log of the database. *)

\* The log of the database, with what is proved about it.
LP == INSTANCE WAL_proofs WITH
            Payload <- Store!Ops \cup CheckpointOps,
            RecoveryOps <- CheckpointOps

-----------------------------------------------------------------------------
(* The inductive invariant. *)

\* Where the database is between two calls of the log.
Rests == {"recovered", "idle", "returning", "flushing", "flushed", "marked", "stamping",
          "stamped", "closing", "down"}

PhasesAgree ==
    /\ pc \in Rests => wpc = "ready"
    /\ wpc = "rotating" => pc = "rotating"

\* The checkpoint LSNs that recovery may start from.
Stamps == {meta.last_checkpoint_lsn, synced.meta.last_checkpoint_lsn}

\* Every file that may be left as the log reaches back to each of them.
RecoveryInv ==
    /\ LP!WALInv /\ LP!StartsInReach
    /\ PhasesAgree
    /\ \A n \in Stamps : n \in Nat /\ LP!BackTo(n)

-----------------------------------------------------------------------------
(* The steps of the log within the steps of the database. *)

\* The assumptions that WAL makes of its constants.
LEMMA LogAssumption == LP!WALAssumption
  BY DBAssumption DEF LP!WALAssumption

\* The two instances of WAL are one.
LEMMA SameLog ==
    /\ (Log!Init => LP!Init)
    /\ (Log!Open => LP!Open)
    /\ (Log!Replay => LP!Replay)
    /\ (Log!ReplaySync => LP!ReplaySync)
    /\ (\A p : Log!AppendWrite(p) => LP!AppendWrite(p))
    /\ (Log!AppendSync => LP!AppendSync)
    /\ (\A lsn : Log!RotateWrite(lsn) => LP!RotateWrite(lsn))
    /\ (Log!RotateRename => LP!RotateRename)
    /\ (Log!RotateSync => LP!RotateSync)
    /\ (Log!Close => LP!Close)
    /\ (Log!Kill => LP!Kill)
    /\ (Log!PowerLoss => LP!PowerLoss)
    /\ (UNCHANGED logVars => UNCHANGED LP!walVars)
  <1>1. Log!Init => LP!Init
    BY DEF Log!Init, LP!Init
  <1>2. /\ (Log!Open => LP!Open)
        /\ (Log!ReplaySync => LP!ReplaySync)
        /\ (Log!AppendSync => LP!AppendSync)
    BY DEF Log!Open, LP!Open, Log!ReplaySync, LP!ReplaySync, Log!AppendSync, LP!AppendSync
  <1>3. Log!Replay => LP!Replay
    BY DEF Log!Replay, LP!Replay, Log!IterRaises, LP!IterRaises, Log!NonSequential,
           LP!NonSequential, Log!TailRaises, LP!TailRaises, Log!GoodPart, LP!GoodPart,
           Log!LastLsn, LP!LastLsn, Log!GoodLen, LP!GoodLen
  <1>4. \A p : Log!AppendWrite(p) => LP!AppendWrite(p)
    BY DEF Log!AppendWrite, LP!AppendWrite, Log!Record, LP!Record
  <1>5. \A lsn : Log!RotateWrite(lsn) => LP!RotateWrite(lsn)
    BY DEF Log!RotateWrite, LP!RotateWrite, Log!KeptFrom, LP!KeptFrom
  <1>6. /\ (Log!RotateRename => LP!RotateRename)
        /\ (Log!RotateSync => LP!RotateSync)
        /\ (Log!Close => LP!Close)
    BY DEF Log!RotateRename, LP!RotateRename, Log!RotateSync, LP!RotateSync, Log!Close, LP!Close
  <1>7. Log!Kill => LP!Kill
    BY DEF Log!Kill, LP!Kill, Log!Torn, LP!Torn
  <1>8. Log!PowerLoss => LP!PowerLoss
    BY DEF Log!PowerLoss, LP!PowerLoss, Log!Media, LP!Media, Log!TornTails, LP!TornTails,
           Log!Torn, LP!Torn
  <1>9. UNCHANGED logVars => UNCHANGED LP!walVars
    BY DEF logVars, LP!walVars
  <1> QED
    BY <1>1, <1>2, <1>3, <1>4, <1>5, <1>6, <1>7, <1>8, <1>9

\* A step of the database is one of the log or leaves the log alone, but for
\* the reopening of a log that was not closed.
LEMMA LogStep ==
    ASSUME [FaultsNext]_dbFaultVars,
           LogCheckpoint => im.root \in Nat /\ im.flhead \in Nat /\ im.next \in Nat
    PROVE  ReopenUnclosed \/ [LP!Next]_(LP!walVars)
  <1>1. ASSUME UNCHANGED logVars PROVE [LP!Next]_(LP!walVars)
    BY <1>1, SameLog
  <1>2. ASSUME Log!Open \/ Log!Replay \/ Log!ReplaySync \/ Log!AppendSync \/ Log!RotateRename
                  \/ Log!RotateSync \/ Log!Close \/ Log!Kill \/ Log!PowerLoss
        PROVE  [LP!Next]_(LP!walVars)
    BY <1>2, SameLog DEF LP!Next
  <1>3. ASSUME NEW op \in Store!Ops \cup CheckpointOps, Log!AppendWrite(op)
        PROVE  [LP!Next]_(LP!walVars)
    BY <1>3, SameLog DEF LP!Next
  <1>4. CASE Client
    <2>1. \A k \in Keys, v \in Values : <<"put", k, v>> \in Store!Ops
      BY DEF Store!Ops, Store!Puts
    <2>2. \A k \in Keys : <<"delete", k>> \in Store!Ops
      BY DEF Store!Ops, Store!Deletes
    <2> QED
      BY <1>1, <1>3, <1>4, <2>1, <2>2
         DEF Client, Put, DeleteKey, Call, Checkpoint, Close, BeginCheckpoint
  <1>5. CASE LogCheckpoint
    <2>1. im.root \in Nat /\ im.flhead \in Nat /\ im.next \in Nat
      BY <1>5
    <2>2. <<"checkpoint", im.root, im.flhead, im.next>> \in CheckpointOps
      BY <2>1 DEF CheckpointOps
    <2> QED
      BY <1>3, <1>5, <2>2 DEF LogCheckpoint
  <1>6. CASE RotateWrite
    <2>1. LP!RotateWrite(current_lsn) /\ current_lsn \in 1..current_lsn
      BY <1>6, SameLog DEF RotateWrite, LP!RotateWrite
    <2> QED
      BY <2>1 DEF LP!Next
  <1>7. CASE Work /\ ~LogCheckpoint /\ ~RotateWrite
    BY <1>1, <1>2, <1>7
       DEF Work, Recover, CutTail, ReplaySync, OpenFails, Logged, Return, RecoveryCheckpoint,
           BeginCheckpoint, FlushPage, FlushFreelist, SyncPages, LogCheckpointSync, WriteMeta,
           SyncMeta, RotateRename, CloseFiles
  <1>8. CASE Lookup \/ UNCHANGED dbFaultVars \/ CheckpointFails \/ CloseFails
    BY <1>1, <1>8 DEF Lookup, dbFaultVars, dbVars, CheckpointFails, CloseFails
  <1>9. CASE RotateSync \/ RecoveryFails \/ ReopenObject \/ Open \/ Kill \/ PowerLoss
    BY <1>2, <1>9 DEF RotateSync, RecoveryFails, ReopenObject, Open, Kill, PowerLoss
  <1> QED
    BY <1>4, <1>5, <1>6, <1>7, <1>8, <1>9 DEF FaultsNext

\* The reopening changes no file and keeps what is known of them.
LEMMA ReopenLog ==
    ASSUME LP!WALInv, PhasesAgree, ReopenUnclosed
    PROVE  LP!WALInv' /\ file' = file /\ durable' = durable /\ stale' = stale
  <1>1. /\ wpc = "ready" /\ wpc' = "opened" /\ online' = FALSE
        /\ UNCHANGED <<file, durable, stale, temp, current_lsn, needed, lastAcked>>
    BY DEF ReopenUnclosed, PhasesAgree, Rests
  <1>2. LP!WALTypeOK'
    BY <1>1 DEF LP!WALInv, LP!WALTypeOK, LP!Phases
  <1> QED
    BY <1>1, <1>2 DEF LP!WALInv, LP!Keeps, LP!Recovered

-----------------------------------------------------------------------------
(* The checkpoint LSNs of the meta pages. *)

\* Max of FiniteSetsExt is the largest element of a bounded set.
LEMMA MaxIsElement ==
    ASSUME NEW n \in Nat, NEW S \in SUBSET (1..n), S # {}
    PROVE  Max(S) \in S
  <1> DEFINE T == {n - x : x \in S}
  <1>1. T \subseteq Nat /\ T # {}
    <2>1. \A x \in S : x \in Int /\ x <= n
      OBVIOUS
    <2>2. \A x \in S : n - x \in Nat
      BY <2>1
    <2> QED
      BY <2>2
  <1>2. PICK t \in T : \A y \in T : t <= y
    <2> HIDE DEF T
    <2> QED
      BY <1>1, LogAssumption, LP!LeastNatural
  <1>3. PICK x \in S : t = n - x
    BY <1>2
  <1>4. \A y \in S : x >= y
    <2>1. SUFFICES ASSUME NEW y \in S PROVE x >= y
      OBVIOUS
    <2>2. n - x <= n - y
      BY <1>2, <1>3
    <2> QED
      BY <2>2
  <1> QED
    BY <1>3, <1>4 DEF Max

\* _repair_pager_meta_from_wal_checkpoint only moves forward.
LEMMA RepairMovesForward ==
    ASSUME LP!WALInv, meta.last_checkpoint_lsn \in Nat
    PROVE  /\ RepairedMeta.last_checkpoint_lsn \in Nat
           /\ RepairedMeta.last_checkpoint_lsn >= meta.last_checkpoint_lsn
  <1> DEFINE log == Log!GoodPart(file)
             found == {i \in DOMAIN log : log[i].op \in CheckpointOps}
             newest == log[Max(found)]
  <1>1. /\ file \in Seq(LP!Cell) /\ LP!Sound(file, needed, lastAcked)
        /\ needed \in SUBSET LP!Records /\ lastAcked \in Nat
    BY DEF LP!WALInv, LP!WALTypeOK, LP!Keeps
  <1>2. log = LP!GoodPart(file)
    BY DEF Log!GoodPart, LP!GoodPart, Log!GoodLen, LP!GoodLen
  <1>3. log \in Seq(LP!Cell) /\ LP!AllGood(log)
    BY <1>1, <1>2, LogAssumption, LP!GoodPartKeeps
  <1> HIDE DEF log
  <1>4. Len(log) \in Nat /\ DOMAIN log = 1..Len(log)
    BY <1>3
  <1>5. \A i \in 1..Len(log) : log[i].lsn \in Nat
    BY <1>3, <1>4, LogAssumption, LP!CellKinds DEF LP!AllGood
  <1>6. found # {} => newest.lsn \in Nat
    <2>1. found \in SUBSET (1..Len(log))
      BY <1>4
    <2> HIDE DEF found
    <2> QED
      BY <1>4, <1>5, <2>1, MaxIsElement
  <1>7. RepairedMeta = IF found = {} \/ newest.lsn <= meta.last_checkpoint_lsn THEN meta
                       ELSE Meta(newest.op[2], newest.op[3], newest.op[4], newest.lsn)
    BY DEF RepairedMeta, Repaired, log
  <1> HIDE DEF found, newest
  <1>8. CASE found = {} \/ newest.lsn <= meta.last_checkpoint_lsn
    BY <1>7, <1>8
  <1>9. CASE ~(found = {} \/ newest.lsn <= meta.last_checkpoint_lsn)
    BY <1>6, <1>7, <1>9 DEF Meta
  <1> QED
    BY <1>8, <1>9

\* A meta page that a step writes or brings back has a checkpoint LSN that is
\* not below both of the old ones, unless it is the page of a checkpoint.
LEMMA StampStep ==
    ASSUME RecoveryInv, [FaultsNext]_dbFaultVars, ~WriteMeta
    PROVE  \A x \in Stamps' : x \in Nat /\ \E n \in Stamps : n <= x
  <1>1. \A n \in Stamps : n \in Nat /\ n <= n
    BY DEF RecoveryInv
  <1>2. ASSUME meta' \in {meta, synced.meta}, synced'.meta \in {meta, synced.meta}
        PROVE  \A x \in Stamps' : x \in Nat /\ \E n \in Stamps : n <= x
    BY <1>1, <1>2 DEF Stamps
  <1>3. ASSUME NEW n \in Nat, n >= meta.last_checkpoint_lsn, meta'.last_checkpoint_lsn = n,
               synced'.meta = meta'
        PROVE  \A x \in Stamps' : x \in Nat /\ \E k \in Stamps : k <= x
    BY <1>1, <1>3 DEF Stamps
  <1>4. CASE OpenFails \/ RecoveryFails
    <2>1. /\ RepairedMeta.last_checkpoint_lsn \in Nat
          /\ RepairedMeta.last_checkpoint_lsn >= meta.last_checkpoint_lsn
          /\ meta.last_checkpoint_lsn \in Nat
      BY RepairMovesForward DEF RecoveryInv, Stamps
    <2>2. PICK n \in Nat : n >= meta.last_checkpoint_lsn /\ meta'.last_checkpoint_lsn = n
      BY <1>4, <2>1 DEF OpenFails, RecoveryFails, Meta
    <2>3. synced'.meta = meta'
      BY <1>4 DEF OpenFails, RecoveryFails
    <2> QED
      BY <1>3, <2>2, <2>3
  <1>5. CASE Client \/ Lookup \/ UNCHANGED dbFaultVars
    BY <1>2, <1>5
       DEF Client, Put, DeleteKey, Call, Checkpoint, Close, BeginCheckpoint, Lookup,
           dbFaultVars, dbVars, fileVars
  <1>6. CASE Work /\ ~OpenFails
    BY <1>2, <1>6
       DEF Work, Recover, CutTail, ReplaySync, Logged, Return, RecoveryCheckpoint,
           BeginCheckpoint, FlushPage, FlushFreelist, SyncPages, LogCheckpoint,
           LogCheckpointSync, SyncMeta, RotateWrite, RotateRename, CloseFiles, fileVars
  <1>7. CASE RotateSync \/ CheckpointFails \/ CloseFails \/ ReopenUnclosed \/ ReopenObject
                \/ Open \/ Kill
    BY <1>2, <1>7
       DEF RotateSync, CheckpointFails, CloseFails, ReopenUnclosed, ReopenObject, Open, Kill,
           fileVars
  <1>8. CASE PowerLoss
    <2>1. meta' \in {meta, synced.meta} /\ synced'.meta = meta'
      BY <1>8 DEF PowerLoss
    <2> QED
      BY <1>2, <2>1
  <1> QED
    BY <1>4, <1>5, <1>6, <1>7, <1>8 DEF FaultsNext

\* The calls of the log stay in step with the calls of the database.
LEMMA PhasesStep ==
    ASSUME PhasesAgree, [FaultsNext]_dbFaultVars PROVE PhasesAgree'
  <1>1. CASE Client \/ Lookup \/ UNCHANGED dbFaultVars
    BY <1>1
       DEF Client, Put, DeleteKey, Call, Checkpoint, Close, BeginCheckpoint, Lookup,
           dbFaultVars, dbVars, logVars, PhasesAgree, Rests, Log!AppendWrite
  <1>2. CASE Recover \/ CutTail \/ ReplaySync \/ OpenFails \/ Logged \/ Return
                \/ RecoveryCheckpoint \/ (\E id \in DOMAIN im.pool : FlushPage(id))
                \/ FlushFreelist \/ SyncPages
    BY <1>2
       DEF Recover, CutTail, ReplaySync, OpenFails, Logged, Return, RecoveryCheckpoint,
           BeginCheckpoint, FlushPage, FlushFreelist, SyncPages, logVars, PhasesAgree, Rests,
           Log!Replay, Log!ReplaySync, Log!Close, Log!AppendSync
  <1>3. CASE LogCheckpoint \/ LogCheckpointSync \/ WriteMeta \/ SyncMeta \/ RotateWrite
                \/ RotateRename \/ RotateSync \/ CloseFiles
    BY <1>3
       DEF LogCheckpoint, LogCheckpointSync, WriteMeta, SyncMeta, RotateWrite, RotateRename,
           RotateSync, CloseFiles, logVars, PhasesAgree, Rests, Log!AppendWrite,
           Log!AppendSync, Log!RotateWrite, Log!RotateRename, Log!RotateSync, Log!Close
  <1>4. CASE CheckpointFails \/ CloseFails \/ RecoveryFails \/ ReopenUnclosed \/ ReopenObject
                \/ Open \/ Kill \/ PowerLoss
    BY <1>4
       DEF CheckpointFails, CloseFails, FlushRaises, RecoveryFails, ReopenUnclosed,
           ReopenObject, Open, Kill, PowerLoss, Interrupt, logVars, PhasesAgree, Rests,
           Log!Open, Log!Close, Log!Kill, Log!PowerLoss
  <1> QED
    BY <1>1, <1>2, <1>3, <1>4 DEF FaultsNext, Work

-----------------------------------------------------------------------------
(* The invariant is inductive. *)

LEMMA InitRecovery == FaultsInit => RecoveryInv
  <1> SUFFICES ASSUME FaultsInit PROVE RecoveryInv
    OBVIOUS
  <1>1. LP!WALInv
    BY SameLog, LogAssumption, LP!InitInv DEF FaultsInit, Init
  <1>2. file = <<>> /\ durable = <<>> /\ stale = {} /\ wpc = "closed" /\ pc = "closed"
    BY DEF FaultsInit, Init, Log!Init
  <1>3. \A s \in LP!Files : LP!First(s) = 0
    BY <1>2 DEF LP!Files, LP!First, LP!End
  <1>4. LP!EndLsn(<<>>) = 0
    BY DEF LP!EndLsn, LP!End
  <1>5. Stamps = {0}
    BY DEF Stamps, FaultsInit, Init, Meta
  <1>6. LP!BackTo(0)
    BY <1>3 DEF LP!BackTo
  <1>7. LP!StartsInReach
    BY <1>2, <1>4, <1>6 DEF LP!StartsInReach
  <1> QED
    BY <1>1, <1>2, <1>5, <1>6, <1>7 DEF RecoveryInv, PhasesAgree, Rests

\* While a rotation waits for its rename, both meta pages have the LSN of the
\* CHECKPOINT record, which is all that the new log keeps.
LEMMA RotatesWhenStamped ==
    ASSUME RecoveryInv, LsnInv, NEW n \in Stamps
    PROVE  wpc = "rotating" => current_lsn <= n
  BY DEF RecoveryInv, LsnInv, PhasesAgree, StampedForGood, Stamped, Stamps

\* Every step of the database preserves the invariant.
LEMMA NextRecovery ==
    RecoveryInv /\ LsnInv /\ DBTypeOK /\ [FaultsNext]_dbFaultVars => RecoveryInv'
  <1> SUFFICES ASSUME RecoveryInv, LsnInv, DBTypeOK, [FaultsNext]_dbFaultVars
               PROVE  RecoveryInv'
    OBVIOUS
  <1>1. LP!WALInv /\ LP!StartsInReach /\ PhasesAgree
    BY DEF RecoveryInv
  <1>2. PhasesAgree'
    BY <1>1, PhasesStep
  <1>3. CASE ReopenUnclosed
    <2>1. LP!WALInv' /\ file' = file /\ durable' = durable /\ stale' = stale
      BY <1>1, <1>3, ReopenLog
    <2>2. Stamps' = Stamps
      BY <1>3 DEF ReopenUnclosed, fileVars, Stamps
    <2>3. LP!StartsInReach'
      BY <1>1, <2>1 DEF LP!StartsInReach, LP!BackTo, LP!Files
    <2>4. \A n \in Stamps' : n \in Nat /\ \A s \in (LP!Files)' : LP!First(s) <= n + 1
      BY <2>1, <2>2 DEF RecoveryInv, LP!BackTo, LP!Files
    <2> QED
      BY <1>2, <2>1, <2>3, <2>4 DEF RecoveryInv, LP!BackTo
  <1>4. CASE ~ReopenUnclosed
    <2>1. [LP!Next]_(LP!walVars)
      <3>1. im.root \in Nat /\ im.flhead \in Nat /\ im.next \in Nat
        BY DEF DBTypeOK
      <3> QED
        BY <1>4, <3>1, LogStep
    <2>2. LP!WALInv'
      BY <1>1, <2>1, LogAssumption, LP!NextInv
    <2>3. LP!StartsInReach'
      BY <1>1, <2>1, <2>2, LogAssumption, LP!StepInReach
    <2>4. \A s \in (LP!Files)' : LP!First(s) \in Nat
      <3>1. SUFFICES ASSUME NEW s \in {file', durable'} \cup stale' PROVE LP!First(s) \in Nat
        BY DEF LP!Files
      <3>2. s \in Seq(LP!Cell) /\ LP!Chained(s)
        BY <2>2 DEF LP!WALInv, LP!WALTypeOK, LP!Keeps, LP!Sound
      <3> QED
        BY <3>2, LogAssumption, LP!FirstInReach
    <2>5. \A n \in Nat : LP!BackTo(n) /\ (wpc = "rotating" => current_lsn <= n) =>
            \A s \in (LP!Files)' : LP!First(s) <= n + 1
      BY <1>1, <2>1, LogAssumption, LP!StepStarts DEF LP!Files
    <2>6. \A x \in Stamps' : x \in Nat /\ \A s \in (LP!Files)' : LP!First(s) <= x + 1
      <3>1. CASE WriteMeta
        <4>1. LP!BackTo(current_lsn) /\ current_lsn \in Nat
          BY <1>1, <3>1 DEF WriteMeta, PhasesAgree, Rests, LP!WALInv, LP!WALTypeOK,
                            LP!Recovered, LP!StartsInReach
        <4>2. /\ meta'.last_checkpoint_lsn = current_lsn /\ synced' = synced
              /\ file' = file /\ durable' = durable /\ stale' = stale
          BY <3>1 DEF WriteMeta, Meta, logVars
        <4>3. \A n \in Stamps \cup {current_lsn} : n \in Nat /\ LP!BackTo(n)
          BY <4>1 DEF RecoveryInv
        <4>4. Stamps' \subseteq Stamps \cup {current_lsn} /\ (LP!Files)' = LP!Files
          BY <4>2 DEF Stamps, LP!Files
        <4> QED
          BY <4>3, <4>4 DEF LP!BackTo
      <3>2. CASE ~WriteMeta
        <4>1. SUFFICES ASSUME NEW x \in Stamps', NEW s \in (LP!Files)'
                       PROVE  LP!First(s) <= x + 1
          BY <3>2, StampStep
        <4>2. PICK n \in Stamps : n <= x /\ n \in Nat /\ x \in Nat
          BY <3>2, StampStep DEF RecoveryInv
        <4>3. LP!First(s) <= n + 1
          BY <2>5, <4>2, RotatesWhenStamped DEF RecoveryInv
        <4> QED
          BY <2>4, <4>2, <4>3
      <3> QED
        BY <3>1, <3>2
    <2> QED
      BY <1>2, <2>2, <2>3, <2>6 DEF RecoveryInv, LP!BackTo
  <1> QED
    BY <1>3, <1>4

-----------------------------------------------------------------------------
(* The theorems. *)

\* If the tree hands page ids to the CHECKPOINT records, then in every
\* reachable state of the database its log is as WAL_proofs describes it, and
\* every file that may be left reaches back to every meta page that may be left.
THEOREM RecoveryInvariant == FaultsFairSpec /\ []DBTypeOK => []RecoveryInv
  BY InitRecovery, NextRecovery, LsnInvariant, PTL DEF FaultsFairSpec

\* Whatever is left of the log and of the meta page, replay finds each record
\* that was acknowledged and that recovery does not skip.
THEOREM ReplayFindsEverything == FaultsFairSpec /\ []DBTypeOK => []ReplayIsComplete
  <1>1. RecoveryInv => ReplayIsComplete
    <2> SUFFICES ASSUME RecoveryInv, NEW m \in {meta, synced.meta}, NEW log \in Log!Media,
                        NEW n \in (m.last_checkpoint_lsn + 1)..lastAcked
                 PROVE  \E i \in 1..Log!GoodLen(log) : log[i].lsn = n
      BY DEF ReplayIsComplete
    <2>1. /\ LP!WALInv /\ m.last_checkpoint_lsn \in Nat
          /\ LP!BackTo(m.last_checkpoint_lsn)
      BY DEF RecoveryInv, Stamps
    <2>2. log \in LP!Media
      BY DEF Log!Media, LP!Media, Log!TornTails, LP!TornTails, Log!Torn, LP!Torn
    <2>3. Log!GoodLen(log) = LP!GoodLen(log)
      BY DEF Log!GoodLen, LP!GoodLen
    <2> QED
      BY <2>1, <2>2, <2>3, LogAssumption, LP!ReachIsComplete
  <1> QED
    BY <1>1, RecoveryInvariant, PTL

\* The checkpoints, recoveries and failed flushes of db.py cost the log none of
\* the acknowledged records it still needs.
THEOREM DatabaseKeepsItsLog == FaultsFairSpec /\ []DBTypeOK => []Log!AckedSurvive
  <1>1. LP!AckedSurvive => Log!AckedSurvive
    BY DEF LP!AckedSurvive, Log!AckedSurvive, Log!Media, LP!Media, Log!TornTails,
           LP!TornTails, Log!Torn, LP!Torn, Log!GoodLen, LP!GoodLen
  <1>2. RecoveryInv => Log!AckedSurvive
    BY <1>1, LogAssumption, LP!InvKeepsAcked DEF RecoveryInv
  <1> QED
    BY <1>2, RecoveryInvariant, PTL

\* And unless an interrupted write leaves zeros, open() is never refused by the
\* log that it finds.
THEOREM DatabaseLogIsReadable ==
    ASSUME "zeros" \notin TornKinds
    PROVE  FaultsFairSpec /\ []DBTypeOK => []Log!LogReadable
  <1>1. LP!LogReadable => Log!LogReadable
    BY DEF LP!LogReadable, Log!LogReadable, Log!Media, LP!Media, Log!TornTails, LP!TornTails,
           Log!Torn, LP!Torn, Log!IterRaises, LP!IterRaises, Log!NonSequential,
           LP!NonSequential, Log!TailRaises, LP!TailRaises, Log!GoodLen, LP!GoodLen
  <1>2. RecoveryInv => Log!LogReadable
    BY <1>1, LogAssumption, LP!InvReadable DEF RecoveryInv
  <1> QED
    BY <1>2, RecoveryInvariant, PTL

=============================================================================
