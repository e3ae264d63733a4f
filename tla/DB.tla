--------------------------------- MODULE DB ---------------------------------
(***************************************************************************)
(* The database of db.py: the tree, the pager and the log put together.    *)
(* One client at a time calls put, delete, checkpoint and close; the       *)
(* process may be killed, or the machine lose power, between any two steps *)
(* that touch a file; open() then recovers.                                *)
(*                                                                         *)
(* A call is cut where it writes to a file or fsyncs one.  Computation in  *)
(* memory belongs to the step that follows it: an interruption there loses *)
(* memory only, as one before it does.                                     *)
(***************************************************************************)
EXTENDS TreeDebug

CONSTANTS
    Scenarios,    \* how a database is built, used and interrupted: records with
                  \*   script   the calls, oldest first, that build it
                  \*   calls    the calls the client makes after that
                  \*   points   the values of pc at which the process may end
    TornKinds,    \* what an interrupted write leaves at the tail of the log
    MaxLSN,       \* bound on the LSNs handed out
    MaxCalls,     \* bound on the calls after the script
    MaxCrashes    \* bound on the interruptions

VARIABLES
    \* the log: the variables of module WAL
    wpc, file, durable, stale, temp, current_lsn, online, needed, lastAcked,
    pc,           \* where the running call is
    is_opened,    \* DB.is_opened
    closing,      \* the checkpoint under way is the one of close()
    im,           \* memory and page file; im.disk is what the kernel holds
    meta,         \* the meta page in the file
    synced,       \* the pages and the meta page that no power loss takes away
    pending,      \* the put or delete under way, <<>> if none is
    view,         \* what get() answers for each key, once open
    acked,        \* ghost: the map of the acknowledged operations
    scenario,     \* the scenario, which never changes
    todo,         \* what is left to do of its script
    calls,        \* calls after the script
    crashes       \* interruptions so far

logVars == <<wpc, file, durable, stale, temp, current_lsn, online, needed, lastAcked>>
fileVars == <<im, meta, synced>>
requestVars == <<scenario, todo, calls>>
clientVars == <<pending, view, acked, requestVars, crashes>>
dbVars == <<logVars, pc, is_opened, closing, fileVars, clientVars>>

\* A CHECKPOINT record: root_page_id, freelist_head and next_page_id.
CheckpointOps == {"checkpoint"} \X Nat \X Nat \X Nat

\* The promise to the client.
Store == INSTANCE KVStore WITH kv <- view, up <- is_opened

Log == INSTANCE WAL WITH
            Payload <- Store!Ops \cup CheckpointOps,
            RecoveryOps <- CheckpointOps

ASSUME DBAssumption ==
    /\ MaxLSN \in Nat /\ MaxCalls \in Nat /\ MaxCrashes \in Nat
    /\ TornKinds \subseteq {"short", "badcrc", "zeros"}

-----------------------------------------------------------------------------
(* open() and _recover(). *)

Meta(root, flhead, next, lsn) ==
    [root |-> root, flhead |-> flhead, next |-> next, last_checkpoint_lsn |-> lsn]

\* Nothing but the pages in the file and what a meta page says of them.
ImageOf(m, disk) ==
    [root |-> m.root, next |-> m.next, flhead |-> m.flhead,
     pool |-> <<>>, fl |-> <<>>, disk |-> disk, err |-> "none"]

\* Mutant: a CHECKPOINT newer than the meta page is ignored.
RepairSkipped(m, log) == m

\* _repair_pager_meta_from_wal_checkpoint: the newest CHECKPOINT of the log
\* replaces an older meta page.
Repaired(m, log) ==
    LET found == {i \in DOMAIN log : log[i].op \in CheckpointOps}
        newest == log[Max(found)]
    IN IF found = {} \/ newest.lsn <= m.last_checkpoint_lsn THEN m
       ELSE Meta(newest.op[2], newest.op[3], newest.op[4], newest.lsn)

RepairedMeta == Repaired(meta, Log!GoodPart(file))

Redo(image, op) ==
    IF image.err # "none" \/ op \in CheckpointOps THEN image
    ELSE IF op \in Store!Puts THEN Insert(image, op[2], op[3])
    ELSE Delete(image, op[2])

\* _apply_wal_record over the log, older records skipped: Redone(...)[i] after
\* the first i records.
Redone(start, lsn, log) ==
    LET upto[i \in 0..Len(log)] ==
            IF i = 0 THEN start
            ELSE IF log[i].lsn <= lsn THEN upto[i - 1]
            ELSE Redo(upto[i - 1], log[i].op)
    IN upto

\* The pool is empty unless the object was open before.
Replayed ==
    LET log == Log!GoodPart(file)
        start == IF RepairedMeta = meta THEN im
                 ELSE [im EXCEPT !.root = RepairedMeta.root, !.flhead = RepairedMeta.flhead,
                                 !.next = RepairedMeta.next]
    IN Redone(start, RepairedMeta.last_checkpoint_lsn, log)[Len(log)]

\* pager.open() and wal.open().
Open ==
    /\ pc = "closed"
    /\ pc' = "opening"
    /\ Log!Open
    /\ im' = ImageOf(meta, im.disk)
    /\ UNCHANGED <<is_opened, closing, meta, synced, clientVars>>

\* _recover() up to the last call of _apply_wal_record: all of it in memory.
Recover ==
    /\ pc = "opening"
    /\ ~Log!IterRaises(file)
    /\ pc' = "recovering"
    /\ im' = Replayed
    /\ UNCHANGED <<logVars, is_opened, closing, meta, synced, clientVars>>

\* replay() has seen the whole log and cuts its torn tail off.
CutTail ==
    /\ pc = "recovering"
    /\ im.err = "none"
    /\ pc' = "replayed"
    /\ Log!Replay
    /\ UNCHANGED <<is_opened, closing, fileVars, clientVars>>

ReplaySync ==
    /\ pc = "replayed"
    /\ pc' = "recovered"
    /\ Log!ReplaySync
    /\ UNCHANGED <<is_opened, closing, fileVars, clientVars>>

\* Mutant: a torn record at the tail raises too.
OpenFailsOnTornTail ==
    /\ \/ pc = "opening" /\ Log!GoodPart(file) # file
       \/ pc = "recovering" /\ im.err # "none"
    /\ pc' = "closed"
    /\ Log!Close
    /\ UNCHANGED <<is_opened, closing, fileVars, clientVars>>

\* _recover() raised: the log is closed, and the pager writes the freelist
\* pages and the meta page that the recovery has changed by then.  An
\* unreadable log raises before anything is changed.
OpenFails ==
    /\ \/ pc = "opening" /\ Log!IterRaises(file)
       \/ pc = "recovering" /\ im.err # "none"
    /\ pc' = "closed"
    /\ Log!Close
    /\ meta' = Meta(im.root, im.flhead, im.next,
                    IF pc = "opening" THEN meta.last_checkpoint_lsn
                    ELSE RepairedMeta.last_checkpoint_lsn)
    /\ im' = ImageOf(meta', Over(im.fl, im.disk))
    /\ synced' = [pages |-> im'.disk, meta |-> meta']
    /\ UNCHANGED <<is_opened, closing, clientVars>>

-----------------------------------------------------------------------------
(* get, scan, put and delete. *)

\* get and scan answer from the tree and change nothing.
Lookup ==
    /\ pc = "idle"
    /\ UNCHANGED dbVars

\* _maybe_checkpoint, at the start and at the end of put and delete, is a
\* Checkpoint before or after the call.
Call(op) ==
    /\ pc = "idle"
    /\ pc' = "logging"
    /\ Log!AppendWrite(op)
    /\ pending' = op
    /\ UNCHANGED <<is_opened, closing, fileVars, view, acked, crashes>>

Put(k, v) == RecordFits(k, v) /\ Call(<<"put", k, v>>)

\* delete returns False at once when the key is not there.
DeleteKey(k) == Search(im, k) # {} /\ Call(<<"delete", k>>)

\* The record is durable, and the tree follows.
Logged ==
    /\ pc = "logging"
    /\ pc' = "returning"
    /\ Log!AppendSync
    /\ im' = Redo(im, pending)
    /\ UNCHANGED <<is_opened, closing, meta, synced, clientVars>>

\* The client has its answer.
Return ==
    /\ pc = "returning"
    /\ pc' = "idle"
    /\ view' = Contents(im)
    /\ acked' = Store!Apply(acked, pending)
    /\ pending' = <<>>
    /\ UNCHANGED <<logVars, is_opened, closing, fileVars, requestVars, crashes>>

-----------------------------------------------------------------------------
(* checkpoint(), which also ends _recover() and starts close(). *)

BeginCheckpoint ==
    /\ pc' = "flushing"
    /\ UNCHANGED <<logVars, is_opened, fileVars, pending, view, acked, crashes>>

RecoveryCheckpoint ==
    /\ pc = "recovered"
    /\ BeginCheckpoint
    /\ UNCHANGED <<closing, requestVars>>

Checkpoint ==
    /\ pc = "idle"
    /\ BeginCheckpoint
    /\ UNCHANGED closing

Close ==
    /\ pc = "idle"
    /\ BeginCheckpoint
    /\ closing' = TRUE

\* flush_all: the dirty pages in the order of the cache, which can be any.
FlushPage(id) ==
    /\ pc = "flushing"
    /\ id \in DOMAIN im.pool
    /\ im' = PageWritten(im, id)
    /\ UNCHANGED <<logVars, pc, is_opened, closing, meta, synced, clientVars>>

\* flush_dirty_freelist_pages.
FlushFreelist ==
    /\ pc = "flushing"
    /\ DOMAIN im.pool = {} /\ DOMAIN im.fl # {}
    /\ im' = FreelistPageWritten(im)
    /\ UNCHANGED <<logVars, pc, is_opened, closing, meta, synced, clientVars>>

\* The first pager.fsync().
SyncPages ==
    /\ pc = "flushing"
    /\ DOMAIN im.pool = {} /\ DOMAIN im.fl = {}
    /\ pc' = "flushed"
    /\ synced' = [pages |-> im.disk, meta |-> meta]
    /\ UNCHANGED <<logVars, is_opened, closing, im, meta, clientVars>>

LogCheckpoint ==
    /\ pc = "flushed"
    /\ pc' = "marking"
    /\ Log!AppendWrite(<<"checkpoint", im.root, im.flhead, im.next>>)
    /\ UNCHANGED <<is_opened, closing, fileVars, clientVars>>

LogCheckpointSync ==
    /\ pc = "marking"
    /\ pc' = "marked"
    /\ Log!AppendSync
    /\ UNCHANGED <<is_opened, closing, fileVars, clientVars>>

\* Mutants: the meta page goes out with an old field in it.
WriteMetaOldNext ==
    /\ pc = "marked"
    /\ pc' = "stamping"
    /\ meta' = Meta(im.root, im.flhead, meta.next, current_lsn)
    /\ UNCHANGED <<logVars, is_opened, closing, im, synced, clientVars>>

WriteMetaOldFreelist ==
    /\ pc = "marked"
    /\ pc' = "stamping"
    /\ meta' = Meta(im.root, meta.flhead, im.next, current_lsn)
    /\ UNCHANGED <<logVars, is_opened, closing, im, synced, clientVars>>

\* ... or with the LSN that the next record will get.
WriteMetaNextLsn ==
    /\ pc = "marked"
    /\ pc' = "stamping"
    /\ meta' = Meta(im.root, im.flhead, im.next, current_lsn + 1)
    /\ UNCHANGED <<logVars, is_opened, closing, im, synced, clientVars>>

\* update_meta and flush_meta.
WriteMeta ==
    /\ pc = "marked"
    /\ pc' = "stamping"
    /\ meta' = Meta(im.root, im.flhead, im.next, current_lsn)
    /\ UNCHANGED <<logVars, is_opened, closing, im, synced, clientVars>>

\* Mutant: the log is truncated before the meta page is durable.
SyncMetaSkipped ==
    /\ pc = "stamping"
    /\ pc' = "stamped"
    /\ UNCHANGED <<logVars, is_opened, closing, fileVars, clientVars>>

\* The second pager.fsync().
SyncMeta ==
    /\ pc = "stamping"
    /\ pc' = "stamped"
    /\ synced' = [pages |-> im.disk, meta |-> meta]
    /\ UNCHANGED <<logVars, is_opened, closing, im, meta, clientVars>>

\* truncate_before(checkpoint_lsn).
RotateWrite ==
    /\ pc = "stamped"
    /\ pc' = "rotating"
    /\ Log!RotateWrite(current_lsn)
    /\ UNCHANGED <<is_opened, closing, fileVars, clientVars>>

RotateRename ==
    /\ pc = "rotating"
    /\ pc' = "renamed"
    /\ Log!RotateRename
    /\ UNCHANGED <<is_opened, closing, fileVars, clientVars>>

\* The end of checkpoint().  When it is the end of open() too, an operation
\* that the last crash interrupted is found done or not done.
RotateSync ==
    /\ pc = "renamed"
    /\ pc' = IF closing THEN "closing" ELSE "idle"
    /\ Log!RotateSync
    /\ is_opened' = TRUE
    /\ view' = Contents(im)
    /\ acked' = IF Contents(im) = Store!Apply(acked, pending) THEN Contents(im) ELSE acked
    /\ pending' = <<>>
    /\ UNCHANGED <<closing, fileVars, requestVars, crashes>>

\* wal.close() and pager.close().
CloseFiles ==
    /\ pc = "closing"
    /\ pc' = "closed"
    /\ Log!Close
    /\ is_opened' = FALSE /\ closing' = FALSE
    /\ synced' = [pages |-> im.disk, meta |-> meta]
    /\ UNCHANGED <<im, meta, clientVars>>

-----------------------------------------------------------------------------
(* Interruptions. *)

Interrupt ==
    /\ todo = <<>> /\ crashes < MaxCrashes /\ pc \in scenario.points
    /\ pc' = "closed"
    /\ is_opened' = FALSE /\ closing' = FALSE
    /\ crashes' = crashes + 1
    /\ UNCHANGED <<pending, view, acked, requestVars>>

\* The process is killed: what it has written is with the kernel.
Kill ==
    /\ Interrupt
    /\ Log!Kill
    /\ im' = ImageOf(meta, im.disk)
    /\ UNCHANGED <<meta, synced>>

\* The machine stops: any of the pages written since the last fsync is lost.
PowerLoss ==
    /\ Interrupt
    /\ Log!PowerLoss
    /\ \E kept \in SUBSET {id \in DOMAIN im.disk :
                            id \notin DOMAIN synced.pages \/ synced.pages[id] # im.disk[id]},
          m \in {meta, synced.meta} :
        LET disk == Over([id \in kept |-> im.disk[id]], synced.pages)
        IN /\ im' = ImageOf(m, disk)
           /\ meta' = m
           /\ synced' = [pages |-> disk, meta |-> m]

-----------------------------------------------------------------------------

Init ==
    /\ Log!Init
    /\ pc = "closed" /\ is_opened = FALSE /\ closing = FALSE
    /\ im = EmptyImage
    /\ meta = Meta(1, 0, 2, 0)
    /\ synced = [pages |-> EmptyImage.disk, meta |-> Meta(1, 0, 2, 0)]
    /\ pending = <<>>
    /\ view = [k \in Keys |-> {}] /\ acked = [k \in Keys |-> {}]
    /\ scenario \in Scenarios /\ todo = scenario.script
    /\ calls = 0 /\ crashes = 0

\* The script comes first, then the client calls what it likes.
Requested(call) ==
    /\ UNCHANGED scenario
    /\ \/ /\ todo # <<>> /\ call = Head(todo)
          /\ todo' = Tail(todo)
          /\ UNCHANGED calls
       \/ /\ todo = <<>> /\ calls < MaxCalls /\ call \in scenario.calls
          /\ calls' = calls + 1
          /\ UNCHANGED todo

Client ==
    \/ \E k \in Keys, v \in Values : Requested(<<"put", k, v>>) /\ Put(k, v)
    \/ \E k \in Keys : Requested(<<"delete", k>>) /\ DeleteKey(k)
    \/ Requested(<<"checkpoint">>) /\ Checkpoint
    \/ Requested(<<"close">>) /\ Close

\* What the process does once a call is made, but for the end of a checkpoint.
Work ==
    \/ Recover \/ CutTail \/ ReplaySync \/ OpenFails
    \/ Logged \/ Return
    \/ RecoveryCheckpoint
    \/ \E id \in DOMAIN im.pool : FlushPage(id)
    \/ FlushFreelist
    \/ SyncPages \/ LogCheckpoint \/ LogCheckpointSync \/ WriteMeta \/ SyncMeta
    \/ RotateWrite \/ RotateRename
    \/ CloseFiles

Next == Open \/ Lookup \/ Client \/ Work \/ RotateSync \/ Kill \/ PowerLoss

Spec == Init /\ [][Next]_dbVars

-----------------------------------------------------------------------------

\* The pages a meta page names exist, in memory, in the file and on the medium.
DBTypeOK ==
    /\ \A m \in {meta, synced.meta, im} :
          m.next \in Nat /\ m.root \in 1..(m.next - 1) /\ m.flhead \in 0..(m.next - 1)
    /\ pending \in Store!Ops \cup {<<>>}
    /\ acked \in [Keys -> SUBSET Values]
    /\ is_opened \in BOOLEAN /\ closing \in BOOLEAN
    /\ calls \in 0..MaxCalls /\ crashes \in 0..MaxCrashes

\* An open database holds the acknowledged operations and no others, and scan
\* yields all of it in order: nothing is lost to a crash, to a replay on pages
\* that are newer than the log's start, or to an LSN given out twice.
NothingLost ==
    is_opened => Scan(im, 0) = SortedFrom(
                    IF pc = "returning" THEN Store!Apply(acked, pending) ELSE acked, 0)

\* To its client the database is a map that survives: KVStore is implemented.
DurableStore == Store!Spec

\* A recovered tree is a well-formed one, and the recovery has lost no page
\* and given none to two owners.
RecoveredTreeIsSound == is_opened => TreeIsSound(im) /\ PagesPartitioned(im)

\* An LSN that is returned to a caller is above the checkpoint LSN of the meta
\* page, in the file and on the medium: recovery, which skips what is not,
\* replays the record.  So it is also when an interruption has brought back a
\* log that ends below the checkpoint LSN.
AckedAboveCheckpoint ==
    [][lastAcked' # lastAcked => /\ lastAcked' > meta.last_checkpoint_lsn
                                 /\ lastAcked' > synced.meta.last_checkpoint_lsn]_dbVars

\* Whichever log and whichever meta page an interruption leaves, the log reaches
\* back to the checkpoint of the meta page: every LSN that was returned to a
\* caller and that recovery does not skip is decoded.  The meta page is durable
\* before truncate_before, and the log it drops from may come back until the
\* directory is fsynced.
ReplayIsComplete ==
    \A m \in {meta, synced.meta}, log \in Log!Media :
        \A n \in (m.last_checkpoint_lsn + 1)..lastAcked :
            \E i \in 1..Log!GoodLen(log) : log[i].lsn = n

\* However the process ended, a later open() succeeds, unless the interruption
\* has left a log that _iter_records refuses (a tail of zeros).
ReopensEventually == ~is_opened ~> (is_opened \/ Log!IterRaises(file))

=============================================================================
