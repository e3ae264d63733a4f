------------------------------ MODULE DBFaults ------------------------------
(***************************************************************************)
(* A page that cannot be written (a full disk, an I/O error): flush_all or *)
(* flush_dirty_freelist_pages raises in the middle of a checkpoint.  The   *)
(* exception leaves checkpoint() and put() with part of the pages written, *)
(* close() with the files open and is_opened FALSE, and open() through its *)
(* except clause, which closes the log and the pager.                      *)
(*                                                                         *)
(* None of them empties the buffer pool: a DB object that is opened again  *)
(* replays the log over the pages it still has in memory, another object   *)
(* or another process over the file alone.                                 *)
(***************************************************************************)
EXTENDS DB

CONSTANT
    MaxFaults    \* bound on the writes that fail

\* A scenario has one more field: may the application give the object up after a
\* fault, before a checkpoint of it has completed?
ASSUME FaultsAssumption == MaxFaults \in Nat /\ \A s \in Scenarios : s.ends \in BOOLEAN

VARIABLES
    mem,         \* the dirty pages in the pool of an object that is closed
    partial,     \* a flush has failed and no checkpoint was completed since
    faults       \* writes that failed so far

faultVars == <<mem, partial, faults>>
dbFaultVars == <<dbVars, faultVars>>

\* write_page raises: some of the dirty pages are in the file, some are not.
FlushRaises ==
    /\ pc = "flushing" /\ DOMAIN im.pool \cup DOMAIN im.fl # {}
    /\ todo = <<>> /\ faults < MaxFaults
    /\ faults' = faults + 1 /\ partial' = TRUE

\* In checkpoint() or _maybe_checkpoint(), with the database open: the caller
\* gets the exception and may go on.
CheckpointFails ==
    /\ FlushRaises /\ is_opened /\ ~closing
    /\ pc' = "idle"
    /\ UNCHANGED <<logVars, is_opened, closing, fileVars, clientVars, mem>>

\* In close(): the finally clause runs, and both files stay open.
CloseFails ==
    /\ FlushRaises /\ closing
    /\ pc' = "down"
    /\ is_opened' = FALSE /\ closing' = FALSE
    /\ UNCHANGED <<logVars, fileVars, clientVars, mem>>

\* Mutant: the except clause empties the buffer pool too.
RecoveryFailsEmptiesPool ==
    /\ FlushRaises /\ ~is_opened
    /\ pc' = "closed"
    /\ Log!Close
    /\ meta' = Meta(im.root, im.flhead, im.next, RepairedMeta.last_checkpoint_lsn)
    /\ im' = ImageOf(meta', Over(im.fl, im.disk))
    /\ synced' = [pages |-> im'.disk, meta |-> meta']
    /\ mem' = <<>>
    /\ UNCHANGED <<is_opened, closing, clientVars>>

\* In _recover(): wal.close(), and pager.close() with the freelist pages and
\* the meta page of the replayed tree, whose own pages may not be written.
RecoveryFails ==
    /\ FlushRaises /\ ~is_opened
    /\ pc' = "closed"
    /\ Log!Close
    /\ meta' = Meta(im.root, im.flhead, im.next, RepairedMeta.last_checkpoint_lsn)
    /\ im' = ImageOf(meta', Over(im.fl, im.disk))
    /\ synced' = [pages |-> im'.disk, meta |-> meta']
    /\ mem' = im.pool
    /\ UNCHANGED <<is_opened, closing, clientVars>>

\* open() of the object whose close() failed: both opens return at once.
ReopenUnclosed ==
    /\ pc = "down"
    /\ pc' = "opening"
    /\ wpc' = "opened" /\ online' = FALSE
    /\ UNCHANGED <<file, durable, stale, temp, current_lsn, needed, lastAcked>>
    /\ UNCHANGED <<is_opened, closing, fileVars, clientVars, faultVars>>

\* open() of the object whose open() failed: the meta page is read again, the
\* pages in the pool are not.
ReopenObject ==
    /\ pc = "closed" /\ partial
    /\ pc' = "opening"
    /\ Log!Open
    /\ im' = [ImageOf(meta, im.disk) EXCEPT !.pool = mem]
    /\ mem' = <<>>
    /\ UNCHANGED <<is_opened, closing, meta, synced, clientVars, partial, faults>>

\* Another object or process: nothing is left of the faulty one's memory.  The
\* program cannot prevent it; a scenario without it says what an application
\* gets that keeps the object and opens it again.
GivenUp == (partial => scenario.ends) /\ mem' = <<>> /\ UNCHANGED <<partial, faults>>

\* The end of a checkpoint.
Completed == mem' = mem /\ partial' = FALSE /\ UNCHANGED faults

FaultsInit == Init /\ mem = <<>> /\ partial = FALSE /\ faults = 0

FaultsNext ==
    \/ (Lookup \/ Client \/ Work) /\ UNCHANGED faultVars
    \/ RotateSync /\ Completed
    \/ CheckpointFails \/ CloseFails \/ RecoveryFails
    \/ ReopenUnclosed \/ ReopenObject
    \/ (Open \/ Kill \/ PowerLoss) /\ GivenUp

\* A process that runs goes on running, and its application opens a database
\* that is down: weak fairness of FaultsNext, which is enabled in all states
\* (the run looks for deadlocks).  Only interruptions and faults could hold it
\* up, and both are bounded.
FaultsFairSpec ==
    /\ FaultsInit /\ [][FaultsNext]_dbFaultVars
    /\ []<>(pc = "idle") \/ []<><<FaultsNext>>_dbFaultVars

-----------------------------------------------------------------------------

\* The replay of an open() finds every page it needs, in the file or in the pool.
\* After a page write that failed this is so for the object itself, opened again
\* over its old pool, and for any other one if no page was split or merged.  It is
\* not so for another object after a split: the meta page that the failed open()
\* has left may name a root that is nowhere, where the design has recovery
\* "idempotent and restartable".
RecoveryRestarts == pc = "recovering" => im.err = "none"

=============================================================================
