# A TLA+ model of bptreedb

bptreedb is an embedded key/value store in Python: a B+ tree in one page file,
a logical write-ahead log in another, one process, one caller at a time.  What
is hard about it is not concurrency but interruption and long histories: a
process that is killed, or a machine that loses power, between any two writes;
and a tree that is rebalanced by byte counts over any sequence of puts and
deletes.

## The system and what makes its parts correct

| Part | State | Operations | Talks to | Correct when |
|---|---|---|---|---|
| `wal.py` | the log file, a temp file, `current_lsn` | open, replay, append, truncate_before, close | called by `db.py` | an acknowledged record is read back after any interruption until it is truncated; the log can always be opened; LSNs never repeat |
| `codec.py`, `entities.py` | none | encode, decode, size computations | called by all | what is decoded is what was encoded; a torn record is recognised |
| `pager.py` | page file, meta page, freelist cache | open/bootstrap, read, write, allocate, free, flush, fsync, close | called by tree, pool and `db.py` | every page has one owner; the meta page names pages that exist |
| `cache.py` | cached pages, dirty flags, LRU order | get, insert, mark_dirty, delete, flush_all | reads and writes through the pager | a dirty page is never dropped and never written outside a checkpoint (NO-STEAL) |
| `tree.py` | none of its own: root id in the meta page, pages in the pool | search, insert, delete, scan | pool and pager | it is a map; keys are in order; pages stay between 40% and 100% full; leaves are on one level and chained |
| `db.py` | `is_opened`, version counter | open (with recovery), put, get, delete, scan, checkpoint, close | composes all of the above | to its client it is a map that survives crashes |
| `debug.py` | none | the invariant checker of the tests | reads the tree | |
| `fs.py`, `exceptions.py` | none | fsync helpers, exception classes | called by `wal.py`, `pager.py`, `db.py` | after an fsync the data is durable |
| `scripts/bench.py` | none | timings | uses `db.py` | |

A put goes: size check, append and fsync of a PUT record, change of the tree in
memory, and perhaps a checkpoint.  A checkpoint goes: dirty pages and freelist
pages to the file, fsync, CHECKPOINT record (root, freelist head, next page),
fsync, meta page, fsync, then the log is rewritten from the CHECKPOINT record on
and renamed into place.  Opening goes: meta page, log; a CHECKPOINT record newer
than the meta page replaces it; records after that LSN are applied again; then a
checkpoint.  The hazards this is exposed to are listed line by line in
`PROJECT.json`.

## Modules

`DB` composes the log (`WAL` as `Log`) with the tree, page file and dirty pages
(`TreeDebug`, `BPlusTree`, `Pages`).  The other modules look closer at one part, or
add to one of these modules a behaviour that would be too much for `DB`.

| Module | Models | State and actions |
|---|---|---|
| `WAL` | `wal.py` and the framing of `codec.py` | A file is a sequence of cells (records or torn remains). `file` is what a process reads, `durable` what a power loss leaves of the inode, `stale` the replaced inodes the directory may still name. Calls are cut at writes, fsyncs and the rename. `Kill`, `PowerLoss` |
| `WALFaults` | `wal.py`, `fs.py` when calls raise | extends `WAL`: an append that raises with or without its record written, a rotation that ends without a descriptor, a close that leaves one, a directory that cannot be opened; several unsynced records at a time |
| `LogFormat` | the log as bytes | `AppendRecord`, interrupted writes (`CutShort`, `ZeroFilled`), and the reader of `_iter_records` and `replay` frame by frame; instantiates `WAL` to compare |
| `Codec` | `codec.py` | fields, pages, meta page and records to bytes and back; a CRC is a cell that remembers what it was computed over |
| `CodecSpec` | what reaches `encode_page` | a page that is filled slot by slot, a meta page that is rewritten |
| `Pages` | sizes, pages, allocator, dirty pages | functions on an *image*: meta fields, dirty tree pages, dirty freelist pages, pages in the file |
| `Pager` | `pager.py` | creation one system call at a time, open and its rejection, `Allocate`, `Free`, `MoveRoot`, `Checkpoint`, `Close`, `Kill`; `used` is what the tree holds, `chain` the freelist pages |
| `Allocator` | the promise of the pager | a set of ids in use, and the set a restart comes back to |
| `BPlusTree` | `tree.py` | `Search`, `Insert`, `Delete`, `Scan` as functions on images, with the split point search, redistribution and merge of the code |
| `TreeDebug` | `debug.py` | `TreeIsSound` (with `LeavesChained`), `PagesPartitioned`, `Contents` |
| `TreeSpec` | one client of the tree, no log | put, delete, checkpoint in any order, and the page writes of a checkpoint that stops, next to a reference map `kv` |
| `ScanSpec` | `DB.scan`, `BPlusTree.scan` | extends `TreeSpec` by an iterator: `StartScan`, `NextItem`, the version counter, `Close`, `Reopen` |
| `BufferPool` | `cache.py` | functions on a pool: LRU order, dirty ids, the eviction switch, what was raised |
| `PoolSpec` | tree and checkpoints over a bounded pool | `ChangeTree` changes the image and queues the pool calls of the operation in the order of `tree.py`, `PoolCall` makes them one at a time, and a restart may come between any two; `_maybe_checkpoint` before (`Begin`, `Found`) and after (`Return`) it; `Restart`, `Redo`, `Recovered` |
| `KVStore` | the promise of the database | a map, one pending operation; after a crash it has happened or not |
| `DB` | `db.py` | extends `TreeDebug`, instantiates `WAL` as `Log` and `KVStore` as `Store`; one action per write or fsync of open, put, delete, checkpoint, close; `Kill`, `PowerLoss` |
| `DBFaults` | `db.py` when a page cannot be written | extends `DB`: a flush that raises in checkpoint, close or recovery; the same object opened again over its old pool, or another one (`GivenUp`, where the scenario's `ends` lets the application do so) |
| `MC...` | | instances for TLC |
| `..._proofs` | | theorems: about the module of that name; `Codec_proofs` about `CodecSpec` and `LogFormat`, `Pool_proofs` about `PoolSpec`, `DBRecovery_proofs` and `DBStore_proofs` about `DB` with `DBFaults`.  See *Proofs* |

What is abstracted.  Keys are numbers in byte order and values are names; both
have lengths, because lengths decide splits and merges.  Outside `Codec` and
`LogFormat` a page in the file is its decoded content, and a page write is
atomic: torn data pages are outside what the program claims to survive
(`docs/bptreedb-design.md:51`).  A clean page in memory equals the page in the
file, so outside `PoolSpec` the pool is its dirty pages.  The statistics are left
out, and `last_modified_lsn` appears in the bytes of a page only: nothing reads
them.  `_maybe_checkpoint` depends on sizes and ratios; except in `PoolSpec`,
which has the dirty ratio, the model may checkpoint between any two operations.
`flush_all` goes in the order of an LRU list; the model takes any order.  CRC32
is taken to have no collisions.

Points where a module chooses among readings of the code: `Pager` makes a
checkpoint and a close one step each, because `DB` has the interruptions inside
them.  In `ScanSpec` a suspended generator may find its leaf as it was (the pool
has dropped the page since) or as it is.  A `next()` on a closed database is
taken to find its pages in the pool, which `close()` does not empty.  In
`WALFaults` bytes reach the medium from the front of the file.

The model of the tree was compared with the program: the same histories of puts,
deletes and checkpoints, with keys of mixed lengths, gave the same pages.

A definition whose comment starts with "Mutant" is a deliberately broken variant
of the definition after it.  It is used by nothing but `PROJECT.json`'s mutants,
which show that each property would notice a bug of that kind.

## Runs

| Run | Instance and bounds | Result |
|---|---|---|
| `wal` | two payloads, torn tails short or with a bad checksum, any number of interruptions; LSNs up to 5 in `WAL`; beside it LSNs up to 4 in `WALFaults`, with any number of failed calls, where a failed append leaves its record | `AckedSurvive`, `LogReadable`, `AckedLsnsIncrease`, `AckedOutliveFaults`, `LogOutlivesFaults` hold, and under fairness `ReplayEnds` |
| `wal_zeros` | also tails of zeros | `LogReadable` is violated |
| `tree` | 132-byte pages; one or two leaves with values of two lengths and 5 operations after a script, three levels and 3 operations; pages may be written out one at a time in between | `Answers`, `ScanComplete`, `TreeInvariants`, `PagesAccounted`, `NeverRaises` hold |
| `tree_mixed` | 512-byte pages, 24 keys of 2 to 80 bytes | `AlwaysRebalances` is violated |
| `db_crash` | 132-byte pages, 3 calls, 2 interruptions, 1 failed page write, all torn tails; in two scenarios (a full leaf, two minimal ones) interruptions outside the checkpoint window and, after a failed write, the same object again; in a third (no call splits or merges) interruptions anywhere and, after a failed write, any object | `DurableStore` (refinement of `KVStore`), `RecoveredTreeIsSound`, `RecoveryRestarts`, `ReplayIsComplete`, `AckedAboveCheckpoint` hold, and under fairness `ReopensEventually` |
| `db_window` | the first two scenarios, interruptions anywhere | `NothingLost` is violated |
| `db_givenup` | the first two scenarios, 1 interruption outside the checkpoint window and 1 failed page write, after which any object may go on | `RecoveryRestarts` is violated |
| `pager_alloc` | 52-byte pages (two ids per freelist page), ids below 7, any number of closes and kills | `PagesOwned`, `TreePagesIntact`, `MetaNamesRoot`, the refinement `PagesAllocated`, and under fairness `ReopensOnceCreated` hold |
| `scan_open` | two trees of two or three leaves, three ranges, 2 operations around one iterator | `ScanExact`, `OvertakenRaises`, `UnstartedRaisesUnlessEmpty` hold, and under fairness `ScanEnds` |
| `scan_unstarted` | the same | `UnstartedRaises` is violated |
| `pool_room` | three-level trees, 7 pages, ratio 1/2, 3 operations, a restart | `PoolHoldsTreePages`, `ChangedPagesAreDirty`, `RoomForRebalancing`, `DirtyPagesStay`, `PoolStopsGrowing` hold |
| `codec` | 96-byte pages, keys of 0, 1 and 44 bytes, values of 0, 3 and 16, ids of one and two bytes; logs of 2 records with 2 interrupted writes and length fields 22 to 262 | `PagesReadBack`, `TornMetaIsDetected`, `YieldsWhatWasWritten`, `TornKindsAreExact`, `ReplayLeavesWholeFrames` hold |

`TreeSpec` and `DB` take *scenarios*: a script that builds the tree or database,
and the calls (and, in `DB`, the interruptions) that may follow it.  A run
explores all of its scenarios side by side.

Bounds.  LSN 5 is enough in `wal` for a recovery, an acknowledged record, a
rotation that drops it, and the same again after a restart; LSN 4 with failed
calls for a failed append between two acknowledged ones and a rotation; the number of
interruptions and failures is not bounded there.  On 132-byte pages a leaf holds
two to five records and an internal page one to four separators, so a handful of
operations reaches each kind of split, redistribution and merge; the scripts
bring the tree to the states from which a few operations do.  They are histories
the program can have: they run through the same actions.  Two freed ids per page
and seven ids let a freelist head fill up, be pushed behind a second one, run
empty and be recycled, with a restart in between.  A pool of seven pages is less
than the pages of the trees in `pool_room`, so loads evict, and less than twice
what a cascade touches, so room matters.  Two interruptions and a failed write
let one of them hit the recovery from another.  The pages of `codec` can be
filled to the byte in several ways; its records have length fields of one byte,
of two bytes, and of two bytes with a zero first one, and a write stops at every
kind of byte (`TearPoints`).  The *checkpoint window* runs from the first page
flushed to the fsync of the CHECKPOINT record (`flushing`, `flushed`, `marking`
in `DB`).  `MaxLSN` of the `DB` runs is never
reached, nor is `MaxHeight`: a descent that went deeper would raise.

The run `wal` has two state machines side by side, `WAL` and `WALFaults`: the initial
state chooses one of them (`raising` in `MCWALFaults`) for the whole behaviour.

Fairness.  It is always that of sequential code which waits for nothing, or of
an application that tries again:

* `ReopensEventually`: a running process goes on, and the application opens the
  database again when it is down: weak fairness of `FaultsNext`.  It is written
  out, with `pc = "idle"` for the states in which nothing is owed, which spares
  TLC from evaluating `ENABLED` on the tree functions; that a step is always
  possible is what the deadlock check of the same run shows.  Interruptions and
  failed writes are finite in number, as a store cannot come up while the power
  keeps failing.  In `db_crash` a log that ends in zeros is the one thing that keeps
  the database down (finding 2); a failed write in a recovery that splits pages is
  another, for all objects but the one it failed (finding 4), and that case is not
  in `db_crash`.
* `ReplayEnds`: weak fairness of `Replay` and `ReplaySync`, the loop of
  `replay()` and its fsync.  An interruption ends the replay too.
* `ReopensOnceCreated`: weak fairness of `Opening`, the steps of `open()`, which
  the application calls until it succeeds.
* `ScanEnds`: weak fairness of `NextItem`, the consumer of the iterator.

The tree, pool and codec runs and `db_window` do not check for deadlock: they
stop when their budget is used up or an operation has raised.

## Findings

1. **An interruption in the checkpoint window loses acknowledged keys**
   (`db_window`).  Pages go to the file in place before the CHECKPOINT record
   exists.  After a split has reached the file and the process ends, recovery
   starts from the old root, whose page is now only the left half.  The design
   document calls this case idempotent.  `db_crash` shows that it is, as long
   as no page boundary moved since the last checkpoint.
2. **A tail of zeros makes the log unreadable** (`wal_zeros`): the frame has
   length 0 and a matching checksum, and `struct.error` escapes from `open()`.
   `TornKindsAreExact` shows that it is the only torn tail that does.
3. **The "unreachable" end of `_redistribute_or_merge_page` is reachable**
   (`tree_mixed`) with keys of different lengths.
4. **A page write that fails in recovery can make the database unrecoverable**
   (`db_givenup`).  The `except` clause of `open()` closes the pager (`db.py:82`),
   which writes the meta page of the replayed tree, whose root may not be in the
   file.  The CHECKPOINT record that names the old root is not newer than this meta
   page and is not taken.  The same object can be opened again, its pool still has
   the pages; another one cannot if pages were split, although
   `docs/bptreedb-design.md:414` calls recovery "idempotent and restartable".
5. **An overtaken iterator need not raise** (`scan_unstarted`).  The end of the range
   is looked at before the version is (`tree.py:225`), so that the first `next()`
   ends normally when the range is empty by then;
   `docs/bptreedb-implementation.md:403` and `:972` and
   `docs/bptreedb-design.md:494` say that it raises.  `UnstartedRaisesUnlessEmpty`
   is what holds.

## Limits of what holds

The passing runs state what holds; these are the places where their assumptions
end.  Each was met while modelling, by running the instance without the
assumption, and all but those that need a power loss were reproduced on the
program.

* A failed append is assumed to leave its record (`FailKinds = {"kept"}`).  One
  that ends after `current_lsn` was set (`wal.py:184`) and before its bytes are
  taken (`"lost"`) leaves a gap; after the next acknowledged append every
  `open()` raises, because `_iter_records` wants consecutive LSNs
  (`wal.py:226`) where the design asks for "strictly increasing LSNs"
  (`docs/bptreedb-design.md:684`).
* `fsync_directory` returns normally when it cannot open the directory
  (`fs.py:58`).  With that (`"undirected"`) a power loss can bring the old log
  back, without the records acknowledged since.
* A kill between `touch()` and the write of the meta page leaves a file that
  exists and does not decode: every later `open()` raises (`pager.py:87`).
  `ReopensOnceCreated` starts where the meta page is written.
* The first leaf and the meta page that names it are written in order but
  fsynced together (`pager.py:114`); `MetaNamesRoot` is about kills only.
* `close()` sets the version counter back (`db.py:126`).  An iterator that lives
  through a close and a reopen (`IteratorsOutliveClose`) may not notice as many
  mutations as there had been before; without one `OvertakenRaises` holds.
* On 122-byte pages a leaf with one record is above the threshold, and a right donor
  that gives its only slot away makes `_try_redistribute_slots` raise IndexError
  (`tree.py:800`) where its docstring (`tree.py:782`) has it roll back: six puts of
  one-byte keys and five deletes get there.  The design document wants pages of at
  least 256 bytes (`docs/bptreedb-design.md:464`), where the cap on records keeps a
  leaf with one record below the threshold; the code refuses less than 52 only
  (`pager.py:65`).
* `RoomForRebalancing` is shown for the dirty ratio 1/2.  With 1.0, which
  `docs/bptreedb-design.md:467` allows, `_maybe_checkpoint` never makes room
  and a rebalance raises with its record logged.
* After recovery the pool may stay above its capacity (`cache.py:197`): each load
  evicts one page only.  `PoolStopsGrowing` says that it does not grow further.
* After a flush that failed while pages were split or merged, `DurableStore`,
  `RecoveryRestarts` and `ReopensEventually` are about the object that it failed:
  the application keeps it and goes on, or opens it again (`ends` FALSE).  If it
  dies, or another object takes over, finding 4 applies when the flush was one of
  recovery, and finding 1 otherwise, as part of the pages is in the file.
* `last_checkpoint_lsn` itself need not increase.  When three interruptions hit
  three recoveries in a row, a power loss can bring back a log that ends below the
  meta page's checkpoint LSN, and the checkpoint that ends the next recovery then
  has a smaller LSN than the one before.  No harm comes of it: no client record was
  acknowledged in between, and `AckedAboveCheckpoint` says that none is ever
  acknowledged at or below an LSN that recovery skips.

## Proofs

Eight modules hold theorems; TLAPS checks every one of them.  TLC checks the
same definitions on small instances.

| Module | Theorem | States | Hypotheses besides the constants' assumptions |
|---|---|---|---|
| `WAL_proofs` | `WALInvariant`, `WALTypeCorrect` | `WALInv`, `WALTypeOK` | |
| | `AcknowledgedRecordsSurvive` | `AckedSurvive` | |
| | `LsnsAreNotReused` | `AckedLsnsIncrease` | |
| | `LogStaysReadable` | `LogReadable` | no tails of zeros |
| `WALFaults_proofs` | `FaultsHeld`, `AcknowledgedOutliveFaults` | `HeldInv`, `AckedOutliveFaults` | directory can be opened |
| | `FaultsCount`, `LsnsAreNotReusedDespiteFaults` | `CountInv`, `AckedLsnsIncrease` | also: a failed append leaves its record |
| | `LogStaysReadableDespiteFaults` | `LogOutlivesFaults` | also: no tails of zeros |
| `Pager_proofs` | `PagerInvariant`, `PagerTypeCorrect` | `PagerInv`, `PagerTypeOK` | |
| | `NoPageLeaks`, `TreePagesStayIntact`, `MetaAlwaysNamesRoot` | `PagesOwned`, `TreePagesIntact`, `MetaNamesRoot` | |
| | `PagerImplementsAllocator` | `PagesAllocated`, the refinement of `Allocator` | |
| `Pool_proofs` | `PoolInvariant` | `PoolInv` | |
| | `DirtyPagesAreNotStolen`, `PoolGrowthIsBounded` | `DirtyPagesStay`, `PoolStopsGrowing` | |
| `Codec_proofs` | `TornMetaPagesAreDetected` | `TornMetaIsDetected` | |
| | `FormatInvariant` | `FormatInv` | |
| | `RecordsReadBack` | `YieldsWhatWasWritten` | |
| | `PagesAreReadBack` | `PagesReadBack` | |
| | `TornKindsMatchBytes`, `LogIsWholeFrames` | `TornKindsAreExact`, `ReplayLeavesWholeFrames` | |
| `ScanSpec_proofs` | `ScanInvariant`, `OvertakenIteratorsRaise`, `UnstartedIteratorsYieldNothing` | `ScanInv`, `OvertakenRaises`, `UnstartedYieldsNothing` | no iterator lives through a close |
| `DBRecovery_proofs` | `LsnInvariant`, `AcknowledgedAboveCheckpoint` | `LsnInv`, `AckedAboveCheckpoint` | |
| | `RecoveryInvariant`, `ReplayFindsEverything` | `RecoveryInv`, `ReplayIsComplete` | `[]DBTypeOK` |
| | `DatabaseKeepsItsLog`, `DatabaseLogIsReadable` | `AckedSurvive` and `LogReadable` of the database's own log | `[]DBTypeOK`; for the second no tails of zeros |
| `DBStore_proofs` | `StoreInvariant` | `StoreInv` | `TreeWorks(G)`, `OutsideWindow` |
| | `DatabaseImplementsStore` | `DurableStore`, the refinement of `KVStore` | the same |
| | `NothingIsLost` | `NothingLost`, which `db_window` violates without `OutsideWindow` | the same |
| | `RecoveredTreesAreSound`, `RecoveryAlwaysRestarts` | `RecoveredTreeIsSound`, `RecoveryRestarts` | the same |
| | `DatabaseTypes` | `DBTypeOK` | the same |

The hypotheses are the ones under *Limits of what holds*: each is needed, as TLC
shows on the instance without it.  Three are of another kind:

* **`TreeWorks(G)`**: the tree is correct on a set `G` of images that contains the
  empty one and that puts, deletes and page writes do not leave.  It asks of an
  image of `G` that it is sound and its pages partitioned, that a scan of it yields
  its contents, that a put or delete changes the contents in that one key and the
  pages in the file not at all, and that writing any one page out, or the
  freelist, leaves the contents as they are.  These are the properties that the run
  `tree` checks of the images it reaches, with writes of single pages among its
  actions so that nothing of the hypothesis is left out.  That run is bounded, so
  it supports the hypothesis for its sizes and does not establish it.  They are
  facts about functions that descend a tree of any height, out of the prover's
  reach, and not true of all sizes: on the pages of `tree_mixed` (finding 3) and on
  122-byte pages (*Limits*) an operation raises, and no such `G` exists.  The theorems therefore say:
  on page and record sizes for which the tree by itself is right, the database is
  right, for any number of keys, calls, interruptions and failures.
* **`OutsideWindow`**: no interruption in the checkpoint window, where `db_window`
  shows that keys are lost (finding 1); and an object whose page write failed in
  recovery is opened again, not given up for another one (finding 4).
* **`[]DBTypeOK`** in `DBRecovery_proofs` is used for one thing: that the tree
  hands page ids to the fields of a CHECKPOINT record.  These theorems need nothing
  else of the tree and are not limited to `OutsideWindow`.  `db_crash` checks
  `DBTypeOK` with interruptions in the window as well; under `TreeWorks` and
  `OutsideWindow`, `DatabaseTypes` proves it.

The assumptions on constants are named in the modules that declare them; those
that are more than a type say that a page has room for the meta page's fields
(`PageSize >= 52`), that the pager has room for the meta page and the first leaf
(`MaxPages >= 2`), and that the numbers in the fields of `CodecSpec` and
`LogFormat`, lengths and the page size included, are below 2^24, as far as
`Number` reads a field.

None of the properties is inductive as it stands.  The invariants, and what
each adds:

* **`WALInv`**.  Every file an interruption may leave (the log, its durable part,
  the replaced inodes, the temp file) is *sound*: its LSNs go up by one, only its
  last cell may be torn, it holds all that is needed, and it counts at least to
  the last acknowledged LSN; a running process has only good cells before it once
  `replay` is done, and counts from the last of them; before the fsync of an
  append the file is the durable one and one more cell; stale inodes exist only
  before the first rotation of a session or within one.  The last part is what
  makes a rename without a directory fsync, left by a kill, harmless: `open()`
  rotates again before it lets a client in.
* **`HeldInv`** and **`CountInv`**.  When calls may raise, the file may be ahead of
  its durable part by any number of records, and LSNs need not be consecutive.  So
  the argument comes in two: what is held does not depend on LSNs (`HeldInv`),
  and only for readability and fresh LSNs are the files counted (`CountInv`).
* **`PagerInv`**.  The image in memory, with what the tree has in use and the
  chain of freelist pages, is `Consistent`: page ids below `next` are in use, on
  the chain or listed in exactly one freelist page.  The same holds of the image
  that the next `open()` would build from the file, because a kill may come at any
  time; and the file's creation is accounted for step by step.
* **`PoolInv`**.  Each page is held once, the dirty ones are held, and evictions
  are on outside recovery.  The lemmas go call by call (`TouchedKeeps`,
  `InsertedKeeps`, `MarkedKeeps`, `DroppedKeeps`) and say what any call keeps,
  so nothing is needed of the tree.
* **Meta page** (`MetaInv` and the lemmas before it).  Page 0 is rewritten with meta
  pages only.  The rest is layout: a page torn within its first 48 bytes ends in the
  old checksum, so that if it is accepted its fields are the old ones
  (`ChecksumTells`); torn after them its fields are the new ones; and numbers are
  read from where they were written (`MetaLayout`, `NumberAt`).
* **`FormatInv`**.  The log is a sequence of whole frames at known offsets
  (`Framed`), with a tail behind them of which is said what `DecodeNext` finds
  there (`TailIs`: nothing, too few bytes, a bad checksum, or the frame of length 0
  that raises); and the reader stands behind the first `j` frames and has yielded
  just these (`ReadUpTo`).  Below it lies the layout of a frame field by field
  (`Filled`), that a frame cut short of its last byte is taken for torn, and
  that the concatenation of any number of frames has each of them at its offset
  (`FlattenRecursion`).
* **`PageInv`**.  A page that reaches `encode_page` is a leaf or internal page that
  need not be split, with slots of its kind, or a freelist page with at most
  `MaxFreedIds` ids, and the numbers in its header fit their fields.  The proof
  follows the two ends of a page: the directory grows from byte 32, eight bytes an
  entry (`EntriesAre`), the records from the end of the page, the last one in front
  (`RecordsAre`); `PageLayout` gets where each record starts and what
  `calculate_page_size` adds up from the same running sums, so that a page that is
  not overpopulated has room for both (`TreePageBytes`).  Then each entry leads to
  its record and the record to key, value or child (`SlotReads`).
* **`ScanInv`**.  The version counter is ahead of a live iterator's snapshot by
  exactly the mutations since the iterator was made.
* **`LsnInv`**.  While clients are served, the next LSN lies above the checkpoint
  LSN of the meta page in the file and of the one on the medium.  After an
  interruption it need not; `open()` restores it by its own checkpoint, and the
  invariant follows the LSN through the steps of that checkpoint.
* **`RecoveryInv`**.  The log of the database satisfies `WALInv`; every file that
  may be left of it starts at or before the record after the checkpoint of every
  meta page that may be left (`BackTo`, with the lemmas of *How far back the files
  reach* in `WAL_proofs`); and each phase of the database finds its log in the
  phase that it expects (`PhasesAgree`).  The theorems of `WAL_proofs` are used
  through an instance of that module (`LP`).
* **`StoreInv`**.  Two cases.  *Quiet*: the pages in the file are all there is,
  every meta page that may be left names them, and no log that may be left has an
  operation above their checkpoint.  *Fresh*: an `open()` with the meta page and
  log that are read, over the pages in the file, ends up with the map that clients
  are owed (`Yields`), with the operation under way done or not; and what is in
  memory already is not changed by replaying that log over it once more
  (`Absorbs`).  The second part makes recovery restartable: pages that a failed
  recovery has written, or an object that is opened again over its old pool, are
  ahead of the meta page.  Both rest on `Leads`, which says what a log makes of a
  map key by key (the last record of a key counts) and is closed under appending
  and repeating.  A checkpoint goes from Fresh to Quiet with the fsync of its meta
  page (`FreshSyncMeta`), and the end of the rotation back (`QuietRotateSync`).
  The refinement maps the map that is owed to the variable of `KVStore`, and an
  interruption to its crash.

Where an argument wants the least of a set of positions or LSNs, `LeastNatural`
and `LeastPlace` get it from the well-foundedness of the naturals; this replaces
the induction over naturals that the provers cannot do.  The same argument gives
what the recursive functions of the model compute (`RedoneRecursion` for the
replay, `FlattenRecursion` for concatenations, `SumsExist` for sizes): a least
step at which the claim fails cannot exist, as the claim holds one step earlier.

Only model-checked:

* what the tree computes (`TreeTypeOK`, `Answers`, `ScanComplete`,
  `TreeInvariants`, `PagesAccounted`, `NeverRaises`, `ScanExact`,
  `UnstartedRaisesUnlessEmpty`), and what the
  pool does for it (`PoolHoldsTreePages`, `ChangedPagesAreDirty`,
  `RoomForRebalancing`).  They need induction over the height of a tree, with the
  sizes of all pages on a path in the hypothesis, and the library's induction
  theorems take an operator as parameter, which no installed prover can
  instantiate;
* liveness (`ReopensEventually`, `ReplayEnds`, `ReopensOnceCreated`, `ScanEnds`):
  fairness and `ENABLED` are out of the prover's reach.

## Not modelled

* The calls after an operation whose tree step raised with its record logged:
  `RoomForRebalancing` and `NeverRaises` say when that does not happen.
* In `DBFaults`, failures other than of page writes in a flush: an fsync that
  fails, and a second failure in the clean-up of the first.  In `WALFaults`, an
  fsync that fails after the kernel has dropped the pages.
* A power loss during the creation of the page file.
* Torn data pages, which the program does not claim to survive.
* A file opened with another page size than it was created with.
* Statistics, argument type checks, message texts, exception classes, the
  `F_FULLFSYNC` fallback of `fs.py`, the benchmark script.

## Plan

Trees with keys of mixed lengths on page sizes for which the tree is sound: which
sizes these are is the open half of `TreeWorks`.
