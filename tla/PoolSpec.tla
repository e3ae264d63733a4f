------------------------------ MODULE PoolSpec ------------------------------
(***************************************************************************)
(* The tree above a buffer pool of bounded capacity (tree.py, cache.py,    *)
(* and the checkpoints of db.py that keep room in the pool).  Every        *)
(* operation runs on the image, as in TreeSpec, and makes its calls to the *)
(* pool one by one in the order of the code: the pages of the descent, and *)
(* per round of the rebalancing the pages that are loaded, created, marked *)
(* dirty and dropped.                                                      *)
(***************************************************************************)
EXTENDS TreeDebug, BufferPool

CONSTANTS
    DirtyNum, DirtyDen,  \* checkpoint_dirty_page_ratio = DirtyNum / DirtyDen
    Scripts,             \* the histories that build a tree
    PutKeys, DeleteKeys, GetKeys,
    MaxOps,              \* bound on the operations after the script
    MaxRestarts          \* bound on the restarts

ASSUME RatioAssumption == DirtyNum \in Nat /\ DirtyDen \in Nat \ {0}

VARIABLES
    im,          \* the image
    bp,          \* the buffer pool
    log,         \* the puts and deletes since the last checkpoint
    saved,       \* the image of the last checkpoint
    todo,        \* what is left of the script, or of the log that is replayed
    op,          \* the operation in hand, or <<>> between two operations
    queue,       \* the calls to the pool it has yet to make
    phase,       \* "building", "recovering" or "open"
    ops, restarts

poolVars == <<im, bp, log, saved, todo, op, queue, phase, ops, restarts>>

-----------------------------------------------------------------------------
(* The calls the tree makes to the pool. *)

\* _find_leaf.
DescentCalls(found) ==
    [n \in DOMAIN found.path |-> <<"get", found.path[n].parent>>] \o <<<<"get", found.id>>>>

\* _split_page: the page first, then its new sibling, then the parent.
SplitCalls(image, id, parentId) ==
    <<<<"mark", id>>, <<"insert", AllocatedId(image)>>>>
        \o IF parentId = 0 THEN <<<<"insert", AllocatedId(AllocatePage(image))>>>>
           ELSE <<<<"get", parentId>>>>

\* _determine_same_parent_siblings loads both siblings before one is used.
SiblingIds(parent, pos) ==
    (IF pos > 0 THEN <<Child(parent, pos - 1)>> ELSE <<>>)
        \o (IF pos < Len(parent.slots) THEN <<Child(parent, pos + 1)>> ELSE <<>>)

ChildIds(page) == {Child(page, j) : j \in 0..Len(page.slots)}

\* _redistribute_or_merge_page, with the image before and after it.
RedistributeOrMergeCalls(before, after, id, item) ==
    LET parent == PageAt(before, item.parent)
        siblings == SiblingIds(parent, item.pos)
        loads == <<<<"get", item.parent>>>> \o [i \in DOMAIN siblings |-> <<"get", siblings[i]>>]
        collapsed == after.im.root # before.root
        left == IF collapsed THEN {after.im.root} ELSE ChildIds(PageAt(after.im, item.parent))
        gone == ChildIds(parent) \ left
        from == CHOOSE i \in gone : TRUE
        into == Child(parent, CHOOSE j \in 0..(Len(parent.slots) - 1) : Child(parent, j + 1) = from)
        donor == CHOOSE i \in ToSet(siblings) : PageAt(after.im, i) # PageAt(before, i)
    IN loads \o
       IF after.im.err # "none" THEN <<>>
       ELSE IF gone # {}
       THEN <<<<"mark", into>>, <<"mark", item.parent>>, <<"delete", from>>>>
                \o (IF collapsed THEN <<<<"delete", item.parent>>>> ELSE <<>>)
       ELSE <<<<"mark", id>>, <<"mark", donor>>>>
                \o (IF after.at = 0 THEN <<<<"mark", item.parent>>>> ELSE <<>>)

\* One round of _balance_and_write_tree.
RoundCalls(c, item, after) ==
    LET page == PageAt(c.im, c.at)
    IN IF c.at = 0 THEN <<>>
       ELSE IF Overpopulated(page) THEN SplitCalls(c.im, c.at, item.parent)
       ELSE IF Underpopulated(page) /\ c.at # c.im.root
       THEN RedistributeOrMergeCalls(c.im, after, c.at, item)
       ELSE <<<<"mark", c.at>>>>

\* The cascade on the image, with the calls of each round to the pool.
Pooled(c, item, after) ==
    [im |-> after.im, at |-> after.at, calls |-> c.calls \o RoundCalls(c, item, after)]

PooledStep(c, item) == Pooled(c, item, BalanceStep([im |-> c.im, at |-> c.at], item))

\* The leaf after the operation, before any rebalancing.
ChangedLeaf(page, o) ==
    LET i == BisectLeft(page.slots, o[2]) + 1
    IN [page EXCEPT !.slots =
            IF o[1] = "delete" THEN RemoveAt(@, i)
            ELSE IF HasKeyAt(@, i, o[2]) THEN [@ EXCEPT ![i].value = o[3]]
            ELSE InsertAt(@, i, LeafSlot(o[2], o[3]))]

MutateAt(image, found, o) ==
    FoldLeft(PooledStep,
             [im |-> PutPage(image, found.id, ChangedLeaf(PageAt(image, found.id), o)),
              at |-> found.id,
              calls |-> DescentCalls(found)],
             Reverse(found.path) \o <<NoParent, NoParent>>)

\* insert or delete, from the descent on.
Mutate(image, o) == MutateAt(image, FindLeaf(image, o[2]), o)

-----------------------------------------------------------------------------

\* dirty_ratio > checkpoint_dirty_page_ratio.
TooDirty(pool) == Cardinality(pool.dirty) * DirtyDen > DirtyNum * Capacity

\* Mutant: no checkpoint before the operation, only after it.
MaybeCheckpointNever(s) == s

\* _maybe_checkpoint, on what the operation has made so far.
MaybeCheckpoint(s) ==
    IF TooDirty(s.bp)
    THEN [im |-> FlushImage(s.im), bp |-> FlushedPool(s.bp), log |-> <<>>, saved |-> FlushImage(s.im)]
    ELSE s

Current == [im |-> im, bp |-> bp, log |-> log, saved |-> saved]

Becomes(s) == im' = s.im /\ bp' = s.bp /\ log' = s.log /\ saved' = s.saved

Healthy == bp.err = "none" /\ im.err = "none"

\* No call to the pool is outstanding.
Settled == Healthy /\ queue = <<>>

Idle == op = <<>> /\ Settled

-----------------------------------------------------------------------------

PoolInit ==
    /\ im = EmptyImage /\ saved = EmptyImage
    /\ bp = EmptyPool /\ log = <<>> /\ op = <<>> /\ queue = <<>>
    /\ todo \in Scripts /\ phase = "building"
    /\ ops = 0 /\ restarts = 0

\* The next call of the operation to the pool; a call that raises is the last.
PoolCall ==
    /\ Healthy /\ queue # <<>>
    /\ bp' = Access(bp, Head(queue))
    /\ queue' = Tail(queue)
    /\ UNCHANGED <<im, log, saved, todo, op, phase, ops, restarts>>

\* The first half of put, and of delete once the key was found: room in the
\* pool, then the record.
Begin(o) ==
    /\ Becomes([MaybeCheckpoint(Current) EXCEPT !.log = Append(@, o)])
    /\ op' = o
    /\ UNCHANGED queue

\* The script, as the client's first operations.
Build ==
    /\ phase = "building" /\ Idle /\ todo # <<>>
    /\ Begin(Head(todo))
    /\ todo' = Tail(todo)
    /\ UNCHANGED <<phase, ops, restarts>>

Ready ==
    /\ phase = "building" /\ Idle /\ todo = <<>>
    /\ phase' = "open"
    /\ UNCHANGED <<im, bp, log, saved, todo, op, queue, ops, restarts>>

Call == phase = "open" /\ Idle /\ ops < MaxOps /\ ops' = ops + 1 /\ UNCHANGED <<todo, phase, restarts>>

Put(k, v) == Call /\ Begin(<<"put", k, v>>)

\* search, which get is all of and delete starts with.
Find(k, o) ==
    /\ Call
    /\ queue' = DescentCalls(FindLeaf(im, k)) /\ op' = o
    /\ UNCHANGED <<im, bp, log, saved>>

Get(k) == Find(k, <<"get", k>>)

DeleteKey(k) == Search(im, k) # {} /\ Find(k, <<"find", k>>)

\* delete has found the key.
Found ==
    /\ Settled /\ op # <<>> /\ op[1] = "find"
    /\ Begin(<<"delete", op[2]>>)
    /\ UNCHANGED <<todo, phase, ops, restarts>>

\* The second half: the tree changes, with its calls to the pool.
ChangeTree ==
    /\ Settled /\ op # <<>> /\ op[1] \in {"put", "delete"}
    /\ LET done == Mutate(im, op) IN im' = done.im /\ queue' = done.calls
    /\ op' = <<"return">>
    /\ UNCHANGED <<bp, log, saved, todo, phase, ops, restarts>>

\* The checkpoint that may be due after it; get makes none, nor does
\* _apply_wal_record.
Return ==
    /\ Settled /\ op # <<>> /\ op[1] \in {"get", "return"}
    /\ Becomes(IF phase = "recovering" \/ op[1] = "get" THEN Current ELSE MaybeCheckpoint(Current))
    /\ op' = <<>>
    /\ UNCHANGED <<todo, queue, phase, ops, restarts>>

\* A kill, and open() up to the replay: the pool is new and evicts nothing.
Restart ==
    /\ phase = "open" /\ Healthy /\ restarts < MaxRestarts
    /\ phase' = "recovering" /\ restarts' = restarts + 1
    /\ im' = saved /\ bp' = [EmptyPool EXCEPT !.evicting = FALSE]
    /\ todo' = log /\ op' = <<>> /\ queue' = <<>>
    /\ UNCHANGED <<log, saved, ops>>

\* The next record of the log.
Redo ==
    /\ phase = "recovering" /\ Idle /\ todo # <<>>
    /\ op' = Head(todo) /\ todo' = Tail(todo)
    /\ UNCHANGED <<im, bp, log, saved, queue, phase, ops, restarts>>

\* Evictions are on again, and recovery ends with a checkpoint.
Recovered ==
    /\ phase = "recovering" /\ Idle /\ todo = <<>>
    /\ phase' = "open"
    /\ im' = FlushImage(im) /\ saved' = FlushImage(im) /\ log' = <<>>
    /\ bp' = [FlushedPool(bp) EXCEPT !.evicting = TRUE]
    /\ UNCHANGED <<todo, op, queue, ops, restarts>>

PoolNext ==
    \/ PoolCall \/ Build \/ Ready
    \/ \E k \in PutKeys, v \in Values : Put(k, v)
    \/ \E k \in DeleteKeys : DeleteKey(k)
    \/ \E k \in GetKeys : Get(k)
    \/ Found \/ ChangeTree \/ Return \/ Restart \/ Redo \/ Recovered

PoolSpecification == PoolInit /\ [][PoolNext]_poolVars

-----------------------------------------------------------------------------

\* The pool holds each page once and, between two operations, pages of the tree
\* only: a page that a merge or a root collapse has freed has left the pool, so
\* that insert finds the id new ("assert page_id not in self._cache") when
\* allocate_page hands it out again, and a page that is loaded is the one the
\* tree means.
PoolHoldsTreePages ==
    /\ IsInjective(bp.order)
    /\ bp.dirty \subseteq ToSet(bp.order)
    /\ Settled => ToSet(bp.order) \subseteq TreePages(im)

\* Every page an operation has changed is held dirty in the pool when the
\* operation returns, and nothing else is dirty: mark_dirty was called for
\* each of them, none had been evicted, and NO-STEAL keeps them until the
\* next checkpoint.
ChangedPagesAreDirty == Settled => bp.dirty = DOMAIN im.pool

\* NO-STEAL: a dirty page stays in the pool, and dirty, until a checkpoint has
\* written it, the tree has freed it, or the process has ended.  No load makes
\* room at its expense, whatever the pool holds.
DirtyPagesStay ==
    [][\A id \in bp.dirty :
          \/ id \in bp'.dirty /\ Holds(bp', id)
          \/ saved' = FlushImage(im)
          \/ queue # <<>> /\ Head(queue)[1] = "delete" /\ Head(queue)[2] = id
          \/ restarts' # restarts]_poolVars

\* "Make sure the buffer pool has room for the pages that may be touched by
\* tree rebalancing" (put): no operation runs out of clean pages to evict and
\* none finds a page evicted that it has changed and is about to mark dirty.
RoomForRebalancing == bp.err = "none"

\* While the database is open, no call grows a pool beyond its capacity: every
\* load and every insert into a full pool evicts a page first.
PoolStopsGrowing ==
    [][phase = "open" /\ phase' = "open" /\ Len(bp.order') > Len(bp.order)
        => Len(bp.order') <= Capacity]_poolVars

=============================================================================
