------------------------------ MODULE ScanSpec ------------------------------
(***************************************************************************)
(* An iterator of DB.scan beside the calls of the same client (db.py scan, *)
(* tree.py scan): the generator runs only inside next(), so puts, deletes, *)
(* checkpoints, a close and a reopen happen between two of its yields, and *)
(* the version counter is what tells it of them.                           *)
(***************************************************************************)
EXTENDS TreeSpec

CONSTANTS
    Ranges,                 \* the <<start, end>> scanned; end 0 is None
    IteratorsOutliveClose   \* whether a client closes under a live iterator

VARIABLES
    version,     \* DB._version_counter
    opened,      \* DB.is_opened
    muts,        \* ghost: puts and deletes done, never reset
    it           \* the iterator

scanVars == <<treeVars, version, opened, muts, it>>

-----------------------------------------------------------------------------

\* `page' is the LeafPage the generator holds, `leaf' its id and `idx' the
\* slots passed; `made', `begun' and `map' are ghosts: muts when scan() was
\* called, muts and the contents when the first next() ran.
NoIterator ==
    [state |-> "none", range |-> <<1, 0>>, snapshot |-> 0, leaf |-> 0, page |-> Leaf(0, <<>>),
     idx |-> 0, out |-> <<>>, made |-> 0, begun |-> 0, map |-> <<>>]

Live == it.state \in {"new", "running"}

\* The end of the half-open range; 0 stands for None.
PastEnd(key) == it.range[2] # 0 /\ key >= it.range[2]

\* The generator's loop from slot idx of a page: the slot it would look at
\* next, on this leaf or on one further right, {} at the end of the chain.
NextSlot(leaf, page, idx) ==
    LET right == [id \in 1..im.next |->
                    IF PageAt(im, id).type = "leaf" THEN PageAt(im, id).right ELSE 0]
        chain[n \in 1..im.next] ==
            IF n = 1 THEN page.right ELSE (right @@ (0 :> 0))[chain[n - 1]]
        hops == {n \in 1..im.next : chain[n] # 0 /\ PageAt(im, chain[n]).slots # <<>>}
    IN IF idx < Len(page.slots) THEN {[leaf |-> leaf, page |-> page, idx |-> idx]}
       ELSE {[leaf |-> id, page |-> PageAt(im, id), idx |-> 0] :
                id \in {chain[n] : n \in {n \in hops : \A m \in hops : n <= m}}}

\* The leaf and the slot to begin with: found when the first next() runs.
Begin ==
    LET id == FindLeaf(im, it.range[1]).id
    IN [leaf |-> id, page |-> PageAt(im, id),
        idx |-> BisectLeft(PageAt(im, id).slots, it.range[1])]

\* Where a suspended generator goes on: on the leaf as it was when the pool
\* has dropped the page since, else on the leaf as it is.
Resume == {[leaf |-> it.leaf, page |-> page, idx |-> it.idx] : page \in {it.page, PageAt(im, it.leaf)}}

Ends(state) == it' = [it EXCEPT !.state = state]

-----------------------------------------------------------------------------

ScanInit ==
    /\ Init
    /\ version = 0 /\ opened = TRUE /\ muts = 0 /\ it = NoIterator

BuildTree == Build /\ version' = version + 1 /\ UNCHANGED <<opened, muts, it>>

\* Mutant: delete does not count as a modification.
ChangedByPutOnly ==
    /\ opened
    /\ version' = IF kv' = kv \/ \E k \in Keys : kv[k] # {} /\ kv'[k] = {}
                  THEN version ELSE version + 1
    /\ muts' = muts + 1
    /\ UNCHANGED <<opened, it>>

\* put and delete count every change, the put of an equal value included.
Changed ==
    /\ opened
    /\ version' = version + 1
    /\ muts' = muts + 1
    /\ UNCHANGED <<opened, it>>

PutKey(k, v) == Put(k, v) /\ Changed
RemoveKey(k) == DeleteKey(k) /\ Changed

Flush == opened /\ Checkpoint /\ UNCHANGED <<version, opened, muts, it>>

\* scan(): the version is taken at once, nothing is read.
StartScan(range) ==
    /\ opened /\ todo = <<>> /\ it.state = "none"
    /\ it' = [NoIterator EXCEPT !.state = "new", !.range = range,
                                !.snapshot = version, !.made = muts]
    /\ UNCHANGED <<treeVars, version, opened, muts>>

\* Mutant: the version is looked at after a yield only.
AdvanceUnchecked ==
    \E p \in IF it.state = "new" THEN {Begin} ELSE Resume :
        LET begun == IF it.state = "new" THEN [it EXCEPT !.begun = muts, !.map = kv] ELSE it
            slots == {q \in NextSlot(p.leaf, p.page, p.idx) : ~PastEnd(q.page.slots[q.idx + 1].key)}
        IN IF slots = {} THEN it' = [begun EXCEPT !.state = "done"]
           ELSE \E q \in slots :
                    it' = [begun EXCEPT !.state = "running", !.leaf = q.leaf, !.page = q.page,
                                        !.idx = q.idx + 1, !.out = Append(@, q.page.slots[q.idx + 1])]

\* On to the next slot, where the end of the range is looked at before the
\* version is.
Advance ==
    \E p \in IF it.state = "new" THEN {Begin} ELSE Resume :
        LET begun == IF it.state = "new" THEN [it EXCEPT !.begun = muts, !.map = kv] ELSE it
            slots == {q \in NextSlot(p.leaf, p.page, p.idx) : ~PastEnd(q.page.slots[q.idx + 1].key)}
        IN IF slots = {} THEN it' = [begun EXCEPT !.state = "done"]
           ELSE IF version # it.snapshot THEN Ends("raised")
           ELSE \E q \in slots :
                    it' = [begun EXCEPT !.state = "running", !.leaf = q.leaf, !.page = q.page,
                                        !.idx = q.idx + 1, !.out = Append(@, q.page.slots[q.idx + 1])]

\* Mutant: no check after the yield.
NextItemUnchecked ==
    /\ Live
    /\ Advance
    /\ UNCHANGED <<treeVars, version, opened, muts>>

\* Mutant: the generator's loop has no end at the last leaf.
NextItemEndless ==
    /\ Live
    /\ IF it.state = "running" /\ version # it.snapshot THEN Ends("raised") ELSE Advance
    /\ it'.state # "done"
    /\ UNCHANGED <<treeVars, version, opened, muts>>

\* next(): the check after the last yield comes first.
NextItem ==
    /\ Live
    /\ IF it.state = "running" /\ version # it.snapshot THEN Ends("raised") ELSE Advance
    /\ UNCHANGED <<treeVars, version, opened, muts>>

\* close(): the last checkpoint, and the version counter goes back to 0.
Close ==
    /\ opened /\ todo = <<>>
    /\ IteratorsOutliveClose \/ ~Live
    /\ opened' = FALSE /\ version' = 0
    /\ im' = FlushImage(im)
    /\ UNCHANGED <<kv, scenario, todo, ops, muts, it>>

\* open() of the same object, with nothing to replay.
Reopen ==
    /\ ~opened
    /\ opened' = TRUE
    /\ UNCHANGED <<treeVars, version, muts, it>>

ScanNext ==
    \/ BuildTree
    \/ \E put \in scenario.puts : PutKey(put[1], put[2])
    \/ \E k \in scenario.deletes : RemoveKey(k)
    \/ Flush
    \/ \E range \in Ranges : StartScan(range)
    \/ NextItem
    \/ Close \/ Reopen

\* The consumer of the iterator goes on calling next().
ScanFairSpec == ScanInit /\ [][ScanNext]_scanVars /\ WF_scanVars(NextItem)

-----------------------------------------------------------------------------

\* The key/value pairs of a range.
RangeOf(map, range) ==
    {LeafSlot(k, CHOOSE v \in map[k] : TRUE) :
        k \in {k \in DOMAIN map : map[k] # {} /\ k >= range[1] /\ (range[2] = 0 \/ k < range[2])}}

\* What an iterator has yielded is the front of its range as it was when the
\* first next() ran, and all of it once the iterator has ended: whatever
\* splits, merges and checkpoints happened between two calls of next(), it
\* never mixes two states of the tree, skips a key or yields one twice.
ScanExact ==
    it.state \in {"running", "done"} =>
        /\ \A i \in 2..Len(it.out) : it.out[i - 1].key < it.out[i].key
        /\ ToSet(it.out) = {s \in RangeOf(it.map, it.range) :
                                it.state = "done" \/ s.key <= Last(it.out).key}

\* "If the database is mutated by another put/delete during iteration" (the
\* exception scan documents): an iterator that has yielded does nothing else
\* than raise after a put or a delete.
OvertakenRaises ==
    [][(it.state = "running" /\ muts # it.begun /\ it' # it) => it'.state = "raised"]_scanVars

\* The first next() of an iterator that puts or deletes have overtaken.
UnstartedOvertaken == it.state = "new" /\ muts # it.made /\ it' # it

\* "a mutation between iterator construction and the first `next()` raises", as
\* the documents say of the check before the yield.  The code violates it: with no
\* slot left in the range the generator returns before it comes to the check.
UnstartedRaises == [][UnstartedOvertaken => it'.state = "raised"]_scanVars

\* What the first next() does in place of that: it raises if and only if the
\* range has a key by then, and otherwise ends.  So the answer is of the tree as
\* it is, and no key from before or after the mutation gets out.
UnstartedRaisesUnlessEmpty ==
    [][UnstartedOvertaken =>
        it'.state = IF RangeOf(kv, it.range) = {} THEN "done" ELSE "raised"]_scanVars

\* Either way it yields nothing.
UnstartedYieldsNothing == [][UnstartedOvertaken => it'.out = <<>>]_scanVars

\* An iterator that is consumed comes to its end, or raises: the chain of
\* leaves it follows leads out of every leaf.
ScanEnds == (it.state \in {"new", "running"}) ~> (it.state \in {"done", "raised"})

=============================================================================
