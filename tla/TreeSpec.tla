------------------------------ MODULE TreeSpec ------------------------------
(***************************************************************************)
(* One client of the tree (db.py put, get, delete, scan and checkpoint,    *)
(* without the log): every history of operations on trees that a first     *)
(* script of operations has built.                                         *)
(***************************************************************************)
EXTENDS TreeDebug

CONSTANT
    Scenarios    \* how a tree is built and used: records with
                 \*   script   the operations, oldest first, that build it
                 \*   puts     the <<key, value>> this client puts ...
                 \*   deletes  ... and the keys it deletes
                 \*   maxOps   bound on the operations after the script

VARIABLES
    im,          \* the image: meta, dirty pages and file
    kv,          \* ghost: kv[k] = {v} if k has the value v, {} if it has none
    scenario,    \* the scenario, which never changes
    todo,        \* what is left to do of its script
    ops          \* operations done after the script

treeVars == <<im, kv, scenario, todo, ops>>

\* An operation is <<"put", k, v>>, <<"delete", k>> or <<"checkpoint">>.
ApplyToImage(image, op) ==
    CASE op[1] = "put" -> Insert(image, op[2], op[3])
      [] op[1] = "delete" -> Delete(image, op[2])
      [] op[1] = "checkpoint" -> FlushImage(image)

ApplyToMap(map, op) ==
    CASE op[1] = "put" -> [map EXCEPT ![op[2]] = {op[3]}]
      [] op[1] = "delete" -> [map EXCEPT ![op[2]] = {}]
      [] op[1] = "checkpoint" -> map

Init ==
    /\ im = EmptyImage
    /\ kv = [k \in Keys |-> {}]
    /\ scenario \in Scenarios /\ todo = scenario.script
    /\ ops = 0

Do(op) ==
    /\ im.err = "none"
    /\ im' = ApplyToImage(im, op)
    /\ kv' = ApplyToMap(kv, op)

\* The script runs first.
Build ==
    /\ todo # <<>>
    /\ Do(Head(todo))
    /\ todo' = Tail(todo)
    /\ UNCHANGED <<scenario, ops>>

Called ==
    /\ todo = <<>> /\ ops < scenario.maxOps
    /\ ops' = ops + 1
    /\ UNCHANGED <<scenario, todo>>

Call(op) == Called /\ Do(op)

\* DB.put refuses a record that is too large before it does anything.
Put(k, v) == RecordFits(k, v) /\ Call(<<"put", k, v>>)

\* DB.delete looks the key up first, and returns when it is not there.
DeleteKey(k) == Search(im, k) # {} /\ Call(<<"delete", k>>)

\* Pages go to the file, and the client notices nothing.
Write(image) ==
    /\ Called
    /\ im.err = "none" /\ im' = image
    /\ UNCHANGED kv

Checkpoint == DOMAIN im.pool # {} /\ Write(FlushImage(im))

\* flush_all writes a page, and the next one cannot be written: the client goes
\* on with an image of which part is in the file.
WritePage(id) == Write(PageWritten(im, id))

WriteFreelistPage == DOMAIN im.pool = {} /\ DOMAIN im.fl # {} /\ Write(FreelistPageWritten(im))

\* open() has failed in its checkpoint: pager.close() writes the freelist, and
\* the pool keeps the pages of the tree for the next open().
WriteFreelist == DOMAIN im.fl # {} /\ Write(FreelistWritten(im))

Next ==
    \/ Build
    \/ \E put \in scenario.puts : Put(put[1], put[2])
    \/ \E k \in scenario.deletes : DeleteKey(k)
    \/ Checkpoint
    \/ \E id \in DOMAIN im.pool : WritePage(id)
    \/ WriteFreelistPage \/ WriteFreelist

Spec == Init /\ [][Next]_treeVars

-----------------------------------------------------------------------------

\* Page ids, page types and the reference map stay in range.
TreeTypeOK ==
    /\ im.root \in 1..(im.next - 1) /\ im.flhead \in 0..(im.next - 1)
    /\ DOMAIN im.pool \cup DOMAIN im.fl \cup DOMAIN im.disk \subseteq 1..(im.next - 1)
    /\ \A id \in DOMAIN im.pool : im.pool[id].type \in {"leaf", "internal"}
    /\ \A id \in DOMAIN im.fl : im.fl[id].type = "freelist"
    /\ kv \in [Keys -> SUBSET Values] /\ ops \in 0..scenario.maxOps

\* "Unreachable" (the end of _redistribute_or_merge_page): an underpopulated
\* page can always take slots from a sibling or be merged with one.
AlwaysRebalances == im.err # "AssertionError"

\* No put and no delete raises: a donor of slots does not run out of them, an
\* underpopulated page finds a sibling to borrow from or to merge with.
NeverRaises == im.err = "none"

\* get() returns what the last put or delete of the key left, whatever splits,
\* merges and redistributions moved it since.
Answers == im.err = "none" => Contents(im) = kv

\* scan(start, None) yields exactly the present keys from start on, in order:
\* every split and merge has kept the chain of right siblings whole.
ScanComplete == im.err = "none" => \A k \in Keys : Scan(im, k) = SortedFrom(kv, k)

\* What assert_tree_invariants of debug.py checks after each step of the tests.
TreeInvariants == im.err = "none" => TreeIsSound(im)

\* No page leaks and none is handed out while it is in use.
PagesAccounted == im.err = "none" => PagesPartitioned(im)

=============================================================================
