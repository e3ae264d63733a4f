----------------------------- MODULE TreeDebug -----------------------------
(***************************************************************************)
(* Walking an image and judging its shape, as debug.py does for the tests. *)
(***************************************************************************)
EXTENDS BPlusTree

Children(image, id) ==
    LET page == PageAt(image, id)
    IN IF page.type = "internal" THEN {Child(page, j) : j \in 0..Len(page.slots)} ELSE {}

\* bfs_walk_tree, from any page: Levels(image, id)[n] are the pages n below it.
Levels(image, id) ==
    LET level[n \in 0..MaxHeight] ==
            IF n = 0 THEN {id} ELSE UNION {Children(image, c) : c \in level[n - 1]}
    IN level

Subtree(image, id) == UNION Range(Levels(image, id))

KeysBelow(image, id) ==
    UNION {LET page == PageAt(image, c)
           IN IF page.type = "leaf" THEN {page.slots[i].key : i \in DOMAIN page.slots} ELSE {}
           : c \in Subtree(image, id)}

TreePages(image) == Subtree(image, image.root)

\* The pages that hold the freelist, from its head on.
Trunk(image) ==
    LET trunk[n \in 1..image.next] ==
            IF n = 1 THEN image.flhead
            ELSE IF trunk[n - 1] = 0 THEN 0 ELSE FreelistPageAt(image, trunk[n - 1]).next
    IN SelectSeq(trunk, LAMBDA id : id # 0)

FreedIds(image) ==
    FlattenSeq([i \in DOMAIN Trunk(image) |-> FreelistPageAt(image, Trunk(image)[i]).freed])

SortedFrom(map, start) ==
    LET present(k) == k \in DOMAIN map /\ k >= start /\ map[k] # {}
        order == SelectSeq([k \in 1..Max(Keys) |-> k], present)
    IN [i \in 1..Len(order) |-> LeafSlot(order[i], CHOOSE v \in map[order[i]] : TRUE)]

-----------------------------------------------------------------------------

\* What get() answers for every key: {v}, or {} for None.
Contents(image) == [k \in Keys |-> Search(image, k)]

\* The end of assert_tree_invariants: every leaf points at the next one in key
\* order.
LeavesChained(image) ==
    LET leaves == {id \in TreePages(image) : PageAt(image, id).type = "leaf"}
        first(id) == PageAt(image, id).slots[1].key
    IN \A a, b \in leaves :
        a # b /\ first(a) < first(b) /\ ~(\E c \in leaves : first(a) < first(c) /\ first(c) < first(b))
            => PageAt(image, a).right = b

\* assert_tree_invariants: sorted slots, leaves on one level, fill of every
\* page but the root, separators that part the keys of the subtrees next to
\* them, and the chain of leaves.  And every page fits the page size
\* encode_page will be given.
TreeIsSound(image) ==
    /\ \A n \in 0..MaxHeight : \A a, b \in Levels(image, image.root)[n] :
            PageAt(image, a).type = PageAt(image, b).type
    /\ \A id \in TreePages(image) :
        LET page == PageAt(image, id)
        IN /\ page.type \in {"leaf", "internal"}
           /\ id # image.root => ~Underpopulated(page)
           /\ ~Overpopulated(page)
           /\ \A i \in 2..Len(page.slots) : page.slots[i - 1].key <= page.slots[i].key
           /\ page.type = "internal" =>
                \A j \in DOMAIN page.slots :
                    /\ \A k \in KeysBelow(image, Child(page, j - 1)) : k < page.slots[j].key
                    /\ \A k \in KeysBelow(image, Child(page, j)) : k >= page.slots[j].key
    /\ LeavesChained(image)

\* Every page below next_page_id is in exactly one place: the tree, the chain
\* of freelist pages, or the ids listed in them.
PagesPartitioned(image) ==
    LET free == Trunk(image) \o FreedIds(image)
    IN /\ TreePages(image) \cup ToSet(free) = 1..(image.next - 1)
       /\ Cardinality(TreePages(image)) + Len(free) = image.next - 1

=============================================================================
