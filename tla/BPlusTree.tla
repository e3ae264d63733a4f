------------------------------ MODULE BPlusTree ------------------------------
(***************************************************************************)
(* The algorithms of tree.py as functions from an image to an image:       *)
(* descent, insertion, deletion, the rebalancing cascade and the scan of   *)
(* the leaf chain.                                                         *)
(*                                                                         *)
(* A child is named by its position 0..Len(slots) under its parent: 0 is   *)
(* leftmost_child_page_id and j is the child of slot j.                    *)
(***************************************************************************)
EXTENDS Pages

CONSTANT MaxHeight    \* bound on the levels a descent goes through

ASSUME TreeAssumption == MaxHeight \in Nat

-----------------------------------------------------------------------------
(* Looking things up. *)

BisectLeft(slots, k) == Cardinality({i \in DOMAIN slots : slots[i].key < k})
\* Mutant: a key equal to a separator goes to the left of it.
BisectBeforeEqual(slots, k) == BisectLeft(slots, k)

BisectRight(slots, k) == Cardinality({i \in DOMAIN slots : slots[i].key <= k})

Child(page, j) == IF j = 0 THEN page.leftmost ELSE page.slots[j].child

\* _find_leaf: the page reached and the parents passed on the way, each with
\* the position of the child that was followed.
FindLeaf(im, k) ==
    LET at[n \in 0..MaxHeight] ==
            IF n = 0 THEN im.root
            ELSE LET page == PageAt(im, at[n - 1])
                 IN IF page.type = "internal"
                    THEN Child(page, BisectRight(page.slots, k)) ELSE at[n - 1]
        levels == {n \in 0..MaxHeight : PageAt(im, at[n]).type = "internal"}
        depth == Cardinality(levels)
    IN [id |-> IF depth > MaxHeight THEN 0 ELSE at[depth],
        path |-> [n \in 1..depth |->
                    [parent |-> at[n - 1],
                     pos |-> BisectRight(PageAt(im, at[n - 1]).slots, k)]]]

HasKeyAt(slots, i, k) == i <= Len(slots) /\ slots[i].key = k

\* search: {value}, {} for None.  Raises when the descent ends on no leaf.
Search(im, k) ==
    LET slots == PageAt(im, FindLeaf(im, k).id).slots
        i == BisectLeft(slots, k) + 1
    IN IF HasKeyAt(slots, i, k) THEN {slots[i].value} ELSE {}

\* scan(start, None), run to its end: the leaf chain from the leaf of the
\* start key on.  A chain longer than the page count has a cycle; the code
\* would not stop there.
Scan(im, start) ==
    LET first == FindLeaf(im, start).id
        leaf[n \in 1..im.next] ==
            IF n = 1 THEN first
            ELSE IF leaf[n - 1] = 0 THEN 0
            ELSE LET page == PageAt(im, leaf[n - 1])
                 IN IF page.type = "leaf" THEN page.right ELSE 0
        slotsOf(n) ==
            IF leaf[n] = 0 THEN <<>>
            ELSE LET slots == PageAt(im, leaf[n]).slots
                 IN IF n = 1 THEN SubSeq(slots, BisectLeft(slots, start) + 1, Len(slots))
                    ELSE slots
    IN FlattenSeq([n \in 1..im.next |-> slotsOf(n)])

-----------------------------------------------------------------------------
(* Splitting. *)

\* The two pages a split of `page' at m makes: the slots up to m and the rest.
\* An internal page gives its slot m + 1 up to the parent.
LeftHalf(page, m) == [page EXCEPT !.slots = SubSeq(@, 1, m)]

RightHalf(page, m) ==
    IF page.type = "leaf"
    THEN Leaf(page.right, SubSeq(page.slots, m + 1, Len(page.slots)))
    ELSE Internal(page.slots[m + 1].child, SubSeq(page.slots, m + 2, Len(page.slots)))

\* _split_halves_are_balanced.
HalvesAreBalanced(page, m) ==
    ~Underpopulated(LeftHalf(page, m)) /\ ~Underpopulated(RightHalf(page, m))

\* _choose_split_point: the balanced index nearest to the byte midpoint, the
\* larger of two at the same distance; the midpoint itself if there is none.
ChooseSplitPoint(page) ==
    LET n == Len(page.slots)
        size == CumulativeSize(page)
        midpoint == Cardinality({i \in 1..n : size[i] <= size[n] \div 2})
        rank(m) == IF m > midpoint THEN 2 * (m - midpoint) - 1 ELSE 2 * (midpoint - m)
        balanced == {m \in 1..(n - 1) : HalvesAreBalanced(page, m)}
    IN IF balanced = {} THEN midpoint
       ELSE CHOOSE m \in balanced : \A o \in balanced : rank(m) <= rank(o)

\* _split_page.  Returns the image and the page the cascade looks at next.
SplitPage(im, id, parentId) ==
    LET page == PageAt(im, id)
        m == ChooseSplitPoint(page)
        sibling == AllocatedId(im)
        promoted == page.slots[m + 1].key
        left == IF page.type = "leaf" THEN [LeftHalf(page, m) EXCEPT !.right = sibling]
                ELSE LeftHalf(page, m)
        im1 == PutPage(PutPage(AllocatePage(im), id, left), sibling, RightHalf(page, m))
        newRoot == AllocatedId(im1)
        parent == PageAt(im1, parentId)
        slot == InternalSlot(promoted, sibling)
    IN IF parentId = 0
       THEN [im |-> [PutPage(AllocatePage(im1), newRoot, Internal(id, <<slot>>))
                        EXCEPT !.root = newRoot],
             at |-> newRoot]
       ELSE [im |-> PutPage(im1, parentId,
                        [parent EXCEPT !.slots =
                            InsertAt(@, BisectRight(@, promoted) + 1, slot)]),
             at |-> parentId]

-----------------------------------------------------------------------------
(* Redistributing and merging. *)

\* The slots of two siblings in one row, the separator pulled down between
\* two internal pages: what a merge stores, and what slots move along.
Joined(left, right, separator) ==
    IF left.type = "leaf" THEN left.slots \o right.slots
    ELSE left.slots \o <<InternalSlot(separator, right.leftmost)>> \o right.slots

\* The siblings after n slots moved from the donor to its neighbour, one at a
\* time through the separator: the joined row cut elsewhere.
Moved(left, right, separator, donorIsLeft, n) ==
    LET row == [left EXCEPT !.slots = Joined(left, right, separator)]
        m == IF donorIsLeft THEN Len(left.slots) - n ELSE Len(left.slots) + n
    IN [left |-> LeftHalf(row, m),
        right |-> IF left.type = "leaf" THEN [right EXCEPT !.slots = RightHalf(row, m).slots]
                  ELSE RightHalf(row, m),
        separator |-> row.slots[m + 1].key]

\* Mutant: nobody looks at what is left of the donor.
TryRedistributeUnchecked(left, right, separator, donorIsLeft) ==
    LET donorSlots == Len(IF donorIsLeft THEN left.slots ELSE right.slots)
        after(n) == Moved(left, right, separator, donorIsLeft, n)
        recipient(n) == IF donorIsLeft THEN after(n).right ELSE after(n).left
        stops == {n \in 1..(donorSlots - 1) : ~Underpopulated(recipient(n))}
    IN IF stops = {} THEN [outcome |-> "raised"]
       ELSE [outcome |-> "moved", pages |-> after(Min(stops))]

\* _try_redistribute_slots on the siblings left and right of `separator'.
\* Slots move until the recipient is healthy; the move is undone when the
\* donor falls below the threshold first.  A donor that runs out of slots is
\* an IndexError: a leaf on the right already when its last slot has left.
TryRedistribute(left, right, separator, donorIsLeft) ==
    LET donorSlots == Len(IF donorIsLeft THEN left.slots ELSE right.slots)
        last == IF left.type = "leaf" /\ ~donorIsLeft THEN donorSlots - 1 ELSE donorSlots
        after(n) == Moved(left, right, separator, donorIsLeft, n)
        recipient(n) == IF donorIsLeft THEN after(n).right ELSE after(n).left
        donor(n) == IF donorIsLeft THEN after(n).left ELSE after(n).right
        stops == {n \in 1..last : Underpopulated(donor(n)) \/ ~Underpopulated(recipient(n))}
        n == Min(stops)
    IN IF stops = {} THEN [outcome |-> "raised"]
       ELSE IF Underpopulated(donor(n)) THEN [outcome |-> "undone"]
       ELSE [outcome |-> "moved", pages |-> after(n)]

\* One side of the page at position pos under its parent: the two siblings,
\* the separator between them, and who gives.
Side(im, parent, pos, siblingIsLeft) ==
    LET sep == IF siblingIsLeft THEN pos ELSE pos + 1
        leftId == Child(parent, sep - 1)
        rightId == Child(parent, sep)
    IN [sep |-> sep, leftId |-> leftId, rightId |-> rightId,
        left |-> PageAt(im, leftId), right |-> PageAt(im, rightId),
        siblingIsLeft |-> siblingIsLeft]

\* Mutant: only the left sibling is considered.
SidesLeftOnly(im, parent, pos) ==
    IF pos > 0 THEN <<Side(im, parent, pos, TRUE)>> ELSE <<>>

\* _determine_same_parent_siblings: the left one is tried first.
Sides(im, parent, pos) ==
    (IF pos > 0 THEN <<Side(im, parent, pos, TRUE)>> ELSE <<>>)
        \o (IF pos < Len(parent.slots) THEN <<Side(im, parent, pos, FALSE)>> ELSE <<>>)

\* Slots moved: both siblings and the separator are rewritten.  The parent
\* goes back to the cascade if the new separator changed its size too much.
Redistributed(im, parentId, parent, side, pages) ==
    LET parent1 == [parent EXCEPT !.slots[side.sep].key = pages.separator]
    IN [im |-> PutPage(PutPage(PutPage(im, side.leftId, pages.left),
                               side.rightId, pages.right), parentId, parent1),
        at |-> IF Overpopulated(parent1) \/ Underpopulated(parent1) THEN parentId ELSE 0]

\* Mutant: the left page keeps pointing at the page that was emptied into it.
MergedKeepsSibling(im, parentId, parent, side) ==
    LET row == Joined(side.left, side.right, parent.slots[side.sep].key)
        left == [side.left EXCEPT !.slots = row]
        parent1 == [parent EXCEPT !.slots = RemoveAt(@, side.sep)]
        im1 == PutPage(PutPage(im, side.leftId, left), parentId, parent1)
        im2 == FreePage(DropPage(im1, side.rightId), side.rightId)
    IN IF parent1.slots = <<>> /\ parentId = im.root
       THEN [im |-> FreePage([DropPage(im2, parentId) EXCEPT !.root = parent1.leftmost],
                             parentId),
             at |-> 0]
       ELSE [im |-> im2, at |-> parentId]

\* The right page is emptied into the left one and freed; the root goes too
\* when that was its last separator.
Merged(im, parentId, parent, side) ==
    LET separator == parent.slots[side.sep].key
        row == Joined(side.left, side.right, separator)
        left == IF side.left.type = "leaf" THEN Leaf(side.right.right, row)
                ELSE Internal(side.left.leftmost, row)
        parent1 == [parent EXCEPT !.slots = RemoveAt(@, side.sep)]
        im1 == PutPage(PutPage(im, side.leftId, left), parentId, parent1)
        im2 == FreePage(DropPage(im1, side.rightId), side.rightId)
    IN IF parent1.slots = <<>> /\ parentId = im.root
       THEN [im |-> FreePage([DropPage(im2, parentId) EXCEPT !.root = parent1.leftmost],
                             parentId),
             at |-> 0]
       ELSE [im |-> im2, at |-> parentId]

MergeFits(parent, side) ==
    ~Overpopulated([side.left EXCEPT !.slots =
                        Joined(side.left, side.right, parent.slots[side.sep].key)])

\* _redistribute_or_merge_page.
RedistributeOrMerge(im, parentId, pos) ==
    LET parent == PageAt(im, parentId)
        sides == Sides(im, parent, pos)
        tried == [i \in DOMAIN sides |->
                    TryRedistribute(sides[i].left, sides[i].right,
                                    parent.slots[sides[i].sep].key, sides[i].siblingIsLeft)]
        settled == {i \in DOMAIN sides : tried[i].outcome # "undone"}
        i == Min(settled)
        fitting == {j \in DOMAIN sides : MergeFits(parent, sides[j])}
        raised(what) == [im |-> [im EXCEPT !.err = what], at |-> 0]
    IN IF \E j \in DOMAIN sides :
            sides[j].left.type # sides[j].right.type
       THEN raised("unreadable")
       ELSE IF settled # {}
       THEN IF tried[i].outcome = "raised" THEN raised("IndexError")
            ELSE Redistributed(im, parentId, parent, sides[i], tried[i].pages)
       ELSE IF fitting # {} THEN Merged(im, parentId, parent, sides[Min(fitting)])
       ELSE raised("AssertionError")

-----------------------------------------------------------------------------
(* The cascade and the two mutations. *)

NoParent == [parent |-> 0, pos |-> 0]

\* One round of the loop of _balance_and_write_tree.
BalanceStep(c, item) ==
    LET page == PageAt(c.im, c.at)
    IN IF c.at = 0 \/ c.im.err # "none" THEN c
       ELSE IF Overpopulated(page) THEN SplitPage(c.im, c.at, item.parent)
       ELSE IF Underpopulated(page) /\ c.at # c.im.root
       THEN RedistributeOrMerge(c.im, item.parent, item.pos)
       ELSE [c EXCEPT !.at = 0]

\* _balance_and_write_tree: up the path, then once for the root and once for
\* a root that a split has just put above it.
BalanceTree(im, id, path) ==
    FoldLeft(BalanceStep, [im |-> im, at |-> id], Reverse(path) \o <<NoParent, NoParent>>).im

\* insert.
Insert(im, k, v) ==
    LET found == FindLeaf(im, k)
        page == PageAt(im, found.id)
        i == BisectLeft(page.slots, k) + 1
        slots == IF HasKeyAt(page.slots, i, k)
                 THEN [page.slots EXCEPT ![i].value = v]
                 ELSE InsertAt(page.slots, i, LeafSlot(k, v))
    IN IF page.type # "leaf" THEN [im EXCEPT !.err = "unreadable"]
       ELSE BalanceTree(PutPage(im, found.id, [page EXCEPT !.slots = slots]),
                        found.id, found.path)

\* delete.
Delete(im, k) ==
    LET found == FindLeaf(im, k)
        page == PageAt(im, found.id)
        i == BisectLeft(page.slots, k) + 1
    IN IF page.type # "leaf" THEN [im EXCEPT !.err = "unreadable"]
       ELSE IF ~HasKeyAt(page.slots, i, k) THEN im
       ELSE BalanceTree(PutPage(im, found.id, [page EXCEPT !.slots = RemoveAt(@, i)]),
                        found.id, found.path)

=============================================================================
