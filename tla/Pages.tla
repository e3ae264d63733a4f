-------------------------------- MODULE Pages --------------------------------
(***************************************************************************)
(* Pages, the pager's allocator and the view of the pages that the tree    *)
(* works on (entities.py, the size computations of codec.py, pager.py and  *)
(* the dirty side of cache.py).                                            *)
(*                                                                         *)
(* An image is the database as one process sees it:                        *)
(*   root, next, flhead   the fields of the in-memory meta page            *)
(*   pool                 the dirty tree pages of the buffer pool          *)
(*   fl                   the dirty pages of the pager's freelist cache    *)
(*   disk                 the pages in the file                            *)
(*   err                  what an operation raised half-way, or "none"     *)
(* A clean page held in memory is the page in the file, so the image leaves *)
(* it out.  last_modified_lsn is left out of pages: nothing reads it.      *)
(***************************************************************************)
EXTENDS Naturals, FiniteSets, Sequences, SequencesExt

CONSTANTS
    PageSize,     \* page_size_bytes
    Keys,         \* the keys clients use, as numbers in byte order
    Values,       \* the values clients store
    KeyLen,       \* KeyLen[k] = len(key)
    ValueLen      \* ValueLen[v] = len(value)

\* The sizes of _PAGE_HEADER, _SLOT_ENTRY, _LENGTH_FIELD and _PAGE_ID_FIELD,
\* and MIN_PAGE_SIZE.
PageHeader == 32
SlotEntry == 8
LengthField == 4
PageIdField == 8
MinPageSize == 52

MaxFreedIds == (PageSize - PageHeader) \div PageIdField

ASSUME PagesAssumption ==
    /\ PageSize \in Nat /\ PageSize >= MinPageSize
    /\ Keys \subseteq Nat \ {0}
    /\ KeyLen \in [Keys -> Nat] /\ ValueLen \in [Values -> Nat]

-----------------------------------------------------------------------------
(* Pages and their encoded size. *)

Leaf(right, slots) == [type |-> "leaf", right |-> right, slots |-> slots]
Internal(leftmost, slots) == [type |-> "internal", leftmost |-> leftmost, slots |-> slots]
Freelist(next, freed) == [type |-> "freelist", next |-> next, freed |-> freed]

\* What decode_page makes of a page that was never written: an exception.
Unreadable == [type |-> "unreadable", slots |-> <<>>]

LeafSlot(k, v) == [key |-> k, value |-> v]
InternalSlot(k, id) == [key |-> k, child |-> id]

LeafRecordSize(k, v) == 2 * LengthField + KeyLen[k] + ValueLen[v]

\* raise_if_record_too_large, with the cap of get_max_leaf_record_size.
RecordFits(k, v) == LeafRecordSize(k, v) <= (PageSize - PageHeader) \div 5 - SlotEntry

\* Encoded bytes of a slot with its entry in the slot directory.
SlotSize(type, slot) ==
    SlotEntry + IF type = "leaf"
                THEN LeafRecordSize(slot.key, slot.value)
                ELSE LengthField + KeyLen[slot.key] + PageIdField

\* The running sums of the slot sizes: SlotsSize(page)[i] for the first i slots.
CumulativeSize(page) ==
    LET size[i \in 0..Len(page.slots)] ==
            IF i = 0 THEN 0 ELSE size[i - 1] + SlotSize(page.type, page.slots[i])
    IN size

PageBytes(page) == PageHeader + CumulativeSize(page)[Len(page.slots)]

\* Mutant: a page one byte too large is left alone.
OverpopulatedLate(page) == PageBytes(page) > PageSize + 1

\* _is_page_overpopulated.
Overpopulated(page) == PageBytes(page) > PageSize

\* HALF_FULL_THRESHOLD is 0.4.
Underpopulated(page) == 10 * PageBytes(page) < 4 * PageSize

-----------------------------------------------------------------------------
(* Reading and writing pages of an image. *)

\* f with x mapped to y, and f laid over g.  The proofs about the freelist need
\* the two written out: to TLAPS the operators :> and @@ of TLC are opaque.
Mapped(f, x, y) == [z \in DOMAIN f \cup {x} |-> IF z = x THEN y ELSE f[z]]
Over(f, g) == [z \in DOMAIN f \cup DOMAIN g |-> IF z \in DOMAIN f THEN f[z] ELSE g[z]]

\* BufferPool.get.
PageAt(im, id) ==
    IF id \in DOMAIN im.pool THEN im.pool[id]
    ELSE IF id \in DOMAIN im.disk /\ im.disk[id].type \in {"leaf", "internal"} THEN im.disk[id]
    ELSE Unreadable

\* BufferPool.insert, and mark_dirty after a page was changed in place.
PutPage(im, id, page) == [im EXCEPT !.pool = (id :> page) @@ @]

\* BufferPool.delete.
DropPage(im, id) ==
    [im EXCEPT !.pool = [i \in DOMAIN @ \ {id} |-> @[i]]]

FreelistPageAt(im, id) ==
    IF id \in DOMAIN im.fl THEN im.fl[id]
    ELSE IF id \in DOMAIN im.disk /\ im.disk[id].type = "freelist" THEN im.disk[id]
    ELSE Unreadable

DropFreelistPage(im, id) == [im EXCEPT !.fl = [i \in DOMAIN @ \ {id} |-> @[i]]]

\* Mutant: next_page_id stays.
BumpAllocateKeepsNext(im) == im

\* _bump_allocate_one_page; the new page is im.next of the old image.
BumpAllocate(im) == [im EXCEPT !.next = @ + 1]

\* The page allocate_page will return.
AllocatedId(im) ==
    IF im.flhead = 0 THEN im.next
    ELSE LET head == FreelistPageAt(im, im.flhead)
         IN IF head.type # "freelist" THEN 0
            ELSE IF head.freed # <<>> THEN Last(head.freed) ELSE im.flhead

\* Mutant: the id handed out stays in the freelist.
AllocatePageKeepsId(im) ==
    IF im.flhead = 0 THEN BumpAllocate(im) ELSE im

\* Mutant: the cached freelist page of a recycled head stays dirty.
AllocatePageKeepsCache(im) ==
    IF im.flhead = 0 THEN BumpAllocate(im)
    ELSE LET head == FreelistPageAt(im, im.flhead)
         IN IF head.freed # <<>>
            THEN [im EXCEPT !.fl = Mapped(@, im.flhead, Freelist(head.next, Front(head.freed)))]
            ELSE [im EXCEPT !.flhead = head.next]

\* allocate_page: pop an id off the head of the freelist, recycle the head
\* itself when it is empty, and grow the file when there is no freelist.
AllocatePage(im) ==
    IF im.flhead = 0 THEN BumpAllocate(im)
    ELSE LET head == FreelistPageAt(im, im.flhead)
             id == AllocatedId(im)
         IN IF head.type # "freelist" THEN [im EXCEPT !.err = "unreadable"]
            ELSE IF head.freed # <<>>
            THEN DropFreelistPage(
                    [im EXCEPT !.fl = Mapped(@, im.flhead, Freelist(head.next, Front(head.freed)))], id)
            ELSE DropFreelistPage([im EXCEPT !.flhead = head.next], id)

\* Mutant: a new freelist head starts empty, without the id being freed.
FreePageForgetsFirst(im, id) ==
    LET head == FreelistPageAt(im, im.flhead)
    IN IF im.flhead # 0 /\ Len(head.freed) < MaxFreedIds
       THEN [im EXCEPT !.fl = Mapped(@, im.flhead, Freelist(head.next, Append(head.freed, id)))]
       ELSE [BumpAllocate(im) EXCEPT !.fl = Mapped(@, im.next, Freelist(im.flhead, <<>>)),
                                     !.flhead = im.next]

\* free_page: push the id on the head of the freelist, or on a new head when
\* there is none or it is full.
FreePage(im, id) ==
    LET head == FreelistPageAt(im, im.flhead)
    IN IF im.flhead # 0 /\ head.type # "freelist" THEN [im EXCEPT !.err = "unreadable"]
       ELSE IF im.flhead # 0 /\ Len(head.freed) < MaxFreedIds
       THEN [im EXCEPT !.fl = Mapped(@, im.flhead, Freelist(head.next, Append(head.freed, id)))]
       ELSE [BumpAllocate(im) EXCEPT !.fl = Mapped(@, im.next, Freelist(im.flhead, <<id>>)),
                                     !.flhead = im.next]

\* _bootstrap_initial_db: the meta page and an empty root leaf, both on disk.
EmptyImage ==
    [root |-> 1, next |-> 2, flhead |-> 0, pool |-> <<>>, fl |-> <<>>,
     disk |-> (1 :> Leaf(0, <<>>)), err |-> "none"]

\* write_page of a dirty tree page, and of the first dirty freelist page.
PageWritten(im, id) == [DropPage(im, id) EXCEPT !.disk = Mapped(@, id, im.pool[id])]

FreelistPageWritten(im) ==
    LET id == Min(DOMAIN im.fl)
    IN [DropFreelistPage(im, id) EXCEPT !.disk = Mapped(@, id, im.fl[id])]

\* flush_dirty_freelist_pages, whatever became of the tree's pages: close().
FreelistWritten(im) == [im EXCEPT !.disk = Over(im.fl, @), !.fl = <<>>]

\* flush_all and flush_dirty_freelist_pages.
FlushImage(im) == [im EXCEPT !.disk = im.fl @@ im.pool @@ @, !.pool = <<>>, !.fl = <<>>]

=============================================================================
