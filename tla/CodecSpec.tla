------------------------------ MODULE CodecSpec ------------------------------
(***************************************************************************)
(* The pages that reach encode_page, and the meta pages that follow each   *)
(* other in the file.  A page in the pool is filled and emptied slot by    *)
(* slot and written only when it fits (the tree splits it otherwise); a    *)
(* freelist page takes ids up to get_max_freed_ids_per_freelist_page; the  *)
(* meta page is rewritten in place.                                        *)
(***************************************************************************)
EXTENDS Codec

CONSTANTS
    PageIds,     \* page ids and LSNs that appear in the fields
    MaxSlots     \* bound on the slots of a page, above what fits

ASSUME PageIdAssumption == IsNumber(PageSize) /\ \A id \in PageIds : IsNumber(id)

VARIABLES
    page,        \* a page in memory
    lsn,         \* its last_modified_lsn
    old          \* the page it replaces in the file

codecVars == <<page, lsn, old>>

Metas == [type : {"meta"}, root : PageIds, next : PageIds, flhead : PageIds \cup {0},
          last_checkpoint_lsn : PageIds \cup {0}]

CodecInit ==
    /\ page \in {Leaf(0, <<>>), Internal(1, <<>>), Freelist(0, <<>>)} \cup Metas
    /\ lsn = 0
    /\ old = page

\* One more record, in key order, if the page is not to be split for it.
AddSlot(slot) ==
    LET n == Cardinality({i \in DOMAIN page.slots : page.slots[i].key <= slot.key})
        larger == [page EXCEPT !.slots = InsertAt(@, n + 1, slot)]
    IN /\ Len(page.slots) < MaxSlots
       /\ ~Overpopulated(larger)
       /\ page' = larger
       /\ UNCHANGED <<lsn, old>>

\* free_page, while the head has room.
AddFreed(id) ==
    /\ page.type = "freelist" /\ Len(page.freed) < MaxFreedIds
    /\ page' = [page EXCEPT !.freed = Append(@, id)]
    /\ UNCHANGED <<lsn, old>>

\* The sibling, the leftmost child or the next freelist page, and the LSN.
Relink(id, n) ==
    /\ page.type # "meta" /\ CountOf(page) > 0
    /\ page' = CASE page.type = "leaf" -> [page EXCEPT !.right = id]
                 [] page.type = "internal" -> [page EXCEPT !.leftmost = id]
                 [] page.type = "freelist" -> [page EXCEPT !.next = id]
    /\ lsn' = n
    /\ UNCHANGED old

\* update_meta, and flush_meta over the page in the file.
RewriteMeta(m) ==
    /\ page.type = "meta"
    /\ old' = page /\ page' = m
    /\ UNCHANGED lsn

CodecNext ==
    \/ \E k \in Keys, v \in Values : page.type = "leaf" /\ AddSlot(LeafSlot(k, v))
    \/ \E k \in Keys, id \in PageIds : page.type = "internal" /\ AddSlot(InternalSlot(k, id))
    \/ \E id \in PageIds : AddFreed(id)
    \/ \E id, n \in PageIds : Relink(id, n)
    \/ \E m \in Metas : RewriteMeta(m)

CodecSpecification == CodecInit /\ [][CodecNext]_codecVars

-----------------------------------------------------------------------------

\* The page as decode_page would give it back.
PageInBytes(p) ==
    CASE p.type = "leaf" ->
            [p EXCEPT !.slots = [i \in DOMAIN @ |->
                [key |-> KeyBytes(@[i].key), value |-> ValueBytes(@[i].value)]]]
      [] p.type = "internal" ->
            [p EXCEPT !.slots = [i \in DOMAIN @ |->
                [key |-> KeyBytes(@[i].key), child |-> @[i].child]]]
      [] p.type = "freelist" -> p

\* Every page the tree does not split and every freelist page that is not full
\* fills exactly one page of the file and is read back as it was: directory
\* and records, which grow towards each other, meet without overlapping, and
\* calculate_page_size counts every byte of them.
PagesReadBack ==
    page.type # "meta" =>
        LET bytes == EncodePage(page, lsn)
        IN /\ Len(bytes) = PageSize
           /\ DecodePage(bytes) = [page |-> PageInBytes(page), lsn |-> lsn]

\* A write of the meta page that stops after any of its bytes leaves the old
\* page, the new page, or a page that decode_meta_page rejects: never fields
\* of both.
TornMetaIsDetected ==
    page.type = "meta" =>
        LET new == EncodeMetaPage(page)
            before == EncodeMetaPage(old)
            reads == {DecodeMetaPage(SubSeq(new, 1, n) \o SubSeq(before, n + 1, PageSize))
                        : n \in 0..MinPageSize}
        IN \A read \in reads : read.err = "none" => read.page \in {page, old}

=============================================================================
