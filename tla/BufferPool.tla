----------------------------- MODULE BufferPool -----------------------------
(***************************************************************************)
(* The buffer pool (cache.py): which pages are in memory, in which order   *)
(* they were used, which of them are dirty, and what is evicted when.      *)
(*                                                                         *)
(*   order     the keys of the OrderedDict, least recently used first      *)
(*   dirty     the pages with is_dirty set                                 *)
(*   evicting  _eviction_enabled                                           *)
(*   err       what a call raised, or "none"                               *)
(* What the pages hold is the image's part (module Pages); here a page is  *)
(* its id.  A pool that has raised takes no further calls.                 *)
(***************************************************************************)
EXTENDS Naturals, FiniteSets, Sequences, SequencesExt

CONSTANT Capacity         \* cache_capacity_pages

ASSUME PoolAssumption == Capacity \in Nat \ {0}

EmptyPool == [order |-> <<>>, dirty |-> {}, evicting |-> TRUE, err |-> "none"]

Holds(bp, id) == \E i \in DOMAIN bp.order : bp.order[i] = id

\* del self._cache[page_id].
Without(bp, id) ==
    IF Holds(bp, id)
    THEN RemoveAt(bp.order, CHOOSE i \in DOMAIN bp.order : bp.order[i] = id)
    ELSE bp.order

\* The places of the clean pages, of which the first is the oldest.
CleanAt(bp) == {i \in DOMAIN bp.order : bp.order[i] \notin bp.dirty}

\* Mutant: the pool is taken to be full one page too late.
EvictIfFullLate(bp) ==
    IF ~bp.evicting \/ Len(bp.order) <= Capacity THEN bp
    ELSE IF CleanAt(bp) = {} THEN [bp EXCEPT !.err = "DBBufferPoolOverflowError"]
    ELSE [bp EXCEPT !.order = RemoveAt(@, Min(CleanAt(bp)))]

\* Mutant: the oldest page goes, dirty or not.
EvictIfFullAny(bp) ==
    IF ~bp.evicting \/ Len(bp.order) < Capacity THEN bp
    ELSE [bp EXCEPT !.order = Tail(@), !.dirty = @ \ {Head(bp.order)}]

\* _evict_oldest_clean_page_if_full: one page goes, however full the pool is.
EvictIfFull(bp) ==
    IF ~bp.evicting \/ Len(bp.order) < Capacity THEN bp
    ELSE IF CleanAt(bp) = {} THEN [bp EXCEPT !.err = "DBBufferPoolOverflowError"]
    ELSE [bp EXCEPT !.order = RemoveAt(@, Min(CleanAt(bp)))]

\* get.
Touched(bp, id) ==
    IF Holds(bp, id) THEN [bp EXCEPT !.order = Append(Without(bp, id), id)]
    ELSE LET room == EvictIfFull(bp)
         IN IF room.err # "none" THEN room ELSE [room EXCEPT !.order = Append(@, id)]

\* Mutant: a new page comes in clean.
InsertedClean(bp, id) ==
    IF Holds(bp, id) THEN [bp EXCEPT !.err = "AssertionError"] ELSE Touched(bp, id)

\* insert, which asserts that the page is new to the pool.
Inserted(bp, id) ==
    IF Holds(bp, id) THEN [bp EXCEPT !.err = "AssertionError"]
    ELSE LET room == EvictIfFull(bp)
         IN IF room.err # "none" THEN room
            ELSE [room EXCEPT !.order = Append(@, id), !.dirty = @ \cup {id}]

\* mark_dirty: a page that has been evicted meanwhile is a KeyError.
Marked(bp, id) ==
    IF Holds(bp, id) THEN [bp EXCEPT !.dirty = @ \cup {id}] ELSE [bp EXCEPT !.err = "KeyError"]

\* Mutant: a freed page stays in the pool.
DroppedKept(bp, id) == bp

\* delete.
Dropped(bp, id) == [bp EXCEPT !.order = Without(bp, id), !.dirty = @ \ {id}]

\* flush_all.
FlushedPool(bp) == [bp EXCEPT !.dirty = {}]

\* A call is <<"get" | "insert" | "mark" | "delete", id>>.
Access(bp, call) ==
    CASE bp.err = "none" /\ call[1] = "get" -> Touched(bp, call[2])
      [] bp.err = "none" /\ call[1] = "insert" -> Inserted(bp, call[2])
      [] bp.err = "none" /\ call[1] = "mark" -> Marked(bp, call[2])
      [] bp.err = "none" /\ call[1] = "delete" -> Dropped(bp, call[2])
      [] OTHER -> bp

=============================================================================
