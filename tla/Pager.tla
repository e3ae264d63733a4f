------------------------------- MODULE Pager -------------------------------
(***************************************************************************)
(* The page file (pager.py): its creation, open and close, the allocation  *)
(* and release of pages through the freelist, and what a kill leaves of    *)
(* the file.                                                               *)
(*                                                                         *)
(* The tree above it is a client that holds pages, moves its root among    *)
(* them, and writes them when the database takes a checkpoint.  Creation   *)
(* is one step per system call.  A checkpoint and a close are one step     *)
(* each: module DB has the interruptions inside them.                      *)
(***************************************************************************)
EXTENDS Pages

CONSTANTS
    MaxPages,     \* bound on next_page_id; a new file has it at 2
    Roots,        \* the pages that the tree makes its root
    KillPhases    \* the phases in which the process may be killed

CreatePhases == {"touched", "extended", "leafWritten", "metaWritten", "fileSynced"}
Phases == {"absent", "closed", "open", "rejected"} \cup CreatePhases

ASSUME PagerAssumption ==
    /\ MaxPages \in Nat /\ MaxPages >= 2
    /\ KillPhases \subseteq Phases

VARIABLES
    phase,        \* where the file and the Pager object are
    im,           \* the object's meta page, freelist cache, and the file's pages
    meta,         \* page 0 of the file
    used,         \* the pages the tree holds
    held,         \* ghost: allocations less releases
    chain,        \* ghost: the ids of the freelist pages, head first
    committed     \* ghost: used and chain when the meta page was last written

pagerVars == <<phase, im, meta, used, held, chain, committed>>

-----------------------------------------------------------------------------

\* Page 0 as the file has it: kind is "meta" when it decodes.
MetaPage(i) == [kind |-> "meta", root |-> i.root, next |-> i.next, flhead |-> i.flhead]
NoMeta(k) == [kind |-> k, root |-> 0, next |-> 0, flhead |-> 0]

\* The fields of a Pager that holds no pages, over the pages of a file.
Blank(disk) ==
    [root |-> 1, next |-> 1, flhead |-> 0, pool |-> <<>>, fl |-> <<>>,
     disk |-> disk, err |-> "none"]

Snapshot(pages, trunk) == [used |-> pages, chain |-> trunk]

Decodes(m) == m.kind = "meta"

Init ==
    /\ phase = "absent"
    /\ im = Blank(<<>>) /\ meta = NoMeta("short")
    /\ used = {} /\ held = 0 /\ chain = <<>> /\ committed = Snapshot({}, <<>>)

-----------------------------------------------------------------------------
(* open() of a file that is not there: _bootstrap_initial_db. *)

Touch ==
    /\ phase = "absent"
    /\ phase' = "touched"
    /\ im' = Blank(<<>>) /\ meta' = NoMeta("short")
    /\ UNCHANGED <<used, held, chain, committed>>

\* allocate_page for the root leaf; the zeros it appends are page 0.
ExtendFile ==
    /\ phase = "touched"
    /\ phase' = "extended"
    /\ im' = AllocatePage(im) /\ meta' = NoMeta("zeros")
    /\ used' = {AllocatedId(im)} /\ held' = 1
    /\ UNCHANGED <<chain, committed>>

\* Mutant: the zero-filled page is taken for an empty leaf.
WriteLeafSkipped ==
    /\ phase = "extended"
    /\ phase' = "leafWritten"
    /\ UNCHANGED <<im, meta, used, held, chain, committed>>

WriteLeaf ==
    /\ phase = "extended"
    /\ phase' = "leafWritten"
    /\ im' = [im EXCEPT !.disk = Mapped(@, 1, Leaf(0, <<>>))]
    /\ UNCHANGED <<meta, used, held, chain, committed>>

\* Mutant: the meta page of a new file waits for the first checkpoint.
WriteMetaLater ==
    /\ phase = "leafWritten"
    /\ phase' = "metaWritten"
    /\ committed' = Snapshot(used, chain)
    /\ UNCHANGED <<im, meta, used, held, chain>>

WriteMeta ==
    /\ phase = "leafWritten"
    /\ phase' = "metaWritten"
    /\ meta' = MetaPage(im)
    /\ committed' = Snapshot(used, chain)
    /\ UNCHANGED <<im, used, held, chain>>

SyncFile ==
    /\ phase = "metaWritten"
    /\ phase' = "fileSynced"
    /\ UNCHANGED <<im, meta, used, held, chain, committed>>

SyncDirectory ==
    /\ phase = "fileSynced"
    /\ phase' = "open"
    /\ UNCHANGED <<im, meta, used, held, chain, committed>>

-----------------------------------------------------------------------------
(* open() of a file that is there. *)

OpenExisting ==
    /\ phase = "closed" /\ Decodes(meta)
    /\ phase' = "open"
    /\ im' = [Blank(im.disk) EXCEPT !.root = meta.root, !.next = meta.next, !.flhead = meta.flhead]
    /\ UNCHANGED <<meta, used, held, chain, committed>>

\* decode_meta_page raises; the handle stays set and there is no meta page.
OpenRejects ==
    /\ phase = "closed" /\ ~Decodes(meta)
    /\ phase' = "rejected"
    /\ UNCHANGED <<im, meta, used, held, chain, committed>>

\* The next DB.open() on the object: Pager.open() returns at once, recovery
\* fails on the missing meta page, and close() fsyncs and closes the file.
RetryOpen ==
    /\ phase = "rejected"
    /\ phase' = "closed"
    /\ UNCHANGED <<im, meta, used, held, chain, committed>>

-----------------------------------------------------------------------------
(* Operations of an open pager. *)

\* allocate_page.
Allocate ==
    /\ phase = "open"
    /\ im' = AllocatePage(im) /\ im'.next <= MaxPages
    /\ used' = used \cup {AllocatedId(im)} /\ held' = held + 1
    /\ chain' = IF im.flhead # 0 /\ AllocatedId(im) = im.flhead THEN Tail(chain) ELSE chain
    /\ UNCHANGED <<phase, meta, committed>>

\* free_page, of a page that the tree no longer names.
Free(id) ==
    /\ phase = "open" /\ id # im.root
    /\ im' = FreePage(im, id) /\ im'.next <= MaxPages
    /\ used' = used \ {id} /\ held' = held - 1
    /\ chain' = IF im'.flhead = im.flhead THEN chain ELSE <<im'.flhead>> \o chain
    /\ UNCHANGED <<phase, meta, committed>>

\* update_meta(root_page_id), when the root splits or collapses.
MoveRoot(id) ==
    /\ phase = "open" /\ id \in Roots
    /\ im' = [im EXCEPT !.root = id]
    /\ UNCHANGED <<phase, meta, used, held, chain, committed>>

\* The file after the tree has written its pages, and the pager its dirty
\* freelist pages after them.
Written == Over(im.fl, Over([id \in used |-> Leaf(0, <<>>)], im.disk))

Flushed ==
    /\ meta' = MetaPage(im)
    /\ committed' = Snapshot(used, chain)

\* The pager's part of DB.checkpoint: the dirty freelist pages, fsync, the
\* meta page, fsync.
Checkpoint ==
    /\ phase = "open"
    /\ im' = [im EXCEPT !.fl = <<>>, !.disk = Written]
    /\ Flushed
    /\ UNCHANGED <<phase, used, held, chain>>

\* Mutant: close() drops the dirty freelist pages.
CloseUnflushed ==
    /\ phase = "open"
    /\ phase' = "closed"
    /\ LET disk == Over([id \in used |-> Leaf(0, <<>>)], im.disk)
       IN im' = Blank(disk) /\ Flushed
    /\ UNCHANGED <<used, held, chain>>

\* close(): the same writes, and the freelist cache is cleared.
Close ==
    /\ phase = "open"
    /\ phase' = "closed"
    /\ im' = Blank(Written)
    /\ Flushed
    /\ UNCHANGED <<used, held, chain>>

-----------------------------------------------------------------------------
(* The buffered file writes in the order of the calls, so a kill leaves a  *)
(* prefix of them.  What a power loss leaves is the concern of module DB.   *)

Kill ==
    /\ phase \in KillPhases
    /\ phase' = "closed"
    /\ used' = committed.used /\ held' = Cardinality(committed.used)
    /\ chain' = committed.chain
    /\ im' = Blank(im.disk)
    /\ UNCHANGED <<meta, committed>>

-----------------------------------------------------------------------------

Opening ==
    \/ Touch \/ ExtendFile \/ WriteLeaf \/ WriteMeta \/ SyncFile \/ SyncDirectory
    \/ OpenExisting \/ OpenRejects \/ RetryOpen

Next ==
    \/ Opening
    \/ Allocate
    \/ \E id \in used : Free(id) \/ MoveRoot(id)
    \/ Checkpoint \/ Close
    \/ Kill

Spec == Init /\ [][Next]_pagerVars

\* open() does not stop half-way by itself, and is called again.
FairSpec == Spec /\ WF_pagerVars(Opening)

-----------------------------------------------------------------------------

\* Page ids stay below next_page_id, in memory and in the file.
PagerTypeOK ==
    /\ phase \in Phases
    /\ phase = "open" =>
        /\ im.root \in used /\ im.next \in 2..MaxPages /\ im.flhead \in 0..(im.next - 1)
        /\ used \cup ToSet(chain) \cup DOMAIN im.fl \subseteq 1..(im.next - 1)

\* The head and the next pointers of the freelist pages, dirty or on disk,
\* lead through the chain, and no page lists more ids than it can hold.
ChainIsLinked ==
    /\ im.flhead = IF chain = <<>> THEN 0 ELSE chain[1]
    /\ \A i \in DOMAIN chain :
        LET page == FreelistPageAt(im, chain[i])
        IN /\ page.type = "freelist" /\ Len(page.freed) <= MaxFreedIds
           /\ page.next = IF i = Len(chain) THEN 0 ELSE chain[i + 1]

\* No page leaks and none is listed twice: of an open file every page but the
\* meta page is held by the tree, is a page of the freelist, or is listed in
\* one, in one place only, whatever heads allocate_page recycled, free_page
\* pushed, and restarts brought back.
PagesOwned ==
    phase = "open" =>
        LET pages == ToSet(chain)
            listed(id) == FreelistPageAt(im, id).freed
        IN /\ im.err = "none" /\ ChainIsLinked /\ IsInjective(chain)
           /\ used \cup pages \cup UNION {ToSet(listed(id)) : id \in pages} = 1..(im.next - 1)
           /\ used \cap pages = {}
           /\ \A id \in pages :
                /\ IsInjective(listed(id))
                /\ ToSet(listed(id)) \cap (used \cup pages) = {}
                /\ \A other \in pages \ {id} : ToSet(listed(id)) \cap ToSet(listed(other)) = {}

\* The pages the tree held at the last checkpoint are its own in the file: the
\* flush of a freelist page that allocate_page has recycled since does not
\* overwrite them.
TreePagesIntact ==
    phase = "open" => \A id \in committed.used :
                            id \in DOMAIN im.disk /\ im.disk[id].type = "leaf"

\* "Write the leaf before the meta so a crash here leaves an uncommitted meta
\* rather than one that points at a zero-filled page" (_bootstrap_initial_db):
\* whenever page 0 decodes, the root it names is a page of the tree.
MetaNamesRoot ==
    Decodes(meta) => meta.root \in DOMAIN im.disk /\ im.disk[meta.root].type = "leaf"

Store == INSTANCE Allocator WITH
            Ids <- 1..MaxPages, committed <- committed.used

\* The pager hands out only pages that are not in use, and a restart finds the
\* pages that were in use when the meta page was last written.
PagesAllocated == Store!Spec

\* A file opens again after every close and kill, once its meta page was
\* written: a kill before that leaves a file that open() rejects for ever.
ReopensOnceCreated == (phase = "closed" /\ committed.used # {}) ~> (phase = "open")

=============================================================================
