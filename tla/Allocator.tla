----------------------------- MODULE Allocator -----------------------------
(***************************************************************************)
(* What the pager promises its users about page ids: a page that is handed *)
(* out is not in use, only pages in use are freed, and a restart goes back *)
(* to the pages that were in use when the file was last written.           *)
(***************************************************************************)
EXTENDS Naturals, FiniteSets

CONSTANT Ids             \* the ids of pages, the meta page's not among them

VARIABLES
    used,                \* the pages users hold
    held,                \* how many allocations that is
    committed            \* the pages they held at the last write of the meta page

allocVars == <<used, held, committed>>

Init == used = {} /\ held = 0 /\ committed = {}

Allocate ==
    /\ \E id \in Ids \ used : used' = used \cup {id}
    /\ held' = held + 1
    /\ UNCHANGED committed

Free ==
    /\ \E id \in used : used' = used \ {id}
    /\ held' = held - 1
    /\ UNCHANGED committed

Commit == committed' = used /\ UNCHANGED <<used, held>>

Restart == used' = committed /\ held' = Cardinality(committed) /\ UNCHANGED committed

Spec == Init /\ [][Allocate \/ Free \/ Commit \/ Restart]_allocVars

=============================================================================
