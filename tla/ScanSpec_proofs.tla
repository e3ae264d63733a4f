--------------------------- MODULE ScanSpec_proofs ---------------------------
(***************************************************************************)
(* For any tree, any ranges and any history of calls, if no database is    *)
(* closed under a live iterator: the version counter tells an iterator of  *)
(* every put and delete.  The argument does not depend on what the tree    *)
(* does with a key.                                                        *)
(***************************************************************************)
EXTENDS ScanSpec, TLAPS

-----------------------------------------------------------------------------
(* The inductive invariant. *)

IsIterator(i) ==
    i = [state |-> i.state, range |-> i.range, snapshot |-> i.snapshot, leaf |-> i.leaf,
         page |-> i.page, idx |-> i.idx, out |-> i.out, made |-> i.made, begun |-> i.begun,
         map |-> i.map]

\* The version counter has gone up by one for every put and delete since the
\* iterator was made, which the first next() found to be none.
Counted ==
    /\ opened /\ todo = <<>>
    /\ it.snapshot \in Nat /\ it.made \in Nat
    /\ version + it.made = it.snapshot + muts

ScanInv ==
    /\ version \in Nat /\ muts \in Nat /\ IsIterator(it)
    /\ Live => Counted
    /\ it.state = "new" => it.out = <<>>
    /\ it.state = "running" => it.begun = it.made

-----------------------------------------------------------------------------

\* The iterator once its first next() runs.
Begun == IF it.state = "new" THEN [it EXCEPT !.begun = muts, !.map = kv] ELSE it

\* next() ends the iterator, or finds the version changed and raises, or yields.
LEMMA AdvanceCases ==
    ASSUME Advance
    PROVE  \/ it' = [Begun EXCEPT !.state = "done"]
           \/ version # it.snapshot /\ it' = [it EXCEPT !.state = "raised"]
           \/ /\ version = it.snapshot
              /\ \E leaf, page, idx, out :
                    it' = [Begun EXCEPT !.state = "running", !.leaf = leaf, !.page = page,
                                        !.idx = idx, !.out = out]
  <1>1. PICK p \in IF it.state = "new" THEN {Begin} ELSE Resume :
          LET slots == {q \in NextSlot(p.leaf, p.page, p.idx) :
                            ~PastEnd(q.page.slots[q.idx + 1].key)}
          IN IF slots = {} THEN it' = [Begun EXCEPT !.state = "done"]
             ELSE IF version # it.snapshot THEN it' = [it EXCEPT !.state = "raised"]
             ELSE \E q \in slots :
                      it' = [Begun EXCEPT !.state = "running", !.leaf = q.leaf, !.page = q.page,
                               !.idx = q.idx + 1,
                               !.out = Append(@, q.page.slots[q.idx + 1])]
    BY DEF Advance, Begun, Ends
  <1> DEFINE slots == {q \in NextSlot(p.leaf, p.page, p.idx) :
                          ~PastEnd(q.page.slots[q.idx + 1].key)}
  <1> HIDE DEF slots
  <1>2. CASE slots = {}
    BY <1>1, <1>2 DEF slots
  <1>3. CASE slots # {} /\ version # it.snapshot
    BY <1>1, <1>3 DEF slots
  <1>4. CASE slots # {} /\ version = it.snapshot
    <2>1. PICK q \in slots :
            it' = [Begun EXCEPT !.state = "running", !.leaf = q.leaf, !.page = q.page,
                     !.idx = q.idx + 1, !.out = Append(@, q.page.slots[q.idx + 1])]
      BY <1>1, <1>4 DEF slots
    <2> QED
      BY <1>4, <2>1
  <1> QED
    BY <1>2, <1>3, <1>4

\* What next() does to an iterator.
LEMMA NextItemCases ==
    ASSUME ScanInv, NextItem
    PROVE  /\ IsIterator(it') /\ it'.snapshot = it.snapshot /\ it'.made = it.made
           /\ it'.state \in {"done", "raised", "running"}
           /\ it'.state # "running" => it'.out = it.out
           /\ it'.state = "running" => /\ version = it.snapshot
                                       /\ it'.begun = IF it.state = "new" THEN muts ELSE it.begun
           /\ it.state = "running" /\ version # it.snapshot => it'.state = "raised"
           /\ it.state \in {"new", "running"}
           /\ UNCHANGED <<treeVars, version, opened, muts>>
  <1>1. /\ IsIterator(it) /\ it.state \in {"new", "running"}
        /\ UNCHANGED <<treeVars, version, opened, muts>>
    BY DEF ScanInv, NextItem, Live
  <1>2. /\ IsIterator(Begun) /\ Begun.snapshot = it.snapshot /\ Begun.made = it.made
        /\ Begun.out = it.out /\ Begun.begun = IF it.state = "new" THEN muts ELSE it.begun
    BY <1>1 DEF IsIterator, Begun
  <1>3. CASE it' = [it EXCEPT !.state = "raised"]
    BY <1>1, <1>3 DEF IsIterator
  <1>4. CASE ~(it.state = "running" /\ version # it.snapshot)
             /\ it' = [Begun EXCEPT !.state = "done"]
    BY <1>1, <1>2, <1>4 DEF IsIterator
  <1>5. CASE /\ version = it.snapshot
             /\ \E leaf, page, idx, out :
                    it' = [Begun EXCEPT !.state = "running", !.leaf = leaf, !.page = page,
                                        !.idx = idx, !.out = out]
    <2>1. PICK leaf, page, idx, out :
            it' = [Begun EXCEPT !.state = "running", !.leaf = leaf, !.page = page,
                                !.idx = idx, !.out = out]
      BY <1>5
    <2> QED
      BY <1>1, <1>2, <1>5, <2>1 DEF IsIterator
  <1>6. \/ it' = [it EXCEPT !.state = "raised"]
        \/ ~(it.state = "running" /\ version # it.snapshot) /\ Advance
    BY DEF NextItem, Ends
  <1> QED
    BY <1>3, <1>4, <1>5, <1>6, AdvanceCases

-----------------------------------------------------------------------------
(* The invariant is inductive. *)

LEMMA InitScan == ScanInit => ScanInv
  BY DEF ScanInit, ScanInv, NoIterator, IsIterator, Live

\* A put or a delete is counted twice: in the version and in the ghost.
LEMMA ChangedScan ==
    ASSUME ScanInv, Changed, todo' = todo
    PROVE  ScanInv'
  <1>1. version' = version + 1 /\ muts' = muts + 1 /\ opened' = opened /\ it' = it
    BY DEF Changed
  <1>2. Live => Counted'
    BY <1>1 DEF ScanInv, Counted
  <1> QED
    BY <1>1, <1>2 DEF ScanInv, Live

LEMMA NextScan ==
    ASSUME IteratorsOutliveClose = FALSE
    PROVE  ScanInv /\ [ScanNext]_scanVars => ScanInv'
  <1> SUFFICES ASSUME ScanInv, [ScanNext]_scanVars PROVE ScanInv'
    OBVIOUS
  <1>1. CASE UNCHANGED scanVars
    BY <1>1 DEF ScanInv, scanVars, treeVars, Counted, Live
  <1>2. CASE BuildTree
    <2>1. ~Live /\ it' = it /\ version' = version + 1 /\ muts' = muts
      BY <1>2 DEF BuildTree, Build, ScanInv, Counted
    <2> QED
      BY <2>1 DEF ScanInv, Live
  <1>3. CASE \E put \in scenario.puts : PutKey(put[1], put[2])
    BY <1>3, ChangedScan DEF PutKey, Put, Call, Called
  <1>4. CASE \E k \in scenario.deletes : RemoveKey(k)
    BY <1>4, ChangedScan DEF RemoveKey, DeleteKey, Call, Called
  <1>5. CASE Flush
    BY <1>5 DEF Flush, Checkpoint, Write, Called, ScanInv, Counted, Live
  <1>6. CASE \E range \in Ranges : StartScan(range)
    <2>1. PICK range \in Ranges : StartScan(range)
      BY <1>6
    <2>2. it' = [NoIterator EXCEPT !.state = "new", !.range = range,
                                   !.snapshot = version, !.made = muts]
      BY <2>1 DEF StartScan
    <2>3. /\ IsIterator(it') /\ it'.state = "new" /\ it'.out = <<>>
          /\ it'.snapshot = version /\ it'.made = muts
      BY <2>2 DEF NoIterator, IsIterator
    <2>4. /\ version' = version /\ muts' = muts /\ opened' = opened /\ todo' = todo
          /\ opened /\ todo = <<>>
      BY <2>1 DEF StartScan, treeVars
    <2> QED
      BY <2>3, <2>4 DEF ScanInv, Counted, Live
  <1>7. CASE NextItem
    <2>1. /\ version' = version /\ muts' = muts /\ opened' = opened /\ todo' = todo /\ Live
      BY <1>7 DEF NextItem, treeVars
    <2>2. Counted
      BY <2>1 DEF ScanInv
    <2>3. Counted'
      BY <1>7, <2>1, <2>2, NextItemCases DEF Counted
    <2>4. it'.state = "running" => it'.begun = it'.made
      <3>1. it'.state = "running" => version = it.snapshot
        BY <1>7, NextItemCases
      <3>2. version = it.snapshot => muts = it.made
        BY <2>2 DEF Counted, ScanInv
      <3> QED
        BY <1>7, <3>1, <3>2, NextItemCases DEF ScanInv
    <2>5. IsIterator(it') /\ it'.state # "new"
      BY <1>7, NextItemCases
    <2> QED
      BY <2>1, <2>3, <2>4, <2>5 DEF ScanInv
  <1>8. CASE Close
    <2>1. ~Live /\ it' = it /\ version' = 0 /\ muts' = muts
      BY <1>8 DEF Close
    <2> QED
      BY <2>1 DEF ScanInv, Live
  <1>9. CASE Reopen
    <2>1. ~Live /\ it' = it /\ version' = version /\ muts' = muts
      BY <1>9 DEF Reopen, ScanInv, Counted
    <2> QED
      BY <2>1 DEF ScanInv, Live
  <1> QED
    BY <1>1, <1>2, <1>3, <1>4, <1>5, <1>6, <1>7, <1>8, <1>9 DEF ScanNext

-----------------------------------------------------------------------------
(* The theorems. *)

\* In every reachable state the version counter is ahead of a live iterator's
\* snapshot by the puts and deletes since the iterator was made.
THEOREM ScanInvariant ==
    ASSUME IteratorsOutliveClose = FALSE
    PROVE  ScanFairSpec => []ScanInv
  BY InitScan, NextScan, PTL DEF ScanFairSpec

\* An iterator that a put or a delete has overtaken between two yields raises at
\* the next next(), whatever the tree made of it.
THEOREM OvertakenIteratorsRaise ==
    ASSUME IteratorsOutliveClose = FALSE
    PROVE  ScanFairSpec => OvertakenRaises
  <1>1. ScanInv /\ [ScanNext]_scanVars =>
          [(it.state = "running" /\ muts # it.begun /\ it' # it) => it'.state = "raised"]_scanVars
    <2> SUFFICES ASSUME ScanInv, ScanNext, it.state = "running", muts # it.begun, it' # it
                 PROVE  it'.state = "raised"
      OBVIOUS
    <2>1. NextItem
      BY DEF ScanNext, BuildTree, PutKey, RemoveKey, Changed, Flush, StartScan, Close, Reopen
    <2>2. version # it.snapshot
      BY DEF ScanInv, Counted, Live
    <2> QED
      BY <2>1, <2>2, NextItemCases
  <1> QED
    BY <1>1, ScanInvariant, PTL DEF ScanFairSpec, OvertakenRaises

\* The first next() of an iterator that a put or a delete has overtaken yields
\* nothing, whether it raises or ends: no key of a tree that was changed after
\* scan() gets out.
THEOREM UnstartedIteratorsYieldNothing ==
    ASSUME IteratorsOutliveClose = FALSE
    PROVE  ScanFairSpec => UnstartedYieldsNothing
  <1>1. ScanInv /\ [ScanNext]_scanVars =>
          [UnstartedOvertaken => it'.out = <<>>]_scanVars
    <2> SUFFICES ASSUME ScanInv, ScanNext, it.state = "new", muts # it.made, it' # it
                 PROVE  it'.out = <<>>
      BY DEF UnstartedOvertaken
    <2>1. NextItem
      BY DEF ScanNext, BuildTree, PutKey, RemoveKey, Changed, Flush, StartScan, Close, Reopen
    <2>2. version # it.snapshot /\ it.out = <<>>
      BY DEF ScanInv, Counted, Live
    <2> QED
      BY <2>1, <2>2, NextItemCases
  <1> QED
    BY <1>1, ScanInvariant, PTL DEF ScanFairSpec, UnstartedYieldsNothing

=============================================================================
