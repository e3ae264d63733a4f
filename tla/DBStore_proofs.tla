--------------------------- MODULE DBStore_proofs ---------------------------
(***************************************************************************)
(* If the tree works, then the database is the store that its clients are  *)
(* promised: for any interruptions outside the checkpoint window, any torn *)
(* tails, and any page writes that fail while the object goes on to be     *)
(* used, DB with its log, its page file and its recovery implements        *)
(* KVStore.                                                                *)
(*                                                                         *)
(* What the tree computes is out of the prover's reach and model-checked   *)
(* in TreeSpec.  It enters as a hypothesis, TreeWorks(G): the tree is      *)
(* correct on a set G of images that contains the empty one and that puts, *)
(* deletes and page writes do not leave.                                   *)
(***************************************************************************)
EXTENDS DBRecovery_proofs, SequenceTheorems

-----------------------------------------------------------------------------
(* What is asked of the tree. *)

\* An image with everything in its place and nothing raised.
WellFormed(x) ==
    /\ x = [root |-> x.root, next |-> x.next, flhead |-> x.flhead, pool |-> x.pool,
            fl |-> x.fl, disk |-> x.disk, err |-> "none"]
    /\ \A f \in {x.pool, x.fl, x.disk} : f = [i \in DOMAIN f |-> f[i]]
    /\ x.next \in Nat /\ x.root \in 1..(x.next - 1) /\ x.flhead \in 0..(x.next - 1)
    /\ TreeIsSound(x) /\ PagesPartitioned(x)
    /\ Scan(x, 0) = SortedFrom(Contents(x), 0)

\* Puts and deletes do in memory what they say, and writing pages out changes
\* nothing.
PutsWork(G) ==
    \A x \in G, k \in Keys, v \in Values : RecordFits(k, v) =>
        /\ Insert(x, k, v) \in G /\ Insert(x, k, v).disk = x.disk
        /\ Contents(Insert(x, k, v)) = [Contents(x) EXCEPT ![k] = {v}]

DeletesWork(G) ==
    \A x \in G, k \in Keys :
        /\ Delete(x, k) \in G /\ Delete(x, k).disk = x.disk
        /\ Contents(Delete(x, k)) = [Contents(x) EXCEPT ![k] = {}]

WritesWork(G) ==
    \A x \in G :
        /\ \A id \in DOMAIN x.pool :
            PageWritten(x, id) \in G /\ Contents(PageWritten(x, id)) = Contents(x)
        /\ DOMAIN x.pool = {} /\ DOMAIN x.fl # {} =>
            FreelistPageWritten(x) \in G /\ Contents(FreelistPageWritten(x)) = Contents(x)
        /\ FreelistWritten(x) \in G /\ Contents(FreelistWritten(x)) = Contents(x)

\* The tree is correct on the images of G.
TreeWorks(G) ==
    /\ EmptyImage \in G /\ Contents(EmptyImage) = [k \in Keys |-> {}]
    /\ \A x \in G : WellFormed(x)
    /\ PutsWork(G) /\ DeletesWork(G) /\ WritesWork(G)

-----------------------------------------------------------------------------
(* What a replay makes of a map. *)

Touches(r, n, k) == r.lsn > n /\ r.op \in Store!Ops /\ r.op[2] = k

Effect(op) == IF op \in Store!Puts THEN {op[3]} ELSE {}

\* `after' is `before' changed by the first m records of the log above the LSN n:
\* of the records of a key the last one counts.
Leads(before, log, n, m, after) ==
    \A k \in Keys :
        \/ after[k] = before[k] /\ \A i \in 1..m : ~Touches(log[i], n, k)
        \/ \E i \in 1..m : /\ Touches(log[i], n, k)
                           /\ \A j \in (i + 1)..m : ~Touches(log[j], n, k)
                           /\ after[k] = Effect(log[i].op)

\* The records above n are ones that put() lets through.
Fits(log, n) ==
    \A i \in 1..Len(log) : log[i].lsn > n /\ log[i].op \in Store!Puts =>
        RecordFits(log[i].op[2], log[i].op[3])

\* open() with the meta page m and this log over the pages in the file ends up
\* with this map.
Yields(G, disk, m, log, map) ==
    LET rm == Repaired(m, log)
    IN /\ ImageOf(rm, disk) \in G
       /\ Fits(log, rm.last_checkpoint_lsn)
       /\ Leads(Contents(ImageOf(rm, disk)), log, rm.last_checkpoint_lsn, Len(log), map)

\* Replaying this log over a tree with this map once more changes nothing.
Absorbs(map, m, log) ==
    LET n == Repaired(m, log).last_checkpoint_lsn
    IN Fits(log, n) /\ Leads(map, log, n, Len(log), map)

-----------------------------------------------------------------------------
(* The inductive invariant: the pages in the file are all there is (Quiet),  *)
(* or the log has what they lack (Fresh).                                    *)

\* The records that are read from the log, and from its durable part.
Read == LP!GoodPart(file)
Kept == LP!GoodPart(durable)

Metas == {meta, synced.meta}

\* What an open() may find the operation under way to have done.
Undecided == {view, Store!Apply(view, pending)}

CheckpointOf(x) == <<"checkpoint", x.root, x.flhead, x.next>>

\* The files of a rotation whose meta page is durable.
Rotation == {"stamped", "rotating", "renamed"}
Rotated == IF pc = "rotating" THEN {temp} ELSE {}

\* The file reaches the LSN c and has nothing but this CHECKPOINT above it.
Settled(s, c, op) ==
    /\ c <= LP!EndLsn(s)
    /\ \A i \in 1..Len(LP!GoodPart(s)) : LP!GoodPart(s)[i].lsn > c => LP!GoodPart(s)[i].op = op

SettledAt(c) ==
    /\ \A n \in Stamps : c <= n
    /\ \A s \in LP!Files \cup Rotated : Settled(s, c, CheckpointOf(im))

\* There is nothing to replay, whichever log and meta page are left.
Quiet(G) ==
    /\ \A m \in Metas : im = ImageOf(m, im.disk)
    /\ im \in G /\ Contents(im) \in Undecided
    /\ synced.pages = im.disk
    /\ \E c \in Nat : SettledAt(c)
    /\ is_opened \/ partial => pc \in Rotation

\* The tree in memory is complete, and a replay would find no more.
Warm == {"recovering", "replayed", "recovered", "idle", "returning", "flushing", "closing", "down"}

\* All of it is in the file.
Clean == {"flushed", "marking", "marked", "stamping"}

\* The meta page in the file is the newest one.
Newest ==
    \/ pc \in {"idle", "logging", "returning", "closing", "down"}
    \/ pc = "flushing" /\ is_opened
    \/ pc \in {"closed", "opening"} /\ partial

\* The image of an object that was closed after a failed write, which a new
\* open() of the object goes on with.
Remembered == [ImageOf(meta, im.disk) EXCEPT !.pool = mem]
Resumed == IF pc = "closed" THEN Remembered ELSE im

FreshMemory(G) ==
    /\ pc \in {"closed", "opening", "closing"} /\ ~partial => im = ImageOf(meta, im.disk)
    /\ pc \in {"closed", "opening"} /\ partial =>
            /\ Resumed \in G /\ Contents(Resumed) \in Undecided
            /\ Absorbs(Contents(Resumed), meta, Read) /\ LP!AllGood(file)
    /\ pc \notin {"closed", "opening"} => im \in G /\ Contents(im) \in Undecided
    /\ is_opened => Contents(im) = IF pc = "returning" THEN Store!Apply(view, pending) ELSE view
    /\ pc \in Warm => Absorbs(Contents(im), meta, Read)
    /\ pc = "logging" => Absorbs(Store!Apply(view, pending), meta, Read)
    /\ Newest => Repaired(meta, Read) = meta
    /\ pc \in Clean => DOMAIN im.pool = {} /\ DOMAIN im.fl = {}
    /\ pc = "closing" => ~partial

\* From the first page flushed until the CHECKPOINT record is durable, the
\* pages in the file are ahead of what the log says about them.
Window == {"flushing", "flushed", "marking"}

Found == IF pc \in {"logging", "returning"} THEN {Store!Apply(view, pending)} ELSE Undecided

\* What an interruption leaves is what recovery needs.
Recoverable(G) ==
    /\ synced.pages = im.disk
    /\ \A m \in Metas : /\ \E map \in Found : Yields(G, im.disk, m, Read, map)
                        /\ \E map \in Undecided : Yields(G, im.disk, m, Kept, map)

StampOf(x, lsn) == Meta(x.root, x.flhead, x.next, lsn)

FreshFiles(G) ==
    /\ pc \notin Window /\ (partial => pc \in {"marked", "stamping"}) => Recoverable(G)
    /\ pc \in {"flushed", "marking"} => synced.pages = im.disk
    /\ pc \in {"marking", "marked"} =>
            \A m \in Metas : Repaired(m, Read) = StampOf(im, current_lsn)
    /\ pc = "stamping" => /\ meta = StampOf(im, current_lsn)
                          /\ Repaired(synced.meta, Read) = meta

Fresh(G) ==
    /\ pc \notin Rotation /\ stale = {}
    /\ \A n \in Stamps : n <= LP!EndLsn(file) /\ n <= LP!EndLsn(durable)
    /\ FreshMemory(G)
    /\ FreshFiles(G)

\* A meta page, with page ids in its fields.
IsMeta(m) ==
    /\ m = Meta(m.root, m.flhead, m.next, m.last_checkpoint_lsn)
    /\ m.next \in Nat /\ m.root \in 1..(m.next - 1) /\ m.flhead \in 0..(m.next - 1)
    /\ m.last_checkpoint_lsn \in Nat

\* The state of the object and of its client.
Down == {"closed", "opening", "recovering", "replayed", "recovered", "down"}
Up == {"idle", "logging", "returning", "closing"}

ClientInv ==
    /\ scenario \in Scenarios
    /\ view \in [Keys -> SUBSET Values] /\ acked = view
    /\ pending \in Store!Ops \cup {<<>>}
    /\ pending \in Store!Puts => RecordFits(pending[2], pending[3])
    /\ is_opened \in BOOLEAN /\ closing \in BOOLEAN /\ partial \in BOOLEAN
    /\ pc \in Up => is_opened
    /\ pc \in Down => ~is_opened
    /\ pc \in {"logging", "returning"} => pending # <<>>
    /\ is_opened /\ pc \notin {"logging", "returning"} => pending = <<>>
    /\ closing => is_opened /\ pc \notin {"idle", "logging", "returning"}
    /\ pc # "closed" \/ ~partial => mem = <<>>
    /\ pc = "down" => partial

MetasInv == \A m \in Metas : IsMeta(m)

StoreInv(G) ==
    /\ LP!WALInv /\ PhasesAgree /\ LsnInv
    /\ ClientInv /\ MetasInv
    /\ Quiet(G) \/ Fresh(G)

\* No interruption falls into the window, and an object is not given up after a
\* failed write.
OutsideWindow == \A s \in Scenarios : s.points \cap Window = {} /\ s.ends = FALSE

-----------------------------------------------------------------------------
(* The replay of a log over an image. *)

\* The recursive definition of Redone has a solution, so that it is one.
LEMMA RedoneRecursion ==
    ASSUME NEW start, NEW n, NEW log, Len(log) \in Nat
    PROVE  /\ Redone(start, n, log)[0] = start
           /\ \A i \in 1..Len(log) :
                Redone(start, n, log)[i] =
                    IF log[i].lsn <= n THEN Redone(start, n, log)[i - 1]
                    ELSE Redo(Redone(start, n, log)[i - 1], log[i].op)
  <1> DEFINE Val(g, i) == IF i = 0 THEN start
                          ELSE IF log[i].lsn <= n THEN g[i - 1]
                          ELSE Redo(g[i - 1], log[i].op)
             Solves(g, m) == g = [i \in 0..m |-> Val(g, i)]
             Missing == {m \in Nat : ~(\E g : Solves(g, m))}
  <1>1. Redone(start, n, log) = CHOOSE g : Solves(g, Len(log))
    BY DEF Redone
  <1>2. Missing = {}
    <2>1. SUFFICES ASSUME Missing # {} PROVE FALSE
      OBVIOUS
    <2>2. PICK m \in Missing : \A y \in Missing : m <= y
      <3>1. Missing \subseteq Nat
        OBVIOUS
      <3> HIDE DEF Missing
      <3> QED
        BY <2>1, <3>1, LogAssumption, LP!LeastNatural
    <2>3. m \in Nat /\ ~(\E g : Solves(g, m))
      BY <2>2
    <2>4. CASE m = 0
      <3> DEFINE h == [i \in 0..0 |-> start]
      <3>1. Solves(h, 0)
        OBVIOUS
      <3> QED
        BY <2>3, <2>4, <3>1
    <2>5. CASE m # 0
      <3>1. m - 1 \in Nat /\ m - 1 \notin Missing
        BY <2>2, <2>3, <2>5
      <3>2. PICK g : Solves(g, m - 1)
        BY <3>1
      <3> DEFINE h == [i \in 0..m |-> IF i = m THEN Val(g, m) ELSE g[i]]
      <3>3. ASSUME NEW i \in 0..m PROVE h[i] = Val(h, i)
        <4>1. CASE i = 0
          <5>1. 0 \in 0..(m - 1) /\ i # m
            BY <2>3, <2>5, <3>1, <4>1
          <5>2. g[0] = start
            BY <3>2, <5>1
          <5> QED
            BY <4>1, <5>1, <5>2
        <4>2. CASE i # 0 /\ i # m
          <5>1. i \in 0..(m - 1) /\ i - 1 \in 0..m /\ i - 1 # m
            BY <2>3, <4>2
          <5>2. g[i] = Val(g, i) /\ h[i] = g[i] /\ h[i - 1] = g[i - 1]
            BY <3>2, <4>2, <5>1
          <5> HIDE DEF h
          <5> QED
            BY <4>2, <5>2
        <4>3. CASE i # 0 /\ i = m
          <5>1. i - 1 \in 0..m /\ i - 1 # m
            BY <2>3, <4>3
          <5>2. h[i] = Val(g, i) /\ h[i - 1] = g[i - 1]
            BY <4>3, <5>1
          <5> HIDE DEF h
          <5> QED
            BY <4>3, <5>2
        <4> QED
          BY <4>1, <4>2, <4>3
      <3>4. Solves(h, m)
        BY <3>3
      <3> QED
        BY <2>3, <3>4
    <2> QED
      BY <2>4, <2>5
  <1>3. Solves(Redone(start, n, log), Len(log))
    <2>1. \E g : Solves(g, Len(log))
      BY <1>2
    <2> HIDE DEF Solves
    <2> QED
      BY <1>1, <2>1
  <1>4. \A i \in 0..Len(log) : Redone(start, n, log)[i] = Val(Redone(start, n, log), i)
    BY <1>3
  <1> QED
    BY <1>4

-----------------------------------------------------------------------------
(* Maps. *)

\* An operation changes one key.
LEMMA OpsOfOneKey ==
    ASSUME NEW op \in Store!Ops
    PROVE  /\ op # <<>> /\ op \notin CheckpointOps /\ op[2] \in Keys
           /\ op \in Store!Puts => op[3] \in Values
           /\ \A map : Store!Apply(map, op) = [map EXCEPT ![op[2]] = Effect(op)]
  <1>1. CASE op \in Store!Puts
    <2>1. PICK k \in Keys, v \in Values : op = <<"put", k, v>>
      BY <1>1 DEF Store!Puts
    <2>2. op # <<>> /\ op[1] = "put" /\ op[2] = k /\ op[3] = v
      BY <2>1
    <2>3. op \notin CheckpointOps /\ op \notin Store!Deletes
      BY <2>1 DEF CheckpointOps, Store!Deletes
    <2> QED
      BY <1>1, <2>2, <2>3 DEF Store!Apply, Effect
  <1>2. CASE op \notin Store!Puts
    <2>1. op \in Store!Deletes
      BY <1>2 DEF Store!Ops
    <2>2. PICK k \in Keys : op = <<"delete", k>>
      BY <2>1 DEF Store!Deletes
    <2>3. op # <<>> /\ op[1] = "delete" /\ op[2] = k
      BY <2>2
    <2>4. op \notin CheckpointOps
      BY <2>2 DEF CheckpointOps
    <2> QED
      BY <1>2, <2>1, <2>3, <2>4 DEF Store!Apply, Effect
  <1> QED
    BY <1>1, <1>2

LEMMA CheckpointsAreNoOps ==
    ASSUME NEW op \in CheckpointOps
    PROVE  op \notin Store!Ops
  BY OpsOfOneKey

LEMMA ApplyNothing == \A map : Store!Apply(map, <<>>) = map
  <1>1. <<>> \notin Store!Puts /\ <<>> \notin Store!Deletes
    BY OpsOfOneKey DEF Store!Ops
  <1> QED
    BY <1>1 DEF Store!Apply

\* What a log makes of a map is determined, stays when the log is read once
\* more, and is nothing when the log has no operation.
LEMMA LeadsUnique ==
    ASSUME NEW a, NEW log, NEW n, NEW m \in Nat, NEW b, NEW c,
           Leads(a, log, n, m, b), Leads(a, log, n, m, c)
    PROVE  \A k \in Keys : b[k] = c[k]
  <1> SUFFICES ASSUME NEW k \in Keys PROVE b[k] = c[k]
    OBVIOUS
  <1> DEFINE T(i) == Touches(log[i], n, k)
  <1>1. \/ b[k] = a[k] /\ \A i \in 1..m : ~T(i)
        \/ \E i \in 1..m : T(i) /\ (\A j \in (i + 1)..m : ~T(j)) /\ b[k] = Effect(log[i].op)
    BY DEF Leads
  <1>2. \/ c[k] = a[k] /\ \A i \in 1..m : ~T(i)
        \/ \E i \in 1..m : T(i) /\ (\A j \in (i + 1)..m : ~T(j)) /\ c[k] = Effect(log[i].op)
    BY DEF Leads
  <1>3. \A i, j \in 1..m : i = j \/ j \in (i + 1)..m \/ i \in (j + 1)..m
    OBVIOUS
  <1> HIDE DEF T
  <1> QED
    BY <1>1, <1>2, <1>3

LEMMA LeadsAgain ==
    ASSUME NEW a, NEW log, NEW n, NEW m, NEW b, Leads(a, log, n, m, b)
    PROVE  Leads(b, log, n, m, b)
  BY DEF Leads

LEMMA LeadsNowhere ==
    ASSUME NEW a, NEW log, NEW n, NEW m,
           \A i \in 1..m : log[i].lsn > n => log[i].op \notin Store!Ops
    PROVE  Leads(a, log, n, m, a)
  BY DEF Leads, Touches

\* It depends on the records only, ...
LEMMA LeadsAlike ==
    ASSUME NEW a, NEW log, NEW n, NEW m, NEW b, Leads(a, log, n, m, b),
           NEW log2, \A i \in 1..m : log2[i] = log[i]
    PROVE  Leads(a, log2, n, m, b)
  <1> SUFFICES ASSUME NEW k \in Keys
               PROVE  \/ b[k] = a[k] /\ \A i \in 1..m : ~Touches(log2[i], n, k)
                      \/ \E i \in 1..m : /\ Touches(log2[i], n, k)
                                         /\ \A j \in (i + 1)..m : ~Touches(log2[j], n, k)
                                         /\ b[k] = Effect(log2[i].op)
    BY DEF Leads
  <1>1. CASE b[k] = a[k] /\ \A i \in 1..m : ~Touches(log[i], n, k)
    BY <1>1
  <1>2. CASE \E i \in 1..m : /\ Touches(log[i], n, k)
                             /\ \A j \in (i + 1)..m : ~Touches(log[j], n, k)
                             /\ b[k] = Effect(log[i].op)
    <2>1. PICK i \in 1..m : /\ Touches(log[i], n, k)
                            /\ \A j \in (i + 1)..m : ~Touches(log[j], n, k)
                            /\ b[k] = Effect(log[i].op)
      BY <1>2
    <2>2. \A j \in (i + 1)..m : j \in 1..m
      OBVIOUS
    <2> QED
      BY <2>1, <2>2
  <1> QED
    BY <1>1, <1>2 DEF Leads

\* ... and one more record changes what it stands for.
LEMMA LeadsOn ==
    ASSUME NEW a, NEW log, NEW n, NEW m \in Nat, NEW b, Leads(a, log, n, m, b),
           NEW c, log[m + 1].lsn > n, log[m + 1].op \in Store!Ops,
           \A k \in Keys : c[k] = IF k = log[m + 1].op[2] THEN Effect(log[m + 1].op) ELSE b[k]
    PROVE  Leads(a, log, n, m + 1, c)
  <1> SUFFICES ASSUME NEW k \in Keys
               PROVE  \/ c[k] = a[k] /\ \A i \in 1..(m + 1) : ~Touches(log[i], n, k)
                      \/ \E i \in 1..(m + 1) : /\ Touches(log[i], n, k)
                                               /\ \A j \in (i + 1)..(m + 1) : ~Touches(log[j], n, k)
                                               /\ c[k] = Effect(log[i].op)
    BY DEF Leads
  <1>1. CASE k = log[m + 1].op[2]
    <2>1. Touches(log[m + 1], n, k) /\ c[k] = Effect(log[m + 1].op)
      BY <1>1 DEF Touches
    <2>2. m + 1 \in 1..(m + 1) /\ \A j \in ((m + 1) + 1)..(m + 1) : FALSE
      OBVIOUS
    <2> QED
      BY <2>1, <2>2
  <1>2. CASE k # log[m + 1].op[2]
    <2>1. c[k] = b[k] /\ ~Touches(log[m + 1], n, k)
      BY <1>2 DEF Touches
    <2>2. \A i \in 1..(m + 1) : i \in 1..m \/ i = m + 1
      OBVIOUS
    <2>3. \A i \in 1..m : i \in 1..(m + 1) /\ \A j \in (i + 1)..(m + 1) : j \in (i + 1)..m \/ j = m + 1
      OBVIOUS
    <2>4. \/ b[k] = a[k] /\ \A i \in 1..m : ~Touches(log[i], n, k)
          \/ \E i \in 1..m : /\ Touches(log[i], n, k)
                             /\ \A j \in (i + 1)..m : ~Touches(log[j], n, k)
                             /\ b[k] = Effect(log[i].op)
      BY DEF Leads
    <2> QED
      BY <2>1, <2>2, <2>3, <2>4
  <1> QED
    BY <1>1, <1>2

LEMMA LeadsNoFurther ==
    ASSUME NEW a, NEW log, NEW n, NEW m \in Nat, NEW b, Leads(a, log, n, m, b),
           ~(log[m + 1].lsn > n) \/ log[m + 1].op \notin Store!Ops
    PROVE  Leads(a, log, n, m + 1, b)
  <1> SUFFICES ASSUME NEW k \in Keys
               PROVE  \/ b[k] = a[k] /\ \A i \in 1..(m + 1) : ~Touches(log[i], n, k)
                      \/ \E i \in 1..(m + 1) : /\ Touches(log[i], n, k)
                                               /\ \A j \in (i + 1)..(m + 1) : ~Touches(log[j], n, k)
                                               /\ b[k] = Effect(log[i].op)
    BY DEF Leads
  <1>1. ~Touches(log[m + 1], n, k)
    BY DEF Touches
  <1>2. \A i \in 1..(m + 1) : i \in 1..m \/ i = m + 1
    OBVIOUS
  <1>3. \A i \in 1..m : i \in 1..(m + 1) /\ \A j \in (i + 1)..(m + 1) : j \in (i + 1)..m \/ j = m + 1
    OBVIOUS
  <1>4. \/ b[k] = a[k] /\ \A i \in 1..m : ~Touches(log[i], n, k)
        \/ \E i \in 1..m : /\ Touches(log[i], n, k)
                           /\ \A j \in (i + 1)..m : ~Touches(log[j], n, k)
                           /\ b[k] = Effect(log[i].op)
    BY DEF Leads
  <1> QED
    BY <1>1, <1>2, <1>3, <1>4

-----------------------------------------------------------------------------
(* The replay does to the contents what the log does to the map. *)

\* What the tree does, one clause of TreeWorks at a time.
LEMMA ImageIsWellFormed == ASSUME NEW G, TreeWorks(G), NEW x \in G PROVE WellFormed(x)
  BY DEF TreeWorks

LEMMA ImageFields ==
    ASSUME NEW G, TreeWorks(G), NEW x \in G
    PROVE  /\ x = [root |-> x.root, next |-> x.next, flhead |-> x.flhead, pool |-> x.pool,
                   fl |-> x.fl, disk |-> x.disk, err |-> "none"]
           /\ x.err = "none"
           /\ \A f \in {x.pool, x.fl, x.disk} : f = [i \in DOMAIN f |-> f[i]]
           /\ x.next \in Nat /\ x.root \in 1..(x.next - 1) /\ x.flhead \in 0..(x.next - 1)
           /\ x.root \in Nat /\ x.flhead \in Nat
  <1>1. /\ x = [root |-> x.root, next |-> x.next, flhead |-> x.flhead, pool |-> x.pool,
                 fl |-> x.fl, disk |-> x.disk, err |-> "none"]
        /\ \A f \in {x.pool, x.fl, x.disk} : f = [i \in DOMAIN f |-> f[i]]
        /\ x.next \in Nat /\ x.root \in 1..(x.next - 1) /\ x.flhead \in 0..(x.next - 1)
    BY ImageIsWellFormed DEF WellFormed
  <1>2. x.err = "none"
    BY <1>1
  <1>3. x.root \in Nat /\ x.flhead \in Nat
    BY <1>1
  <1> QED
    BY <1>1, <1>2, <1>3

LEMMA RedoWorks ==
    ASSUME NEW G, TreeWorks(G), NEW x \in G, NEW op \in Store!Ops,
           op \in Store!Puts => RecordFits(op[2], op[3])
    PROVE  /\ Redo(x, op) \in G /\ Redo(x, op).disk = x.disk
           /\ Contents(Redo(x, op)) = Store!Apply(Contents(x), op)
  <1>1. x.err = "none"
    BY ImageFields
  <1>2. /\ op \notin CheckpointOps /\ op[2] \in Keys
        /\ op \in Store!Puts => op[3] \in Values
        /\ Store!Apply(Contents(x), op) = [Contents(x) EXCEPT ![op[2]] = Effect(op)]
    BY OpsOfOneKey
  <1>3. CASE op \in Store!Puts
    <2>1. Redo(x, op) = Insert(x, op[2], op[3])
      BY <1>1, <1>2, <1>3 DEF Redo
    <2>2. PutsWork(G) /\ op[3] \in Values /\ RecordFits(op[2], op[3])
      BY <1>2, <1>3 DEF TreeWorks
    <2>3. /\ Insert(x, op[2], op[3]) \in G /\ Insert(x, op[2], op[3]).disk = x.disk
          /\ Contents(Insert(x, op[2], op[3])) = [Contents(x) EXCEPT ![op[2]] = {op[3]}]
      <3>1. ASSUME NEW k \in Keys, NEW v \in Values, RecordFits(k, v)
            PROVE  /\ Insert(x, k, v) \in G /\ Insert(x, k, v).disk = x.disk
                   /\ Contents(Insert(x, k, v)) = [Contents(x) EXCEPT ![k] = {v}]
        BY <2>2, <3>1, Zenon DEF PutsWork
      <3> QED
        BY <1>2, <2>2, <3>1
    <2>4. Effect(op) = {op[3]}
      BY <1>3 DEF Effect
    <2> QED
      BY <1>2, <2>1, <2>3, <2>4
  <1>4. CASE op \notin Store!Puts
    <2>1. Redo(x, op) = Delete(x, op[2])
      BY <1>1, <1>2, <1>4 DEF Redo
    <2>2. DeletesWork(G)
      BY DEF TreeWorks
    <2>3. /\ Delete(x, op[2]) \in G /\ Delete(x, op[2]).disk = x.disk
          /\ Contents(Delete(x, op[2])) = [Contents(x) EXCEPT ![op[2]] = {}]
      BY <1>2, <2>2, Zenon DEF DeletesWork
    <2>4. Effect(op) = {}
      BY <1>4 DEF Effect
    <2> QED
      BY <1>2, <2>1, <2>3, <2>4
  <1> QED
    BY <1>3, <1>4

LEMMA ReplayWorks ==
    ASSUME NEW G, TreeWorks(G), NEW start \in G, NEW n \in Nat,
           NEW log \in Seq(LP!Records), Fits(log, n)
    PROVE  LET x == Redone(start, n, log)[Len(log)]
           IN /\ x \in G /\ x.disk = start.disk
              /\ Leads(Contents(start), log, n, Len(log), Contents(x))
              /\ (\A i \in 1..Len(log) : log[i].lsn > n => log[i].op \notin Store!Ops) => x = start
  <1> DEFINE f == Redone(start, n, log)
             Idle == \A i \in 1..Len(log) : log[i].lsn > n => log[i].op \notin Store!Ops
             Right(i) == /\ f[i] \in G /\ f[i].disk = start.disk
                         /\ Leads(Contents(start), log, n, i, Contents(f[i]))
                         /\ Idle => f[i] = start
             Wrong == {i \in 0..Len(log) : ~Right(i)}
  <1>1. Len(log) \in Nat
    OBVIOUS
  <1>2. /\ f[0] = start
        /\ \A i \in 1..Len(log) : f[i] = IF log[i].lsn <= n THEN f[i - 1]
                                         ELSE Redo(f[i - 1], log[i].op)
    BY <1>1, RedoneRecursion
  <1>3. \A i \in 1..Len(log) : /\ log[i].lsn \in Nat
                               /\ log[i].op \in Store!Ops \cup CheckpointOps
    <2>1. \A i \in 1..Len(log) : log[i] \in LP!Records
      BY <1>1
    <2>2. \A r \in LP!Records : r.lsn \in Nat /\ r.op \in Store!Ops \cup CheckpointOps
      BY DEF LP!Records
    <2> QED
      BY <2>1, <2>2
  <1> HIDE DEF f
  <1>4. Right(0)
    <2>1. Leads(Contents(start), log, n, 0, Contents(start))
      BY LeadsNowhere
    <2> QED
      BY <1>2, <2>1
  <1>5. ASSUME NEW i \in 1..Len(log), Right(i - 1) PROVE Right(i)
    <2> DEFINE m == i - 1
    <2>1. m \in Nat /\ m + 1 = i
      BY <1>1
    <2>2. /\ f[m] \in G /\ f[m].disk = start.disk
          /\ Leads(Contents(start), log, n, m, Contents(f[m])) /\ (Idle => f[m] = start)
      BY <1>5
    <2>3. f[m + 1] = IF log[m + 1].lsn <= n THEN f[m] ELSE Redo(f[m], log[m + 1].op)
      BY <1>2, <2>1
    <2>4. log[m + 1].lsn \in Nat /\ log[m + 1].op \in Store!Ops \cup CheckpointOps
      BY <1>3, <2>1
    <2> SUFFICES Right(m + 1)
      BY <2>1
    <2>5. Idle /\ log[m + 1].lsn > n => log[m + 1].op \notin Store!Ops
      BY <2>1
    <2>6. log[m + 1].lsn > n /\ log[m + 1].op \in Store!Puts =>
            RecordFits(log[m + 1].op[2], log[m + 1].op[3])
      BY <2>1 DEF Fits
    <2> HIDE DEF m, Idle
    <2>7. CASE log[m + 1].lsn <= n
      <3>1. f[m + 1] = f[m] /\ ~(log[m + 1].lsn > n)
        BY <2>3, <2>4, <2>7
      <3>2. Leads(Contents(start), log, n, m + 1, Contents(f[m]))
        BY <2>1, <2>2, <3>1, LeadsNoFurther
      <3> QED
        BY <2>2, <3>1, <3>2
    <2>8. CASE log[m + 1].lsn > n /\ log[m + 1].op \notin Store!Ops
      <3>1. f[m + 1] = Redo(f[m], log[m + 1].op)
        BY <2>3, <2>4, <2>8
      <3>2. f[m + 1] = f[m]
        BY <2>4, <2>8, <3>1 DEF Redo
      <3>3. Leads(Contents(start), log, n, m + 1, Contents(f[m]))
        BY <2>1, <2>2, <2>8, LeadsNoFurther
      <3> QED
        BY <2>2, <3>2, <3>3
    <2>9. CASE log[m + 1].lsn > n /\ log[m + 1].op \in Store!Ops
      <3> DEFINE op == log[m + 1].op
      <3>1. f[m + 1] = Redo(f[m], op)
        BY <2>3, <2>4, <2>9
      <3>2. /\ f[m + 1] \in G /\ f[m + 1].disk = f[m].disk
            /\ Contents(f[m + 1]) = Store!Apply(Contents(f[m]), op)
        BY <2>2, <2>6, <2>9, <3>1, RedoWorks
      <3>3. \A k \in Keys : Contents(f[m + 1])[k] =
                IF k = op[2] THEN Effect(op) ELSE Contents(f[m])[k]
        <4>1. Contents(f[m + 1]) = [Contents(f[m]) EXCEPT ![op[2]] = Effect(op)] /\ op[2] \in Keys
          BY <2>9, <3>2, OpsOfOneKey
        <4>2. DOMAIN Contents(f[m]) = Keys
          BY DEF Contents
        <4> QED
          BY <4>1, <4>2
      <3>4. Leads(Contents(start), log, n, m + 1, Contents(f[m + 1]))
        BY <2>1, <2>2, <2>9, <3>3, LeadsOn
      <3> QED
        BY <2>2, <2>5, <2>9, <3>2, <3>4
    <2> QED
      BY <2>4, <2>7, <2>8, <2>9
  <1>6. Wrong = {}
    <2>1. SUFFICES ASSUME Wrong # {} PROVE FALSE
      OBVIOUS
    <2>2. PICK i \in Wrong : \A y \in Wrong : i <= y
      <3>1. Wrong \subseteq Nat
        BY <1>1
      <3> HIDE DEF Wrong
      <3> QED
        BY <2>1, <3>1, LogAssumption, LP!LeastNatural
    <2>3. i \in 0..Len(log) /\ ~Right(i)
      BY <2>2
    <2> HIDE DEF Right
    <2>4. i # 0
      BY <1>4, <2>3
    <2>5. i \in 1..Len(log) /\ i - 1 \in 0..Len(log) /\ ~(i <= i - 1)
      BY <1>1, <2>3, <2>4
    <2>6. Right(i - 1)
      BY <2>2, <2>5
    <2> QED
      BY <1>5, <2>3, <2>5, <2>6
  <1>7. Right(Len(log))
    <2>1. Len(log) \in 0..Len(log)
      BY <1>1
    <2> QED
      BY <1>6, <2>1
  <1> QED
    BY <1>7 DEF f


-----------------------------------------------------------------------------
(* The meta page that recovery works with. *)

LEMMA MaxIs ==
    ASSUME NEW S \in SUBSET Nat, NEW x \in S, \A y \in S : y <= x
    PROVE  Max(S) = x
  <1>1. x \in S /\ \A y \in S : x >= y
    OBVIOUS
  <1>2. \A z \in S : (\A y \in S : z >= y) => z = x
    OBVIOUS
  <1> QED
    BY <1>1, <1>2 DEF Max

LEMMA RecordFields ==
    ASSUME NEW log \in Seq(LP!Records), NEW i \in 1..Len(log)
    PROVE  /\ log[i] \in LP!Records /\ log[i].lsn \in Nat
           /\ log[i].op \in Store!Ops \cup CheckpointOps
  <1>1. log[i] \in LP!Records
    OBVIOUS
  <1>2. \A r \in LP!Records : r.lsn \in Nat /\ r.op \in Store!Ops \cup CheckpointOps
    BY DEF LP!Records
  <1> QED
    BY <1>1, <1>2

\* It is the one in the file, or the one of a newer CHECKPOINT.
LEMMA RepairedCases ==
    ASSUME NEW m, m.last_checkpoint_lsn \in Nat, NEW log \in Seq(LP!Records)
    PROVE  \/ Repaired(m, log) = m
           \/ \E i \in 1..Len(log) :
                /\ log[i].op \in CheckpointOps /\ log[i].lsn \in Nat
                /\ log[i].lsn > m.last_checkpoint_lsn
                /\ Repaired(m, log) = Meta(log[i].op[2], log[i].op[3], log[i].op[4], log[i].lsn)
  <1> DEFINE found == {i \in DOMAIN log : log[i].op \in CheckpointOps}
             newest == log[Max(found)]
  <1>1. Len(log) \in Nat /\ DOMAIN log = 1..Len(log)
    OBVIOUS
  <1>2. Repaired(m, log) = IF found = {} \/ newest.lsn <= m.last_checkpoint_lsn THEN m
                           ELSE Meta(newest.op[2], newest.op[3], newest.op[4], newest.lsn)
    BY DEF Repaired
  <1>3. CASE found = {} \/ newest.lsn <= m.last_checkpoint_lsn
    BY <1>2, <1>3
  <1>4. CASE ~(found = {} \/ newest.lsn <= m.last_checkpoint_lsn)
    <2>1. found \in SUBSET (1..Len(log)) /\ found # {}
      BY <1>1, <1>4
    <2>2. Max(found) \in found
      <3> HIDE DEF found
      <3> QED
        BY <1>1, <2>1, MaxIsElement
    <2>3. Max(found) \in 1..Len(log) /\ newest.op \in CheckpointOps
      BY <1>1, <2>2
    <2>4. newest.lsn \in Nat
      BY <2>3, RecordFields
    <2> HIDE DEF newest
    <2>5. newest.lsn > m.last_checkpoint_lsn
      BY <1>4, <2>4
    <2>6. Repaired(m, log) = Meta(newest.op[2], newest.op[3], newest.op[4], newest.lsn)
      BY <1>2, <1>4
    <2> QED
      BY <2>3, <2>4, <2>5, <2>6 DEF newest
  <1> QED
    BY <1>3, <1>4

LEMMA RepairedForward ==
    ASSUME NEW m, m.last_checkpoint_lsn \in Nat, NEW log \in Seq(LP!Records)
    PROVE  /\ Repaired(m, log).last_checkpoint_lsn \in Nat
           /\ m.last_checkpoint_lsn <= Repaired(m, log).last_checkpoint_lsn
           /\ \A e \in Nat : /\ m.last_checkpoint_lsn <= e
                             /\ \A i \in 1..Len(log) : log[i].lsn <= e
                             => Repaired(m, log).last_checkpoint_lsn <= e
  <1>1. CASE Repaired(m, log) = m
    BY <1>1
  <1>2. CASE Repaired(m, log) # m
    <2>1. PICK i \in 1..Len(log) :
            /\ log[i].lsn \in Nat /\ log[i].lsn > m.last_checkpoint_lsn
            /\ Repaired(m, log) = Meta(log[i].op[2], log[i].op[3], log[i].op[4], log[i].lsn)
      BY <1>2, RepairedCases
    <2>2. Repaired(m, log).last_checkpoint_lsn = log[i].lsn
      BY <2>1 DEF Meta
    <2> QED
      BY <2>1, <2>2
  <1> QED
    BY <1>1, <1>2

\* A log that has nothing newer changes nothing, and a repair is done once.
LEMMA RepairedOld ==
    ASSUME NEW m, m.last_checkpoint_lsn \in Nat, NEW log \in Seq(LP!Records),
           \A i \in 1..Len(log) : log[i].lsn <= m.last_checkpoint_lsn
    PROVE  Repaired(m, log) = m
  <1>1. \A i \in 1..Len(log) : log[i].lsn \in Nat => ~(log[i].lsn > m.last_checkpoint_lsn)
    OBVIOUS
  <1> QED
    BY <1>1, RepairedCases

LEMMA RepairedAgain ==
    ASSUME NEW m, m.last_checkpoint_lsn \in Nat, NEW log \in Seq(LP!Records), NEW m2,
           m2.last_checkpoint_lsn = Repaired(m, log).last_checkpoint_lsn
    PROVE  Repaired(m2, log) = m2
  <1> DEFINE found == {i \in DOMAIN log : log[i].op \in CheckpointOps}
             newest == log[Max(found)]
             lsn == m.last_checkpoint_lsn
             lsn2 == m2.last_checkpoint_lsn
  <1>1. Repaired(m, log) = IF found = {} \/ newest.lsn <= lsn THEN m
                           ELSE Meta(newest.op[2], newest.op[3], newest.op[4], newest.lsn)
    BY DEF Repaired
  <1>2. Repaired(m2, log) = IF found = {} \/ newest.lsn <= lsn2 THEN m2
                            ELSE Meta(newest.op[2], newest.op[3], newest.op[4], newest.lsn)
    BY DEF Repaired
  <1>3. found # {} => newest.lsn \in Nat
    <2>1. Len(log) \in Nat /\ found \in SUBSET (1..Len(log))
      OBVIOUS
    <2>2. found # {} => Max(found) \in found
      <3> HIDE DEF found
      <3> QED
        BY <2>1, MaxIsElement
    <2> QED
      BY <2>1, <2>2, RecordFields
  <1> HIDE DEF found, newest
  <1>4. CASE found = {} \/ newest.lsn <= lsn
    BY <1>1, <1>2, <1>4
  <1>5. CASE ~(found = {} \/ newest.lsn <= lsn)
    <2>1. Repaired(m, log).last_checkpoint_lsn = newest.lsn
      BY <1>1, <1>5 DEF Meta
    <2>2. newest.lsn <= newest.lsn
      BY <1>3, <1>5
    <2> QED
      BY <1>2, <2>1, <2>2
  <1> QED
    BY <1>4, <1>5

\* A put or a delete leaves the newest CHECKPOINT what it is ...
LEMMA RepairedAppend ==
    ASSUME NEW m, NEW log \in Seq(LP!Records), NEW r \in LP!Records, r.op \notin CheckpointOps
    PROVE  Repaired(m, Append(log, r)) = Repaired(m, log)
  <1> DEFINE log2 == Append(log, r)
             found == {i \in DOMAIN log : log[i].op \in CheckpointOps}
             found2 == {i \in DOMAIN log2 : log2[i].op \in CheckpointOps}
  <1>1. /\ Len(log) \in Nat /\ DOMAIN log = 1..Len(log) /\ DOMAIN log2 = 1..(Len(log) + 1)
        /\ log2[Len(log) + 1] = r /\ \A i \in 1..Len(log) : log2[i] = log[i]
    OBVIOUS
  <1>2. Repaired(m, log) =
            IF found = {} \/ log[Max(found)].lsn <= m.last_checkpoint_lsn THEN m
            ELSE Meta(log[Max(found)].op[2], log[Max(found)].op[3], log[Max(found)].op[4],
                      log[Max(found)].lsn)
    BY DEF Repaired
  <1>3. Repaired(m, log2) =
            IF found2 = {} \/ log2[Max(found2)].lsn <= m.last_checkpoint_lsn THEN m
            ELSE Meta(log2[Max(found2)].op[2], log2[Max(found2)].op[3], log2[Max(found2)].op[4],
                      log2[Max(found2)].lsn)
    BY DEF Repaired
  <1> HIDE DEF log2
  <1>4. \A i \in 1..(Len(log) + 1) : i \in 1..Len(log) \/ i = Len(log) + 1
    BY <1>1
  <1>5. \A i \in 1..Len(log) : i \in 1..(Len(log) + 1)
    BY <1>1
  <1>6. found2 = found
    BY <1>1, <1>4, <1>5
  <1>7. found # {} => Max(found) \in 1..Len(log)
    <2>1. found \in SUBSET (1..Len(log))
      BY <1>1
    <2> HIDE DEF found
    <2> QED
      BY <1>1, <2>1, MaxIsElement
  <1> HIDE DEF found, found2
  <1>8. found # {} => log2[Max(found2)] = log[Max(found)]
    BY <1>1, <1>6, <1>7
  <1>9. Repaired(m, log2) = Repaired(m, log)
    <2>1. CASE found = {}
      BY <1>2, <1>3, <1>6, <2>1
    <2>2. CASE found # {}
      BY <1>2, <1>3, <1>6, <1>8, <2>2
    <2> QED
      BY <2>1, <2>2
  <1> QED
    BY <1>9 DEF log2

\* ... and a CHECKPOINT becomes the newest.
LEMMA RepairedMark ==
    ASSUME NEW m, m.last_checkpoint_lsn \in Nat, NEW log \in Seq(LP!Records),
           NEW r \in LP!Records, r.op \in CheckpointOps, r.lsn > m.last_checkpoint_lsn
    PROVE  Repaired(m, Append(log, r)) = Meta(r.op[2], r.op[3], r.op[4], r.lsn)
  <1> DEFINE log2 == Append(log, r)
             found2 == {i \in DOMAIN log2 : log2[i].op \in CheckpointOps}
  <1>1. /\ Len(log) \in Nat /\ DOMAIN log2 = 1..(Len(log) + 1) /\ log2[Len(log) + 1] = r
    OBVIOUS
  <1>2. r.lsn \in Nat
    BY DEF LP!Records
  <1>3. Repaired(m, log2) =
            IF found2 = {} \/ log2[Max(found2)].lsn <= m.last_checkpoint_lsn THEN m
            ELSE Meta(log2[Max(found2)].op[2], log2[Max(found2)].op[3], log2[Max(found2)].op[4],
                      log2[Max(found2)].lsn)
    BY DEF Repaired
  <1> HIDE DEF log2
  <1>4. /\ Len(log) + 1 \in found2 /\ found2 \in SUBSET Nat
        /\ \A y \in found2 : y <= Len(log) + 1
    BY <1>1
  <1> HIDE DEF found2
  <1>5. Max(found2) = Len(log) + 1
    BY <1>4, MaxIs
  <1>6. log2[Max(found2)] = r /\ found2 # {} /\ ~(r.lsn <= m.last_checkpoint_lsn)
    BY <1>1, <1>2, <1>4, <1>5
  <1> QED
    BY <1>3, <1>6 DEF log2

-----------------------------------------------------------------------------
(* What a log yields, and how it changes with a record. *)

\* The log of a chained file.
LEMMA LogOfFile ==
    ASSUME LP!WALInv, NEW s \in LP!Files
    PROVE  /\ LP!GoodPart(s) \in Seq(LP!Records) /\ LP!EndLsn(s) \in Nat
           /\ \A i \in 1..Len(LP!GoodPart(s)) :
                LP!GoodPart(s)[i].lsn \in Nat /\ LP!GoodPart(s)[i].lsn <= LP!EndLsn(s)
  <1>1. s \in Seq(LP!Cell) /\ LP!Chained(s)
    BY LogAssumption, LP!FilesChained
  <1> QED
    BY <1>1, LogAssumption, LP!GoodPartReads

LEMMA SameGoodPart == \A s : Log!GoodPart(s) = LP!GoodPart(s)
  BY DEF Log!GoodPart, LP!GoodPart, Log!GoodLen, LP!GoodLen

LEMMA SameRepaired == RepairedMeta = Repaired(meta, Read)
  BY SameGoodPart DEF RepairedMeta, Read

\* Above n the log has no operation.
NoOps(log, n) == \A i \in 1..Len(log) : log[i].lsn > n => log[i].op \notin Store!Ops

LEMMA OldIsNoOps ==
    ASSUME NEW log, NEW n \in Nat,
           \A i \in 1..Len(log) : log[i].lsn \in Nat /\ log[i].lsn <= n
    PROVE  NoOps(log, n)
  <1>1. \A i \in 1..Len(log) : ~(log[i].lsn > n)
    OBVIOUS
  <1> QED
    BY <1>1 DEF NoOps

LEMMA NoOpsFit == ASSUME NEW log, NEW n, NoOps(log, n) PROVE Fits(log, n)
  BY DEF NoOps, Fits, Store!Ops

LEMMA NoOpsYield ==
    ASSUME NEW G, NEW disk, NEW m, NEW log, NEW x \in G,
           x = ImageOf(Repaired(m, log), disk),
           NoOps(log, Repaired(m, log).last_checkpoint_lsn)
    PROVE  Yields(G, disk, m, log, Contents(x))
  <1> DEFINE n == Repaired(m, log).last_checkpoint_lsn
  <1>1. Leads(Contents(x), log, n, Len(log), Contents(x))
    BY LeadsNowhere DEF NoOps
  <1>2. Fits(log, n)
    BY NoOpsFit
  <1> QED
    BY <1>1, <1>2 DEF Yields

LEMMA NoOpsAbsorb ==
    ASSUME NEW map, NEW m, NEW log, NoOps(log, Repaired(m, log).last_checkpoint_lsn)
    PROVE  Absorbs(map, m, log)
  <1> DEFINE n == Repaired(m, log).last_checkpoint_lsn
  <1>1. Leads(map, log, n, Len(log), map)
    BY LeadsNowhere DEF NoOps
  <1>2. Fits(log, n)
    BY NoOpsFit
  <1> QED
    BY <1>1, <1>2 DEF Absorbs

\* One more operation, on a map.
LEMMA AppendLeads ==
    ASSUME NEW log \in Seq(LP!Records), NEW n, NEW a, NEW b \in [Keys -> SUBSET Values],
           Leads(a, log, n, Len(log), b), Fits(log, n),
           NEW r \in LP!Records, r.op \in Store!Ops, r.lsn > n,
           r.op \in Store!Puts => RecordFits(r.op[2], r.op[3])
    PROVE  /\ Leads(a, Append(log, r), n, Len(Append(log, r)), Store!Apply(b, r.op))
           /\ Fits(Append(log, r), n)
  <1> DEFINE log2 == Append(log, r)
             c == Store!Apply(b, r.op)
  <1>1. /\ Len(log) \in Nat /\ Len(log2) = Len(log) + 1
        /\ log2[Len(log) + 1] = r /\ \A i \in 1..Len(log) : log2[i] = log[i]
    OBVIOUS
  <1> HIDE DEF log2
  <1>2. Leads(a, log2, n, Len(log), b)
    BY <1>1, LeadsAlike
  <1>3. \A k \in Keys : c[k] = IF k = r.op[2] THEN Effect(r.op) ELSE b[k]
    <2>1. c = [b EXCEPT ![r.op[2]] = Effect(r.op)] /\ r.op[2] \in Keys
      BY OpsOfOneKey
    <2> HIDE DEF c
    <2> QED
      BY <2>1
  <1> HIDE DEF c
  <1>4. Leads(a, log2, n, Len(log) + 1, c)
    BY <1>1, <1>2, <1>3, LeadsOn
  <1>5. Fits(log2, n)
    <2> SUFFICES ASSUME NEW i \in 1..(Len(log) + 1), log2[i].lsn > n, log2[i].op \in Store!Puts
                 PROVE  RecordFits(log2[i].op[2], log2[i].op[3])
      BY <1>1 DEF Fits
    <2>1. i \in 1..Len(log) \/ i = Len(log) + 1
      BY <1>1
    <2>2. CASE i \in 1..Len(log)
      BY <1>1, <2>2 DEF Fits
    <2>3. CASE i = Len(log) + 1
      BY <1>1, <2>3
    <2> QED
      BY <2>1, <2>2, <2>3
  <1> QED
    BY <1>1, <1>4, <1>5 DEF log2, c

LEMMA AppendYields ==
    ASSUME NEW G, NEW disk, NEW m, NEW log \in Seq(LP!Records),
           NEW map \in [Keys -> SUBSET Values], Yields(G, disk, m, log, map),
           NEW r \in LP!Records, r.op \in Store!Ops,
           r.lsn > Repaired(m, log).last_checkpoint_lsn,
           r.op \in Store!Puts => RecordFits(r.op[2], r.op[3])
    PROVE  Yields(G, disk, m, Append(log, r), Store!Apply(map, r.op))
  <1> DEFINE rm == Repaired(m, log)
             n == rm.last_checkpoint_lsn
  <1>1. Repaired(m, Append(log, r)) = rm
    BY OpsOfOneKey, RepairedAppend
  <1>2. /\ ImageOf(rm, disk) \in G /\ Fits(log, n)
        /\ Leads(Contents(ImageOf(rm, disk)), log, n, Len(log), map)
    BY DEF Yields
  <1> HIDE DEF n
  <1>3. /\ Leads(Contents(ImageOf(rm, disk)), Append(log, r), n, Len(Append(log, r)),
                 Store!Apply(map, r.op))
        /\ Fits(Append(log, r), n)
    BY <1>2, AppendLeads DEF n
  <1> QED
    BY <1>1, <1>2, <1>3 DEF Yields, n

LEMMA AppendAbsorbs ==
    ASSUME NEW m, NEW log \in Seq(LP!Records),
           NEW map \in [Keys -> SUBSET Values], Absorbs(map, m, log),
           NEW r \in LP!Records, r.op \in Store!Ops,
           r.lsn > Repaired(m, log).last_checkpoint_lsn,
           r.op \in Store!Puts => RecordFits(r.op[2], r.op[3])
    PROVE  Absorbs(Store!Apply(map, r.op), m, Append(log, r))
  <1> DEFINE n == Repaired(m, log).last_checkpoint_lsn
  <1>1. Repaired(m, Append(log, r)).last_checkpoint_lsn = n
    BY OpsOfOneKey, RepairedAppend
  <1>2. Fits(log, n) /\ Leads(map, log, n, Len(log), map)
    BY DEF Absorbs
  <1> HIDE DEF n
  <1>3. /\ Leads(map, Append(log, r), n, Len(Append(log, r)), Store!Apply(map, r.op))
        /\ Fits(Append(log, r), n)
    BY <1>2, AppendLeads DEF n
  <1>4. Leads(Store!Apply(map, r.op), Append(log, r), n, Len(Append(log, r)),
              Store!Apply(map, r.op))
    BY <1>3, LeadsAgain
  <1> QED
    BY <1>1, <1>3, <1>4 DEF Absorbs

\* Operations keep the type of a map.
LEMMA ApplyType ==
    ASSUME NEW map \in [Keys -> SUBSET Values], NEW op \in Store!Ops \cup {<<>>}
    PROVE  Store!Apply(map, op) \in [Keys -> SUBSET Values]
  <1>1. CASE op = <<>>
    BY <1>1, ApplyNothing
  <1>2. CASE op # <<>>
    <2>1. /\ Store!Apply(map, op) = [map EXCEPT ![op[2]] = Effect(op)]
          /\ op \in Store!Puts => op[3] \in Values
      BY <1>2, OpsOfOneKey
    <2>2. Effect(op) \in SUBSET Values
      BY <2>1 DEF Effect
    <2> QED
      BY <2>1, <2>2
  <1> QED
    BY <1>1, <1>2

-----------------------------------------------------------------------------
(* Images. *)

LEMMA ImageOfFields ==
    ASSUME NEW m, NEW disk
    PROVE  LET x == ImageOf(m, disk)
           IN /\ x.root = m.root /\ x.next = m.next /\ x.flhead = m.flhead
              /\ x.pool = <<>> /\ x.fl = <<>> /\ x.disk = disk /\ x.err = "none"
  BY DEF ImageOf

\* Records with some of the fields of an image replaced: TLAPS is led field by
\* field.
FieldNames == {"root", "next", "flhead", "pool", "fl", "disk", "err"}

LEMMA PoolReplaced ==
    ASSUME NEW x, DOMAIN x = FieldNames, NEW d, NEW y, y = [x EXCEPT !.pool = d]
    PROVE  y = [root |-> x.root, next |-> x.next, flhead |-> x.flhead, pool |-> d, fl |-> x.fl, disk |-> x.disk, err |-> x.err]
  <1>1. DOMAIN y = FieldNames
    OBVIOUS
  <1>2. y = [i \in FieldNames |-> y[i]]
    BY <1>1
  <1>3. /\ y.root = x.root /\ y.next = x.next /\ y.flhead = x.flhead /\ y.pool = d
        /\ y.fl = x.fl /\ y.disk = x.disk /\ y.err = x.err
    BY DEF FieldNames
  <1> QED
    BY <1>2, <1>3 DEF FieldNames

LEMMA NothingInNothing == DOMAIN <<>> = {}
  OBVIOUS

LEMMA EmptyFunction ==
    ASSUME NEW f, f = [i \in DOMAIN f |-> f[i]], DOMAIN f = {}
    PROVE  f = <<>>
  OBVIOUS

LEMMA OverNothing ==
    ASSUME NEW f, DOMAIN f = {}, NEW g, g = [i \in DOMAIN g |-> g[i]]
    PROVE  Over(f, g) = g
  BY DEF Over

\* An image with all its pages in the file is what its meta page says.
LEMMA CleanImage ==
    ASSUME NEW G, TreeWorks(G), NEW x \in G, DOMAIN x.pool = {}, DOMAIN x.fl = {}, NEW lsn
    PROVE  x = ImageOf(StampOf(x, lsn), x.disk)
  <1>1. x.pool = <<>> /\ x.fl = <<>>
    BY ImageFields, EmptyFunction
  <1>2. x = [root |-> x.root, next |-> x.next, flhead |-> x.flhead, pool |-> x.pool,
             fl |-> x.fl, disk |-> x.disk, err |-> "none"]
    BY ImageFields
  <1>3. ImageOf(StampOf(x, lsn), x.disk) =
            [root |-> x.root, next |-> x.next, flhead |-> x.flhead, pool |-> <<>>,
             fl |-> <<>>, disk |-> x.disk, err |-> "none"]
    BY DEF ImageOf, StampOf, Meta
  <1> QED
    BY <1>1, <1>2, <1>3

\* The CHECKPOINT record of an image has page ids in its fields.
LEMMA MarkOfImage ==
    ASSUME NEW G, TreeWorks(G), NEW x \in G
    PROVE  CheckpointOf(x) \in CheckpointOps /\ CheckpointOf(x) \notin Store!Ops
  <1>1. x.root \in Nat /\ x.flhead \in Nat /\ x.next \in Nat
    BY ImageFields
  <1>2. CheckpointOf(x) \in CheckpointOps
    BY <1>1 DEF CheckpointOf, CheckpointOps
  <1> QED
    BY <1>2, CheckpointsAreNoOps

\* And the meta page that goes with it is one.
LEMMA StampOfImage ==
    ASSUME NEW G, TreeWorks(G), NEW x \in G, NEW lsn \in Nat
    PROVE  IsMeta(StampOf(x, lsn)) /\ StampOf(x, lsn).last_checkpoint_lsn = lsn
  <1>1. x.next \in Nat /\ x.root \in 1..(x.next - 1) /\ x.flhead \in 0..(x.next - 1)
    BY ImageFields
  <1>2. StampOf(x, lsn) = [root |-> x.root, flhead |-> x.flhead, next |-> x.next,
                           last_checkpoint_lsn |-> lsn]
    BY DEF StampOf, Meta
  <1> QED
    BY <1>1, <1>2 DEF IsMeta, Meta

\* What RecoveryFails leaves of an image, on disk and in the pool, is the image
\* with its freelist pages written.
LEMMA RememberedIs ==
    ASSUME NEW G, TreeWorks(G), NEW x \in G, NEW lsn, NEW y,
           y = [ImageOf(StampOf(x, lsn), Over(x.fl, x.disk)) EXCEPT !.pool = x.pool]
    PROVE  y = FreelistWritten(x)
  <1> DEFINE z == ImageOf(StampOf(x, lsn), Over(x.fl, x.disk))
  <1>1. z = [root |-> x.root, next |-> x.next, flhead |-> x.flhead, pool |-> <<>>,
             fl |-> <<>>, disk |-> Over(x.fl, x.disk), err |-> "none"]
    BY DEF ImageOf, StampOf, Meta
  <1>2. y = [z EXCEPT !.pool = x.pool]
    OBVIOUS
  <1> HIDE DEF z
  <1>3. y = [root |-> x.root, next |-> x.next, flhead |-> x.flhead, pool |-> x.pool,
             fl |-> <<>>, disk |-> Over(x.fl, x.disk), err |-> "none"]
    <2>1. DOMAIN z = FieldNames
      BY <1>1 DEF FieldNames
    <2>2. y = [root |-> z.root, next |-> z.next, flhead |-> z.flhead, pool |-> x.pool,
               fl |-> z.fl, disk |-> z.disk, err |-> z.err]
      BY <1>2, <2>1, PoolReplaced
    <2> QED
      BY <1>1, <2>2
  <1>4. x = [root |-> x.root, next |-> x.next, flhead |-> x.flhead, pool |-> x.pool,
             fl |-> x.fl, disk |-> x.disk, err |-> "none"]
    BY ImageFields
  <1>5. PICK w : w = FreelistWritten(x)
    OBVIOUS
  <1>6. w = [x EXCEPT !.disk = Over(x.fl, x.disk), !.fl = <<>>]
    BY <1>5 DEF FreelistWritten
  <1>7. w = [root |-> x.root, next |-> x.next, flhead |-> x.flhead, pool |-> x.pool,
             fl |-> <<>>, disk |-> Over(x.fl, x.disk), err |-> "none"]
    <2>1. DOMAIN x = FieldNames /\ x.err = "none"
      BY <1>4 DEF FieldNames
    <2>2. w = [root |-> x.root, next |-> x.next, flhead |-> x.flhead, pool |-> x.pool,
               fl |-> <<>>, disk |-> Over(x.fl, x.disk), err |-> x.err]
      <3>1. DOMAIN w = FieldNames
        BY <1>6, <2>1
      <3>2. w = [i \in FieldNames |-> w[i]]
        BY <1>6, <3>1
      <3>3. /\ w.root = x.root /\ w.next = x.next /\ w.flhead = x.flhead /\ w.pool = x.pool
            /\ w.fl = <<>> /\ w.disk = Over(x.fl, x.disk) /\ w.err = x.err
        BY <1>6, <2>1 DEF FieldNames
      <3> QED
        BY <3>2, <3>3 DEF FieldNames
    <2> QED
      BY <2>1, <2>2
  <1> QED
    BY <1>3, <1>5, <1>7

\* The contents of an image is a map, whatever the image.
LEMMA ContentsEqual ==
    ASSUME NEW x, NEW map \in [Keys -> SUBSET Values], \A k \in Keys : Contents(x)[k] = map[k]
    PROVE  Contents(x) = map
  BY DEF Contents

-----------------------------------------------------------------------------
(* The replay of open(). *)

\* From what an interruption has left.
LEMMA ReplayOfFiles ==
    ASSUME NEW G, TreeWorks(G), NEW disk, NEW m, m.last_checkpoint_lsn \in Nat,
           NEW log \in Seq(LP!Records), NEW map \in [Keys -> SUBSET Values],
           Yields(G, disk, m, log, map)
    PROVE  LET rm == Repaired(m, log)
               x == Redone(ImageOf(rm, disk), rm.last_checkpoint_lsn, log)[Len(log)]
           IN x \in G /\ x.disk = disk /\ Contents(x) = map /\ Absorbs(map, m, log)
  <1> DEFINE rm == Repaired(m, log)
             n == rm.last_checkpoint_lsn
             y == ImageOf(rm, disk)
             x == Redone(y, n, log)[Len(log)]
  <1>1. n \in Nat
    BY RepairedForward
  <1>2. y \in G /\ Fits(log, n) /\ Leads(Contents(y), log, n, Len(log), map)
    BY DEF Yields
  <1>3. y.disk = disk
    BY ImageOfFields
  <1>4. Len(log) \in Nat
    OBVIOUS
  <1> HIDE DEF n, y
  <1>5. x \in G /\ x.disk = y.disk /\ Leads(Contents(y), log, n, Len(log), Contents(x))
    BY <1>1, <1>2, ReplayWorks
  <1> HIDE DEF x
  <1>6. Contents(x) = map
    BY <1>2, <1>4, <1>5, LeadsUnique, ContentsEqual
  <1>7. Leads(map, log, n, Len(log), map)
    BY <1>2, LeadsAgain
  <1>8. Absorbs(map, m, log)
    BY <1>2, <1>7 DEF Absorbs, n
  <1> QED
    BY <1>3, <1>5, <1>6, <1>8 DEF x, y, n

\* Over the pages of an object whose checkpoint has failed.
LEMMA ReplayOverTree ==
    ASSUME NEW G, TreeWorks(G), NEW y \in G, NEW m, m.last_checkpoint_lsn \in Nat,
           NEW log \in Seq(LP!Records), NEW map \in [Keys -> SUBSET Values],
           Contents(y) = map, Absorbs(map, m, log)
    PROVE  LET x == Redone(y, Repaired(m, log).last_checkpoint_lsn, log)[Len(log)]
           IN x \in G /\ x.disk = y.disk /\ Contents(x) = map
  <1> DEFINE n == Repaired(m, log).last_checkpoint_lsn
             x == Redone(y, n, log)[Len(log)]
  <1>1. n \in Nat
    BY RepairedForward
  <1>2. Fits(log, n) /\ Leads(Contents(y), log, n, Len(log), map)
    BY DEF Absorbs
  <1>4. Len(log) \in Nat
    OBVIOUS
  <1> HIDE DEF n
  <1>5. x \in G /\ x.disk = y.disk /\ Leads(Contents(y), log, n, Len(log), Contents(x))
    BY <1>1, <1>2, ReplayWorks
  <1> HIDE DEF x
  <1>6. Contents(x) = map
    BY <1>2, <1>4, <1>5, LeadsUnique, ContentsEqual
  <1> QED
    BY <1>5, <1>6 DEF x, n

\* Of a log that has nothing to replay.
LEMMA ReplayOfNothing ==
    ASSUME NEW G, TreeWorks(G), NEW y \in G, NEW n \in Nat, NEW log \in Seq(LP!Records),
           NoOps(log, n)
    PROVE  Redone(y, n, log)[Len(log)] = y
  <1>1. Fits(log, n)
    BY NoOpsFit
  <1> QED
    BY <1>1, ReplayWorks DEF NoOps

\* What _recover() computes, in the terms of these lemmas.
LEMMA ReplayedIs ==
    ASSUME IsMeta(meta)
    PROVE  LET rm == Repaired(meta, Read)
               lsn == rm.last_checkpoint_lsn
           IN /\ im = ImageOf(meta, im.disk) =>
                    Replayed = Redone(ImageOf(rm, im.disk), lsn, Read)[Len(Read)]
              /\ rm = meta => Replayed = Redone(im, lsn, Read)[Len(Read)]
  <1> DEFINE rm == Repaired(meta, Read)
             start == IF rm = meta THEN im
                      ELSE [im EXCEPT !.root = rm.root, !.flhead = rm.flhead, !.next = rm.next]
  <1>1. Replayed = Redone(start, rm.last_checkpoint_lsn, Read)[Len(Read)]
    BY SameRepaired, SameGoodPart DEF Replayed, Read
  <1>2. rm = meta => start = im
    OBVIOUS
  <1>3. ASSUME im = ImageOf(meta, im.disk) PROVE start = ImageOf(rm, im.disk)
    <2>1. CASE rm = meta
      BY <1>3, <2>1
    <2>2. CASE rm # meta
      <3>1. start = [im EXCEPT !.root = rm.root, !.flhead = rm.flhead, !.next = rm.next]
        BY <2>2
      <3>2. im = [root |-> meta.root, next |-> meta.next, flhead |-> meta.flhead,
                  pool |-> <<>>, fl |-> <<>>, disk |-> im.disk, err |-> "none"]
        BY <1>3 DEF ImageOf
      <3> HIDE DEF start, rm
      <3>3. start = [root |-> rm.root, next |-> rm.next, flhead |-> rm.flhead,
                     pool |-> <<>>, fl |-> <<>>, disk |-> im.disk, err |-> "none"]
        <4>1. /\ DOMAIN im = FieldNames
              /\ im.pool = <<>> /\ im.fl = <<>> /\ im.err = "none"
          BY <3>2 DEF FieldNames
        <4>2. start = [root |-> rm.root, next |-> rm.next, flhead |-> rm.flhead,
                       pool |-> im.pool, fl |-> im.fl, disk |-> im.disk, err |-> im.err]
          <5>1. DOMAIN start = FieldNames
            BY <3>1, <4>1
          <5>2. start = [i \in FieldNames |-> start[i]]
            BY <3>1, <5>1
          <5>3. /\ start.root = rm.root /\ start.next = rm.next /\ start.flhead = rm.flhead
                /\ start.pool = im.pool /\ start.fl = im.fl /\ start.disk = im.disk
                /\ start.err = im.err
            BY <3>1, <4>1 DEF FieldNames
          <5> QED
            BY <5>2, <5>3 DEF FieldNames
        <4> QED
          BY <4>1, <4>2
      <3> QED
        BY <3>3 DEF ImageOf
    <2> QED
      BY <2>1, <2>2
  <1> HIDE DEF start
  <1> QED
    BY <1>1, <1>2, <1>3

-----------------------------------------------------------------------------
(* The log, the client and the meta pages. *)

\* Once a recovery has replayed the log, the tree in memory is a good one.
LEMMA TreeInMemory ==
    ASSUME NEW G, Quiet(G) \/ Fresh(G), pc \notin {"closed", "opening"}
    PROVE  im \in G /\ Contents(im) \in Undecided
  <1>1. CASE Quiet(G)
    BY <1>1 DEF Quiet
  <1>2. CASE Fresh(G)
    BY <1>2 DEF Fresh, FreshMemory
  <1> QED
    BY <1>1, <1>2

\* The log of the database stays as WAL_proofs describes it.
LEMMA LogOfStep ==
    ASSUME NEW G, TreeWorks(G), StoreInv(G), [FaultsNext]_dbFaultVars
    PROVE  LP!WALInv' /\ PhasesAgree' /\ LsnInv'
  <1>1. LP!WALInv /\ PhasesAgree /\ LsnInv /\ (Quiet(G) \/ Fresh(G))
    BY DEF StoreInv
  <1>2. LogCheckpoint => im.root \in Nat /\ im.flhead \in Nat /\ im.next \in Nat
    BY <1>1, TreeInMemory, ImageFields DEF LogCheckpoint
  <1>3. PhasesAgree' /\ LsnInv'
    BY <1>1, PhasesStep, FaultsNextLsn
  <1>4. CASE ReopenUnclosed
    BY <1>1, <1>3, <1>4, ReopenLog
  <1>5. CASE ~ReopenUnclosed
    <2>1. [LP!Next]_(LP!walVars)
      BY <1>2, <1>5, LogStep
    <2> QED
      BY <1>1, <1>3, <2>1, LogAssumption, LP!NextInv
  <1> QED
    BY <1>4, <1>5

\* Calls.
LEMMA CallOfClient ==
    ASSUME Client
    PROVE  \/ \E op \in Store!Ops : /\ Call(op) /\ scenario' = scenario
                                    /\ op \in Store!Puts => RecordFits(op[2], op[3])
           \/ (Checkpoint \/ Close) /\ scenario' = scenario
  <1>1. CASE \E k \in Keys, v \in Values : Requested(<<"put", k, v>>) /\ Put(k, v)
    <2>1. PICK k \in Keys, v \in Values : Requested(<<"put", k, v>>) /\ Put(k, v)
      BY <1>1
    <2> DEFINE op == <<"put", k, v>>
    <2>2. op \in Store!Ops /\ op[2] = k /\ op[3] = v
      BY DEF Store!Ops, Store!Puts
    <2>3. Call(op) /\ RecordFits(k, v) /\ scenario' = scenario
      BY <2>1 DEF Put, Requested
    <2> HIDE DEF op
    <2> QED
      BY <2>2, <2>3
  <1>2. CASE \E k \in Keys : Requested(<<"delete", k>>) /\ DeleteKey(k)
    <2>1. PICK k \in Keys : Requested(<<"delete", k>>) /\ DeleteKey(k)
      BY <1>2
    <2> DEFINE op == <<"delete", k>>
    <2>2. op \in Store!Ops /\ op \notin Store!Puts
      BY DEF Store!Ops, Store!Puts, Store!Deletes
    <2>3. Call(op) /\ scenario' = scenario
      BY <2>1 DEF DeleteKey, Requested
    <2> HIDE DEF op
    <2> QED
      BY <2>2, <2>3
  <1>3. CASE (Requested(<<"checkpoint">>) /\ Checkpoint) \/ (Requested(<<"close">>) /\ Close)
    BY <1>3 DEF Requested
  <1> QED
    BY <1>1, <1>2, <1>3 DEF Client

\* In the window nothing is interrupted, and after a failed write no other
\* object is used.
LEMMA StopsInOrder ==
    ASSUME ClientInv, OutsideWindow
    PROVE  /\ (Kill \/ PowerLoss => pc \notin Window)
           /\ (GivenUp => ~partial)
  <1>1. scenario \in Scenarios
    BY DEF ClientInv
  <1>2. scenario.points \cap Window = {} /\ scenario.ends = FALSE
    BY <1>1 DEF OutsideWindow
  <1> QED
    BY <1>2 DEF Kill, PowerLoss, Interrupt, GivenUp

\* Steps that change neither the client's state nor the object's.
SameClient == UNCHANGED <<pending, view, acked, scenario, is_opened, closing>>

LEMMA ClientKept ==
    ASSUME ClientInv, SameClient, UNCHANGED <<mem, partial>>,
           pc \notin {"logging", "returning", "closed", "down"},
           \/ pc' \notin Up \cup Down \cup {"logging", "returning", "closed", "down"}
           \/ pc \in Down /\ pc' \in Down \ {"closed", "down"}
           \/ pc' \in Down \ {"down"} /\ pc \in Down /\ ~partial
    PROVE  ClientInv'
  BY DEF ClientInv, SameClient, Up, Down

LEMMA ClientOfWork ==
    ASSUME ClientInv, UNCHANGED faultVars,
           \/ Recover \/ CutTail \/ ReplaySync \/ RecoveryCheckpoint
           \/ (\E id \in DOMAIN im.pool : FlushPage(id)) \/ FlushFreelist
           \/ SyncPages \/ LogCheckpoint \/ LogCheckpointSync \/ WriteMeta \/ SyncMeta
           \/ RotateWrite \/ RotateRename
    PROVE  ClientInv'
  <1>1. SameClient /\ UNCHANGED <<mem, partial>>
    BY DEF SameClient, faultVars, clientVars, requestVars, BeginCheckpoint,
           Recover, CutTail, ReplaySync, RecoveryCheckpoint, FlushPage, FlushFreelist,
           SyncPages, LogCheckpoint, LogCheckpointSync, WriteMeta, SyncMeta, RotateWrite,
           RotateRename
  <1>2. /\ pc \notin {"logging", "returning", "closed", "down"}
        /\ \/ pc' \notin Up \cup Down \cup {"logging", "returning", "closed", "down"}
           \/ pc \in Down /\ pc' \in Down \ {"closed", "down"}
    BY DEF Recover, CutTail, ReplaySync, RecoveryCheckpoint, BeginCheckpoint, FlushPage,
           FlushFreelist, SyncPages, LogCheckpoint, LogCheckpointSync, WriteMeta, SyncMeta,
           RotateWrite, RotateRename, Up, Down
  <1> QED
    BY <1>1, <1>2, ClientKept

LEMMA ClientOfCall ==
    ASSUME ClientInv, UNCHANGED <<mem, partial>>, Client
    PROVE  ClientInv'
  <1>1. ASSUME NEW op \in Store!Ops, Call(op), scenario' = scenario,
               op \in Store!Puts => RecordFits(op[2], op[3])
        PROVE  ClientInv'
    <2>1. op # <<>>
      BY OpsOfOneKey
    <2>2. /\ pc = "idle" /\ pc' = "logging" /\ pending' = op
          /\ UNCHANGED <<view, acked, is_opened, closing>>
      BY <1>1 DEF Call
    <2> QED
      BY <1>1, <2>1, <2>2 DEF ClientInv, Up, Down
  <1>2. ASSUME Checkpoint \/ Close, scenario' = scenario PROVE ClientInv'
    <2>1. /\ pc = "idle" /\ pc' = "flushing" /\ closing' \in {closing, TRUE}
          /\ UNCHANGED <<view, acked, pending, is_opened>>
      BY <1>2 DEF Checkpoint, Close, BeginCheckpoint
    <2> QED
      BY <1>2, <2>1 DEF ClientInv, Up, Down
  <1> QED
    BY <1>1, <1>2, CallOfClient

LEMMA ClientOfAnswer ==
    ASSUME NEW G, StoreInv(G), UNCHANGED faultVars, Logged \/ Return
    PROVE  ClientInv'
  <1>1. ClientInv
    BY DEF StoreInv
  <1>2. CASE Logged
    <2>1. /\ pc = "logging" /\ pc' = "returning" /\ UNCHANGED <<mem, partial>>
          /\ UNCHANGED <<pending, view, acked, scenario, is_opened, closing>>
      BY <1>2 DEF Logged, clientVars, requestVars, faultVars
    <2> QED
      BY <1>1, <2>1 DEF ClientInv, Up, Down
  <1>3. CASE Return
    <2>1. /\ pc = "returning" /\ pc' = "idle" /\ UNCHANGED <<mem, partial>>
          /\ view' = Contents(im) /\ acked' = Store!Apply(acked, pending) /\ pending' = <<>>
          /\ UNCHANGED <<scenario, is_opened, closing>>
      BY <1>3 DEF Return, requestVars, faultVars
    <2>2. is_opened /\ ~closing /\ pending # <<>>
      BY <1>1, <2>1 DEF ClientInv, Up
    <2>3. Fresh(G)
      BY <2>1, <2>2 DEF StoreInv, Quiet, Rotation
    <2>4. Contents(im) = Store!Apply(view, pending)
      BY <2>1, <2>2, <2>3 DEF Fresh, FreshMemory
    <2>5. Store!Apply(view, pending) \in [Keys -> SUBSET Values]
      BY <1>1, ApplyType DEF ClientInv
    <2>6. <<>> \notin Store!Puts
      BY OpsOfOneKey DEF Store!Ops
    <2> QED
      BY <1>1, <2>1, <2>2, <2>4, <2>5, <2>6 DEF ClientInv, Up, Down
  <1> QED
    BY <1>2, <1>3

\* open() finds the operation that an interruption has cut short done or not
\* done, and a checkpoint of an open database finds nothing new.
LEMMA ClientOfRotateSync ==
    ASSUME NEW G, StoreInv(G), RotateSync, Completed
    PROVE  /\ ClientInv' /\ view' = Contents(im) /\ view' \in Undecided
           /\ is_opened => view' = view
  <1>1. ClientInv /\ (Quiet(G) \/ Fresh(G))
    BY DEF StoreInv
  <1>2. /\ pc = "renamed" /\ pc' = (IF closing THEN "closing" ELSE "idle")
        /\ mem' = mem /\ partial' = FALSE
        /\ is_opened' = TRUE /\ view' = Contents(im) /\ pending' = <<>>
        /\ acked' = (IF Contents(im) = Store!Apply(acked, pending) THEN Contents(im) ELSE acked)
        /\ UNCHANGED <<scenario, closing>>
    BY DEF RotateSync, requestVars, Completed
  <1>3. Contents(im) \in Undecided
    BY <1>1, <1>2, TreeInMemory
  <1>4. view' \in [Keys -> SUBSET Values] /\ acked' = view'
    <2>1. Store!Apply(view, pending) \in [Keys -> SUBSET Values]
      BY <1>1, ApplyType DEF ClientInv
    <2>2. view \in [Keys -> SUBSET Values] /\ acked = view
      BY <1>1 DEF ClientInv
    <2> QED
      BY <1>2, <1>3, <2>1, <2>2 DEF Undecided
  <1>5. <<>> \notin Store!Puts
    BY OpsOfOneKey DEF Store!Ops
  <1>6. is_opened => view' = view
    <2>1. is_opened => pending = <<>>
      BY <1>1, <1>2 DEF ClientInv
    <2> QED
      BY <1>2, <1>3, <2>1, ApplyNothing DEF Undecided
  <1> QED
    BY <1>1, <1>2, <1>3, <1>4, <1>5, <1>6 DEF ClientInv, Up, Down

LEMMA ClientOfStop ==
    ASSUME ClientInv,
           \/ CheckpointFails \/ CloseFails \/ RecoveryFails \/ ReopenUnclosed \/ ReopenObject
           \/ (Open \/ Kill \/ PowerLoss) /\ GivenUp
           \/ (CloseFiles \/ OpenFails) /\ UNCHANGED faultVars
    PROVE  ClientInv'
  <1>1. UNCHANGED <<pending, view, acked, scenario>>
    BY DEF CheckpointFails, CloseFails, RecoveryFails, ReopenUnclosed, ReopenObject, Open, Kill,
           PowerLoss, Interrupt, CloseFiles, OpenFails, clientVars, requestVars
  <1>2. CASE CheckpointFails
    <2>1. /\ pc = "flushing" /\ pc' = "idle" /\ is_opened /\ ~closing /\ partial' = TRUE
          /\ UNCHANGED <<is_opened, closing, mem>>
      BY <1>2 DEF CheckpointFails, FlushRaises
    <2> QED
      BY <1>1, <2>1 DEF ClientInv, Up, Down
  <1>3. CASE CloseFails
    <2>1. /\ pc = "flushing" /\ pc' = "down" /\ partial' = TRUE
          /\ is_opened' = FALSE /\ closing' = FALSE /\ mem' = mem
      BY <1>3 DEF CloseFails, FlushRaises
    <2> QED
      BY <1>1, <2>1 DEF ClientInv, Up, Down
  <1>4. CASE RecoveryFails
    <2>1. /\ ~is_opened /\ pc' = "closed" /\ partial' = TRUE /\ UNCHANGED <<is_opened, closing>>
      BY <1>4 DEF RecoveryFails, FlushRaises
    <2> QED
      BY <1>1, <2>1 DEF ClientInv, Up, Down
  <1>5. CASE ReopenUnclosed \/ ReopenObject
    <2>1. /\ pc \in {"down", "closed"} /\ pc' = "opening" /\ UNCHANGED <<is_opened, closing, partial>>
          /\ (mem' = mem /\ pc = "down") \/ mem' = <<>>
      BY <1>5 DEF ReopenUnclosed, ReopenObject, faultVars
    <2> QED
      BY <1>1, <2>1 DEF ClientInv, Up, Down
  <1>6. CASE (Open \/ Kill \/ PowerLoss) /\ GivenUp
    <2>1. /\ pc' \in {"opening", "closed"} /\ mem' = <<>> /\ partial' = partial
          /\ closing' = FALSE /\ is_opened' = FALSE
      BY <1>6 DEF Open, Kill, PowerLoss, Interrupt, GivenUp, ClientInv, Down
    <2> QED
      BY <1>1, <2>1 DEF ClientInv, Up, Down
  <1>7. CASE (CloseFiles \/ OpenFails) /\ UNCHANGED faultVars
    <2>1. /\ pc \in {"closing", "opening", "recovering"} /\ pc' = "closed"
          /\ UNCHANGED <<mem, partial>> /\ closing' = FALSE /\ is_opened' = FALSE
      BY <1>7 DEF CloseFiles, OpenFails, faultVars, ClientInv, Down
    <2> QED
      BY <1>1, <2>1 DEF ClientInv, Up, Down
  <1> QED
    BY <1>2, <1>3, <1>4, <1>5, <1>6, <1>7

LEMMA ClientStep ==
    ASSUME NEW G, StoreInv(G), [FaultsNext]_dbFaultVars PROVE ClientInv'
  <1>1. ClientInv
    BY DEF StoreInv
  <1>2. CASE UNCHANGED dbFaultVars \/ (Lookup /\ UNCHANGED faultVars)
    BY <1>1, <1>2
       DEF Lookup, dbFaultVars, dbVars, faultVars, clientVars, requestVars, ClientInv
  <1>3. CASE Client /\ UNCHANGED faultVars
    BY <1>1, <1>3, ClientOfCall DEF faultVars
  <1>4. CASE (Logged \/ Return) /\ UNCHANGED faultVars
    BY <1>4, ClientOfAnswer
  <1>5. CASE RotateSync /\ Completed
    BY <1>5, ClientOfRotateSync
  <1>6. CASE Work /\ UNCHANGED faultVars /\ ~Logged /\ ~Return /\ ~CloseFiles /\ ~OpenFails
    BY <1>1, <1>6, ClientOfWork DEF Work
  <1>7. CASE \/ CheckpointFails \/ CloseFails \/ RecoveryFails \/ ReopenUnclosed \/ ReopenObject
             \/ (Open \/ Kill \/ PowerLoss) /\ GivenUp
             \/ (CloseFiles \/ OpenFails) /\ UNCHANGED faultVars
    BY <1>1, <1>7, ClientOfStop
  <1> QED
    BY <1>2, <1>3, <1>4, <1>5, <1>6, <1>7 DEF FaultsNext

\* Meta pages come from the files, or from the image in memory.
LEMMA MetasKept ==
    ASSUME [FaultsNext]_dbFaultVars, ~WriteMeta, ~OpenFails, ~RecoveryFails
    PROVE  meta' \in Metas /\ synced'.meta \in Metas
  <1>1. CASE Client \/ Lookup \/ UNCHANGED dbFaultVars
    BY <1>1
       DEF Client, Put, DeleteKey, Call, Checkpoint, Close, BeginCheckpoint, Lookup,
           dbFaultVars, dbVars, fileVars, Metas
  <1>2. CASE Work
    BY <1>2
       DEF Work, Recover, CutTail, ReplaySync, Logged, Return, RecoveryCheckpoint,
           BeginCheckpoint, FlushPage, FlushFreelist, SyncPages, LogCheckpoint,
           LogCheckpointSync, SyncMeta, RotateWrite, RotateRename, CloseFiles, fileVars, Metas
  <1>3. CASE RotateSync \/ CheckpointFails \/ CloseFails \/ ReopenUnclosed \/ ReopenObject
                \/ Open \/ Kill
    BY <1>3
       DEF RotateSync, CheckpointFails, CloseFails, ReopenUnclosed, ReopenObject, Open, Kill,
           fileVars, Metas
  <1>4. CASE PowerLoss
    BY <1>4 DEF PowerLoss, Metas
  <1> QED
    BY <1>1, <1>2, <1>3, <1>4 DEF FaultsNext

LEMMA MetasStep ==
    ASSUME NEW G, TreeWorks(G), StoreInv(G), [FaultsNext]_dbFaultVars PROVE MetasInv'
  <1>1. /\ LP!WALInv /\ ClientInv /\ MetasInv /\ (Quiet(G) \/ Fresh(G))
        /\ IsMeta(meta) /\ IsMeta(synced.meta)
    BY DEF StoreInv, MetasInv, Metas
  <1>2. ASSUME IsMeta(meta'), IsMeta(synced'.meta) PROVE MetasInv'
    BY <1>2 DEF MetasInv, Metas, IsMeta
  <1>3. CASE ~WriteMeta /\ ~OpenFails /\ ~RecoveryFails
    BY <1>1, <1>2, <1>3, MetasKept DEF MetasInv
  <1>4. CASE WriteMeta
    <2>1. im \in G /\ current_lsn \in Nat
      BY <1>1, <1>4, TreeInMemory DEF WriteMeta, LP!WALInv, LP!WALTypeOK
    <2>2. meta' = StampOf(im, current_lsn) /\ synced' = synced
      BY <1>4 DEF WriteMeta, StampOf
    <2> QED
      BY <1>1, <1>2, <2>1, <2>2, StampOfImage
  <1>5. CASE OpenFails \/ RecoveryFails
    <2>1. PICK lsn \in Nat : meta' = StampOf(im, lsn) /\ synced'.meta = meta'
      <3>1. meta.last_checkpoint_lsn \in Nat
        BY <1>1 DEF IsMeta
      <3>2. RepairedMeta.last_checkpoint_lsn \in Nat
        BY <1>1, <3>1, RepairMovesForward
      <3> QED
        BY <1>5, <3>1, <3>2 DEF OpenFails, RecoveryFails, StampOf
    <2>2. CASE im \in G
      BY <1>2, <2>1, <2>2, StampOfImage
    <2>3. CASE im \notin G
      <3>1. pc = "opening"
        BY <1>1, <1>5, <2>3, TreeInMemory DEF OpenFails, RecoveryFails, FlushRaises
      <3>2. im = ImageOf(meta, im.disk)
        BY <1>1, <2>3, <3>1 DEF Quiet, Fresh, FreshMemory, Resumed, ClientInv
      <3>3. im.root = meta.root /\ im.flhead = meta.flhead /\ im.next = meta.next
        BY <3>2, ImageOfFields
      <3>4. StampOf(im, lsn) = [root |-> meta.root, flhead |-> meta.flhead, next |-> meta.next,
                                last_checkpoint_lsn |-> lsn]
        BY <3>3 DEF StampOf, Meta
      <3>5. IsMeta(StampOf(im, lsn))
        BY <1>1, <3>4 DEF IsMeta, Meta
      <3> QED
        BY <1>2, <2>1, <3>5
    <2> QED
      BY <2>2, <2>3
  <1> QED
    BY <1>3, <1>4, <1>5

-----------------------------------------------------------------------------
(* Steps from a state in which there is nothing to replay. *)

\* The log is read as before.
ReadAlike(s) ==
    \E g \in LP!Files \cup Rotated :
        LP!GoodPart(s) = LP!GoodPart(g) /\ LP!EndLsn(s) = LP!EndLsn(g)

LEMMA FilesReadAlike ==
    ASSUME LP!WALInv,
           \/ UNCHANGED logVars \/ Log!Open \/ Log!Replay \/ Log!ReplaySync \/ Log!AppendSync
           \/ Log!RotateSync \/ Log!Close \/ Log!Kill \/ Log!PowerLoss
    PROVE  \A s \in {file', durable'} \cup stale' : ReadAlike(s)
  <1>1. LP!QuietStep \/ LP!Replay \/ LP!Kill \/ LP!PowerLoss
    BY SameLog, LogAssumption, LP!QuietSteps
  <1>2. \A s \in {file', durable'} \cup stale' : \E g \in LP!Files :
                LP!GoodPart(s) = LP!GoodPart(g) /\ LP!EndLsn(s) = LP!EndLsn(g)
    BY <1>1, LogAssumption, LP!StepReads
  <1> QED
    BY <1>2 DEF ReadAlike

LEMMA QuietSame ==
    ASSUME NEW G, Quiet(G), im' = im, meta' \in Metas, synced'.meta \in Metas,
           synced'.pages = im.disk, view' = view, pending' = pending,
           \A s \in {file', durable'} \cup stale' : ReadAlike(s),
           pc' # "rotating",
           is_opened' \/ partial' => pc' \in Rotation
    PROVE  Quiet(G)'
  <1>1. /\ \A m \in Metas : im = ImageOf(m, im.disk)
        /\ im \in G /\ Contents(im) \in Undecided
    BY DEF Quiet
  <1>2. PICK c \in Nat : SettledAt(c)
    BY DEF Quiet
  <1>3. SettledAt(c)'
    <2>1. \A n \in Stamps' : n \in Stamps
      BY DEF Stamps, Metas
    <2>2. ASSUME NEW s \in {file', durable'} \cup stale' PROVE Settled(s, c, CheckpointOf(im))
      <3>1. PICK g \in LP!Files \cup Rotated :
                LP!GoodPart(s) = LP!GoodPart(g) /\ LP!EndLsn(s) = LP!EndLsn(g)
        BY DEF ReadAlike
      <3>2. Settled(g, c, CheckpointOf(im))
        BY <1>2 DEF SettledAt
      <3> QED
        BY <3>1, <3>2 DEF Settled
    <2>3. Rotated' = {} /\ (LP!Files)' = {file', durable'} \cup stale'
      BY DEF Rotated, LP!Files
    <2>4. \A s \in (LP!Files \cup Rotated)' : Settled(s, c, CheckpointOf(im))
      BY <2>2, <2>3
    <2>5. \A n \in Stamps' : c <= n
      BY <1>2, <2>1 DEF SettledAt
    <2> QED
      BY <2>4, <2>5 DEF SettledAt
  <1>4. \A m \in Metas' : im' = ImageOf(m, im'.disk)
    BY <1>1 DEF Metas
  <1>5. Contents(im') \in Undecided'
    BY <1>1 DEF Undecided
  <1> QED
    BY <1>1, <1>3, <1>4, <1>5 DEF Quiet

\* A recovery finds nothing to redo.
LEMMA QuietRecover ==
    ASSUME NEW G, TreeWorks(G), Quiet(G), LP!WALInv, MetasInv
    PROVE  Replayed = im
  <1>1. IsMeta(meta) /\ meta.last_checkpoint_lsn \in Nat /\ im = ImageOf(meta, im.disk) /\ im \in G
    BY DEF MetasInv, Metas, IsMeta, Quiet
  <1>2. PICK c \in Nat : SettledAt(c)
    BY DEF Quiet
  <1>3. c <= meta.last_checkpoint_lsn /\ Settled(file, c, CheckpointOf(im))
    BY <1>2 DEF SettledAt, Stamps, LP!Files
  <1>4. Read \in Seq(LP!Records) /\ \A i \in 1..Len(Read) : Read[i].lsn \in Nat
    BY LogOfFile DEF Read, LP!Files
  <1>5. \A i \in 1..Len(Read) : Read[i].lsn > c => Read[i].op = CheckpointOf(im)
    BY <1>3 DEF Settled, Read
  <1> DEFINE rm == Repaired(meta, Read)
             lsn == rm.last_checkpoint_lsn
  <1>6. lsn \in Nat /\ meta.last_checkpoint_lsn <= lsn
    BY <1>1, <1>4, RepairedForward
  <1>7. NoOps(Read, lsn)
    <2> SUFFICES ASSUME NEW i \in 1..Len(Read), Read[i].lsn > lsn
                 PROVE  Read[i].op \notin Store!Ops
      BY DEF NoOps
    <2>1. Read[i].lsn > c
      BY <1>1, <1>3, <1>4, <1>6
    <2> QED
      BY <1>1, <1>5, <2>1, MarkOfImage
  <1>8. ImageOf(rm, im.disk) = im
    <2>1. CASE rm = meta
      BY <1>1, <2>1
    <2>2. CASE rm # meta
      <3>1. PICK i \in 1..Len(Read) :
                /\ Read[i].lsn \in Nat /\ Read[i].lsn > meta.last_checkpoint_lsn
                /\ rm = Meta(Read[i].op[2], Read[i].op[3], Read[i].op[4], Read[i].lsn)
        BY <1>1, <1>4, <2>2, RepairedCases
      <3>2. Read[i].op = CheckpointOf(im)
        BY <1>1, <1>3, <1>5, <3>1
      <3>3. Read[i].op[2] = im.root /\ Read[i].op[3] = im.flhead /\ Read[i].op[4] = im.next
        BY <3>2 DEF CheckpointOf
      <3>4. rm.root = im.root /\ rm.flhead = im.flhead /\ rm.next = im.next
        BY <3>1, <3>3 DEF Meta
      <3>5. im.root = meta.root /\ im.flhead = meta.flhead /\ im.next = meta.next
        BY <1>1, ImageOfFields
      <3>6. ImageOf(rm, im.disk) = ImageOf(meta, im.disk)
        BY <3>4, <3>5 DEF ImageOf
      <3> QED
        BY <1>1, <3>6
    <2> QED
      BY <2>1, <2>2
  <1>9. Replayed = Redone(ImageOf(rm, im.disk), lsn, Read)[Len(Read)]
    BY <1>1, ReplayedIs
  <1> HIDE DEF lsn, rm
  <1>10. Redone(im, lsn, Read)[Len(Read)] = im
    BY <1>1, <1>4, <1>6, <1>7, ReplayOfNothing
  <1> QED
    BY <1>8, <1>9, <1>10

\* There is nothing but the file.
LEMMA QuietImage ==
    ASSUME NEW G, TreeWorks(G), Quiet(G)
    PROVE  /\ im \in G /\ im = ImageOf(meta, im.disk) /\ im.err = "none"
           /\ DOMAIN im.pool = {} /\ DOMAIN im.fl = {}
           /\ im.root = meta.root /\ im.flhead = meta.flhead /\ im.next = meta.next
           /\ synced.pages = im.disk
           /\ pc \notin Rotation => ~is_opened /\ ~partial
  <1>1. /\ im \in G /\ im = ImageOf(meta, im.disk) /\ synced.pages = im.disk
        /\ pc \notin Rotation => ~is_opened /\ ~partial
    BY DEF Quiet, Metas
  <1>2. /\ im.root = meta.root /\ im.flhead = meta.flhead /\ im.next = meta.next
        /\ im.pool = <<>> /\ im.fl = <<>> /\ im.err = "none"
    BY <1>1, ImageOfFields
  <1> QED
    BY <1>1, <1>2, NothingInNothing

\* The steps of open() and of its checkpoint that bring no record.
LEMMA QuietWork ==
    ASSUME NEW G, TreeWorks(G), StoreInv(G), Quiet(G),
           \/ /\ UNCHANGED faultVars
              /\ \/ Recover \/ CutTail \/ ReplaySync \/ RecoveryCheckpoint \/ SyncPages
                 \/ LogCheckpointSync \/ SyncMeta
           \/ (Open \/ Kill) /\ GivenUp /\ ~partial
    PROVE  Quiet(G)'
  <1>1. LP!WALInv /\ MetasInv
    BY DEF StoreInv
  <1>2. /\ im = ImageOf(meta, im.disk) /\ synced.pages = im.disk
        /\ pc \notin Rotation => ~is_opened /\ ~partial
    BY QuietImage
  <1>3. Replayed = im
    BY <1>1, QuietRecover
  <1>4. im' = im
    BY <1>2, <1>3
       DEF Recover, CutTail, ReplaySync, RecoveryCheckpoint, BeginCheckpoint, SyncPages,
           LogCheckpointSync, SyncMeta, Open, Kill, fileVars
  <1>5. meta' \in Metas /\ synced'.meta \in Metas /\ synced'.pages = im.disk
    BY <1>2
       DEF Recover, CutTail, ReplaySync, RecoveryCheckpoint, BeginCheckpoint, SyncPages,
           LogCheckpointSync, SyncMeta, Open, Kill, fileVars, Metas
  <1>6. view' = view /\ pending' = pending
    BY DEF Recover, CutTail, ReplaySync, RecoveryCheckpoint, BeginCheckpoint, SyncPages,
           LogCheckpointSync, SyncMeta, Open, Kill, Interrupt, clientVars
  <1>7. \/ UNCHANGED logVars \/ Log!Open \/ Log!Replay \/ Log!ReplaySync \/ Log!AppendSync
        \/ Log!RotateSync \/ Log!Close \/ Log!Kill \/ Log!PowerLoss
    BY DEF Recover, CutTail, ReplaySync, RecoveryCheckpoint, BeginCheckpoint, SyncPages,
           LogCheckpointSync, SyncMeta, Open, Kill
  <1>8. \A s \in {file', durable'} \cup stale' : ReadAlike(s)
    BY <1>1, <1>7, FilesReadAlike
  <1>9. pc' # "rotating" /\ (is_opened' \/ partial' => pc' \in Rotation)
    BY <1>2
       DEF Recover, CutTail, ReplaySync, RecoveryCheckpoint, BeginCheckpoint, SyncPages,
           LogCheckpointSync, SyncMeta, Open, Kill, Interrupt, GivenUp, faultVars, Rotation
  <1> QED
    BY <1>4, <1>5, <1>6, <1>8, <1>9, QuietSame

\* All the pages are durable.
LEMMA QuietPowerLoss ==
    ASSUME NEW G, TreeWorks(G), StoreInv(G), Quiet(G), PowerLoss, GivenUp, ~partial
    PROVE  Quiet(G)'
  <1>1. LP!WALInv
    BY DEF StoreInv
  <1>2. /\ im \in G /\ synced.pages = im.disk /\ im.disk = [i \in DOMAIN im.disk |-> im.disk[i]]
        /\ \A m \in Metas : im = ImageOf(m, im.disk)
    BY QuietImage, ImageFields DEF Quiet
  <1>3. PICK kept \in SUBSET {id \in DOMAIN im.disk :
                               id \notin DOMAIN synced.pages \/ synced.pages[id] # im.disk[id]},
             m \in {meta, synced.meta} :
          LET disk == Over([id \in kept |-> im.disk[id]], synced.pages)
          IN im' = ImageOf(m, disk) /\ meta' = m /\ synced' = [pages |-> disk, meta |-> m]
    BY DEF PowerLoss
  <1>4. kept = {}
    BY <1>2
  <1>5. Over([id \in kept |-> im.disk[id]], synced.pages) = im.disk
    <2>1. PICK f : f = [id \in kept |-> im.disk[id]]
      OBVIOUS
    <2>2. DOMAIN f = {}
      BY <1>4, <2>1
    <2> QED
      BY <1>2, <2>1, <2>2, OverNothing
  <1>6. im' = im /\ meta' \in Metas /\ synced'.meta \in Metas /\ synced'.pages = im.disk
    BY <1>2, <1>3, <1>5 DEF Metas
  <1>7. \A s \in {file', durable'} \cup stale' : ReadAlike(s)
    BY <1>1, FilesReadAlike DEF PowerLoss
  <1>8. /\ view' = view /\ pending' = pending
        /\ pc' # "rotating" /\ (is_opened' \/ partial' => pc' \in Rotation)
    BY DEF PowerLoss, Interrupt, GivenUp
  <1> QED
    BY <1>6, <1>7, <1>8, QuietSame

\* An unreadable log changes nothing.
LEMMA QuietOpenFails ==
    ASSUME NEW G, TreeWorks(G), StoreInv(G), Quiet(G), OpenFails, UNCHANGED faultVars
    PROVE  Quiet(G)'
  <1>1. LP!WALInv /\ IsMeta(meta)
    BY DEF StoreInv, MetasInv, Metas
  <1>2. /\ im \in G /\ im.err = "none" /\ im = ImageOf(meta, im.disk) /\ DOMAIN im.fl = {}
        /\ im.root = meta.root /\ im.flhead = meta.flhead /\ im.next = meta.next
        /\ pc \notin Rotation => ~is_opened /\ ~partial
    BY QuietImage
  <1>3. pc = "opening"
    BY <1>2 DEF OpenFails
  <1>4. meta' = meta
    BY <1>1, <1>2, <1>3 DEF OpenFails, IsMeta
  <1>5. Over(im.fl, im.disk) = im.disk
    BY <1>2, ImageFields, OverNothing
  <1>6. im' = im /\ meta' \in Metas /\ synced'.meta \in Metas /\ synced'.pages = im.disk
    <2>1. im' = ImageOf(meta', Over(im.fl, im.disk)) /\ synced' = [pages |-> im'.disk, meta |-> meta']
      BY DEF OpenFails
    <2> QED
      BY <1>2, <1>4, <1>5, <2>1 DEF Metas
  <1>7. \A s \in {file', durable'} \cup stale' : ReadAlike(s)
    BY <1>1, FilesReadAlike DEF OpenFails
  <1>8. /\ view' = view /\ pending' = pending
        /\ pc' # "rotating" /\ (is_opened' \/ partial' => pc' \in Rotation)
    BY <1>2, <1>3 DEF OpenFails, clientVars, faultVars, Rotation
  <1> QED
    BY <1>6, <1>7, <1>8, QuietSame

\* The rename puts the rotated log in the place of the other.
LEMMA QuietRotateRename ==
    ASSUME NEW G, TreeWorks(G), StoreInv(G), Quiet(G), RotateRename, UNCHANGED faultVars
    PROVE  Quiet(G)'
  <1>1. /\ pc = "rotating" /\ pc' = "renamed" /\ im' = im /\ meta' = meta /\ synced' = synced
        /\ view' = view /\ pending' = pending
        /\ file' = temp /\ durable' = temp /\ stale' = stale \cup {durable}
    BY DEF RotateRename, fileVars, clientVars, Log!RotateRename
  <1>2. \A s \in {file', durable'} \cup stale' : ReadAlike(s)
    BY <1>1 DEF ReadAlike, Rotated, LP!Files
  <1>3. synced.pages = im.disk
    BY QuietImage
  <1> QED
    BY <1>1, <1>2, <1>3, QuietSame DEF Metas, Rotation

\* The CHECKPOINT of a recovery that had nothing to replay.
LEMMA QuietLogCheckpoint ==
    ASSUME NEW G, TreeWorks(G), StoreInv(G), Quiet(G), LogCheckpoint, UNCHANGED faultVars
    PROVE  Quiet(G)'
  <1>1. LP!WALInv
    BY DEF StoreInv
  <1>2. /\ pc = "flushed" /\ pc' = "marking" /\ Log!AppendWrite(CheckpointOf(im))
        /\ im' = im /\ meta' = meta /\ synced' = synced /\ view' = view /\ pending' = pending
        /\ is_opened' = is_opened /\ partial' = partial
    BY DEF LogCheckpoint, CheckpointOf, fileVars, clientVars, faultVars
  <1>3. im \in G /\ ~is_opened /\ ~partial /\ Contents(im) \in Undecided /\ synced.pages = im.disk
    BY <1>2 DEF Quiet, Rotation
  <1>4. PICK c \in Nat : SettledAt(c)
    BY DEF Quiet
  <1>5. CheckpointOf(im) \in CheckpointOps
    BY <1>3, MarkOfImage
  <1>6. LP!AppendWrite(CheckpointOf(im)) /\ durable' = durable /\ stale' = stale
    BY <1>2, SameLog DEF Log!AppendWrite
  <1> DEFINE r == LP!Record(current_lsn + 1, CheckpointOf(im))
  <1>7. /\ LP!GoodPart(file') = Append(LP!GoodPart(file), r)
        /\ LP!EndLsn(file) = current_lsn /\ LP!EndLsn(file') = current_lsn + 1
        /\ current_lsn \in Nat
    BY <1>1, <1>5, <1>6, LogAssumption, LP!AppendReads
  <1>8. r.op = CheckpointOf(im)
    BY DEF LP!Record
  <1>9. LP!GoodPart(file) \in Seq(LP!Records)
    BY <1>1, LogOfFile DEF LP!Files
  <1>10. Settled(file, c, CheckpointOf(im)) /\ Settled(durable, c, CheckpointOf(im))
         /\ \A s \in stale : Settled(s, c, CheckpointOf(im))
    BY <1>4 DEF SettledAt, LP!Files
  <1> HIDE DEF r
  <1>11. Settled(file', c, CheckpointOf(im))
    <2>1. c <= LP!EndLsn(file')
      BY <1>7, <1>10 DEF Settled
    <2>2. PICK log : log = LP!GoodPart(file)
      OBVIOUS
    <2>3. PICK log2 : log2 = LP!GoodPart(file')
      OBVIOUS
    <2>4. log \in Seq(LP!Records) /\ log2 = Append(log, r)
      BY <1>7, <1>9, <2>2, <2>3
    <2>5. \A i \in 1..Len(log) : log[i].lsn > c => log[i].op = CheckpointOf(im)
      BY <1>10, <2>2 DEF Settled
    <2>6. /\ Len(log) \in Nat /\ \A i \in 1..Len(log2) : i \in 1..Len(log) \/ i = Len(log) + 1
          /\ log2[Len(log) + 1] = r /\ \A i \in 1..Len(log) : log2[i] = log[i]
      BY <2>4
    <2>7. \A i \in 1..Len(log2) : log2[i].lsn > c => log2[i].op = CheckpointOf(im)
      BY <1>8, <2>5, <2>6
    <2> QED
      BY <2>1, <2>3, <2>7 DEF Settled
  <1>12. SettledAt(c)'
    <2>1. Rotated' = {} /\ (LP!Files)' = {file', durable} \cup stale /\ Stamps' = Stamps
      BY <1>2, <1>6 DEF Rotated, LP!Files, Stamps
    <2>2. CheckpointOf(im)' = CheckpointOf(im)
      BY <1>2
    <2> QED
      BY <1>4, <1>10, <1>11, <2>1, <2>2 DEF SettledAt
  <1>13. \A m \in Metas' : im' = ImageOf(m, im'.disk)
    BY <1>2 DEF Quiet, Metas
  <1> QED
    BY <1>2, <1>3, <1>12, <1>13 DEF Quiet, Undecided

\* Its meta page says what the one before it says.
LEMMA QuietWriteMeta ==
    ASSUME NEW G, TreeWorks(G), StoreInv(G), Quiet(G), WriteMeta, UNCHANGED faultVars
    PROVE  Quiet(G)'
  <1>1. LP!WALInv /\ PhasesAgree
    BY DEF StoreInv
  <1>2. /\ pc = "marked" /\ pc' = "stamping" /\ meta' = StampOf(im, current_lsn)
        /\ im' = im /\ synced' = synced /\ view' = view /\ pending' = pending
        /\ is_opened' = is_opened /\ partial' = partial /\ UNCHANGED logVars
    BY DEF WriteMeta, StampOf, clientVars, faultVars
  <1>3. /\ im \in G /\ ~is_opened /\ ~partial /\ synced.pages = im.disk
        /\ DOMAIN im.pool = {} /\ DOMAIN im.fl = {}
    BY <1>2, QuietImage DEF Rotation
  <1>4. PICK c \in Nat : SettledAt(c)
    BY DEF Quiet
  <1>5. wpc = "ready" /\ current_lsn = LP!EndLsn(file)
    BY <1>1, <1>2 DEF PhasesAgree, Rests, LP!WALInv, LP!Recovered
  <1>6. c <= current_lsn
    BY <1>4, <1>5 DEF SettledAt, Settled, LP!Files
  <1>7. meta'.last_checkpoint_lsn = current_lsn
    BY <1>2 DEF StampOf, Meta
  <1>8. SettledAt(c)'
    <2>1. Rotated' = {} /\ Rotated = {} /\ (LP!Files)' = LP!Files
      BY <1>2 DEF Rotated, LP!Files, logVars
    <2>2. \A n \in Stamps' : c <= n
      BY <1>2, <1>4, <1>6, <1>7 DEF SettledAt, Stamps
    <2>3. CheckpointOf(im)' = CheckpointOf(im)
      BY <1>2
    <2> QED
      BY <1>4, <2>1, <2>2, <2>3 DEF SettledAt
  <1>9. im = ImageOf(meta', im.disk)
    BY <1>2, <1>3, CleanImage
  <1>10. \A m \in Metas' : im' = ImageOf(m, im'.disk)
    BY <1>2, <1>9 DEF Quiet, Metas
  <1>11. Contents(im') \in Undecided'
    BY <1>2 DEF Quiet, Undecided
  <1> QED
    BY <1>2, <1>3, <1>8, <1>10, <1>11 DEF Quiet

\* A rotated log has records of the log it comes from.
LEMMA QuietRotateWrite ==
    ASSUME NEW G, TreeWorks(G), StoreInv(G), Quiet(G), RotateWrite, UNCHANGED faultVars
    PROVE  Quiet(G)'
  <1>1. LP!WALInv
    BY DEF StoreInv
  <1>2. /\ pc = "stamped" /\ pc' = "rotating" /\ Log!RotateWrite(current_lsn)
        /\ im' = im /\ meta' = meta /\ synced' = synced /\ view' = view /\ pending' = pending
    BY DEF RotateWrite, fileVars, clientVars
  <1>3. LP!RotateWrite(current_lsn) /\ UNCHANGED <<file, durable, stale>>
    BY <1>2, SameLog DEF Log!RotateWrite
  <1>4. PICK c \in Nat : SettledAt(c)
    BY DEF Quiet
  <1>5. /\ temp' \in Seq(LP!Cell) /\ LP!GoodPart(temp') = temp' /\ LP!EndLsn(temp') = LP!EndLsn(file)
        /\ LP!GoodPart(file) = file
        /\ \A i \in 1..Len(temp') : \E j \in 1..Len(file) : temp'[i] = file[j]
    BY <1>1, <1>3, LogAssumption, LP!RotateReads
  <1>6. Settled(file, c, CheckpointOf(im))
    BY <1>4 DEF SettledAt, LP!Files
  <1>7. Settled(temp', c, CheckpointOf(im))
    BY <1>5, <1>6 DEF Settled
  <1>8. SettledAt(c)'
    <2>1. Rotated' = {temp'} /\ (LP!Files)' = LP!Files /\ Stamps' = Stamps
      BY <1>2, <1>3 DEF Rotated, LP!Files, Stamps
    <2>2. CheckpointOf(im)' = CheckpointOf(im)
      BY <1>2
    <2> QED
      BY <1>4, <1>7, <2>1, <2>2 DEF SettledAt
  <1>9. \A m \in Metas' : im' = ImageOf(m, im'.disk)
    BY <1>2 DEF Quiet, Metas
  <1>10. im \in G /\ Contents(im') \in Undecided' /\ synced.pages = im.disk
    BY <1>2 DEF Quiet, Undecided
  <1> QED
    BY <1>2, <1>8, <1>9, <1>10 DEF Quiet, Rotation

\* After the rotation there is one log and one meta page, and the log has no
\* record above it.
LEMMA QuietRotateSync ==
    ASSUME NEW G, TreeWorks(G), StoreInv(G), Quiet(G), RotateSync, Completed, LP!WALInv', ClientInv'
    PROVE  Fresh(G)'
  <1>1. LP!WALInv /\ LsnInv /\ MetasInv
    BY DEF StoreInv
  <1>2. /\ pc = "renamed" /\ pc' = (IF closing THEN "closing" ELSE "idle") /\ Log!RotateSync
        /\ im' = im /\ meta' = meta /\ synced' = synced /\ view' = Contents(im) /\ pending' = <<>>
        /\ is_opened' = TRUE /\ partial' = FALSE
    BY DEF RotateSync, fileVars, Completed
  <1>3. /\ wpc = "renamed" /\ wpc' = "ready" /\ stale' = {}
        /\ file' = file /\ durable' = durable /\ current_lsn' = current_lsn
    BY <1>2 DEF Log!RotateSync
  <1>4. /\ durable = file /\ LP!EndLsn(file) = current_lsn /\ current_lsn \in Nat
        /\ LP!AllGood(file)
    BY <1>1, <1>3 DEF LP!WALInv, LP!WALTypeOK, LP!Recovered
  <1>5. \A m \in Metas : m.last_checkpoint_lsn = current_lsn
    BY <1>1, <1>2 DEF LsnInv, StampedForGood, Stamped, Metas
  <1>6. /\ Read \in Seq(LP!Records)
        /\ \A i \in 1..Len(Read) : Read[i].lsn \in Nat /\ Read[i].lsn <= current_lsn
    BY <1>1, <1>4, LogOfFile DEF Read, LP!Files
  <1>7. /\ im \in G /\ synced.pages = im.disk
        /\ \A m \in Metas : im = ImageOf(m, im.disk)
    BY DEF Quiet
  <1>8. ASSUME NEW m \in Metas
        PROVE  Repaired(m, Read) = m /\ Yields(G, im.disk, m, Read, Contents(im))
               /\ Absorbs(Contents(im), m, Read)
    <2>1. Repaired(m, Read) = m
      BY <1>4, <1>5, <1>6, RepairedOld
    <2>2. NoOps(Read, m.last_checkpoint_lsn)
      BY <1>4, <1>5, <1>6, OldIsNoOps
    <2> QED
      BY <1>7, <2>1, <2>2, NoOpsYield, NoOpsAbsorb
  <1>9. Read' = Read /\ Kept' = Read /\ Metas' = Metas /\ Stamps' = Stamps
    BY <1>2, <1>3, <1>4 DEF Read, Kept, Metas, Stamps
  <1>10. Contents(im) \in Undecided' /\ Found' = Undecided' /\ Contents(im') = view'
    BY <1>2 DEF Undecided, Found
  <1>11. FreshMemory(G)'
    <2>1. pc' \in {"closing", "idle"}
      BY <1>2
    <2>2. im' = ImageOf(meta', im'.disk) /\ im' \in G
      BY <1>2, <1>7 DEF Metas
    <2>3. Absorbs(Contents(im'), meta', Read') /\ Repaired(meta', Read') = meta'
      BY <1>2, <1>8, <1>9 DEF Metas
    <2> QED
      BY <1>2, <1>10, <2>1, <2>2, <2>3 DEF FreshMemory, Clean
  <1>12. FreshFiles(G)'
    <2>1. pc' \in {"closing", "idle"}
      BY <1>2
    <2>2. Recoverable(G)'
      BY <1>2, <1>7, <1>8, <1>9, <1>10 DEF Recoverable
    <2> QED
      BY <2>1, <2>2 DEF FreshFiles
  <1>13. \A n \in Stamps' : n <= LP!EndLsn(file') /\ n <= LP!EndLsn(durable')
    BY <1>2, <1>3, <1>4, <1>5, <1>9 DEF Stamps, Metas
  <1> QED
    BY <1>2, <1>3, <1>11, <1>12, <1>13 DEF Fresh, Rotation

\* No other step is possible.
LEMMA QuietStutter ==
    ASSUME NEW G, Quiet(G), UNCHANGED dbFaultVars PROVE Quiet(G)'
  <1>1. /\ im' = im /\ meta' = meta /\ synced' = synced /\ view' = view /\ pending' = pending
        /\ UNCHANGED <<file, durable, stale, temp, pc, is_opened, partial>>
    BY DEF dbFaultVars, dbVars, faultVars, logVars, fileVars, clientVars
  <1>2. PICK c \in Nat : SettledAt(c)
    BY DEF Quiet
  <1>3. SettledAt(c)'
    <2>1. Rotated' = Rotated /\ (LP!Files)' = LP!Files /\ Stamps' = Stamps
      BY <1>1 DEF Rotated, LP!Files, Stamps
    <2>2. CheckpointOf(im)' = CheckpointOf(im)
      BY <1>1
    <2> QED
      BY <1>2, <2>1, <2>2 DEF SettledAt
  <1> QED
    BY <1>1, <1>3 DEF Quiet, Metas, Undecided

LEMMA QuietNoStep ==
    ASSUME NEW G, TreeWorks(G), StoreInv(G), Quiet(G)
    PROVE  /\ ~Client /\ ~Lookup /\ ~Logged /\ ~Return /\ ~CloseFiles
           /\ ~(\E id \in DOMAIN im.pool : FlushPage(id)) /\ ~FlushFreelist
           /\ ~CheckpointFails /\ ~CloseFails /\ ~RecoveryFails
           /\ ~ReopenUnclosed /\ ~ReopenObject
  <1>1. DOMAIN im.pool = {} /\ DOMAIN im.fl = {} /\ (pc \notin Rotation => ~is_opened /\ ~partial)
    BY QuietImage
  <1>2. (pc \in Up => is_opened) /\ (pc = "down" => partial)
    BY DEF StoreInv, ClientInv
  <1>3. pc \notin Up /\ pc # "down" /\ (pc = "closed" => ~partial)
    BY <1>1, <1>2 DEF Rotation, Up
  <1> QED
    BY <1>1, <1>3
       DEF Client, Put, DeleteKey, Call, Checkpoint, Close, Lookup, Logged, Return, CloseFiles,
           FlushFreelist, CheckpointFails, CloseFails, RecoveryFails, FlushRaises,
           ReopenUnclosed, ReopenObject, Up

LEMMA QuietNext ==
    ASSUME NEW G, TreeWorks(G), OutsideWindow, StoreInv(G), Quiet(G), [FaultsNext]_dbFaultVars
    PROVE  Quiet(G)' \/ Fresh(G)'
  <1>1. GivenUp => ~partial
    BY StopsInOrder DEF StoreInv
  <1>2. LP!WALInv' /\ ClientInv'
    BY LogOfStep, ClientStep
  <1>3. CASE UNCHANGED dbFaultVars
    BY <1>3, QuietStutter
  <1>4. CASE RotateSync /\ Completed
    BY <1>2, <1>4, QuietRotateSync
  <1>5. CASE (Open \/ Kill \/ PowerLoss) /\ GivenUp
    BY <1>1, <1>5, QuietWork, QuietPowerLoss
  <1>6. CASE Work /\ UNCHANGED faultVars
    BY <1>6, QuietNoStep, QuietWork, QuietOpenFails, QuietRotateRename, QuietLogCheckpoint,
       QuietWriteMeta, QuietRotateWrite DEF Work
  <1> QED
    BY <1>3, <1>4, <1>5, <1>6, QuietNoStep DEF FaultsNext

-----------------------------------------------------------------------------
(* Steps from a state in which the log has what the pages in the file lack. *)

\* The logs that may be read, and the meta pages, all of them below their end.
LEMMA FreshLogs ==
    ASSUME NEW G, StoreInv(G), Fresh(G)
    PROVE  /\ LP!WALInv /\ ClientInv /\ IsMeta(meta) /\ stale = {}
           /\ Read \in Seq(LP!Records) /\ Kept \in Seq(LP!Records)
           /\ \A i \in 1..Len(Read) : Read[i].lsn \in Nat /\ Read[i].lsn <= LP!EndLsn(file)
           /\ LP!EndLsn(file) \in Nat
           /\ \A m \in Metas :
                /\ IsMeta(m) /\ m.last_checkpoint_lsn \in Nat
                /\ Repaired(m, Read).last_checkpoint_lsn \in Nat
                /\ Repaired(m, Read).last_checkpoint_lsn <= LP!EndLsn(file)
  <1>1. LP!WALInv /\ ClientInv /\ (\A m \in Metas : IsMeta(m)) /\ stale = {}
    BY DEF StoreInv, MetasInv, Fresh
  <1>2. /\ Read \in Seq(LP!Records) /\ Kept \in Seq(LP!Records) /\ LP!EndLsn(file) \in Nat
        /\ \A i \in 1..Len(Read) : Read[i].lsn \in Nat /\ Read[i].lsn <= LP!EndLsn(file)
    BY <1>1, LogOfFile DEF Read, Kept, LP!Files
  <1>3. ASSUME NEW m \in Metas
        PROVE  /\ IsMeta(m) /\ m.last_checkpoint_lsn \in Nat
               /\ Repaired(m, Read).last_checkpoint_lsn \in Nat
               /\ Repaired(m, Read).last_checkpoint_lsn <= LP!EndLsn(file)
    <2>1. m.last_checkpoint_lsn \in Nat /\ m.last_checkpoint_lsn <= LP!EndLsn(file)
      BY <1>1, <1>3 DEF IsMeta, Fresh, Stamps, Metas
    <2> QED
      BY <1>1, <1>2, <2>1, RepairedForward
  <1> QED
    BY <1>1, <1>2, <1>3 DEF Metas

\* In phases of rest the log is durable and whole.
LEMMA FreshAtRest ==
    ASSUME NEW G, StoreInv(G), Fresh(G), pc \in Rests
    PROVE  /\ wpc = "ready" /\ durable = file /\ Kept = Read
           /\ LP!AllGood(file) /\ current_lsn = LP!EndLsn(file) /\ current_lsn \in Nat
  <1>1. LP!WALInv /\ wpc = "ready"
    BY DEF StoreInv, PhasesAgree
  <1> QED
    BY <1>1 DEF LP!WALInv, LP!WALTypeOK, LP!Recovered, Read, Kept

\* Steps that bring no record.
LEMMA FreshLogKept ==
    ASSUME NEW G, StoreInv(G), Fresh(G), Stamps' \subseteq Stamps,
           \/ UNCHANGED logVars \/ Log!Open \/ Log!Replay \/ Log!ReplaySync \/ Log!AppendSync
           \/ Log!Close \/ Log!Kill \/ Log!PowerLoss
    PROVE  /\ stale' = {} /\ Read' \in {Read, Kept} /\ Kept' \in {Read, Kept}
           /\ \A n \in Stamps' : n <= LP!EndLsn(file') /\ n <= LP!EndLsn(durable')
           /\ ~Log!Kill /\ ~Log!PowerLoss => Read' = Read
  <1>1. LP!WALInv /\ stale = {} /\ pc \notin Rotation
    BY DEF StoreInv, Fresh
  <1>2. stale' = {}
    BY <1>1 DEF logVars, Log!Open, Log!Replay, Log!ReplaySync, Log!AppendSync, Log!Close,
                Log!Kill, Log!PowerLoss
  <1>3. \A s \in {file', durable'} : ReadAlike(s)
    BY <1>1, FilesReadAlike
  <1>4. LP!Files \cup Rotated = {file, durable}
    BY <1>1 DEF LP!Files, Rotated, Rotation
  <1>5. \A s \in {file', durable'} : \E g \in {file, durable} :
            LP!GoodPart(s) = LP!GoodPart(g) /\ LP!EndLsn(s) = LP!EndLsn(g)
    BY <1>3, <1>4 DEF ReadAlike
  <1>6. Read' \in {Read, Kept} /\ Kept' \in {Read, Kept}
    BY <1>5 DEF Read, Kept
  <1>7. \A n \in Stamps' : n <= LP!EndLsn(file') /\ n <= LP!EndLsn(durable')
    BY <1>5 DEF Fresh
  <1>8. ASSUME ~Log!Kill, ~Log!PowerLoss PROVE Read' = Read
    <2>1. CASE Log!Replay
      BY <1>1, <2>1, SameLog, LogAssumption, LP!ReplayReads DEF Read
    <2>2. CASE ~Log!Replay
      BY <1>8, <2>2
         DEF Read, logVars, Log!Open, Log!ReplaySync, Log!AppendSync, Log!Close
    <2> QED
      BY <2>1, <2>2
  <1> QED
    BY <1>2, <1>6, <1>7, <1>8

\* What recovery needs is still there if the pages and the logs are.
LEMMA RecoverableKept ==
    ASSUME NEW G, Recoverable(G), im'.disk = im.disk, synced'.pages = im.disk,
           meta' \in Metas, synced'.meta \in Metas, view' = view, pending' = pending,
           \/ Read' = Read /\ Found \subseteq Found'
           \/ Read' = Kept /\ Undecided \subseteq Found',
           Kept' \in {Read, Kept}
    PROVE  Recoverable(G)'
  <1>1. Undecided' = Undecided /\ Found \subseteq Undecided
    BY DEF Undecided, Found
  <1>2. \A m \in Metas' : m \in Metas
    BY DEF Metas
  <1>3. ASSUME NEW m \in Metas'
        PROVE  /\ \E map \in Found' : Yields(G, im.disk, m, Read', map)
               /\ \E map \in Undecided' : Yields(G, im.disk, m, Kept', map)
    <2>1. /\ \E map \in Found : Yields(G, im.disk, m, Read, map)
          /\ \E map \in Undecided : Yields(G, im.disk, m, Kept, map)
      BY <1>2 DEF Recoverable
    <2> QED
      BY <1>1, <2>1
  <1> QED
    BY <1>3 DEF Recoverable

\* pager.open() and wal.open() of another object.
LEMMA FreshOpen ==
    ASSUME NEW G, TreeWorks(G), StoreInv(G), Fresh(G), Open, GivenUp, ~partial
    PROVE  Fresh(G)'
  <1>1. /\ pc = "closed" /\ pc' = "opening" /\ Log!Open /\ im' = ImageOf(meta, im.disk)
        /\ meta' = meta /\ synced' = synced /\ view' = view /\ pending' = pending
        /\ is_opened' = is_opened /\ partial' = partial
    BY DEF Open, GivenUp, clientVars
  <1>2. ~is_opened
    BY <1>1 DEF StoreInv, ClientInv, Down
  <1>3. im = ImageOf(meta, im.disk) /\ im' = im
    BY <1>1 DEF Fresh, FreshMemory
  <1>4. Recoverable(G) /\ synced.pages = im.disk
    BY <1>1 DEF Fresh, FreshFiles, Window, Recoverable
  <1>5. Stamps' \subseteq Stamps
    BY <1>1 DEF Stamps
  <1>6. ~Log!Kill /\ ~Log!PowerLoss
    BY <1>1 DEF Log!Open, Log!Kill, Log!PowerLoss
  <1>7. /\ stale' = {} /\ Read' = Read /\ Kept' \in {Read, Kept}
        /\ \A n \in Stamps' : n <= LP!EndLsn(file') /\ n <= LP!EndLsn(durable')
    BY <1>1, <1>5, <1>6, FreshLogKept
  <1>8. Found' = Undecided' /\ Found = Undecided /\ Undecided' = Undecided
    BY <1>1 DEF Found, Undecided
  <1>9. Recoverable(G)'
    BY <1>1, <1>3, <1>4, <1>7, <1>8, RecoverableKept DEF Metas
  <1>10. FreshMemory(G)'
    BY <1>1, <1>2, <1>3 DEF FreshMemory, Warm, Clean, Newest
  <1>11. FreshFiles(G)'
    BY <1>1, <1>9 DEF FreshFiles
  <1> QED
    BY <1>1, <1>7, <1>10, <1>11 DEF Fresh, Rotation

\* open() of an object after a failed write.
LEMMA FreshReopen ==
    ASSUME NEW G, TreeWorks(G), StoreInv(G), Fresh(G), ReopenUnclosed \/ ReopenObject
    PROVE  Fresh(G)'
  <1>1. /\ pc' = "opening" /\ meta' = meta /\ synced' = synced /\ view' = view
        /\ pending' = pending /\ is_opened' = is_opened /\ partial' = partial
        /\ file' = file /\ durable' = durable /\ stale' = stale
        /\ \/ pc = "down" /\ im' = im
           \/ pc = "closed" /\ partial /\ im' = Remembered
    BY DEF ReopenUnclosed, ReopenObject, Remembered, fileVars, clientVars, faultVars, Log!Open
  <1>2. ~is_opened /\ partial
    BY <1>1 DEF StoreInv, ClientInv, Down
  <1>3. Read' = Read /\ Undecided' = Undecided /\ Stamps' = Stamps
    BY <1>1 DEF Read, Undecided, Stamps
  <1>4. /\ Resumed' \in G /\ Contents(Resumed') \in Undecided
        /\ Absorbs(Contents(Resumed'), meta, Read) /\ LP!AllGood(file)
        /\ Repaired(meta, Read) = meta
    <2>1. Resumed' = im'
      BY <1>1 DEF Resumed
    <2>2. CASE pc = "down"
      <3>1. LP!AllGood(file)
        BY <2>2, FreshAtRest DEF Rests
      <3>2. /\ im \in G /\ Contents(im) \in Undecided /\ Absorbs(Contents(im), meta, Read)
            /\ Repaired(meta, Read) = meta
        BY <2>2 DEF Fresh, FreshMemory, Warm, Newest
      <3>3. im' = im
        BY <1>1, <2>2
      <3> QED
        BY <2>1, <3>1, <3>2, <3>3
    <2>3. CASE pc = "closed"
      <3>1. im' = Remembered /\ Resumed = Remembered
        BY <1>1, <2>3 DEF Resumed
      <3>2. /\ Resumed \in G /\ Contents(Resumed) \in Undecided
            /\ Absorbs(Contents(Resumed), meta, Read) /\ LP!AllGood(file)
            /\ Repaired(meta, Read) = meta
        BY <1>2, <2>3 DEF Fresh, FreshMemory, Newest
      <3> QED
        BY <2>1, <3>1, <3>2
    <2> QED
      BY <1>1, <2>2, <2>3
  <1>5. LP!AllGood(file')
    BY <1>1, <1>4
  <1>6. FreshMemory(G)'
    BY <1>1, <1>2, <1>3, <1>4, <1>5 DEF FreshMemory, Warm, Clean, Newest
  <1>7. FreshFiles(G)'
    BY <1>1, <1>2 DEF FreshFiles
  <1>8. \A n \in Stamps' : n <= LP!EndLsn(file') /\ n <= LP!EndLsn(durable')
    BY <1>1, <1>3 DEF Fresh
  <1> QED
    BY <1>1, <1>6, <1>7, <1>8 DEF Fresh, Rotation

\* The replay: over the file, or over the pages that the object still has.
LEMMA FreshRecover ==
    ASSUME NEW G, TreeWorks(G), StoreInv(G), Fresh(G), Recover, UNCHANGED faultVars
    PROVE  Fresh(G)'
  <1>1. /\ pc = "opening" /\ pc' = "recovering" /\ im' = Replayed
        /\ meta' = meta /\ synced' = synced /\ view' = view /\ pending' = pending
        /\ is_opened' = is_opened /\ partial' = partial /\ UNCHANGED logVars
    BY DEF Recover, clientVars, faultVars
  <1>2. ~is_opened /\ \A map \in Undecided : map \in [Keys -> SUBSET Values]
    <2>1. view \in [Keys -> SUBSET Values] /\ pending \in Store!Ops \cup {<<>>} /\ ~is_opened
      BY <1>1 DEF StoreInv, ClientInv, Down
    <2> QED
      BY <2>1, ApplyType DEF Undecided
  <1>3. /\ IsMeta(meta) /\ meta.last_checkpoint_lsn \in Nat /\ Read \in Seq(LP!Records)
    BY FreshLogs DEF Metas
  <1>4. /\ Read' = Read /\ Kept' = Kept /\ Stamps' = Stamps /\ stale' = {}
        /\ \A n \in Stamps' : n <= LP!EndLsn(file') /\ n <= LP!EndLsn(durable')
    BY <1>1 DEF Read, Kept, Stamps, logVars, Fresh
  <1>5. Found' = Undecided' /\ Found = Undecided /\ Undecided' = Undecided
    BY <1>1 DEF Found, Undecided
  <1>6. /\ Replayed \in G /\ Contents(Replayed) \in Undecided
        /\ Absorbs(Contents(Replayed), meta, Read)
        /\ ~partial => Replayed.disk = im.disk
    <2>1. CASE ~partial
      <3>1. im = ImageOf(meta, im.disk) /\ Recoverable(G)
        BY <1>1, <2>1 DEF Fresh, FreshMemory, FreshFiles, Window
      <3>2. PICK map \in Undecided : Yields(G, im.disk, meta, Read, map)
        BY <1>5, <3>1 DEF Recoverable, Metas
      <3>3. Replayed = Redone(ImageOf(Repaired(meta, Read), im.disk),
                              Repaired(meta, Read).last_checkpoint_lsn, Read)[Len(Read)]
        BY <1>3, <3>1, ReplayedIs
      <3>4. /\ Replayed \in G /\ Replayed.disk = im.disk /\ Contents(Replayed) = map
            /\ Absorbs(map, meta, Read)
        BY <1>2, <1>3, <3>2, <3>3, ReplayOfFiles
      <3> QED
        BY <3>4
    <2>2. CASE partial
      <3>1. /\ im \in G /\ Contents(im) \in Undecided /\ Absorbs(Contents(im), meta, Read)
            /\ Repaired(meta, Read) = meta
        BY <1>1, <2>2 DEF Fresh, FreshMemory, Resumed, Newest
      <3>2. Replayed = Redone(im, Repaired(meta, Read).last_checkpoint_lsn, Read)[Len(Read)]
        BY <1>3, <3>1, ReplayedIs
      <3>3. Replayed \in G /\ Contents(Replayed) = Contents(im)
        BY <1>2, <1>3, <3>1, <3>2, ReplayOverTree
      <3> QED
        BY <2>2, <3>1, <3>3
    <2> QED
      BY <2>1, <2>2
  <1>7. FreshMemory(G)'
    BY <1>1, <1>2, <1>4, <1>5, <1>6 DEF FreshMemory, Warm, Clean, Newest
  <1>8. FreshFiles(G)'
    <2>1. ASSUME ~partial PROVE Recoverable(G)'
      <3>1. Recoverable(G) /\ synced.pages = im.disk
        BY <1>1, <2>1 DEF Fresh, FreshFiles, Window, Recoverable
      <3>2. im'.disk = im.disk /\ synced'.pages = im.disk
        BY <1>1, <1>6, <2>1, <3>1
      <3> QED
        BY <1>1, <1>4, <1>5, <3>1, <3>2, RecoverableKept DEF Metas
    <2> QED
      BY <1>1, <2>1 DEF FreshFiles
  <1> QED
    BY <1>1, <1>4, <1>7, <1>8 DEF Fresh, Rotation

\* The log is cut and fsynced.
LEMMA FreshReplay ==
    ASSUME NEW G, TreeWorks(G), StoreInv(G), Fresh(G), CutTail \/ ReplaySync, UNCHANGED faultVars
    PROVE  Fresh(G)'
  <1>1. /\ pc \in {"recovering", "replayed"} /\ pc' \in {"replayed", "recovered"}
        /\ im' = im /\ meta' = meta /\ synced' = synced /\ view' = view /\ pending' = pending
        /\ is_opened' = is_opened /\ partial' = partial
        /\ Log!Replay \/ Log!ReplaySync
    BY DEF CutTail, ReplaySync, fileVars, clientVars, faultVars
  <1>2. ~is_opened
    BY <1>1 DEF StoreInv, ClientInv, Down
  <1>3. Stamps' \subseteq Stamps
    BY <1>1 DEF Stamps
  <1>4. ~Log!Kill /\ ~Log!PowerLoss
    BY <1>1 DEF Log!Replay, Log!ReplaySync, Log!Kill, Log!PowerLoss
  <1>5. /\ stale' = {} /\ Read' = Read /\ Kept' \in {Read, Kept}
        /\ \A n \in Stamps' : n <= LP!EndLsn(file') /\ n <= LP!EndLsn(durable')
    BY <1>1, <1>3, <1>4, FreshLogKept
  <1>6. Found' = Undecided' /\ Found = Undecided /\ Undecided' = Undecided
    BY <1>1 DEF Found, Undecided
  <1>7. im \in G /\ Contents(im) \in Undecided /\ Absorbs(Contents(im), meta, Read)
    BY <1>1 DEF Fresh, FreshMemory, Warm
  <1>8. FreshMemory(G)'
    BY <1>1, <1>2, <1>5, <1>6, <1>7 DEF FreshMemory, Warm, Clean, Newest
  <1>9. FreshFiles(G)'
    <2>1. ASSUME ~partial PROVE Recoverable(G)'
      <3>1. Recoverable(G) /\ synced.pages = im.disk
        BY <1>1, <2>1 DEF Fresh, FreshFiles, Window, Recoverable
      <3> QED
        BY <1>1, <1>5, <1>6, <3>1, RecoverableKept DEF Metas
    <2> QED
      BY <1>1, <2>1 DEF FreshFiles
  <1> QED
    BY <1>1, <1>5, <1>8, <1>9 DEF Fresh, Rotation

\* An unreadable log changes nothing, and the object of a failed write has none.
LEMMA FreshOpenFails ==
    ASSUME NEW G, TreeWorks(G), StoreInv(G), Fresh(G), OpenFails, UNCHANGED faultVars
    PROVE  Fresh(G)'
  <1>1. pc = "opening"
    <2>1. pc = "recovering" => im.err = "none"
      BY ImageFields DEF Fresh, FreshMemory
    <2> QED
      BY <2>1 DEF OpenFails
  <1>2. LP!WALInv /\ IsMeta(meta)
    BY FreshLogs
  <1>3. ~partial
    <2> SUFFICES ASSUME partial PROVE FALSE
      OBVIOUS
    <2>1. LP!AllGood(file)
      BY <1>1 DEF Fresh, FreshMemory
    <2>2. file \in Seq(LP!Cell) /\ LP!Chained(file)
      BY <1>2, LogAssumption, LP!FilesChained DEF LP!Files
    <2>3. ~LP!IterRaises(file)
      BY <2>1, <2>2, LogAssumption, LP!ChainedIsReadable
    <2>4. Log!IterRaises(file)
      BY <1>1 DEF OpenFails
    <2> QED
      BY <2>3, <2>4
         DEF Log!IterRaises, LP!IterRaises, Log!NonSequential, LP!NonSequential,
             Log!TailRaises, LP!TailRaises, Log!GoodLen, LP!GoodLen
  <1>4. im = ImageOf(meta, im.disk) /\ Recoverable(G)
    BY <1>1, <1>3 DEF Fresh, FreshMemory, FreshFiles, Window
  <1>5. /\ im.root = meta.root /\ im.flhead = meta.flhead /\ im.next = meta.next
        /\ im.fl = <<>>
    BY <1>4, ImageOfFields
  <1>6. meta' = meta
    BY <1>1, <1>2, <1>5 DEF OpenFails, IsMeta
  <1>7. Over(im.fl, im.disk) = im.disk
    <2>1. PICK map : Yields(G, im.disk, meta, Read, map)
      BY <1>4 DEF Recoverable, Metas
    <2>2. ImageOf(Repaired(meta, Read), im.disk) \in G
      BY <2>1 DEF Yields
    <2>3. ImageOf(Repaired(meta, Read), im.disk).disk = im.disk
      BY ImageOfFields
    <2>4. im.disk = [i \in DOMAIN im.disk |-> im.disk[i]]
      BY <2>2, <2>3, ImageFields
    <2> QED
      BY <1>5, <2>4, NothingInNothing, OverNothing
  <1>8. /\ pc' = "closed" /\ Log!Close /\ is_opened' = is_opened /\ partial' = partial
        /\ view' = view /\ pending' = pending
        /\ im' = ImageOf(meta', Over(im.fl, im.disk))
        /\ synced' = [pages |-> im'.disk, meta |-> meta']
    BY DEF OpenFails, clientVars, faultVars
  <1>9. im' = im /\ synced'.pages = im.disk /\ synced'.meta = meta
    BY <1>4, <1>6, <1>7, <1>8
  <1>10. ~is_opened
    BY <1>1 DEF StoreInv, ClientInv, Down
  <1>11. Stamps' \subseteq Stamps
    BY <1>6, <1>9 DEF Stamps
  <1>12. Read' = Read
    BY <1>8 DEF Log!Close, Read
  <1>13. /\ stale' = {} /\ Read' = Read /\ Kept' \in {Read, Kept}
         /\ \A n \in Stamps' : n <= LP!EndLsn(file') /\ n <= LP!EndLsn(durable')
    BY <1>8, <1>11, <1>12, FreshLogKept
  <1>14. Found' = Undecided' /\ Found = Undecided /\ Undecided' = Undecided
    BY <1>1, <1>8 DEF Found, Undecided
  <1>15. Recoverable(G)'
    BY <1>4, <1>6, <1>8, <1>9, <1>13, <1>14, RecoverableKept DEF Metas
  <1>16. FreshMemory(G)'
    BY <1>3, <1>4, <1>6, <1>8, <1>9, <1>10 DEF FreshMemory, Warm, Clean, Newest
  <1>17. FreshFiles(G)'
    BY <1>8, <1>15 DEF FreshFiles
  <1> QED
    BY <1>8, <1>13, <1>16, <1>17 DEF Fresh, Rotation

\* The record is in the log, not fsynced yet.
LEMMA FreshCall ==
    ASSUME NEW G, TreeWorks(G), StoreInv(G), Fresh(G), UNCHANGED faultVars,
           NEW op \in Store!Ops, Call(op), op \in Store!Puts => RecordFits(op[2], op[3])
    PROVE  Fresh(G)'
  <1>1. /\ pc = "idle" /\ pc' = "logging" /\ Log!AppendWrite(op) /\ pending' = op
        /\ im' = im /\ meta' = meta /\ synced' = synced /\ view' = view
        /\ is_opened' = is_opened /\ partial' = partial
    BY DEF Call, fileVars, faultVars
  <1>2. is_opened /\ pending = <<>> /\ view \in [Keys -> SUBSET Values]
    BY <1>1 DEF StoreInv, ClientInv, Up
  <1>3. Undecided = {view} /\ Found = {view}
    BY <1>1, <1>2, ApplyNothing DEF Undecided, Found
  <1>4. /\ im \in G /\ Contents(im) = view /\ Absorbs(view, meta, Read)
        /\ Repaired(meta, Read) = meta
    BY <1>1, <1>2 DEF Fresh, FreshMemory, Warm, Newest
  <1>5. /\ LP!WALInv /\ Read \in Seq(LP!Records)
        /\ \A m \in Metas : /\ Repaired(m, Read).last_checkpoint_lsn \in Nat
                            /\ Repaired(m, Read).last_checkpoint_lsn <= LP!EndLsn(file)
    BY FreshLogs
  <1>6. LP!AppendWrite(op) /\ durable' = durable /\ stale' = stale
    BY <1>1, SameLog DEF Log!AppendWrite
  <1> DEFINE r == LP!Record(current_lsn + 1, op)
  <1>7. /\ Read' = Append(Read, r) /\ Kept = Read /\ Kept' = Kept
        /\ LP!EndLsn(file) = current_lsn /\ LP!EndLsn(file') = current_lsn + 1
        /\ current_lsn \in Nat
    <2>1. op \in Store!Ops \cup CheckpointOps
      OBVIOUS
    <2> QED
      BY <1>5, <1>6, <2>1, LogAssumption, LP!AppendReads DEF Read, Kept
  <1>8. r \in LP!Records /\ r.op = op /\ r.lsn = current_lsn + 1
    BY <1>7 DEF LP!Record, LP!Records
  <1> HIDE DEF r
  <1>9. \A m \in Metas : r.lsn > Repaired(m, Read).last_checkpoint_lsn
    BY <1>5, <1>7, <1>8
  <1>10. r.op \in Store!Ops /\ r.op \notin CheckpointOps
         /\ (r.op \in Store!Puts => RecordFits(r.op[2], r.op[3]))
    BY <1>8, OpsOfOneKey
  <1>11. Repaired(meta, Read') = meta
    BY <1>4, <1>5, <1>7, <1>8, <1>10, RepairedAppend
  <1>12. Absorbs(Store!Apply(view, op), meta, Read')
    <2>1. meta \in Metas
      BY DEF Metas
    <2>2. Absorbs(Store!Apply(view, r.op), meta, Append(Read, r))
      BY <1>2, <1>4, <1>5, <1>8, <1>9, <1>10, <2>1, AppendAbsorbs
    <2> QED
      BY <1>7, <1>8, <2>2
  <1>13. Undecided' = {view, Store!Apply(view, op)} /\ Found' = {Store!Apply(view, op)}
    BY <1>1 DEF Undecided, Found
  <1>14. FreshMemory(G)'
    BY <1>1, <1>4, <1>11, <1>12, <1>13 DEF FreshMemory, Warm, Clean, Newest
  <1>15. FreshFiles(G)'
    <2>1. ASSUME ~partial PROVE Recoverable(G)'
      <3>1. Recoverable(G) /\ synced.pages = im.disk
        BY <1>1, <2>1 DEF Fresh, FreshFiles, Window, Recoverable
      <3>2. ASSUME NEW m \in Metas
            PROVE  /\ Yields(G, im.disk, m, Read', Store!Apply(view, op))
                   /\ Yields(G, im.disk, m, Kept', view)
        <4>1. Yields(G, im.disk, m, Read, view) /\ Yields(G, im.disk, m, Kept, view)
          BY <1>3, <3>1 DEF Recoverable
        <4>2. Yields(G, im.disk, m, Append(Read, r), Store!Apply(view, r.op))
          BY <1>2, <1>5, <1>8, <1>9, <1>10, <4>1, AppendYields
        <4> QED
          BY <1>7, <1>8, <4>1, <4>2
      <3>3. Metas' = Metas /\ im'.disk = im.disk /\ synced'.pages = im'.disk
        BY <1>1, <3>1 DEF Metas
      <3> QED
        BY <1>13, <3>2, <3>3 DEF Recoverable
    <2> QED
      BY <1>1, <2>1 DEF FreshFiles
  <1>16. \A n \in Stamps' : n <= LP!EndLsn(file') /\ n <= LP!EndLsn(durable')
    <2>1. Stamps' = Stamps
      BY <1>1 DEF Stamps
    <2>2. \A n \in Stamps : n \in Nat /\ n <= LP!EndLsn(file) /\ n <= LP!EndLsn(durable)
      BY FreshLogs DEF Fresh, Stamps, Metas
    <2> QED
      BY <1>6, <1>7, <2>1, <2>2
  <1> QED
    BY <1>1, <1>6, <1>14, <1>15, <1>16 DEF Fresh, Rotation

\* The record is durable, and the tree has it.
LEMMA FreshLogged ==
    ASSUME NEW G, TreeWorks(G), StoreInv(G), Fresh(G), Logged, UNCHANGED faultVars
    PROVE  Fresh(G)'
  <1>1. /\ pc = "logging" /\ pc' = "returning" /\ Log!AppendSync /\ im' = Redo(im, pending)
        /\ meta' = meta /\ synced' = synced /\ view' = view /\ pending' = pending
        /\ is_opened' = is_opened /\ partial' = partial
    BY DEF Logged, clientVars, faultVars
  <1>2. /\ is_opened /\ pending \in Store!Ops
        /\ pending \in Store!Puts => RecordFits(pending[2], pending[3])
    BY <1>1 DEF StoreInv, ClientInv, Up
  <1>3. /\ im \in G /\ Contents(im) = view /\ Absorbs(Store!Apply(view, pending), meta, Read)
        /\ Repaired(meta, Read) = meta
    BY <1>1, <1>2 DEF Fresh, FreshMemory, Newest
  <1>4. im' \in G /\ im'.disk = im.disk /\ Contents(im') = Store!Apply(view, pending)
    BY <1>1, <1>2, <1>3, RedoWorks
  <1>5. Stamps' \subseteq Stamps
    BY <1>1 DEF Stamps
  <1>6. ~Log!Kill /\ ~Log!PowerLoss
    BY <1>1 DEF Log!AppendSync, Log!Kill, Log!PowerLoss
  <1>7. /\ stale' = {} /\ Read' = Read /\ Kept' \in {Read, Kept}
        /\ \A n \in Stamps' : n <= LP!EndLsn(file') /\ n <= LP!EndLsn(durable')
    BY <1>1, <1>5, <1>6, FreshLogKept
  <1>8. Found' = Found /\ Undecided' = Undecided /\ Store!Apply(view, pending) \in Undecided
    BY <1>1 DEF Found, Undecided
  <1>9. FreshMemory(G)'
    BY <1>1, <1>2, <1>3, <1>4, <1>7, <1>8 DEF FreshMemory, Warm, Clean, Newest
  <1>10. FreshFiles(G)'
    <2>1. ASSUME ~partial PROVE Recoverable(G)'
      <3>1. Recoverable(G) /\ synced.pages = im.disk
        BY <1>1, <2>1 DEF Fresh, FreshFiles, Window, Recoverable
      <3> QED
        BY <1>1, <1>4, <1>7, <1>8, <3>1, RecoverableKept DEF Metas
    <2> QED
      BY <1>1, <2>1 DEF FreshFiles
  <1> QED
    BY <1>1, <1>7, <1>9, <1>10 DEF Fresh, Rotation

\* The client learns what the tree has.
LEMMA FreshReturn ==
    ASSUME NEW G, TreeWorks(G), StoreInv(G), Fresh(G), Return, UNCHANGED faultVars
    PROVE  Fresh(G)'
  <1>1. /\ pc = "returning" /\ pc' = "idle" /\ UNCHANGED logVars
        /\ im' = im /\ meta' = meta /\ synced' = synced /\ view' = Contents(im) /\ pending' = <<>>
        /\ is_opened' = is_opened /\ partial' = partial
    BY DEF Return, fileVars, faultVars
  <1>2. is_opened
    BY <1>1 DEF StoreInv, ClientInv, Up
  <1>3. /\ im \in G /\ Contents(im) = Store!Apply(view, pending)
        /\ Absorbs(Contents(im), meta, Read) /\ Repaired(meta, Read) = meta
    BY <1>1, <1>2 DEF Fresh, FreshMemory, Warm, Newest
  <1>4. Kept = Read
    BY <1>1, FreshAtRest DEF Rests
  <1>5. /\ Read' = Read /\ Kept' = Kept /\ Stamps' = Stamps /\ stale' = {} /\ Metas' = Metas
        /\ \A n \in Stamps' : n <= LP!EndLsn(file') /\ n <= LP!EndLsn(durable')
    BY <1>1 DEF Read, Kept, Stamps, Metas, logVars, Fresh
  <1>6. Undecided' = {view'} /\ Found' = {view'} /\ Found = {view'}
    BY <1>1, <1>3, ApplyNothing DEF Found, Undecided
  <1>7. FreshMemory(G)'
    BY <1>1, <1>2, <1>3, <1>5, <1>6 DEF FreshMemory, Warm, Clean, Newest
  <1>8. FreshFiles(G)'
    <2>1. ASSUME ~partial PROVE Recoverable(G)'
      <3>1. Recoverable(G)
        BY <1>1, <2>1 DEF Fresh, FreshFiles, Window
      <3>2. \A m \in Metas : Yields(G, im.disk, m, Read, view')
        BY <1>6, <3>1 DEF Recoverable
      <3> QED
        BY <1>1, <1>4, <1>5, <1>6, <3>1, <3>2 DEF Recoverable
    <2> QED
      BY <1>1, <2>1 DEF FreshFiles
  <1> QED
    BY <1>1, <1>5, <1>7, <1>8 DEF Fresh, Rotation

\* A checkpoint begins.
LEMMA FreshCheckpoint ==
    ASSUME NEW G, TreeWorks(G), StoreInv(G), Fresh(G), Checkpoint \/ Close \/ RecoveryCheckpoint,
           UNCHANGED faultVars
    PROVE  Fresh(G)'
  <1>1. /\ pc \in {"idle", "recovered"} /\ pc' = "flushing" /\ UNCHANGED logVars
        /\ im' = im /\ meta' = meta /\ synced' = synced /\ view' = view /\ pending' = pending
        /\ is_opened' = is_opened /\ partial' = partial
    BY DEF Checkpoint, Close, RecoveryCheckpoint, BeginCheckpoint, fileVars, faultVars
  <1>2. pc = "recovered" => ~is_opened
    BY DEF StoreInv, ClientInv, Down
  <1>3. /\ im \in G /\ Contents(im) \in Undecided /\ (is_opened => Contents(im) = view)
        /\ Absorbs(Contents(im), meta, Read) /\ (is_opened => Repaired(meta, Read) = meta)
    BY <1>1, <1>2 DEF Fresh, FreshMemory, Warm, Newest
  <1>4. /\ Read' = Read /\ Stamps' = Stamps /\ stale' = {} /\ Undecided' = Undecided
        /\ \A n \in Stamps' : n <= LP!EndLsn(file') /\ n <= LP!EndLsn(durable')
    BY <1>1 DEF Read, Stamps, Undecided, logVars, Fresh
  <1>5. FreshMemory(G)'
    BY <1>1, <1>3, <1>4 DEF FreshMemory, Warm, Clean, Newest
  <1>6. FreshFiles(G)'
    BY <1>1 DEF FreshFiles, Window
  <1> QED
    BY <1>1, <1>4, <1>5, <1>6 DEF Fresh, Rotation

\* A page is written.
LEMMA FreshFlush ==
    ASSUME NEW G, TreeWorks(G), StoreInv(G), Fresh(G), UNCHANGED faultVars,
           (\E id \in DOMAIN im.pool : FlushPage(id)) \/ FlushFreelist
    PROVE  Fresh(G)'
  <1>1. /\ pc = "flushing" /\ pc' = "flushing" /\ UNCHANGED logVars
        /\ meta' = meta /\ synced' = synced /\ view' = view /\ pending' = pending
        /\ is_opened' = is_opened /\ partial' = partial
    BY DEF FlushPage, FlushFreelist, clientVars, faultVars
  <1>2. /\ im \in G /\ Contents(im) \in Undecided /\ (is_opened => Contents(im) = view)
        /\ Absorbs(Contents(im), meta, Read) /\ (is_opened => Repaired(meta, Read) = meta)
    BY <1>1 DEF Fresh, FreshMemory, Warm, Newest
  <1>3. im' \in G /\ Contents(im') = Contents(im)
    <2>1. WritesWork(G)
      BY DEF TreeWorks
    <2>2. \/ \E id \in DOMAIN im.pool : im' = PageWritten(im, id)
          \/ /\ DOMAIN im.pool = {} /\ DOMAIN im.fl # {}
             /\ im' = FreelistPageWritten(im)
      BY DEF FlushPage, FlushFreelist
    <2> QED
      BY <1>2, <2>1, <2>2, Zenon DEF WritesWork
  <1>4. /\ Read' = Read /\ Stamps' = Stamps /\ stale' = {} /\ Undecided' = Undecided
        /\ \A n \in Stamps' : n <= LP!EndLsn(file') /\ n <= LP!EndLsn(durable')
    BY <1>1 DEF Read, Stamps, Undecided, logVars, Fresh
  <1>5. FreshMemory(G)'
    BY <1>1, <1>2, <1>3, <1>4 DEF FreshMemory, Warm, Clean, Newest
  <1>6. FreshFiles(G)'
    BY <1>1 DEF FreshFiles, Window
  <1> QED
    BY <1>1, <1>4, <1>5, <1>6 DEF Fresh, Rotation

\* All pages are written and fsynced.
LEMMA FreshSyncPages ==
    ASSUME NEW G, TreeWorks(G), StoreInv(G), Fresh(G), SyncPages, UNCHANGED faultVars
    PROVE  Fresh(G)'
  <1>1. /\ pc = "flushing" /\ pc' = "flushed" /\ UNCHANGED logVars
        /\ DOMAIN im.pool = {} /\ DOMAIN im.fl = {}
        /\ im' = im /\ meta' = meta /\ view' = view /\ pending' = pending
        /\ synced'.pages = im.disk /\ synced'.meta = meta
        /\ is_opened' = is_opened /\ partial' = partial
    BY DEF SyncPages, clientVars, faultVars
  <1>2. im \in G /\ Contents(im) \in Undecided /\ (is_opened => Contents(im) = view)
    BY <1>1 DEF Fresh, FreshMemory
  <1>3. /\ Stamps' \subseteq Stamps /\ stale' = {} /\ Undecided' = Undecided
        /\ \A n \in Stamps' : n <= LP!EndLsn(file') /\ n <= LP!EndLsn(durable')
    BY <1>1 DEF Stamps, Undecided, logVars, Fresh
  <1>4. FreshMemory(G)'
    BY <1>1, <1>2, <1>3 DEF FreshMemory, Warm, Clean, Newest
  <1>5. FreshFiles(G)'
    BY <1>1 DEF FreshFiles, Window
  <1> QED
    BY <1>1, <1>3, <1>4, <1>5 DEF Fresh, Rotation

\* The CHECKPOINT record: with it a recovery starts from the pages in the file.
LEMMA FreshLogCheckpoint ==
    ASSUME NEW G, TreeWorks(G), StoreInv(G), Fresh(G), LogCheckpoint, UNCHANGED faultVars
    PROVE  Fresh(G)'
  <1>1. /\ pc = "flushed" /\ pc' = "marking" /\ Log!AppendWrite(CheckpointOf(im))
        /\ im' = im /\ meta' = meta /\ synced' = synced /\ view' = view /\ pending' = pending
        /\ is_opened' = is_opened /\ partial' = partial
    BY DEF LogCheckpoint, CheckpointOf, fileVars, clientVars, faultVars
  <1>2. /\ im \in G /\ Contents(im) \in Undecided /\ (is_opened => Contents(im) = view)
        /\ DOMAIN im.pool = {} /\ DOMAIN im.fl = {} /\ synced.pages = im.disk
    BY <1>1 DEF Fresh, FreshMemory, FreshFiles, Clean
  <1>3. CheckpointOf(im) \in CheckpointOps
    BY <1>2, MarkOfImage
  <1>4. LP!WALInv /\ Read \in Seq(LP!Records) /\ \A m \in Metas : m.last_checkpoint_lsn \in Nat
    BY FreshLogs
  <1>5. LP!AppendWrite(CheckpointOf(im)) /\ durable' = durable /\ stale' = stale
        /\ current_lsn' = current_lsn + 1
    BY <1>1, SameLog DEF Log!AppendWrite
  <1> DEFINE r == LP!Record(current_lsn + 1, CheckpointOf(im))
  <1>6. /\ Read' = Append(Read, r)
        /\ LP!EndLsn(file) = current_lsn /\ LP!EndLsn(file') = current_lsn + 1
        /\ current_lsn \in Nat
    BY <1>3, <1>4, <1>5, LogAssumption, LP!AppendReads DEF Read
  <1>7. r \in LP!Records /\ r.op = CheckpointOf(im) /\ r.lsn = current_lsn + 1
    BY <1>3, <1>6 DEF LP!Record, LP!Records
  <1> HIDE DEF r
  <1>8. \A n \in Stamps : n \in Nat /\ n <= current_lsn /\ n <= LP!EndLsn(durable)
    BY <1>4, <1>6 DEF Fresh, Stamps, Metas
  <1>9. ASSUME NEW m \in Metas PROVE Repaired(m, Read') = StampOf(im, current_lsn + 1)
    <2>1. m.last_checkpoint_lsn \in Nat /\ r.lsn > m.last_checkpoint_lsn
      BY <1>4, <1>6, <1>7, <1>8, <1>9 DEF Stamps, Metas
    <2>2. Repaired(m, Append(Read, r)) = Meta(r.op[2], r.op[3], r.op[4], r.lsn)
      BY <1>3, <1>4, <1>7, <2>1, RepairedMark
    <2>3. r.op[2] = im.root /\ r.op[3] = im.flhead /\ r.op[4] = im.next
      BY <1>7 DEF CheckpointOf
    <2> QED
      BY <1>6, <1>7, <2>2, <2>3 DEF StampOf
  <1>10. Undecided' = Undecided /\ Metas' = Metas /\ Stamps' = Stamps
    BY <1>1 DEF Undecided, Metas, Stamps
  <1>11. FreshMemory(G)'
    BY <1>1, <1>2, <1>10 DEF FreshMemory, Warm, Clean, Newest
  <1>12. FreshFiles(G)'
    <2>1. \A m \in Metas' : Repaired(m, Read') = StampOf(im', current_lsn')
      BY <1>1, <1>5, <1>9, <1>10
    <2> QED
      BY <1>1, <1>2, <2>1 DEF FreshFiles, Window
  <1>13. \A n \in Stamps' : n <= LP!EndLsn(file') /\ n <= LP!EndLsn(durable')
    BY <1>5, <1>6, <1>8, <1>10
  <1> QED
    BY <1>1, <1>5, <1>11, <1>12, <1>13 DEF Fresh, Rotation

\* A log that ends with the CHECKPOINT of an image yields that image.
LEMMA MarkedYields ==
    ASSUME NEW G, TreeWorks(G), StoreInv(G), Fresh(G), pc \in {"marking", "marked"}, NEW m,
           Repaired(m, Read) = StampOf(im, current_lsn)
    PROVE  Yields(G, im.disk, m, Read, Contents(im))
  <1>1. im \in G /\ DOMAIN im.pool = {} /\ DOMAIN im.fl = {}
    BY DEF Fresh, FreshMemory, Clean
  <1>2. current_lsn \in Nat /\ current_lsn = LP!EndLsn(file)
    <2>1. LP!WALInv /\ (pc = "marking" => wpc = "appended") /\ (pc = "marked" => wpc = "ready")
      BY DEF StoreInv, LsnInv, PhasesAgree, Rests
    <2> QED
      BY <2>1 DEF LP!WALInv, LP!WALTypeOK, LP!Recovered
  <1>3. \A i \in 1..Len(Read) : Read[i].lsn \in Nat /\ Read[i].lsn <= current_lsn
    BY <1>2, FreshLogs
  <1>4. NoOps(Read, current_lsn)
    BY <1>2, <1>3, OldIsNoOps
  <1>5. im = ImageOf(Repaired(m, Read), im.disk) /\ Repaired(m, Read).last_checkpoint_lsn = current_lsn
    BY <1>1, <1>2, CleanImage, StampOfImage
  <1> QED
    BY <1>1, <1>4, <1>5, NoOpsYield

LEMMA FreshLogCheckpointSync ==
    ASSUME NEW G, TreeWorks(G), StoreInv(G), Fresh(G), LogCheckpointSync, UNCHANGED faultVars
    PROVE  Fresh(G)'
  <1>1. /\ pc = "marking" /\ pc' = "marked" /\ Log!AppendSync
        /\ im' = im /\ meta' = meta /\ synced' = synced /\ view' = view /\ pending' = pending
        /\ is_opened' = is_opened /\ partial' = partial
    BY DEF LogCheckpointSync, fileVars, clientVars, faultVars
  <1>2. /\ im \in G /\ Contents(im) \in Undecided /\ (is_opened => Contents(im) = view)
        /\ DOMAIN im.pool = {} /\ DOMAIN im.fl = {} /\ synced.pages = im.disk
        /\ \A m \in Metas : Repaired(m, Read) = StampOf(im, current_lsn)
    BY <1>1 DEF Fresh, FreshMemory, FreshFiles, Clean
  <1>3. /\ file' = file /\ durable' = file /\ stale' = stale /\ current_lsn' = current_lsn
        /\ Read' = Read /\ Kept' = Read
    BY <1>1 DEF Log!AppendSync, Read, Kept
  <1>4. Undecided' = Undecided /\ Metas' = Metas /\ Stamps' = Stamps /\ Found' = Undecided
    BY <1>1 DEF Undecided, Metas, Stamps, Found
  <1>5. \A m \in Metas : Yields(G, im.disk, m, Read, Contents(im))
    BY <1>1, <1>2, MarkedYields
  <1>6. Recoverable(G)'
    BY <1>1, <1>2, <1>3, <1>4, <1>5 DEF Recoverable
  <1>7. FreshMemory(G)'
    BY <1>1, <1>2, <1>4 DEF FreshMemory, Warm, Clean, Newest
  <1>8. FreshFiles(G)'
    <2>1. \A m \in Metas' : Repaired(m, Read') = StampOf(im', current_lsn')
      BY <1>1, <1>2, <1>3, <1>4
    <2> QED
      BY <1>1, <1>6, <2>1 DEF FreshFiles
  <1>9. \A n \in Stamps' : n <= LP!EndLsn(file') /\ n <= LP!EndLsn(durable')
    BY <1>3, <1>4 DEF Fresh
  <1> QED
    BY <1>1, <1>3, <1>7, <1>8, <1>9 DEF Fresh, Rotation

\* The meta page is what a repair would make of the other one.
LEMMA FreshWriteMeta ==
    ASSUME NEW G, TreeWorks(G), StoreInv(G), Fresh(G), WriteMeta, UNCHANGED faultVars
    PROVE  Fresh(G)'
  <1>1. /\ pc = "marked" /\ pc' = "stamping" /\ meta' = StampOf(im, current_lsn)
        /\ im' = im /\ synced' = synced /\ view' = view /\ pending' = pending
        /\ is_opened' = is_opened /\ partial' = partial /\ UNCHANGED logVars
    BY DEF WriteMeta, StampOf, clientVars, faultVars
  <1>2. /\ im \in G /\ Contents(im) \in Undecided /\ (is_opened => Contents(im) = view)
        /\ DOMAIN im.pool = {} /\ DOMAIN im.fl = {} /\ synced.pages = im.disk
        /\ Repaired(synced.meta, Read) = StampOf(im, current_lsn)
    BY <1>1 DEF Fresh, FreshMemory, FreshFiles, Clean, Metas, Window, Recoverable
  <1>3. /\ Kept = Read /\ durable = file /\ current_lsn = LP!EndLsn(file) /\ current_lsn \in Nat
    BY <1>1, FreshAtRest DEF Rests
  <1>4. meta'.last_checkpoint_lsn = current_lsn
    BY <1>1, <1>2, <1>3, StampOfImage
  <1>5. Repaired(meta', Read) = meta'
    <2>1. /\ Read \in Seq(LP!Records)
          /\ \A i \in 1..Len(Read) : Read[i].lsn \in Nat /\ Read[i].lsn <= current_lsn
      BY <1>3, FreshLogs
    <2> QED
      BY <1>3, <1>4, <2>1, RepairedOld
  <1>6. \A m \in {meta', synced.meta} : Repaired(m, Read) = StampOf(im, current_lsn)
    BY <1>1, <1>2, <1>5
  <1>7. \A m \in {meta', synced.meta} : Yields(G, im.disk, m, Read, Contents(im))
    BY <1>1, <1>6, MarkedYields
  <1>8. /\ Read' = Read /\ Kept' = Read /\ Undecided' = Undecided /\ Found' = Undecided
        /\ Metas' = {meta', synced.meta} /\ current_lsn' = current_lsn
        /\ file' = file /\ durable' = durable /\ stale' = stale
    BY <1>1, <1>3 DEF Read, Kept, Undecided, Found, Metas, logVars
  <1>9. Recoverable(G)'
    BY <1>1, <1>2, <1>7, <1>8 DEF Recoverable
  <1>10. FreshMemory(G)'
    BY <1>1, <1>2, <1>8 DEF FreshMemory, Warm, Clean, Newest
  <1>11. FreshFiles(G)'
    <2>1. meta' = StampOf(im', current_lsn') /\ Repaired(synced'.meta, Read') = meta'
      BY <1>1, <1>2, <1>8
    <2> QED
      BY <1>1, <1>9, <2>1 DEF FreshFiles
  <1>12. \A n \in Stamps' : n <= LP!EndLsn(file') /\ n <= LP!EndLsn(durable')
    BY <1>1, <1>3, <1>4, <1>8 DEF Fresh, Stamps
  <1> QED
    BY <1>1, <1>8, <1>10, <1>11, <1>12 DEF Fresh, Rotation

\* It is durable: there is nothing to replay any more.
LEMMA FreshSyncMeta ==
    ASSUME NEW G, TreeWorks(G), StoreInv(G), Fresh(G), SyncMeta, UNCHANGED faultVars
    PROVE  Quiet(G)'
  <1>1. /\ pc = "stamping" /\ pc' = "stamped" /\ UNCHANGED logVars
        /\ im' = im /\ meta' = meta /\ view' = view /\ pending' = pending
        /\ synced'.pages = im.disk /\ synced'.meta = meta
    BY DEF SyncMeta, clientVars
  <1>2. /\ im \in G /\ Contents(im) \in Undecided /\ DOMAIN im.pool = {} /\ DOMAIN im.fl = {}
        /\ meta = StampOf(im, current_lsn) /\ stale = {}
    BY <1>1 DEF Fresh, FreshMemory, FreshFiles, Clean
  <1>3. /\ durable = file /\ current_lsn = LP!EndLsn(file) /\ current_lsn \in Nat
    BY <1>1, FreshAtRest DEF Rests
  <1>4. meta.last_checkpoint_lsn = current_lsn /\ im = ImageOf(meta, im.disk)
    BY <1>2, <1>3, StampOfImage, CleanImage
  <1>5. Settled(file, current_lsn, CheckpointOf(im))
    <2>1. \A i \in 1..Len(Read) : Read[i].lsn \in Nat /\ Read[i].lsn <= current_lsn
      BY <1>3, FreshLogs
    <2>2. \A i \in 1..Len(Read) : ~(Read[i].lsn > current_lsn)
      BY <1>3, <2>1
    <2> QED
      BY <1>3, <2>2 DEF Settled, Read
  <1> DEFINE c == current_lsn
  <1>6. /\ (LP!Files)' = {file} /\ Rotated' = {} /\ \A n \in Stamps' : n = c
    BY <1>1, <1>2, <1>3, <1>4 DEF LP!Files, Rotated, Stamps, logVars
  <1>7. c \in Nat /\ \A n \in Stamps' : c <= n
    BY <1>3, <1>6
  <1>8. \A s \in (LP!Files \cup Rotated)' : Settled(s, c, CheckpointOf(im'))
    BY <1>1, <1>5, <1>6
  <1> HIDE DEF c
  <1>9. \E d \in Nat : SettledAt(d)'
    BY <1>7, <1>8 DEF SettledAt
  <1>10. \A m \in Metas' : im' = ImageOf(m, im'.disk)
    BY <1>1, <1>4 DEF Metas
  <1> QED
    BY <1>1, <1>2, <1>9, <1>10 DEF Quiet, Undecided, Rotation

\* The files are closed, or the process is killed: what is read is the same,
\* or what it was before the append under way.
LEMMA FreshStops ==
    ASSUME NEW G, TreeWorks(G), StoreInv(G), Fresh(G), ~partial, pc \notin Window,
           \/ CloseFiles /\ UNCHANGED faultVars
           \/ (Kill \/ PowerLoss) /\ GivenUp
    PROVE  Fresh(G)'
  <1>1. /\ pc' = "closed" /\ is_opened' = FALSE /\ partial' = partial
        /\ view' = view /\ pending' = pending
        /\ Log!Close \/ Log!Kill \/ Log!PowerLoss
    BY DEF CloseFiles, Kill, PowerLoss, Interrupt, GivenUp, clientVars, faultVars
  <1>2. Recoverable(G) /\ synced.pages = im.disk
    BY DEF Fresh, FreshFiles, Recoverable
  <1>3. /\ im' = ImageOf(meta', im.disk) /\ synced'.pages = im.disk
        /\ meta' \in Metas /\ synced'.meta \in Metas
    <2>1. CASE CloseFiles
      <3>1. im = ImageOf(meta, im.disk)
        BY <2>1 DEF CloseFiles, Fresh, FreshMemory
      <3> QED
        BY <2>1, <3>1 DEF CloseFiles, Metas
    <2>2. CASE Kill
      BY <1>2, <2>2 DEF Kill, Metas
    <2>3. CASE PowerLoss
      <3>1. PICK kept \in SUBSET {id \in DOMAIN im.disk :
                                   id \notin DOMAIN synced.pages \/ synced.pages[id] # im.disk[id]},
                 m \in {meta, synced.meta} :
              LET disk == Over([id \in kept |-> im.disk[id]], synced.pages)
              IN im' = ImageOf(m, disk) /\ meta' = m /\ synced' = [pages |-> disk, meta |-> m]
        BY <2>3 DEF PowerLoss
      <3>2. im.disk = [i \in DOMAIN im.disk |-> im.disk[i]]
        <4>1. PICK map : Yields(G, im.disk, meta, Read, map)
          BY <1>2 DEF Recoverable, Metas
        <4>2. ImageOf(Repaired(meta, Read), im.disk) \in G
          BY <4>1 DEF Yields
        <4>3. ImageOf(Repaired(meta, Read), im.disk).disk = im.disk
          BY ImageOfFields
        <4> QED
          BY <4>2, <4>3, ImageFields
      <3>3. kept = {}
        BY <1>2
      <3>4. Over([id \in kept |-> im.disk[id]], synced.pages) = im.disk
        <4>1. PICK f : f = [id \in kept |-> im.disk[id]]
          OBVIOUS
        <4>2. DOMAIN f = {}
          BY <3>3, <4>1
        <4> QED
          BY <1>2, <3>2, <4>1, <4>2, OverNothing
      <3> QED
        BY <3>1, <3>4 DEF Metas
    <2> QED
      BY <2>1, <2>2, <2>3
  <1>4. im'.disk = im.disk
    BY <1>3, ImageOfFields
  <1>5. Stamps' \subseteq Stamps
    BY <1>3 DEF Stamps, Metas
  <1>6. /\ stale' = {} /\ Read' \in {Read, Kept} /\ Kept' \in {Read, Kept}
        /\ \A n \in Stamps' : n <= LP!EndLsn(file') /\ n <= LP!EndLsn(durable')
    BY <1>1, <1>5, FreshLogKept
  <1>7. Found' = Undecided' /\ Undecided' = Undecided /\ Found \subseteq Undecided
    BY <1>1 DEF Found, Undecided
  <1>8. Recoverable(G)'
    BY <1>1, <1>2, <1>3, <1>4, <1>6, <1>7, RecoverableKept
  <1>9. FreshMemory(G)'
    BY <1>1, <1>3, <1>4 DEF FreshMemory, Warm, Clean, Newest
  <1>10. FreshFiles(G)'
    BY <1>1, <1>8 DEF FreshFiles
  <1> QED
    BY <1>1, <1>6, <1>9, <1>10 DEF Fresh, Rotation

\* A page is not written: the tree is all in memory still.
LEMMA FreshCheckpointFails ==
    ASSUME NEW G, TreeWorks(G), StoreInv(G), Fresh(G), CheckpointFails \/ CloseFails
    PROVE  Fresh(G)'
  <1>1. /\ pc = "flushing" /\ pc' \in {"idle", "down"} /\ UNCHANGED logVars
        /\ im' = im /\ meta' = meta /\ synced' = synced /\ view' = view /\ pending' = pending
        /\ pc' = "idle" => is_opened' = is_opened
        /\ pc' = "down" => is_opened' = FALSE
        /\ partial' = TRUE
    BY DEF CheckpointFails, CloseFails, FlushRaises, fileVars, clientVars
  <1>2. is_opened
    BY DEF CheckpointFails, CloseFails, StoreInv, ClientInv
  <1>3. /\ im \in G /\ Contents(im) \in Undecided /\ Contents(im) = view
        /\ Absorbs(Contents(im), meta, Read) /\ Repaired(meta, Read) = meta
    BY <1>1, <1>2 DEF Fresh, FreshMemory, Warm, Newest
  <1>4. /\ Read' = Read /\ Stamps' = Stamps /\ stale' = {} /\ Undecided' = Undecided
        /\ \A n \in Stamps' : n <= LP!EndLsn(file') /\ n <= LP!EndLsn(durable')
    BY <1>1 DEF Read, Stamps, Undecided, logVars, Fresh
  <1>5. FreshMemory(G)'
    BY <1>1, <1>3, <1>4 DEF FreshMemory, Warm, Clean, Newest
  <1>6. FreshFiles(G)'
    BY <1>1 DEF FreshFiles
  <1> QED
    BY <1>1, <1>4, <1>5, <1>6 DEF Fresh, Rotation

\* In a recovery: the meta page goes with the pages that the pool keeps.
LEMMA FreshRecoveryFails ==
    ASSUME NEW G, TreeWorks(G), StoreInv(G), Fresh(G), RecoveryFails
    PROVE  Fresh(G)'
  <1> DEFINE n == Repaired(meta, Read).last_checkpoint_lsn
  <1>1. /\ pc = "flushing" /\ pc' = "closed" /\ Log!Close /\ meta' = StampOf(im, n)
        /\ im' = ImageOf(meta', Over(im.fl, im.disk))
        /\ synced' = [pages |-> im'.disk, meta |-> meta'] /\ mem' = im.pool
        /\ view' = view /\ pending' = pending /\ partial' = TRUE
        /\ ~is_opened /\ is_opened' = is_opened
    BY SameRepaired DEF RecoveryFails, FlushRaises, StampOf, clientVars
  <1>2. im \in G /\ Contents(im) \in Undecided /\ Absorbs(Contents(im), meta, Read)
    BY <1>1 DEF Fresh, FreshMemory, Warm
  <1>3. /\ meta.last_checkpoint_lsn \in Nat /\ Read \in Seq(LP!Records)
        /\ n \in Nat /\ n <= LP!EndLsn(file)
    BY FreshLogs DEF Metas
  <1> HIDE DEF n
  <1>4. LP!AllGood(file) /\ file' = file /\ durable' = file /\ stale' = {}
    BY <1>1, FreshAtRest DEF Rests, Log!Close, Fresh
  <1>5. Read' = Read /\ Undecided' = Undecided
    BY <1>1, <1>4 DEF Read, Undecided
  <1>6. meta'.last_checkpoint_lsn = n
    BY <1>1, <1>2, <1>3, StampOfImage
  <1>7. Repaired(meta', Read) = meta'
    BY <1>3, <1>6, RepairedAgain DEF n
  <1>8. Resumed' = FreelistWritten(im)
    <2>1. im'.disk = Over(im.fl, im.disk)
      BY <1>1, ImageOfFields
    <2>2. Resumed' = [ImageOf(StampOf(im, n), Over(im.fl, im.disk)) EXCEPT !.pool = im.pool]
      BY <1>1, <2>1 DEF Resumed, Remembered
    <2> QED
      BY <1>2, <2>2, RememberedIs
  <1>9. Resumed' \in G /\ Contents(Resumed') = Contents(im)
    <2>1. WritesWork(G)
      BY DEF TreeWorks
    <2> QED
      BY <1>2, <1>8, <2>1, Zenon DEF WritesWork
  <1>10. Absorbs(Contents(im), meta', Read)
    <2>1. Repaired(meta', Read).last_checkpoint_lsn = Repaired(meta, Read).last_checkpoint_lsn
      BY <1>6, <1>7 DEF n
    <2> QED
      BY <1>2, <2>1 DEF Absorbs
  <1>11. FreshMemory(G)'
    <2>1. LP!AllGood(file')
      BY <1>4
    <2> QED
      BY <1>1, <1>2, <1>5, <1>7, <1>9, <1>10, <2>1 DEF FreshMemory, Warm, Clean, Newest
  <1>12. FreshFiles(G)'
    BY <1>1 DEF FreshFiles
  <1>13. \A k \in Stamps' : k <= LP!EndLsn(file') /\ k <= LP!EndLsn(durable')
    BY <1>1, <1>3, <1>4, <1>6 DEF Stamps
  <1> QED
    BY <1>1, <1>4, <1>11, <1>12, <1>13 DEF Fresh, Rotation

LEMMA FreshStutter ==
    ASSUME NEW G, Fresh(G), UNCHANGED dbFaultVars PROVE Fresh(G)'
  <1>1. /\ im' = im /\ meta' = meta /\ synced' = synced /\ view' = view /\ pending' = pending
        /\ UNCHANGED <<file, durable, stale, current_lsn, pc, is_opened, partial, mem>>
    BY DEF dbFaultVars, dbVars, faultVars, logVars, fileVars, clientVars
  <1>2. /\ Read' = Read /\ Kept' = Kept /\ Stamps' = Stamps /\ Metas' = Metas
        /\ Undecided' = Undecided /\ Found' = Found /\ Resumed' = Resumed
    BY <1>1 DEF Read, Kept, Stamps, Metas, Undecided, Found, Resumed, Remembered
  <1>3. Newest' <=> Newest
    BY <1>1 DEF Newest
  <1>4. Recoverable(G)' <=> Recoverable(G)
    BY <1>1, <1>2 DEF Recoverable
  <1>5. FreshMemory(G)'
    BY <1>1, <1>2, <1>3 DEF Fresh, FreshMemory
  <1>6. FreshFiles(G)'
    BY <1>1, <1>2, <1>4 DEF Fresh, FreshFiles
  <1> QED
    BY <1>1, <1>2, <1>5, <1>6 DEF Fresh

LEMMA FreshClient ==
    ASSUME NEW G, TreeWorks(G), StoreInv(G), Fresh(G), Client, UNCHANGED faultVars
    PROVE  Fresh(G)'
  <1>1. ASSUME NEW op \in Store!Ops, Call(op), op \in Store!Puts => RecordFits(op[2], op[3])
        PROVE  Fresh(G)'
    BY <1>1, FreshCall
  <1>2. CASE Checkpoint \/ Close
    BY <1>2, FreshCheckpoint
  <1> QED
    BY <1>1, <1>2, CallOfClient

LEMMA FreshNext ==
    ASSUME NEW G, TreeWorks(G), OutsideWindow, StoreInv(G), Fresh(G), [FaultsNext]_dbFaultVars
    PROVE  Quiet(G)' \/ Fresh(G)'
  <1>1. (GivenUp => ~partial) /\ (Kill \/ PowerLoss => pc \notin Window)
    BY StopsInOrder DEF StoreInv
  <1>2. CASE UNCHANGED dbFaultVars \/ (Lookup /\ UNCHANGED faultVars)
    BY <1>2, FreshStutter DEF Lookup, dbFaultVars
  <1>3. CASE Client /\ UNCHANGED faultVars
    BY <1>3, FreshClient
  <1>4. CASE (Open \/ Kill \/ PowerLoss) /\ GivenUp
    BY <1>1, <1>4, FreshOpen, FreshStops
  <1>5. CASE CloseFiles /\ UNCHANGED faultVars
    <2>1. ~partial /\ pc \notin Window
      BY <1>5 DEF CloseFiles, Fresh, FreshMemory, Window
    <2> QED
      BY <1>5, <2>1, FreshStops
  <1>6. CASE Work /\ ~CloseFiles /\ UNCHANGED faultVars
    <2>1. ~RotateWrite /\ ~RotateRename
      BY DEF Fresh, Rotation, RotateWrite, RotateRename
    <2> QED
      BY <1>6, <2>1, FreshRecover, FreshReplay, FreshOpenFails, FreshLogged, FreshReturn,
         FreshCheckpoint, FreshFlush, FreshSyncPages, FreshLogCheckpoint,
         FreshLogCheckpointSync, FreshWriteMeta, FreshSyncMeta DEF Work
  <1>7. ~RotateSync
    BY DEF Fresh, Rotation, RotateSync
  <1>8. CASE CheckpointFails \/ CloseFails \/ RecoveryFails \/ ReopenUnclosed \/ ReopenObject
    BY <1>8, FreshCheckpointFails, FreshRecoveryFails, FreshReopen
  <1> QED
    BY <1>2, <1>3, <1>4, <1>5, <1>6, <1>7, <1>8 DEF FaultsNext

-----------------------------------------------------------------------------
(* The invariant holds. *)

LEMMA InitStore == ASSUME NEW G, TreeWorks(G), FaultsInit PROVE StoreInv(G)
  <1>1. /\ Log!Init /\ pc = "closed" /\ is_opened = FALSE /\ closing = FALSE
        /\ im = EmptyImage /\ meta = Meta(1, 0, 2, 0)
        /\ synced.pages = EmptyImage.disk /\ synced.meta = Meta(1, 0, 2, 0)
        /\ pending = <<>> /\ view = [k \in Keys |-> {}] /\ acked = view
        /\ scenario \in Scenarios /\ mem = <<>> /\ partial = FALSE
    BY DEF FaultsInit, Init
  <1>2. /\ wpc = "closed" /\ file = <<>> /\ durable = <<>> /\ stale = {}
    BY <1>1 DEF Log!Init
  <1>3. LP!WALInv /\ PhasesAgree /\ LsnInv
    BY <1>1, <1>2, SameLog, LogAssumption, LP!InitInv, InitLsn
       DEF PhasesAgree, Rests, FaultsInit
  <1>4. ClientInv
    <2>1. <<>> \notin Store!Puts
      BY OpsOfOneKey DEF Store!Ops
    <2>2. [k \in Keys |-> {}] \in [Keys -> SUBSET Values]
      OBVIOUS
    <2> QED
      BY <1>1, <2>1, <2>2 DEF ClientInv, Up, Down
  <1>5. MetasInv /\ \A m \in Metas : m = Meta(1, 0, 2, 0)
    <2>1. IsMeta(Meta(1, 0, 2, 0))
      BY DEF IsMeta, Meta
    <2> QED
      BY <1>1, <2>1 DEF MetasInv, Metas
  <1>6. im = ImageOf(Meta(1, 0, 2, 0), im.disk)
    BY <1>1 DEF EmptyImage, ImageOf, Meta
  <1>7. im \in G /\ Contents(im) = view
    BY <1>1 DEF TreeWorks
  <1>8. SettledAt(0)
    <2>1. LP!AllGood(<<>>) /\ <<>> \in Seq(LP!Cell)
      BY DEF LP!AllGood
    <2>2. LP!GoodPart(<<>>) = <<>>
      BY <2>1, LogAssumption, LP!GoodPartOfGood
    <2>3. LP!EndLsn(<<>>) \in Nat
      BY <1>2, <1>3, LogOfFile DEF LP!Files
    <2>4. Settled(<<>>, 0, CheckpointOf(im))
      BY <2>2, <2>3 DEF Settled
    <2>5. LP!Files \cup Rotated = {<<>>}
      BY <1>1, <1>2 DEF LP!Files, Rotated
    <2>6. \A n \in Stamps : 0 <= n
      BY <1>1 DEF Stamps, Meta
    <2> QED
      BY <2>4, <2>5, <2>6 DEF SettledAt
  <1>9. Quiet(G)
    BY <1>1, <1>5, <1>6, <1>7, <1>8 DEF Quiet, Undecided
  <1> QED
    BY <1>3, <1>4, <1>5, <1>9 DEF StoreInv

LEMMA NextStore ==
    ASSUME NEW G, TreeWorks(G), OutsideWindow, StoreInv(G), [FaultsNext]_dbFaultVars
    PROVE  StoreInv(G)'
  <1>1. Quiet(G)' \/ Fresh(G)'
    BY QuietNext, FreshNext DEF StoreInv
  <1> QED
    BY <1>1, LogOfStep, ClientStep, MetasStep DEF StoreInv

-----------------------------------------------------------------------------
(* What follows from it. *)

\* Every step of the database is one of the promised store, or is not seen by
\* its client.
LEMMA StoreStep ==
    ASSUME NEW G, TreeWorks(G), StoreInv(G), [FaultsNext]_dbFaultVars
    PROVE  [Store!Next]_(Store!kvVars)
  <1>1. ClientInv
    BY DEF StoreInv
  <1>2. ASSUME view' = view, pending' = pending, is_opened' = is_opened
        PROVE  [Store!Next]_(Store!kvVars)
    BY <1>2 DEF Store!kvVars
  <1>3. ASSUME view' = view, pending' = pending, is_opened' = FALSE
        PROVE  [Store!Next]_(Store!kvVars)
    BY <1>1, <1>3 DEF ClientInv, Store!Next, Store!Stop, Store!kvVars
  <1>4. CASE UNCHANGED dbFaultVars \/ Lookup
    BY <1>2, <1>4 DEF Lookup, dbFaultVars, dbVars, clientVars
  <1>5. CASE Client
    <2>1. ASSUME NEW op \in Store!Ops, Call(op) PROVE [Store!Next]_(Store!kvVars)
      <3>1. pc = "idle" /\ pending' = op /\ view' = view /\ is_opened' = is_opened
        BY <2>1 DEF Call
      <3>2. is_opened /\ pending = <<>>
        BY <1>1, <3>1 DEF ClientInv, Up
      <3> QED
        BY <3>1, <3>2 DEF Store!Next, Store!Begin
    <2>2. CASE Checkpoint \/ Close
      BY <1>2, <2>2 DEF Checkpoint, Close, BeginCheckpoint
    <2> QED
      BY <1>5, <2>1, <2>2, CallOfClient
  <1>6. CASE Return
    <2>1. /\ pc = "returning" /\ view' = Contents(im) /\ pending' = <<>>
          /\ is_opened' = is_opened
      BY <1>6 DEF Return
    <2>2. is_opened /\ pending # <<>>
      BY <1>1, <2>1 DEF ClientInv, Up
    <2>3. Contents(im) = Store!Apply(view, pending)
      BY <2>1, <2>2 DEF StoreInv, Quiet, Rotation, Fresh, FreshMemory
    <2> QED
      BY <2>1, <2>2, <2>3 DEF Store!Next, Store!Commit
  <1>7. CASE RotateSync /\ Completed
    <2>1. view' \in Undecided /\ (is_opened => view' = view)
      BY <1>7, ClientOfRotateSync
    <2>2. pc = "renamed" /\ pending' = <<>> /\ is_opened' = TRUE
      BY <1>7 DEF RotateSync
    <2>3. CASE is_opened
      <3>1. pending = <<>> /\ is_opened = TRUE
        BY <1>1, <2>2, <2>3 DEF ClientInv
      <3> QED
        BY <1>2, <2>1, <2>2, <2>3, <3>1
    <2>4. CASE ~is_opened
      BY <2>1, <2>2, <2>4 DEF Undecided, Store!Next, Store!Start
    <2> QED
      BY <2>3, <2>4
  <1>8. CASE CloseFiles \/ Kill \/ PowerLoss \/ CloseFails
    BY <1>3, <1>8 DEF CloseFiles, Kill, PowerLoss, CloseFails, Interrupt, clientVars
  <1>9. CASE Work /\ ~Return /\ ~CloseFiles
    BY <1>2, <1>9
       DEF Work, Recover, CutTail, ReplaySync, OpenFails, Logged, RecoveryCheckpoint,
           BeginCheckpoint, FlushPage, FlushFreelist, SyncPages, LogCheckpoint,
           LogCheckpointSync, WriteMeta, SyncMeta, RotateWrite, RotateRename, clientVars
  <1>10. CASE Open \/ CheckpointFails \/ RecoveryFails \/ ReopenUnclosed \/ ReopenObject
    BY <1>2, <1>10
       DEF Open, CheckpointFails, RecoveryFails, ReopenUnclosed, ReopenObject, clientVars
  <1> QED
    BY <1>4, <1>5, <1>6, <1>7, <1>8, <1>9, <1>10 DEF FaultsNext

\* An open database has in memory what its client may count on.
LEMMA OpenTree ==
    ASSUME NEW G, TreeWorks(G), StoreInv(G), is_opened
    PROVE  /\ im \in G
           /\ Contents(im) = IF pc = "returning" THEN Store!Apply(acked, pending) ELSE acked
  <1>1. ClientInv /\ (Quiet(G) \/ Fresh(G))
    BY DEF StoreInv
  <1>2. pc \notin {"closed", "opening"} /\ acked = view
    BY <1>1 DEF ClientInv, Down
  <1>3. im \in G /\ Contents(im) \in Undecided
    BY <1>1, <1>2, TreeInMemory
  <1>4. CASE Fresh(G)
    BY <1>2, <1>3, <1>4 DEF Fresh, FreshMemory
  <1>5. CASE Quiet(G)
    <2>1. pc \in Rotation
      BY <1>5 DEF Quiet
    <2>2. pc \notin {"logging", "returning"}
      BY <2>1 DEF Rotation
    <2>3. pending = <<>>
      BY <1>1, <2>2 DEF ClientInv
    <2> QED
      BY <1>2, <1>3, <2>2, <2>3, ApplyNothing DEF Undecided
  <1> QED
    BY <1>1, <1>4, <1>5

-----------------------------------------------------------------------------
(* The rest of the types: the bounds, and the image of a closed database. *)

Bounded ==
    /\ calls \in 0..MaxCalls /\ crashes \in 0..MaxCrashes
    /\ pc = "closed" => im = ImageOf(meta, im.disk)

LEMMA InitBounded == ASSUME NEW G, TreeWorks(G), FaultsInit PROVE Bounded
  <1>1. calls = 0 /\ crashes = 0 /\ im = EmptyImage /\ meta = Meta(1, 0, 2, 0)
    BY DEF FaultsInit, Init
  <1>2. im = ImageOf(meta, im.disk)
    BY <1>1 DEF EmptyImage, ImageOf, Meta
  <1> QED
    BY <1>1, <1>2, DBAssumption DEF Bounded

LEMMA ClosedImage ==
    ASSUME NEW G, StoreInv(G), Bounded, [FaultsNext]_dbFaultVars, pc' = "closed"
    PROVE  im' = ImageOf(meta', im'.disk)
  <1>1. CASE UNCHANGED dbFaultVars
    BY <1>1 DEF dbFaultVars, dbVars, fileVars, Bounded
  <1>2. CASE OpenFails \/ RecoveryFails \/ Kill \/ PowerLoss
    <2>1. \E disk : im' = ImageOf(meta', disk)
      <3>1. CASE OpenFails
        BY <3>1 DEF OpenFails
      <3>2. CASE RecoveryFails
        BY <3>2 DEF RecoveryFails
      <3>3. CASE Kill
        BY <3>3 DEF Kill
      <3>4. CASE PowerLoss
        BY <3>4 DEF PowerLoss
      <3> QED
        BY <1>2, <3>1, <3>2, <3>3, <3>4
    <2> QED
      BY <2>1, ImageOfFields
  <1>3. CASE CloseFiles
    <2>1. pc = "closing" /\ im' = im /\ meta' = meta
      BY <1>3 DEF CloseFiles
    <2>2. im = ImageOf(meta, im.disk)
      BY <2>1 DEF StoreInv, Quiet, Metas, Fresh, FreshMemory
    <2> QED
      BY <2>1, <2>2
  <1>4. ~(Lookup \/ Client \/ RotateSync \/ CheckpointFails \/ CloseFails \/ ReopenUnclosed
             \/ ReopenObject \/ Open)
    BY DEF Lookup, dbVars, Client, Put, DeleteKey, Call, Checkpoint, Close, BeginCheckpoint,
           RotateSync, CheckpointFails, CloseFails, ReopenUnclosed, ReopenObject, Open
  <1>5. Work => OpenFails \/ CloseFiles
    BY DEF Work, Recover, CutTail, ReplaySync, Logged, Return, RecoveryCheckpoint,
           BeginCheckpoint, FlushPage, FlushFreelist, SyncPages, LogCheckpoint,
           LogCheckpointSync, WriteMeta, SyncMeta, RotateWrite, RotateRename
  <1> QED
    BY <1>1, <1>2, <1>3, <1>4, <1>5 DEF FaultsNext

LEMMA NextBounded ==
    ASSUME NEW G, StoreInv(G), Bounded, [FaultsNext]_dbFaultVars PROVE Bounded'
  <1>1. /\ calls' = calls \/ (calls < MaxCalls /\ calls' = calls + 1)
        /\ crashes' = crashes \/ (crashes < MaxCrashes /\ crashes' = crashes + 1)
    <2>1. CASE Client
      BY <2>1 DEF Client, Requested, Put, DeleteKey, Call, Checkpoint, Close, BeginCheckpoint
    <2>2. CASE Work
      BY <2>2
         DEF Work, Recover, CutTail, ReplaySync, OpenFails, Logged, Return, RecoveryCheckpoint,
             BeginCheckpoint, FlushPage, FlushFreelist, SyncPages, LogCheckpoint,
             LogCheckpointSync, WriteMeta, SyncMeta, RotateWrite, RotateRename, CloseFiles,
             clientVars, requestVars
    <2>3. CASE ~Client /\ ~Work
      BY <2>3
         DEF FaultsNext, Lookup, RotateSync, CheckpointFails, CloseFails, RecoveryFails,
             ReopenUnclosed, ReopenObject, Open, Kill, PowerLoss, Interrupt, dbFaultVars,
             dbVars, clientVars, requestVars
    <2> QED
      BY <2>1, <2>2, <2>3
  <1>2. calls' \in 0..MaxCalls /\ crashes' \in 0..MaxCrashes
    BY <1>1, DBAssumption DEF Bounded
  <1> QED
    BY <1>2, ClosedImage DEF Bounded

LEMMA TypesFollow ==
    ASSUME NEW G, TreeWorks(G), StoreInv(G), Bounded PROVE DBTypeOK
  <1>1. ClientInv /\ IsMeta(meta) /\ IsMeta(synced.meta) /\ (Quiet(G) \/ Fresh(G))
    BY DEF StoreInv, MetasInv, Metas
  <1>2. im \in G \/ im = ImageOf(meta, im.disk)
    <2>1. CASE pc \notin {"closed", "opening"}
      BY <1>1, <2>1, TreeInMemory
    <2>2. CASE pc = "closed"
      BY <2>2 DEF Bounded
    <2>3. CASE pc = "opening"
      BY <1>1, <2>3 DEF Quiet, Fresh, FreshMemory, Resumed
    <2> QED
      BY <2>1, <2>2, <2>3
  <1>3. im.next \in Nat /\ im.root \in 1..(im.next - 1) /\ im.flhead \in 0..(im.next - 1)
    <2>1. CASE im \in G
      BY <2>1, ImageFields
    <2>2. CASE im = ImageOf(meta, im.disk)
      <3>1. im.root = meta.root /\ im.flhead = meta.flhead /\ im.next = meta.next
        BY <2>2, ImageOfFields
      <3> QED
        BY <1>1, <3>1 DEF IsMeta
    <2> QED
      BY <1>2, <2>1, <2>2
  <1>4. \A m \in {meta, synced.meta, im} :
            m.next \in Nat /\ m.root \in 1..(m.next - 1) /\ m.flhead \in 0..(m.next - 1)
    BY <1>1, <1>3 DEF IsMeta
  <1> QED
    BY <1>1, <1>4 DEF DBTypeOK, ClientInv, Bounded

-----------------------------------------------------------------------------
(* The theorems. *)

\* In every reachable state, whatever an interruption leaves of the two files
\* is either all there is or what the log needs to restore it.
THEOREM StoreInvariant ==
    ASSUME NEW G, TreeWorks(G), OutsideWindow PROVE FaultsFairSpec => []StoreInv(G)
  <1>1. FaultsInit => StoreInv(G)
    BY InitStore
  <1>2. StoreInv(G) /\ [FaultsNext]_dbFaultVars => StoreInv(G)'
    BY NextStore
  <1> QED
    BY <1>1, <1>2, PTL DEF FaultsFairSpec

\* The database, with its pages, its log, its checkpoints and its recovery,
\* implements the map that KVStore promises: no kill, loss of power or failed
\* page write takes back what was acknowledged or brings about what was not.
THEOREM DatabaseImplementsStore ==
    ASSUME NEW G, TreeWorks(G), OutsideWindow PROVE FaultsFairSpec => DurableStore
  <1>1. FaultsInit => Store!Init
    BY DEF FaultsInit, Init, Store!Init
  <1>2. StoreInv(G) /\ [FaultsNext]_dbFaultVars => [Store!Next]_(Store!kvVars)
    BY StoreStep
  <1> QED
    BY <1>1, <1>2, StoreInvariant, PTL DEF FaultsFairSpec, DurableStore, Store!Spec

\* scan() of an open database yields the acknowledged pairs in order.
THEOREM NothingIsLost ==
    ASSUME NEW G, TreeWorks(G), OutsideWindow PROVE FaultsFairSpec => []NothingLost
  <1>1. StoreInv(G) => NothingLost
    <2> SUFFICES ASSUME StoreInv(G), is_opened
                 PROVE  Scan(im, 0) = SortedFrom(IF pc = "returning"
                                                 THEN Store!Apply(acked, pending)
                                                 ELSE acked, 0)
      BY DEF NothingLost
    <2>1. /\ im \in G
          /\ Contents(im) = IF pc = "returning" THEN Store!Apply(acked, pending) ELSE acked
      BY OpenTree
    <2>2. Scan(im, 0) = SortedFrom(Contents(im), 0)
      BY <2>1, ImageIsWellFormed DEF WellFormed
    <2> QED
      BY <2>1, <2>2
  <1> QED
    BY <1>1, StoreInvariant, PTL

\* The tree of an open database is well-formed, and each of its pages has one
\* owner, also when it has been recovered.
THEOREM RecoveredTreesAreSound ==
    ASSUME NEW G, TreeWorks(G), OutsideWindow PROVE FaultsFairSpec => []RecoveredTreeIsSound
  <1>1. StoreInv(G) => RecoveredTreeIsSound
    BY OpenTree, ImageIsWellFormed DEF RecoveredTreeIsSound, WellFormed
  <1> QED
    BY <1>1, StoreInvariant, PTL

\* A replay finds every page it needs, also over what a failed write has left,
\* for the object whose write failed: OutsideWindow leaves others out.
THEOREM RecoveryAlwaysRestarts ==
    ASSUME NEW G, TreeWorks(G), OutsideWindow PROVE FaultsFairSpec => []RecoveryRestarts
  <1>1. StoreInv(G) => RecoveryRestarts
    <2> SUFFICES ASSUME StoreInv(G), pc = "recovering" PROVE im.err = "none"
      BY DEF RecoveryRestarts
    <2>1. im \in G
      BY TreeInMemory DEF StoreInv
    <2> QED
      BY <2>1, ImageFields
  <1> QED
    BY <1>1, StoreInvariant, PTL

\* The meta page in the file, the one on the medium and the image in memory name
\* pages that exist: the hypothesis of DBRecovery_proofs.
THEOREM DatabaseTypes ==
    ASSUME NEW G, TreeWorks(G), OutsideWindow PROVE FaultsFairSpec => []DBTypeOK
  <1>1. FaultsInit => Bounded
    BY InitBounded
  <1>2. StoreInv(G) /\ Bounded /\ [FaultsNext]_dbFaultVars => Bounded'
    BY NextBounded
  <1>3. StoreInv(G) /\ Bounded => DBTypeOK
    BY TypesFollow
  <1> QED
    BY <1>1, <1>2, <1>3, StoreInvariant, PTL DEF FaultsFairSpec

=============================================================================
