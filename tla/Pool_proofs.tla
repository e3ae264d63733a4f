----------------------------- MODULE Pool_proofs -----------------------------
(***************************************************************************)
(* Proofs about the buffer pool of PoolSpec.  They hold for every capacity *)
(* and every dirty ratio, and for whatever calls the tree makes: nothing   *)
(* is used of the tree's algorithms.                                       *)
(***************************************************************************)
EXTENDS PoolSpec, SequenceTheorems, WellFoundedInduction, TLAPS

-----------------------------------------------------------------------------
(* The keys of the OrderedDict. *)

Has(s, id) == \E i \in DOMAIN s : s[i] = id

\* A non-empty set of naturals has a least element.
LEMMA LeastPlace ==
    ASSUME NEW P, P \subseteq Nat, P # {}
    PROVE  Min(P) \in P
  <1> DEFINE R == OpToRel(<, Nat)
  <1>1. IsWellFoundedOn(R, Nat)
    BY NatLessThanWellFounded
  <1>2. \A x, y \in Nat : x < y => <<x, y>> \in R
    BY DEF OpToRel
  <1> HIDE DEF R
  <1>3. PICK x \in P : \A y \in P : ~ (<<y, x>> \in R)
    BY <1>1, WFMin
  <1>4. ASSUME NEW y \in P PROVE x =< y
    <2>1. x \in Nat /\ y \in Nat
      OBVIOUS
    <2>2. ~(y < x)
      BY <1>2, <1>3, <2>1
    <2> QED
      BY <2>1, <2>2
  <1> QED
    BY <1>3, <1>4 DEF Min

\* What is left when the key at place i is deleted.
LEMMA RemoveAtProperties ==
    ASSUME NEW T, NEW s \in Seq(T), NEW i \in 1..Len(s)
    PROVE  /\ RemoveAt(s, i) \in Seq(T)
           /\ Len(RemoveAt(s, i)) = Len(s) - 1
           /\ \A j \in 1..(Len(s) - 1) : RemoveAt(s, i)[j] = IF j < i THEN s[j] ELSE s[j + 1]
  <1> DEFINE a == SubSeq(s, 1, i - 1)
             b == SubSeq(s, i + 1, Len(s))
  <1>1. Len(s) \in Nat /\ \A j \in 1..Len(s) : s[j] \in T
    BY LenProperties, ElementOfSeq
  <1>2. a \in Seq(T) /\ Len(a) = i - 1 /\ \A j \in 1..(i - 1) : a[j] = s[j]
    <2>1. \A j \in 1..(i - 1) : s[j] \in T
      BY <1>1
    <2> QED
      BY <1>1, <2>1, SubSeqProperties
  <1>3. b \in Seq(T) /\ Len(b) = Len(s) - i /\ \A j \in 1..(Len(s) - i) : b[j] = s[i + j]
    <2>1. \A j \in (i + 1)..Len(s) : s[j] \in T
      BY <1>1
    <2>2. /\ b \in Seq(T)
          /\ Len(b) = IF i + 1 <= Len(s) THEN Len(s) - (i + 1) + 1 ELSE 0
          /\ \A j \in 1..(Len(s) - (i + 1) + 1) : b[j] = s[i + 1 + j - 1]
      BY <1>1, <2>1, SubSeqProperties
    <2> QED
      BY <1>1, <2>2
  <1> HIDE DEF a, b
  <1>4. RemoveAt(s, i) = a \o b
    BY DEF RemoveAt, a, b
  <1>5. /\ a \o b \in Seq(T)
        /\ Len(a \o b) = Len(a) + Len(b)
        /\ \A j \in 1..(Len(a) + Len(b)) : (a \o b)[j] = IF j <= Len(a) THEN a[j] ELSE b[j - Len(a)]
    BY <1>2, <1>3, ConcatProperties
  <1>6. Len(a) + Len(b) = Len(s) - 1
    BY <1>1, <1>2, <1>3
  <1>7. ASSUME NEW j \in 1..(Len(s) - 1)
        PROVE  (a \o b)[j] = IF j < i THEN s[j] ELSE s[j + 1]
    <2>1. CASE j < i
      BY <1>1, <1>2, <1>5, <1>6, <2>1
    <2>2. CASE ~(j < i)
      <3>1. (a \o b)[j] = b[j - (i - 1)]
        BY <1>1, <1>2, <1>5, <1>6, <2>2
      <3>2. j - (i - 1) \in 1..(Len(s) - i) /\ i + (j - (i - 1)) = j + 1
        BY <1>1, <2>2
      <3> QED
        BY <1>3, <2>2, <3>1, <3>2
    <2> QED
      BY <2>1, <2>2
  <1> QED
    BY <1>4, <1>5, <1>6, <1>7

\* Of keys that occur once, all but the deleted one are left, and still once.
LEMMA RemoveOnce ==
    ASSUME NEW T, NEW s \in Seq(T), NEW i \in DOMAIN s, IsInjective(s)
    PROVE  /\ RemoveAt(s, i) \in Seq(T)
           /\ Len(RemoveAt(s, i)) = Len(s) - 1
           /\ IsInjective(RemoveAt(s, i))
           /\ \A id : Has(RemoveAt(s, i), id) <=> (Has(s, id) /\ id # s[i])
  <1> DEFINE r == RemoveAt(s, i)
  <1>1. Len(s) \in Nat /\ DOMAIN s = 1..Len(s) /\ i \in 1..Len(s)
    BY LenProperties
  <1>2. /\ r \in Seq(T)
        /\ Len(r) = Len(s) - 1
        /\ \A j \in 1..(Len(s) - 1) : r[j] = IF j < i THEN s[j] ELSE s[j + 1]
    BY <1>1, RemoveAtProperties
  <1> HIDE DEF r
  <1>3. DOMAIN r = 1..(Len(s) - 1)
    BY <1>2, LenProperties
  <1>4. \A j, k \in 1..Len(s) : s[j] = s[k] => j = k
    BY <1>1 DEF IsInjective
  <1>5. ASSUME NEW j \in DOMAIN r, NEW k \in DOMAIN r, r[j] = r[k] PROVE j = k
    <2>1. (IF j < i THEN s[j] ELSE s[j + 1]) = (IF k < i THEN s[k] ELSE s[k + 1])
      BY <1>2, <1>3, <1>5
    <2> QED
      BY <1>1, <1>3, <1>4, <2>1
  <1>6. ASSUME NEW id PROVE Has(r, id) <=> (Has(s, id) /\ id # s[i])
    <2>1. ASSUME NEW j \in DOMAIN r, r[j] = id PROVE Has(s, id) /\ id # s[i]
      BY <1>1, <1>2, <1>3, <1>4, <2>1 DEF Has
    <2>2. ASSUME NEW j \in DOMAIN s, s[j] = id, id # s[i] PROVE Has(r, id)
      <3>1. CASE j < i
        <4>1. j \in 1..(Len(s) - 1)
          BY <1>1, <3>1
        <4> QED
          BY <1>2, <1>3, <2>2, <3>1, <4>1 DEF Has
      <3>2. CASE j > i
        <4>1. j - 1 \in 1..(Len(s) - 1) /\ ~(j - 1 < i) /\ (j - 1) + 1 = j
          BY <1>1, <3>2
        <4>2. r[j - 1] = s[j]
          BY <1>2, <4>1
        <4> QED
          BY <1>3, <2>2, <4>1, <4>2 DEF Has
      <3> QED
        BY <1>1, <2>2, <3>1, <3>2
    <2> QED
      BY <2>1, <2>2 DEF Has
  <1>7. IsInjective(r)
    BY <1>5 DEF IsInjective
  <1> QED
    BY <1>2, <1>6, <1>7 DEF r

\* A key that is new is put at the end.
LEMMA AppendOnce ==
    ASSUME NEW T, NEW s \in Seq(T), IsInjective(s), NEW id, ~Has(s, id)
    PROVE  /\ Append(s, id) \in Seq(T \cup {id})
           /\ Len(Append(s, id)) = Len(s) + 1
           /\ IsInjective(Append(s, id))
           /\ \A x : Has(Append(s, id), x) <=> (Has(s, x) \/ x = id)
  <1> DEFINE r == Append(s, id)
             U == T \cup {id}
  <1>1. s \in Seq(U) /\ Len(s) \in Nat /\ DOMAIN s = 1..Len(s)
    BY SeqMonotonic, LenProperties
  <1>2. /\ r \in Seq(U)
        /\ Len(r) = Len(s) + 1
        /\ \A i \in 1..Len(s) : r[i] = s[i]
        /\ r[Len(s) + 1] = id
    BY <1>1, AppendProperties
  <1>3. DOMAIN r = 1..(Len(s) + 1)
    BY <1>2, LenProperties
  <1> HIDE DEF r, U
  <1>4. IsInjective(r)
    <2>1. \A i, j \in 1..Len(s) : s[i] = s[j] => i = j
      BY <1>1 DEF IsInjective
    <2>2. \A i \in 1..Len(s) : s[i] # id
      BY <1>1 DEF Has
    <2> QED
      BY <1>1, <1>2, <1>3, <2>1, <2>2 DEF IsInjective
  <1>5. \A x : Has(r, x) <=> (Has(s, x) \/ x = id)
    BY <1>1, <1>2, <1>3 DEF Has
  <1> QED
    BY <1>2, <1>4, <1>5 DEF r, U

-----------------------------------------------------------------------------
(* The pool. *)

Errors == {"none", "DBBufferPoolOverflowError", "AssertionError", "KeyError"}

Pools(T) == [order : Seq(T), dirty : SUBSET T, evicting : BOOLEAN, err : Errors]

\* Every page is held once, and the dirty pages are held.
PoolOK(b) ==
    /\ \E T : b \in Pools(T)
    /\ IsInjective(b.order)
    /\ \A id \in b.dirty : Has(b.order, id)

\* del self._cache[page_id] leaves the other pages.
LEMMA WithoutOnce ==
    ASSUME NEW T, NEW b \in Pools(T), IsInjective(b.order), NEW id
    PROVE  /\ Without(b, id) \in Seq(T)
           /\ IsInjective(Without(b, id))
           /\ Len(Without(b, id)) <= Len(b.order)
           /\ Holds(b, id) => Len(Without(b, id)) = Len(b.order) - 1
           /\ \A x : Has(Without(b, id), x) <=> (Has(b.order, x) /\ x # id)
  <1>1. b.order \in Seq(T) /\ Len(b.order) \in Nat
    BY LenProperties DEF Pools
  <1>2. CASE Holds(b, id)
    <2> DEFINE i == CHOOSE j \in DOMAIN b.order : b.order[j] = id
    <2>1. i \in DOMAIN b.order /\ b.order[i] = id
      BY <1>2 DEF Holds
    <2>2. Without(b, id) = RemoveAt(b.order, i)
      BY <1>2 DEF Without
    <2> HIDE DEF i
    <2>3. /\ RemoveAt(b.order, i) \in Seq(T)
          /\ Len(RemoveAt(b.order, i)) = Len(b.order) - 1
          /\ IsInjective(RemoveAt(b.order, i))
          /\ \A x : Has(RemoveAt(b.order, i), x) <=> (Has(b.order, x) /\ x # b.order[i])
      BY <1>1, <2>1, RemoveOnce
    <2> QED
      BY <1>1, <2>1, <2>2, <2>3
  <1>3. CASE ~Holds(b, id)
    <2>1. Without(b, id) = b.order /\ ~Has(b.order, id)
      BY <1>3 DEF Without, Holds, Has
    <2> QED
      BY <1>1, <1>3, <2>1
  <1> QED
    BY <1>2, <1>3

\* _evict_oldest_clean_page_if_full lets a clean page go or none, and leaves
\* room for one more unless it raises or evictions are disabled.
LEMMA EvictIfFullOnce ==
    ASSUME NEW b, PoolOK(b)
    PROVE  LET e == EvictIfFull(b)
           IN /\ PoolOK(e)
              /\ e.dirty = b.dirty /\ e.evicting = b.evicting
              /\ \A x : Has(e.order, x) => Has(b.order, x)
              /\ b.evicting /\ e.err = "none"
                    => Len(e.order) < Capacity \/ Len(e.order) < Len(b.order)
  <1> DEFINE e == EvictIfFull(b)
  <1>1. PICK T : b \in Pools(T)
    BY DEF PoolOK
  <1>2. /\ b.order \in Seq(T) /\ b.dirty \in SUBSET T /\ b.evicting \in BOOLEAN /\ b.err \in Errors
        /\ Len(b.order) \in Nat /\ DOMAIN b.order = 1..Len(b.order)
        /\ IsInjective(b.order) /\ \A id \in b.dirty : Has(b.order, id)
    BY <1>1, LenProperties DEF Pools, PoolOK
  <1>3. CASE ~b.evicting \/ Len(b.order) < Capacity
    <2>1. e = b
      BY <1>3 DEF EvictIfFull
    <2> QED
      BY <1>3, <2>1
  <1>4. CASE b.evicting /\ ~(Len(b.order) < Capacity) /\ CleanAt(b) = {}
    <2>1. e = [b EXCEPT !.err = "DBBufferPoolOverflowError"]
      BY <1>4 DEF EvictIfFull
    <2>2. e \in Pools(T) /\ e.order = b.order /\ e.dirty = b.dirty /\ e.evicting = b.evicting
      <3> DEFINE m == "DBBufferPoolOverflowError"
      <3>1. m \in Errors /\ e = [b EXCEPT !.err = m]
        BY <2>1 DEF Errors
      <3> HIDE DEF m
      <3> QED
        BY <1>1, <3>1 DEF Pools
    <2>3. e.err = "DBBufferPoolOverflowError"
      BY <1>1, <2>1 DEF Pools
    <2>4. e.err # "none"
      BY <2>3
    <2>5. PoolOK(e)
      BY <1>2, <2>2 DEF PoolOK
    <2> QED
      BY <2>2, <2>4, <2>5
  <1>5. CASE b.evicting /\ ~(Len(b.order) < Capacity) /\ CleanAt(b) # {}
    <2> DEFINE i == Min(CleanAt(b))
               r == RemoveAt(b.order, i)
    <2>1. e = [b EXCEPT !.order = r]
      BY <1>5 DEF EvictIfFull
    <2>2. i \in CleanAt(b)
      <3>1. CleanAt(b) \subseteq Nat
        BY <1>2 DEF CleanAt
      <3> QED
        BY <1>5, <3>1, LeastPlace
    <2>3. i \in DOMAIN b.order /\ b.order[i] \notin b.dirty
      BY <2>2 DEF CleanAt
    <2> HIDE DEF i
    <2>4. /\ r \in Seq(T) /\ Len(r) = Len(b.order) - 1 /\ IsInjective(r)
          /\ \A x : Has(r, x) <=> (Has(b.order, x) /\ x # b.order[i])
      BY <1>2, <2>3, RemoveOnce
    <2> HIDE DEF r
    <2>5. e \in Pools(T) /\ e.order = r /\ e.dirty = b.dirty /\ e.evicting = b.evicting
      BY <1>1, <2>1, <2>4 DEF Pools
    <2>6. \A id \in b.dirty : Has(r, id)
      BY <1>2, <2>3, <2>4
    <2>7. PoolOK(e)
      BY <2>4, <2>5, <2>6 DEF PoolOK
    <2>8. Len(e.order) < Len(b.order)
      BY <1>2, <2>4, <2>5
    <2> QED
      BY <2>4, <2>5, <2>7, <2>8
  <1> QED
    BY <1>2, <1>3, <1>4, <1>5

\* What a call to the pool b may make of it: no dirty page is lost that is
\* not dropped by name, and nothing grows beyond the capacity.
Keeps(b, n, dropped) ==
    /\ PoolOK(n)
    /\ n.evicting = b.evicting
    /\ \A id \in b.dirty : id \in n.dirty \/ id \in dropped
    /\ b.evicting /\ Len(n.order) > Len(b.order) => Len(n.order) <= Capacity

\* A page that the pool does not hold comes in, after an eviction.
LEMMA Loaded ==
    ASSUME NEW b, PoolOK(b), NEW id, ~Holds(b, id), NEW more, more \subseteq {id},
           NEW e, e = EvictIfFull(b), e.err = "none",
           NEW n, n = [e EXCEPT !.order = Append(@, id), !.dirty = @ \cup more]
    PROVE  Keeps(b, n, {})
  <1>1. /\ PoolOK(e) /\ e.dirty = b.dirty /\ e.evicting = b.evicting
        /\ \A x : Has(e.order, x) => Has(b.order, x)
        /\ b.evicting => Len(e.order) < Capacity \/ Len(e.order) < Len(b.order)
    BY EvictIfFullOnce
  <1>2. PICK T : e \in Pools(T)
    BY <1>1 DEF PoolOK
  <1>3. ~Has(e.order, id)
    BY <1>1 DEF Holds, Has
  <1>4. e.order \in Seq(T) /\ IsInjective(e.order) /\ Len(e.order) \in Nat
    BY <1>1, <1>2, LenProperties DEF PoolOK, Pools
  <1> DEFINE r == Append(e.order, id)
  <1>5. /\ r \in Seq(T \cup {id}) /\ Len(r) = Len(e.order) + 1 /\ IsInjective(r)
        /\ \A x : Has(r, x) <=> (Has(e.order, x) \/ x = id)
    BY <1>3, <1>4, AppendOnce
  <1>6. n.order = r /\ n.dirty = e.dirty \cup more /\ n.evicting = e.evicting
    BY <1>2 DEF Pools
  <1> HIDE DEF r
  <1>7. n \in Pools(T \cup {id})
    <2>1. n = [order |-> r, dirty |-> e.dirty \cup more, evicting |-> e.evicting, err |-> e.err]
      BY <1>2 DEF Pools, r
    <2>2. e.dirty \subseteq T /\ e.evicting \in BOOLEAN /\ e.err \in Errors
      BY <1>2 DEF Pools
    <2> QED
      BY <1>5, <2>1, <2>2 DEF Pools
  <1>8. \A x \in n.dirty : Has(n.order, x)
    BY <1>1, <1>5, <1>6 DEF PoolOK
  <1>9. PoolOK(n)
    BY <1>5, <1>6, <1>7, <1>8 DEF PoolOK
  <1>10. Len(b.order) \in Nat
    BY LenProperties DEF PoolOK, Pools
  <1>11. b.evicting /\ Len(n.order) > Len(b.order) => Len(n.order) <= Capacity
    BY <1>1, <1>4, <1>5, <1>6, <1>10, PoolAssumption
  <1> QED
    BY <1>1, <1>6, <1>9, <1>11 DEF Keeps

\* A call that changes err alone.
LEMMA Refused ==
    ASSUME NEW b, PoolOK(b), NEW m \in Errors, NEW n, n = [b EXCEPT !.err = m]
    PROVE  Keeps(b, n, {})
  <1>1. PICK T : b \in Pools(T)
    BY DEF PoolOK
  <1>2. n \in Pools(T) /\ n.order = b.order /\ n.dirty = b.dirty /\ n.evicting = b.evicting
    BY <1>1 DEF Pools
  <1>3. Len(b.order) \in Nat
    BY <1>1, LenProperties DEF Pools
  <1> QED
    BY <1>2, <1>3 DEF PoolOK, Keeps

\* get.
LEMMA TouchedKeeps ==
    ASSUME NEW b, PoolOK(b), b.err = "none", NEW id
    PROVE  Keeps(b, Touched(b, id), {})
  <1>1. PICK T : b \in Pools(T)
    BY DEF PoolOK
  <1>2. /\ b.order \in Seq(T) /\ Len(b.order) \in Nat /\ IsInjective(b.order)
        /\ \A x \in b.dirty : Has(b.order, x)
    BY <1>1, LenProperties DEF Pools, PoolOK
  <1>3. CASE Holds(b, id)
    <2> DEFINE w == Without(b, id)
               r == Append(w, id)
    <2>1. /\ w \in Seq(T) /\ IsInjective(w) /\ Len(w) = Len(b.order) - 1
          /\ \A x : Has(w, x) <=> (Has(b.order, x) /\ x # id)
      BY <1>1, <1>2, <1>3, WithoutOnce
    <2> HIDE DEF w
    <2>2. /\ r \in Seq(T \cup {id}) /\ Len(r) = Len(w) + 1 /\ IsInjective(r)
          /\ \A x : Has(r, x) <=> (Has(w, x) \/ x = id)
      BY <2>1, AppendOnce
    <2>3. Touched(b, id) = [b EXCEPT !.order = r]
      BY <1>3 DEF Touched, w
    <2> HIDE DEF r
    <2>4. /\ Touched(b, id).order = r /\ Touched(b, id).dirty = b.dirty
          /\ Touched(b, id).evicting = b.evicting
      BY <1>1, <2>3 DEF Pools
    <2>5. Touched(b, id) \in Pools(T \cup {id})
      <3>1. Touched(b, id) = [order |-> r, dirty |-> b.dirty, evicting |-> b.evicting, err |-> b.err]
        BY <1>1, <2>3 DEF Pools
      <3>2. b.dirty \subseteq T /\ b.evicting \in BOOLEAN /\ b.err \in Errors
        BY <1>1 DEF Pools
      <3> QED
        BY <2>2, <3>1, <3>2 DEF Pools
    <2>6. \A x \in b.dirty : Has(r, x)
      BY <1>2, <2>1, <2>2
    <2>7. Len(r) = Len(b.order)
      BY <1>2, <2>1, <2>2
    <2> QED
      BY <1>2, <2>2, <2>4, <2>5, <2>6, <2>7 DEF PoolOK, Keeps
  <1>4. CASE ~Holds(b, id)
    <2> DEFINE e == EvictIfFull(b)
    <2>1. CASE e.err # "none"
      <3>1. Touched(b, id) = e
        BY <1>4, <2>1 DEF Touched
      <3>2. e = [b EXCEPT !.err = "DBBufferPoolOverflowError"]
        <4>1. e # b
          BY <2>1
        <4>2. CASE CleanAt(b) = {}
          BY <4>1, <4>2 DEF EvictIfFull
        <4>3. CASE CleanAt(b) # {}
          <5>1. e = [b EXCEPT !.order = RemoveAt(@, Min(CleanAt(b)))]
            BY <4>1, <4>3 DEF EvictIfFull
          <5>2. e.err = b.err
            BY <1>1, <5>1 DEF Pools
          <5> QED
            BY <2>1, <5>2
        <4> QED
          BY <4>2, <4>3
      <3>3. "DBBufferPoolOverflowError" \in Errors
        BY DEF Errors
      <3> QED
        BY <3>1, <3>2, <3>3, Refused
    <2>2. CASE e.err = "none"
      <3>1. Touched(b, id) = [e EXCEPT !.order = Append(@, id)]
        BY <1>4, <2>2 DEF Touched
      <3>2. PICK U : e \in Pools(U)
        BY EvictIfFullOnce DEF PoolOK
      <3>3. Touched(b, id) = [e EXCEPT !.order = Append(@, id), !.dirty = @ \cup {}]
        BY <3>1, <3>2 DEF Pools
      <3> HIDE DEF e
      <3> QED
        BY <1>4, <2>2, <3>3, Loaded DEF e
    <2> QED
      BY <2>1, <2>2
  <1> QED
    BY <1>3, <1>4

\* insert.
LEMMA InsertedKeeps ==
    ASSUME NEW b, PoolOK(b), b.err = "none", NEW id
    PROVE  Keeps(b, Inserted(b, id), {})
  <1> DEFINE e == EvictIfFull(b)
  <1>1. CASE Holds(b, id)
    <2>1. Inserted(b, id) = [b EXCEPT !.err = "AssertionError"] /\ "AssertionError" \in Errors
      BY <1>1 DEF Inserted, Errors
    <2> QED
      BY <2>1, Refused
  <1>2. CASE ~Holds(b, id) /\ e.err # "none"
    <2>1. Inserted(b, id) = e /\ Touched(b, id) = e
      BY <1>2 DEF Inserted, Touched
    <2> QED
      BY <2>1, TouchedKeeps
  <1>3. CASE ~Holds(b, id) /\ e.err = "none"
    <2>1. Inserted(b, id) = [e EXCEPT !.order = Append(@, id), !.dirty = @ \cup {id}]
      BY <1>3 DEF Inserted
    <2> HIDE DEF e
    <2> QED
      BY <1>3, <2>1, Loaded DEF e
  <1> QED
    BY <1>1, <1>2, <1>3

\* mark_dirty.
LEMMA MarkedKeeps ==
    ASSUME NEW b, PoolOK(b), NEW id
    PROVE  Keeps(b, Marked(b, id), {})
  <1>1. CASE Holds(b, id)
    <2> DEFINE n == Marked(b, id)
    <2>1. n = [b EXCEPT !.dirty = @ \cup {id}]
      BY <1>1 DEF Marked
    <2>2. PICK T : b \in Pools(T)
      BY DEF PoolOK
    <2> HIDE DEF n
    <2>3. id \in T /\ Has(b.order, id) /\ Len(b.order) \in Nat
      <3>1. b.order \in Seq(T)
        BY <2>2 DEF Pools
      <3>2. PICK i \in DOMAIN b.order : b.order[i] = id
        BY <1>1 DEF Holds
      <3> QED
        BY <3>1, <3>2, ElementOfSeq, LenProperties DEF Has
    <2>4. n \in Pools(T) /\ n.order = b.order /\ n.dirty = b.dirty \cup {id} /\ n.evicting = b.evicting
      BY <2>1, <2>2, <2>3 DEF Pools
    <2> QED
      BY <2>3, <2>4 DEF PoolOK, Keeps, n
  <1>2. CASE ~Holds(b, id)
    <2>1. Marked(b, id) = [b EXCEPT !.err = "KeyError"] /\ "KeyError" \in Errors
      BY <1>2 DEF Marked, Errors
    <2> QED
      BY <2>1, Refused
  <1> QED
    BY <1>1, <1>2

\* delete.
LEMMA DroppedKeeps ==
    ASSUME NEW b, PoolOK(b), NEW id
    PROVE  Keeps(b, Dropped(b, id), {id})
  <1> DEFINE n == Dropped(b, id)
             w == Without(b, id)
  <1>1. n = [b EXCEPT !.order = w, !.dirty = @ \ {id}]
    BY DEF Dropped
  <1>2. PICK T : b \in Pools(T)
    BY DEF PoolOK
  <1>3. Len(b.order) \in Nat /\ IsInjective(b.order) /\ \A x \in b.dirty : Has(b.order, x)
    BY <1>2, LenProperties DEF Pools, PoolOK
  <1>4. /\ w \in Seq(T) /\ IsInjective(w) /\ Len(w) <= Len(b.order)
        /\ \A x : Has(w, x) <=> (Has(b.order, x) /\ x # id)
    BY <1>2, <1>3, WithoutOnce
  <1>5. Len(w) \in Nat
    BY <1>4, LenProperties
  <1> HIDE DEF n, w
  <1>6. n \in Pools(T) /\ n.order = w /\ n.dirty = b.dirty \ {id} /\ n.evicting = b.evicting
    BY <1>1, <1>2, <1>4 DEF Pools
  <1> QED
    BY <1>3, <1>4, <1>5, <1>6 DEF PoolOK, Keeps, n

\* Any call.
LEMMA AccessKeeps ==
    ASSUME NEW b, PoolOK(b), NEW call
    PROVE  Keeps(b, Access(b, call), {id \in {call[2]} : call[1] = "delete"})
  <1> DEFINE dropped == {id \in {call[2]} : call[1] = "delete"}
  <1>1. Len(b.order) \in Nat
    BY LenProperties DEF PoolOK, Pools
  <1>2. Keeps(b, b, {})
    BY <1>1 DEF Keeps
  <1>3. CASE b.err = "none" /\ call[1] = "get"
    <2>1. Access(b, call) = Touched(b, call[2])
      BY <1>3 DEF Access
    <2> QED
      BY <1>3, <2>1, TouchedKeeps DEF Keeps
  <1>4. CASE b.err = "none" /\ call[1] = "insert"
    <2>1. Access(b, call) = Inserted(b, call[2])
      BY <1>4 DEF Access
    <2> QED
      BY <1>4, <2>1, InsertedKeeps DEF Keeps
  <1>5. CASE b.err = "none" /\ call[1] = "mark"
    <2>1. Access(b, call) = Marked(b, call[2])
      BY <1>5 DEF Access
    <2> QED
      BY <1>5, <2>1, MarkedKeeps DEF Keeps
  <1>6. CASE b.err = "none" /\ call[1] = "delete"
    <2>1. Access(b, call) = Dropped(b, call[2]) /\ dropped = {call[2]}
      BY <1>6 DEF Access
    <2> QED
      BY <2>1, DroppedKeeps
  <1>7. CASE b.err # "none" \/ call[1] \notin {"get", "insert", "mark", "delete"}
    <2>1. Access(b, call) = b
      BY <1>7 DEF Access
    <2> QED
      BY <1>2, <2>1 DEF Keeps
  <1> QED
    BY <1>3, <1>4, <1>5, <1>6, <1>7

\* A checkpoint leaves every page held and clean.
LEMMA FlushedKeeps ==
    ASSUME NEW b, PoolOK(b)
    PROVE  /\ PoolOK(FlushedPool(b)) /\ FlushedPool(b).order = b.order
           /\ FlushedPool(b).evicting = b.evicting
           /\ PoolOK([FlushedPool(b) EXCEPT !.evicting = TRUE])
           /\ [FlushedPool(b) EXCEPT !.evicting = TRUE].evicting
  <1>1. PICK T : b \in Pools(T)
    BY DEF PoolOK
  <1> DEFINE f == FlushedPool(b)
             g == [f EXCEPT !.evicting = TRUE]
  <1>2. f \in Pools(T) /\ f.order = b.order /\ f.dirty = {} /\ f.evicting = b.evicting
    BY <1>1 DEF Pools, FlushedPool
  <1> HIDE DEF f
  <1>3. g \in Pools(T) /\ g.order = b.order /\ g.dirty = {} /\ g.evicting
    BY <1>1, <1>2 DEF Pools
  <1> HIDE DEF g
  <1>4. PoolOK(f) /\ PoolOK(g)
    BY <1>2, <1>3 DEF PoolOK
  <1> QED
    BY <1>2, <1>3, <1>4 DEF f, g

\* A new pool.
LEMMA EmptyPoolOK ==
    /\ PoolOK(EmptyPool) /\ EmptyPool.evicting
    /\ PoolOK([EmptyPool EXCEPT !.evicting = FALSE])
  <1> DEFINE e == EmptyPool
             g == [e EXCEPT !.evicting = FALSE]
  <1>1. e \in Pools({}) /\ e.order = <<>> /\ e.dirty = {} /\ e.evicting
    BY DEF EmptyPool, Pools, Errors
  <1> HIDE DEF e
  <1>2. g \in Pools({}) /\ g.order = <<>> /\ g.dirty = {}
    BY <1>1 DEF Pools
  <1> HIDE DEF g
  <1>3. IsInjective(<<>>)
    BY DEF IsInjective
  <1>4. PoolOK(e) /\ PoolOK(g)
    BY <1>1, <1>2, <1>3 DEF PoolOK
  <1> QED
    BY <1>1, <1>4 DEF e, g

-----------------------------------------------------------------------------
(* The specification. *)

\* Every page is held once, dirty pages are held, and evictions are disabled
\* during recovery only.
PoolInv ==
    /\ PoolOK(bp)
    /\ phase # "recovering" => bp.evicting
    /\ restarts \in Nat

\* What a step may make of the pool.
Step ==
    \/ bp' = bp
    \/ /\ queue # <<>>
       /\ Keeps(bp, bp', {id \in {Head(queue)[2]} : Head(queue)[1] = "delete"})
    \/ /\ saved' = FlushImage(im)
       /\ bp'.order = bp.order
    \/ /\ restarts' # restarts
       /\ phase' = "recovering"

\* A checkpoint that may be due flushes the pool and saves the image, or
\* does nothing.
LEMMA MaybeCheckpointSteps ==
    ASSUME PoolInv
    PROVE  \/ MaybeCheckpoint(Current).bp = bp
           \/ /\ MaybeCheckpoint(Current).bp = FlushedPool(bp)
              /\ MaybeCheckpoint(Current).saved = FlushImage(im)
  <1>1. Current.bp = bp /\ Current.im = im
    BY DEF Current
  <1> QED
    BY <1>1 DEF MaybeCheckpoint

\* The first half of an operation.
LEMMA BeginSteps ==
    ASSUME PoolInv, NEW o, Begin(o), phase' = phase, restarts' = restarts
    PROVE  PoolInv' /\ Step
  <1> DEFINE c == MaybeCheckpoint(Current)
  <1>1. bp' = c.bp /\ saved' = c.saved
    <2>1. c = [im |-> c.im, bp |-> c.bp, log |-> c.log, saved |-> c.saved]
      BY DEF MaybeCheckpoint, Current
    <2> HIDE DEF c
    <2>2. /\ [c EXCEPT !.log = Append(@, o)].bp = c.bp
          /\ [c EXCEPT !.log = Append(@, o)].saved = c.saved
      BY <2>1
    <2> QED
      BY <2>2 DEF Begin, Becomes, c
  <1> HIDE DEF c
  <1>2. \/ c.bp = bp
        \/ c.bp = FlushedPool(bp) /\ c.saved = FlushImage(im)
    BY MaybeCheckpointSteps DEF c
  <1>3. CASE c.bp = bp
    BY <1>1, <1>3 DEF PoolInv, Step
  <1>4. CASE c.bp = FlushedPool(bp) /\ c.saved = FlushImage(im)
    BY <1>1, <1>4, FlushedKeeps DEF PoolInv, Step
  <1> QED
    BY <1>2, <1>3, <1>4

\* Every action keeps the invariant and does to the pool what Step allows.
LEMMA NextSteps ==
    ASSUME PoolInv, [PoolNext]_poolVars
    PROVE  PoolInv' /\ Step
  <1>1. ASSUME UNCHANGED <<bp, phase, restarts>> PROVE PoolInv' /\ Step
    BY <1>1 DEF PoolInv, Step
  <1>2. CASE UNCHANGED poolVars
    BY <1>1, <1>2 DEF poolVars
  <1>3. CASE PoolCall
    <2> DEFINE dropped == {id \in {Head(queue)[2]} : Head(queue)[1] = "delete"}
    <2>1. Keeps(bp, bp', dropped)
      BY <1>3, AccessKeeps DEF PoolCall, PoolInv
    <2> HIDE DEF dropped
    <2>2. PoolOK(bp') /\ bp'.evicting = bp.evicting
      BY <2>1 DEF Keeps
    <2>3. phase' = phase /\ restarts' = restarts /\ queue # <<>>
      BY <1>3 DEF PoolCall
    <2>4. PoolInv'
      BY <2>2, <2>3 DEF PoolInv
    <2> QED
      BY <2>1, <2>3, <2>4 DEF Step, dropped
  <1>4. CASE Build
    BY <1>4, BeginSteps DEF Build
  <1>5. CASE Ready
    BY <1>5 DEF Ready, PoolInv, Step
  <1>6. ASSUME NEW k \in PutKeys, NEW v \in Values, Put(k, v) PROVE PoolInv' /\ Step
    BY <1>6, BeginSteps DEF Put, Call
  <1>7. ASSUME NEW k, NEW o, Find(k, o) PROVE PoolInv' /\ Step
    BY <1>1, <1>7 DEF Find, Call
  <1>8. ASSUME NEW k \in DeleteKeys, DeleteKey(k) PROVE PoolInv' /\ Step
    BY <1>7, <1>8 DEF DeleteKey
  <1>9. ASSUME NEW k \in GetKeys, Get(k) PROVE PoolInv' /\ Step
    BY <1>7, <1>9 DEF Get
  <1>10. CASE Found
    BY <1>10, BeginSteps DEF Found
  <1>11. CASE ChangeTree
    BY <1>1, <1>11 DEF ChangeTree
  <1>12. CASE Return
    <2>1. phase' = phase /\ restarts' = restarts
      BY <1>12 DEF Return
    <2>2. CASE phase = "recovering" \/ op[1] = "get"
      <3>1. bp' = bp
        BY <1>12, <2>2 DEF Return, Becomes, Current
      <3> QED
        BY <1>1, <2>1, <3>1
    <2>3. CASE ~(phase = "recovering" \/ op[1] = "get")
      <3>1. bp' = MaybeCheckpoint(Current).bp /\ saved' = MaybeCheckpoint(Current).saved
        BY <1>12, <2>3 DEF Return, Becomes
      <3> QED
        BY <2>1, <3>1, MaybeCheckpointSteps, FlushedKeeps DEF PoolInv, Step
    <2> QED
      BY <2>2, <2>3
  <1>13. CASE Restart
    <2>1. /\ bp' = [EmptyPool EXCEPT !.evicting = FALSE]
          /\ phase' = "recovering" /\ restarts' = restarts + 1
      BY <1>13 DEF Restart
    <2> QED
      BY <2>1, EmptyPoolOK DEF PoolInv, Step
  <1>14. CASE Redo
    BY <1>1, <1>14 DEF Redo
  <1>15. CASE Recovered
    <2>1. /\ bp' = [FlushedPool(bp) EXCEPT !.evicting = TRUE]
          /\ saved' = FlushImage(im) /\ restarts' = restarts
      BY <1>15 DEF Recovered
    <2>2. PoolOK(bp') /\ bp'.evicting
      BY <2>1, FlushedKeeps DEF PoolInv
    <2>3. bp'.order = bp.order
      <3>1. PICK T : bp \in Pools(T)
        BY DEF PoolInv, PoolOK
      <3> QED
        BY <2>1, <3>1 DEF Pools, FlushedPool
    <2> QED
      BY <2>1, <2>2, <2>3 DEF PoolInv, Step
  <1> QED
    BY <1>2, <1>3, <1>4, <1>5, <1>6, <1>8, <1>9, <1>10, <1>11, <1>12, <1>13, <1>14, <1>15
       DEF PoolNext

\* Whatever the tree asks for, the pool (cache.py) holds every page once,
\* knows as dirty only pages it holds, and evicts again after each recovery.
THEOREM PoolInvariant == PoolSpecification => []PoolInv
  <1>1. PoolInit => PoolInv
    BY EmptyPoolOK DEF PoolInit, PoolInv
  <1>2. PoolInv /\ [PoolNext]_poolVars => PoolInv'
    BY NextSteps
  <1> QED
    BY <1>1, <1>2, PTL DEF PoolSpecification

\* NO-STEAL, for every capacity: _evict_oldest_clean_page_if_full and the
\* calls above it never lose a dirty page; only a checkpoint, a delete of that
\* page or the end of the process does.
THEOREM DirtyPagesAreNotStolen == PoolSpecification => DirtyPagesStay
  <1> DEFINE Stays == \A id \in bp.dirty :
                        \/ id \in bp'.dirty /\ Holds(bp', id)
                        \/ saved' = FlushImage(im)
                        \/ queue # <<>> /\ Head(queue)[1] = "delete" /\ Head(queue)[2] = id
                        \/ restarts' # restarts
  <1>1. ASSUME PoolInv, [PoolNext]_poolVars PROVE Stays
    <2>1. PoolInv' /\ Step
      BY <1>1, NextSteps
    <2>2. \A id \in bp'.dirty : Holds(bp', id)
      BY <2>1 DEF PoolInv, PoolOK, Has, Holds
    <2> QED
      BY <2>1, <2>2 DEF Step, Keeps
  <1> QED
    BY <1>1, PoolInvariant, PTL DEF PoolSpecification, DirtyPagesStay

\* While the database is open, no get and no insert of cache.py makes a pool
\* larger than its capacity, whatever recovery has left in it.
THEOREM PoolGrowthIsBounded == PoolSpecification => PoolStopsGrowing
  <1> DEFINE Stops == phase = "open" /\ phase' = "open" /\ Len(bp.order') > Len(bp.order)
                        => Len(bp.order') <= Capacity
  <1>1. ASSUME PoolInv, [PoolNext]_poolVars PROVE Stops
    <2>1. Step
      BY <1>1, NextSteps
    <2>2. Len(bp.order) \in Nat
      BY <1>1, LenProperties DEF PoolInv, PoolOK, Pools
    <2>3. phase = "open" => bp.evicting
      BY <1>1 DEF PoolInv
    <2>4. ASSUME Len(bp.order') > Len(bp.order), bp'.order = bp.order PROVE FALSE
      BY <2>2, <2>4
    <2> QED
      BY <2>1, <2>3, <2>4 DEF Step, Keeps
  <1> QED
    BY <1>1, PoolInvariant, PTL DEF PoolSpecification, PoolStopsGrowing

=============================================================================
