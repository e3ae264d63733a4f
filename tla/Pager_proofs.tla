---------------------------- MODULE Pager_proofs ----------------------------
(***************************************************************************)
(* For any page size, any number of pages and any phases in which the      *)
(* process may be killed: no page leaks, none is owned twice, the meta     *)
(* page names a page of the tree whenever it decodes, and the pager        *)
(* implements the allocator.                                               *)
(***************************************************************************)
EXTENDS Pager, SequenceTheorems, TLAPS

-----------------------------------------------------------------------------
(* The inductive invariant. *)

IsImage(i) ==
    i = [root |-> i.root, next |-> i.next, flhead |-> i.flhead, pool |-> i.pool,
         fl |-> i.fl, disk |-> i.disk, err |-> i.err]

\* The freelist page id can be read, and is within its capacity.
ListPage(i, id) ==
    LET page == FreelistPageAt(i, id)
    IN /\ page = Freelist(page.next, page.freed)
       /\ page.next \in Nat /\ page.freed \in Seq(Nat) /\ Len(page.freed) <= MaxFreedIds

Listed(i, id) == FreelistPageAt(i, id).freed

\* Each of the pages 1..(i.next - 1) is in U, is in C, or is listed by a page
\* of C, in one place only.
Owned(i, U, C) ==
    /\ i.next \in Nat \ {0}
    /\ U \subseteq 1..(i.next - 1) /\ C \subseteq 1..(i.next - 1) /\ U \cap C = {}
    /\ \A p \in C : ListPage(i, p)
    /\ \A p \in C : \A n \in 1..Len(Listed(i, p)) :
          Listed(i, p)[n] \in (1..(i.next - 1)) \ (U \cup C)
    /\ \A p, q \in C : \A n \in 1..Len(Listed(i, p)), m \in 1..Len(Listed(i, q)) :
          Listed(i, p)[n] = Listed(i, q)[m] => p = q /\ n = m
    /\ \A id \in (1..(i.next - 1)) \ (U \cup C) :
          \E p \in C : \E n \in 1..Len(Listed(i, p)) : Listed(i, p)[n] = id

Trunk(c) == {c[k] : k \in 1..Len(c)}

\* c leads from the head of the freelist through the next pointers to its end.
Linked(i, c) ==
    /\ c \in Seq(Nat)
    /\ \A k, l \in 1..Len(c) : c[k] = c[l] => k = l
    /\ i.flhead = IF Len(c) = 0 THEN 0 ELSE c[1]
    /\ \A k \in 1..Len(c) :
          FreelistPageAt(i, c[k]).next = IF k = Len(c) THEN 0 ELSE c[k + 1]

Consistent(i, U, c) ==
    /\ IsImage(i) /\ i.err = "none" /\ i.next \in 2..MaxPages /\ i.root \in U
    /\ Owned(i, U, Trunk(c)) /\ Linked(i, c) /\ DOMAIN i.fl \subseteq Trunk(c)

\* The image that open() builds from the file.
Reopened == [Blank(im.disk) EXCEPT !.root = meta.root, !.next = meta.next, !.flhead = meta.flhead]

IsLeaf(id) == id \in DOMAIN im.disk /\ im.disk[id].type = "leaf"

Live == {"extended", "leafWritten", "metaWritten", "fileSynced", "open"}

\* What the file alone tells the next open().
FileInv ==
    /\ ~Decodes(meta) => committed = Snapshot({}, <<>>)
    /\ Decodes(meta) => /\ Consistent(Reopened, committed.used, committed.chain)
                        /\ \A id \in committed.used : IsLeaf(id)

PagerInv ==
    /\ phase \in Phases
    /\ phase \in Live => Consistent(im, used, chain)
    /\ phase \in {"absent", "touched"} => used = {} /\ held = 0 /\ chain = <<>>
    /\ phase = "touched" => im = Blank(im.disk)
    /\ phase \in {"extended", "leafWritten"} => used = {1} /\ chain = <<>>
    /\ phase = "leafWritten" => IsLeaf(1)
    /\ phase \in {"absent", "touched", "extended", "leafWritten"} => ~Decodes(meta)
    /\ phase \in {"metaWritten", "fileSynced", "open"} => Decodes(meta)
    /\ phase \in {"closed", "rejected"} => used = committed.used /\ chain = committed.chain
    /\ FileInv

-----------------------------------------------------------------------------
(* Facts about images. *)

\* The smallest page there can be holds a freed id.
LEMMA RoomForFreedIds == MaxFreedIds \in Nat /\ MaxFreedIds >= 1
  BY PagesAssumption DEF MaxFreedIds, MinPageSize, PageHeader, PageIdField

\* A freelist page is the same in two images with the same file and entry.
LEMMA SamePage ==
    ASSUME NEW i, NEW j, NEW p, j.disk = i.disk, p \in DOMAIN j.fl <=> p \in DOMAIN i.fl,
           p \in DOMAIN i.fl => j.fl[p] = i.fl[p]
    PROVE  FreelistPageAt(j, p) = FreelistPageAt(i, p)
  BY DEF FreelistPageAt

\* No id is listed twice.
LEMMA ListedOnce ==
    ASSUME NEW i, NEW U, NEW C, Owned(i, U, C), NEW p \in C, NEW q \in C,
           NEW n \in 1..Len(Listed(i, p)), NEW m \in 1..Len(Listed(i, q)),
           Listed(i, p)[n] = Listed(i, q)[m]
    PROVE  p = q /\ n = m
  BY DEF Owned

\* What Owned and Linked say depends on next, the head and the freelist pages.
LEMMA SameOwners ==
    ASSUME NEW i, NEW j, NEW U, NEW C, j.next = i.next,
           \A p \in C : FreelistPageAt(j, p) = FreelistPageAt(i, p), Owned(i, U, C)
    PROVE  Owned(j, U, C)
  <1>1. \A p \in C : Listed(j, p) = Listed(i, p) /\ (ListPage(i, p) => ListPage(j, p))
    BY DEF Listed, ListPage
  <1>2. /\ j.next \in Nat \ {0}
        /\ U \subseteq 1..(j.next - 1) /\ C \subseteq 1..(j.next - 1) /\ U \cap C = {}
        /\ \A p \in C : ListPage(j, p)
    BY <1>1 DEF Owned
  <1>3. \A p \in C : \A n \in 1..Len(Listed(j, p)) :
          Listed(j, p)[n] \in (1..(j.next - 1)) \ (U \cup C)
    BY <1>1 DEF Owned
  <1>4. \A p, q \in C : \A n \in 1..Len(Listed(j, p)), m \in 1..Len(Listed(j, q)) :
          Listed(j, p)[n] = Listed(j, q)[m] => p = q /\ n = m
    BY <1>1 DEF Owned
  <1>5. ASSUME NEW id \in (1..(j.next - 1)) \ (U \cup C)
        PROVE  \E p \in C : \E n \in 1..Len(Listed(j, p)) : Listed(j, p)[n] = id
    <2>1. PICK p \in C : \E n \in 1..Len(Listed(i, p)) : Listed(i, p)[n] = id
      BY DEF Owned
    <2>2. PICK n \in 1..Len(Listed(i, p)) : Listed(i, p)[n] = id
      BY <2>1
    <2> QED
      BY <1>1, <2>2
  <1> QED
    BY <1>2, <1>3, <1>4, <1>5 DEF Owned

\* The chain is linked in another image with the same pages.
LEMMA SameLinks ==
    ASSUME NEW i, NEW j, NEW c, j.flhead = i.flhead,
           \A p \in Trunk(c) : FreelistPageAt(j, p) = FreelistPageAt(i, p), Linked(i, c)
    PROVE  Linked(j, c)
  BY DEF Linked, Trunk

\* A chain and its first page.
LEMMA HeadOfChain ==
    ASSUME NEW i, NEW U, NEW c, Owned(i, U, Trunk(c)), Linked(i, c)
    PROVE  /\ Len(c) \in Nat /\ \A k \in 1..Len(c) : c[k] \in Trunk(c) /\ c[k] \in Nat \ {0}
           /\ i.flhead = 0 <=> Len(c) = 0
           /\ i.flhead # 0 => i.flhead \in Trunk(c) /\ i.flhead = c[1] /\ 1 \in 1..Len(c)
           /\ Len(c) = 0 => Trunk(c) = {} /\ c = <<>>
           /\ i.flhead \in Nat /\ i.flhead < i.next /\ i.next \in Nat
  <1>1. Len(c) \in Nat /\ c \in Seq(Nat) /\ i.next \in Nat \ {0}
    BY DEF Linked, Owned
  <1>2. \A k \in 1..Len(c) : c[k] \in Trunk(c) /\ c[k] \in 1..(i.next - 1)
    BY DEF Owned, Trunk
  <1>3. CASE Len(c) = 0
    BY <1>1, <1>3 DEF Linked, Trunk
  <1>4. CASE Len(c) # 0
    <2>1. 1 \in 1..Len(c) /\ i.flhead = c[1]
      BY <1>1, <1>4 DEF Linked
    <2>2. i.flhead \in Trunk(c) /\ i.flhead \in 1..(i.next - 1)
      BY <1>2, <2>1
    <2> QED
      BY <1>1, <1>2, <1>4, <2>1, <2>2
  <1> QED
    BY <1>3, <1>4

-----------------------------------------------------------------------------
(* allocate_page. *)

\* There is no freelist: the file grows.
LEMMA BumpIsConsistent ==
    ASSUME NEW i, NEW U, NEW c, Consistent(i, U, c), i.flhead = 0,
           NEW j, j = AllocatePage(i), j.next <= MaxPages
    PROVE  /\ AllocatedId(i) = i.next /\ i.next \in Nat \ {0} /\ i.next \notin U
           /\ Consistent(j, U \cup {i.next}, c)
           /\ j.root = i.root /\ j.disk = i.disk
  <1>1. /\ Len(c) = 0 /\ Trunk(c) = {} /\ i.next \in Nat /\ i.next >= 2
        /\ IsImage(i) /\ i.err = "none" /\ i.root \in U /\ DOMAIN i.fl \subseteq Trunk(c)
        /\ Linked(i, c) /\ Owned(i, U, Trunk(c))
    BY HeadOfChain DEF Consistent
  <1>2. j = [i EXCEPT !.next = @ + 1] /\ AllocatedId(i) = i.next
    BY DEF AllocatePage, BumpAllocate, AllocatedId
  <1>3. /\ IsImage(j) /\ j.root = i.root /\ j.flhead = i.flhead /\ j.fl = i.fl
        /\ j.disk = i.disk /\ j.err = i.err /\ j.next = i.next + 1
    BY <1>1, <1>2 DEF IsImage
  <1>4. Owned(j, U \cup {i.next}, {})
    <2>1. U = 1..(i.next - 1)
      BY <1>1 DEF Owned
    <2>2. U \cup {i.next} = 1..(j.next - 1) /\ j.next \in Nat \ {0}
      BY <1>1, <1>3, <2>1
    <2> QED
      BY <2>2 DEF Owned
  <1>5. i.next \notin U
    BY <1>1 DEF Owned
  <1>6. Linked(j, c)
    BY <1>1, <1>3, SameLinks
  <1>7. j.next \in 2..MaxPages
    BY <1>1, <1>3, PagerAssumption
  <1> QED
    BY <1>1, <1>2, <1>3, <1>4, <1>5, <1>6, <1>7 DEF Consistent

\* The last id on the head is handed out.
LEMMA PopIsConsistent ==
    ASSUME NEW i, NEW U, NEW c, Consistent(i, U, c), i.flhead # 0,
           Listed(i, i.flhead) # <<>>, NEW j, j = AllocatePage(i)
    PROVE  /\ AllocatedId(i) \in (1..(i.next - 1)) \ U /\ AllocatedId(i) # i.flhead
           /\ Consistent(j, U \cup {AllocatedId(i)}, c)
           /\ j.root = i.root /\ j.disk = i.disk /\ j.next = i.next
  <1> DEFINE h == i.flhead
             C == Trunk(c)
             page == FreelistPageAt(i, h)
             len == Len(page.freed)
             id == page.freed[len]
             rest == SubSeq(page.freed, 1, len - 1)
  <1>1. /\ IsImage(i) /\ i.err = "none" /\ i.next \in 2..MaxPages /\ i.root \in U
        /\ Owned(i, U, C) /\ Linked(i, c) /\ DOMAIN i.fl \subseteq C
        /\ h \in C /\ h \in Nat
    BY HeadOfChain DEF Consistent
  <1>2. /\ page = Freelist(page.next, page.freed) /\ page.next \in Nat
        /\ page.freed \in Seq(Nat) /\ len <= MaxFreedIds /\ page.freed # <<>>
    BY <1>1 DEF Owned, ListPage, Listed
  <1>3. len \in Nat \ {0} /\ len \in 1..len /\ page.type = "freelist"
    BY <1>2 DEF Freelist
  <1>4. id \in (1..(i.next - 1)) \ (U \cup C) /\ id # h
    BY <1>1, <1>3 DEF Owned, Listed
  <1>5. AllocatedId(i) = id
    BY <1>2, <1>3 DEF AllocatedId, Last
  <1>6. /\ rest \in Seq(Nat) /\ Len(rest) = len - 1
        /\ \A n \in 1..(len - 1) : rest[n] = page.freed[n]
    BY <1>2, <1>3
  <1> DEFINE newfl == [z \in (DOMAIN i.fl \cup {h}) \ {id} |->
                          IF z = h THEN Freelist(page.next, rest) ELSE i.fl[z]]
  <1>7. j = [i EXCEPT !.fl = newfl]
    <2> DEFINE grown == Mapped(i.fl, h, Freelist(page.next, rest))
    <2>3. j = DropFreelistPage([i EXCEPT !.fl = grown], id)
      BY <1>2, <1>3, <1>5 DEF AllocatePage, Front
    <2>4. [z \in DOMAIN grown \ {id} |-> grown[z]] = newfl
      BY DEF Mapped
    <2> HIDE DEF grown, newfl, page, id, rest, h
    <2>5. j = [i EXCEPT !.fl = [z \in DOMAIN grown \ {id} |-> grown[z]]]
      BY <1>1, <2>3 DEF DropFreelistPage, IsImage
    <2> QED
      BY <2>4, <2>5
  <1> HIDE DEF rest, newfl, id, page, len, h, C
  <1>8. /\ IsImage(j) /\ j.root = i.root /\ j.flhead = i.flhead /\ j.fl = newfl
        /\ j.disk = i.disk /\ j.err = i.err /\ j.next = i.next
    BY <1>1, <1>7 DEF IsImage
  <1>9. /\ FreelistPageAt(j, h) = Freelist(page.next, rest)
        /\ \A p \in C \ {h} : FreelistPageAt(j, p) = FreelistPageAt(i, p)
        /\ DOMAIN j.fl \subseteq C
    <2>1. DOMAIN newfl = (DOMAIN i.fl \cup {h}) \ {id}
      BY DEF newfl
    <2>2. h \in DOMAIN newfl /\ newfl[h] = Freelist(page.next, rest)
      BY <1>4, <2>1 DEF newfl
    <2>3. ASSUME NEW p \in C \ {h} PROVE FreelistPageAt(j, p) = FreelistPageAt(i, p)
      <3>1. p # id /\ p # h
        BY <1>4
      <3>2. p \in DOMAIN newfl <=> p \in DOMAIN i.fl
        BY <2>1, <3>1
      <3>3. p \in DOMAIN i.fl => newfl[p] = i.fl[p]
        BY <3>1 DEF newfl
      <3> QED
        BY <1>8, <3>2, <3>3, SamePage
    <2>4. FreelistPageAt(j, h) = Freelist(page.next, rest)
      BY <1>8, <2>2 DEF FreelistPageAt
    <2> QED
      BY <1>1, <1>8, <2>1, <2>3, <2>4
  <1>10. /\ Listed(j, h) = rest /\ Listed(i, h) = page.freed /\ ListPage(j, h)
         /\ FreelistPageAt(j, h).next = FreelistPageAt(i, h).next
         /\ \A p \in C \ {h} : Listed(j, p) = Listed(i, p) /\ ListPage(j, p)
    <2>1. Listed(j, h) = rest /\ FreelistPageAt(j, h).next = page.next
      BY <1>9 DEF Listed, Freelist
    <2>2. ListPage(j, h)
      BY <1>2, <1>3, <1>6, <1>9, RoomForFreedIds DEF ListPage, Freelist, len
    <2>3. \A p \in C \ {h} : Listed(j, p) = Listed(i, p) /\ ListPage(j, p)
      BY <1>1, <1>9 DEF Listed, ListPage, Owned
    <2> QED
      BY <2>1, <2>2, <2>3 DEF Listed, page
  <1>11. /\ \A p \in C : Len(Listed(j, p)) <= Len(Listed(i, p)) /\ Len(Listed(j, p)) \in Nat
                         /\ Len(Listed(i, p)) \in Nat
         /\ \A p \in C : \A n \in 1..Len(Listed(j, p)) :
               n \in 1..Len(Listed(i, p)) /\ Listed(j, p)[n] = Listed(i, p)[n]
    <2>1. ASSUME NEW p \in C PROVE Listed(i, p) \in Seq(Nat)
      BY <1>1, <2>1 DEF Owned, ListPage, Listed
    <2>2. /\ Len(rest) \in Nat /\ Len(rest) <= len /\ len = Len(page.freed)
          /\ \A n \in 1..Len(rest) : n \in 1..len /\ rest[n] = page.freed[n]
      BY <1>3, <1>6 DEF len
    <2> QED
      BY <1>3, <1>10, <2>1, <2>2
  <1>12. ASSUME NEW p \in C, NEW n \in 1..Len(Listed(j, p)) PROVE Listed(j, p)[n] # id
    <2>1. SUFFICES ASSUME Listed(j, p)[n] = id PROVE FALSE
      OBVIOUS
    <2>2. /\ Listed(i, p)[n] = Listed(i, h)[len] /\ n \in 1..Len(Listed(i, p))
          /\ len \in 1..Len(Listed(i, h))
      BY <1>3, <1>10, <1>11, <2>1 DEF id, len
    <2>3. p = h /\ n = len
      BY <1>1, <2>2 DEF Owned
    <2>4. n \in 1..(len - 1)
      BY <1>6, <1>10, <2>3
    <2> QED
      BY <1>3, <2>3, <2>4
  <1>13. Owned(j, U \cup {id}, C)
    <2>1. /\ j.next \in Nat \ {0} /\ U \cup {id} \subseteq 1..(j.next - 1)
          /\ C \subseteq 1..(j.next - 1) /\ (U \cup {id}) \cap C = {}
          /\ \A p \in C : ListPage(j, p)
      BY <1>1, <1>4, <1>8, <1>10 DEF Owned
    <2>2. \A p \in C : \A n \in 1..Len(Listed(j, p)) :
            Listed(j, p)[n] \in (1..(j.next - 1)) \ ((U \cup {id}) \cup C)
      BY <1>1, <1>8, <1>11, <1>12 DEF Owned
    <2>3. \A p, q \in C : \A n \in 1..Len(Listed(j, p)), m \in 1..Len(Listed(j, q)) :
            Listed(j, p)[n] = Listed(j, q)[m] => p = q /\ n = m
      BY <1>1, <1>11 DEF Owned
    <2>4. ASSUME NEW x \in (1..(j.next - 1)) \ ((U \cup {id}) \cup C)
          PROVE  \E p \in C : \E n \in 1..Len(Listed(j, p)) : Listed(j, p)[n] = x
      <3>0. PICK p \in C : \E n \in 1..Len(Listed(i, p)) : Listed(i, p)[n] = x
        BY <1>1, <1>8 DEF Owned
      <3>1. PICK n \in 1..Len(Listed(i, p)) : Listed(i, p)[n] = x
        BY <3>0
      <3>2. CASE p = h
        <4>1. n \in 1..len /\ n # len
          BY <1>10, <2>4, <3>1, <3>2 DEF id, len
        <4>2. n \in 1..(len - 1)
          BY <1>3, <4>1
        <4> QED
          BY <1>1, <1>6, <1>10, <3>1, <3>2, <4>2
      <3>3. CASE p # h
        BY <1>10, <3>1, <3>3
      <3> QED
        BY <3>2, <3>3
    <2> QED
      BY <2>1, <2>2, <2>3, <2>4 DEF Owned
  <1>14. Linked(j, c)
    <2>1. \A p \in C : FreelistPageAt(j, p).next = FreelistPageAt(i, p).next
      BY <1>9, <1>10
    <2>2. \A k \in 1..Len(c) : c[k] \in C
      BY DEF C, Trunk
    <2> QED
      BY <1>1, <1>8, <2>1, <2>2 DEF Linked
  <1> QED
    BY <1>1, <1>4, <1>5, <1>8, <1>9, <1>13, <1>14 DEF Consistent, C, h

\* The head lists nothing: it is handed out itself, and its entry in the
\* freelist cache goes with it.
LEMMA RecycleIsConsistent ==
    ASSUME NEW i, NEW U, NEW c, Consistent(i, U, c), i.flhead # 0,
           Listed(i, i.flhead) = <<>>, NEW j, j = AllocatePage(i)
    PROVE  /\ AllocatedId(i) = i.flhead /\ i.flhead \in (1..(i.next - 1)) \ U
           /\ Consistent(j, U \cup {i.flhead}, Tail(c))
           /\ j.root = i.root /\ j.disk = i.disk /\ j.next = i.next
  <1> DEFINE h == i.flhead
             C == Trunk(c)
             page == FreelistPageAt(i, h)
             d == Tail(c)
             newfl == [z \in DOMAIN i.fl \ {h} |-> i.fl[z]]
  <1>1. /\ IsImage(i) /\ i.err = "none" /\ i.next \in 2..MaxPages /\ i.root \in U
        /\ Owned(i, U, C) /\ Linked(i, c) /\ DOMAIN i.fl \subseteq C
        /\ h \in C /\ h \in Nat /\ h = c[1] /\ Len(c) \in Nat /\ 1 \in 1..Len(c)
        /\ c \in Seq(Nat)
    BY HeadOfChain DEF Consistent, Linked
  <1>2. page.type = "freelist" /\ page.freed = <<>>
    BY <1>1 DEF Owned, ListPage, Listed, Freelist
  <1>3. AllocatedId(i) = h
    BY <1>2 DEF AllocatedId
  <1>4. j = [i EXCEPT !.flhead = page.next, !.fl = newfl]
    <2>1. j = DropFreelistPage([i EXCEPT !.flhead = page.next], h)
      BY <1>2, <1>3 DEF AllocatePage
    <2> HIDE DEF page, h
    <2> QED
      BY <1>1, <2>1 DEF DropFreelistPage, IsImage
  <1>5. /\ d \in Seq(Nat) /\ Len(d) = Len(c) - 1
        /\ \A k \in 1..(Len(c) - 1) : d[k] = c[k + 1] /\ k + 1 \in 1..Len(c)
    BY <1>1
  <1> HIDE DEF newfl, page, h, C, d
  <1>6. /\ IsImage(j) /\ j.root = i.root /\ j.flhead = page.next /\ j.fl = newfl
        /\ j.disk = i.disk /\ j.err = i.err /\ j.next = i.next
    BY <1>1, <1>4 DEF IsImage
  <1>7. Trunk(d) = C \ {h}
    <2>1. ASSUME NEW p \in Trunk(d) PROVE p \in C \ {h}
      <3>1. PICK k \in 1..(Len(c) - 1) : p = c[k + 1] /\ k + 1 \in 1..Len(c)
        BY <1>5 DEF Trunk
      <3>2. k + 1 # 1
        BY <1>1
      <3> QED
        BY <1>1, <3>1, <3>2 DEF C, Trunk, Linked
    <2>2. ASSUME NEW p \in C \ {h} PROVE p \in Trunk(d)
      <3>1. PICK k \in 1..Len(c) : p = c[k] /\ k # 1
        BY <1>1 DEF C, Trunk
      <3>2. k - 1 \in 1..(Len(c) - 1) /\ (k - 1) + 1 = k
        BY <1>1, <3>1
      <3>3. d[k - 1] = p
        BY <1>5, <3>1, <3>2
      <3> QED
        BY <1>5, <3>2, <3>3 DEF Trunk
    <2> QED
      BY <2>1, <2>2
  <1>8. /\ \A p \in C \ {h} : FreelistPageAt(j, p) = FreelistPageAt(i, p)
        /\ DOMAIN j.fl \subseteq C \ {h}
    <2>1. DOMAIN newfl = DOMAIN i.fl \ {h} /\ \A p \in DOMAIN i.fl \ {h} : newfl[p] = i.fl[p]
      BY DEF newfl
    <2>2. ASSUME NEW p \in C \ {h} PROVE FreelistPageAt(j, p) = FreelistPageAt(i, p)
      BY <1>6, <2>1, SamePage
    <2> QED
      BY <1>1, <1>6, <2>1, <2>2
  <1>9. /\ \A p \in C \ {h} : Listed(j, p) = Listed(i, p) /\ ListPage(j, p)
        /\ Len(Listed(i, h)) = 0
    BY <1>1, <1>2, <1>8 DEF Listed, ListPage, Owned, page
  <1>10. Owned(j, U \cup {h}, C \ {h})
    <2>1. /\ j.next \in Nat \ {0} /\ U \cup {h} \subseteq 1..(j.next - 1)
          /\ C \ {h} \subseteq 1..(j.next - 1) /\ (U \cup {h}) \cap (C \ {h}) = {}
          /\ \A p \in C \ {h} : ListPage(j, p)
      <3>1. /\ i.next \in Nat \ {0} /\ U \subseteq 1..(i.next - 1)
            /\ C \subseteq 1..(i.next - 1) /\ U \cap C = {} /\ h \in C
        BY <1>1 DEF Owned
      <3> QED
        BY <1>6, <1>9, <3>1
    <2>2. \A p \in C \ {h} : \A n \in 1..Len(Listed(j, p)) :
            Listed(j, p)[n] \in (1..(j.next - 1)) \ ((U \cup {h}) \cup (C \ {h}))
      BY <1>1, <1>6, <1>9 DEF Owned
    <2>3. ASSUME NEW p \in C \ {h}, NEW q \in C \ {h}, NEW n \in 1..Len(Listed(j, p)),
                 NEW m \in 1..Len(Listed(j, q)), Listed(j, p)[n] = Listed(j, q)[m]
          PROVE  p = q /\ n = m
      <3>1. Listed(j, p) = Listed(i, p) /\ Listed(j, q) = Listed(i, q) /\ p \in C /\ q \in C
        BY <1>9
      <3> QED
        BY <1>1, <2>3, <3>1, ListedOnce
    <2>4. ASSUME NEW x \in (1..(j.next - 1)) \ ((U \cup {h}) \cup (C \ {h}))
          PROVE  \E p \in C \ {h} : \E n \in 1..Len(Listed(j, p)) : Listed(j, p)[n] = x
      <3>1. PICK p \in C : \E n \in 1..Len(Listed(i, p)) : Listed(i, p)[n] = x
        BY <1>1, <1>6 DEF Owned
      <3>2. p # h
        BY <1>9, <3>1
      <3> QED
        BY <1>9, <3>1, <3>2
    <2> QED
      BY <2>1, <2>2, <2>3, <2>4 DEF Owned
  <1>11. Linked(j, d)
    <2>1. \A k, l \in 1..Len(d) : d[k] = d[l] => k = l
      <3>1. SUFFICES ASSUME NEW k \in 1..Len(d), NEW l \in 1..Len(d), d[k] = d[l] PROVE k = l
        OBVIOUS
      <3>2. /\ k + 1 \in 1..Len(c) /\ l + 1 \in 1..Len(c) /\ c[k + 1] = c[l + 1]
            /\ k \in Nat /\ l \in Nat
        BY <1>1, <1>5, <3>1
      <3>3. k + 1 = l + 1
        BY <1>1, <3>2 DEF Linked
      <3> QED
        BY <3>2, <3>3
    <2>2. j.flhead = IF Len(d) = 0 THEN 0 ELSE d[1]
      <3>1. j.flhead = IF Len(c) = 1 THEN 0 ELSE c[1 + 1]
        BY <1>1, <1>6 DEF Linked, page
      <3>2. Len(d) # 0 => 1 \in 1..(Len(c) - 1)
        BY <1>1, <1>5
      <3> QED
        BY <1>1, <1>5, <3>1, <3>2
    <2>3. ASSUME NEW k \in 1..Len(d)
          PROVE  FreelistPageAt(j, d[k]).next = IF k = Len(d) THEN 0 ELSE d[k + 1]
      <3>1. k \in 1..(Len(c) - 1) /\ d[k] = c[k + 1] /\ k + 1 \in 1..Len(c) /\ k \in Nat
        <4>1. Len(c) \in Nat
          BY <1>1
        <4> QED
          BY <1>5, <4>1
      <3>2. d[k] \in C \ {h}
        BY <1>7 DEF Trunk
      <3>3. FreelistPageAt(j, d[k]).next = IF k + 1 = Len(c) THEN 0 ELSE c[(k + 1) + 1]
        BY <1>1, <1>8, <3>1, <3>2 DEF Linked
      <3>4. k # Len(d) => k + 1 \in 1..(Len(c) - 1)
        BY <1>1, <1>5, <3>1
      <3>5. k = Len(d) <=> k + 1 = Len(c)
        BY <1>1, <1>5, <3>1
      <3> QED
        BY <1>5, <3>3, <3>4, <3>5
    <2> QED
      BY <1>5, <2>1, <2>2, <2>3 DEF Linked
  <1> QED
    <2>1. h \in (1..(i.next - 1)) \ U
      BY <1>1 DEF Owned
    <2> QED
      BY <1>1, <1>3, <1>6, <1>7, <1>8, <1>10, <1>11, <2>1 DEF Consistent, h, d

-----------------------------------------------------------------------------
(* free_page. *)

\* There is a freelist, and its head has room for another id.
HasRoom(i) == i.flhead # 0 /\ Len(Listed(i, i.flhead)) < MaxFreedIds

\* The id goes on the head, which has room for it.
LEMMA PushIsConsistent ==
    ASSUME NEW i, NEW U, NEW c, Consistent(i, U, c), NEW id \in U, id # i.root,
           HasRoom(i), NEW j, j = FreePage(i, id)
    PROVE  /\ Consistent(j, U \ {id}, c)
           /\ j.root = i.root /\ j.disk = i.disk /\ j.next = i.next /\ j.flhead = i.flhead
  <1> DEFINE h == i.flhead
             C == Trunk(c)
             page == FreelistPageAt(i, h)
             len == Len(page.freed)
             list == Append(page.freed, id)
             newfl == [z \in DOMAIN i.fl \cup {h} |->
                          IF z = h THEN Freelist(page.next, list) ELSE i.fl[z]]
  <1>1. /\ IsImage(i) /\ i.err = "none" /\ i.next \in 2..MaxPages /\ i.root \in U
        /\ Owned(i, U, C) /\ Linked(i, c) /\ DOMAIN i.fl \subseteq C
        /\ h \in C /\ h \in Nat /\ h # 0
    BY HeadOfChain DEF Consistent, HasRoom
  <1>2. /\ page = Freelist(page.next, page.freed) /\ page.next \in Nat
        /\ page.freed \in Seq(Nat) /\ len < MaxFreedIds /\ len \in Nat
    BY <1>1 DEF Owned, ListPage, Listed, HasRoom
  <1>3. id \in 1..(i.next - 1) /\ id \in Nat /\ id \notin C /\ page.type = "freelist"
    BY <1>1, <1>2 DEF Owned, Freelist
  <1>4. /\ list \in Seq(Nat) /\ Len(list) = len + 1 /\ list[len + 1] = id
        /\ \A n \in 1..len : list[n] = page.freed[n]
    BY <1>2, <1>3
  <1>5. j = [i EXCEPT !.fl = newfl]
    <2>2. j = [i EXCEPT !.fl = Mapped(@, h, Freelist(page.next, list))]
      BY <1>1, <1>2, <1>3 DEF FreePage
    <2>3. Mapped(i.fl, h, Freelist(page.next, list)) = newfl
      BY DEF Mapped
    <2> HIDE DEF newfl, page, list, h
    <2> QED
      BY <2>2, <2>3
  <1> HIDE DEF list, newfl, page, len, h, C
  <1>6. /\ IsImage(j) /\ j.root = i.root /\ j.flhead = i.flhead /\ j.fl = newfl
        /\ j.disk = i.disk /\ j.err = i.err /\ j.next = i.next
    BY <1>1, <1>5 DEF IsImage
  <1>7. /\ FreelistPageAt(j, h) = Freelist(page.next, list)
        /\ \A p \in C \ {h} : FreelistPageAt(j, p) = FreelistPageAt(i, p)
        /\ DOMAIN j.fl \subseteq C
    <2>1. /\ DOMAIN newfl = DOMAIN i.fl \cup {h} /\ newfl[h] = Freelist(page.next, list)
          /\ \A p \in DOMAIN i.fl \ {h} : newfl[p] = i.fl[p]
      BY DEF newfl
    <2>2. ASSUME NEW p \in C \ {h} PROVE FreelistPageAt(j, p) = FreelistPageAt(i, p)
      BY <1>6, <2>1, SamePage
    <2>3. FreelistPageAt(j, h) = Freelist(page.next, list)
      BY <1>6, <2>1 DEF FreelistPageAt
    <2> QED
      BY <1>1, <1>6, <2>1, <2>2, <2>3
  <1>8. /\ Listed(j, h) = list /\ Listed(i, h) = page.freed /\ ListPage(j, h)
        /\ FreelistPageAt(j, h).next = FreelistPageAt(i, h).next
        /\ \A p \in C \ {h} : Listed(j, p) = Listed(i, p) /\ ListPage(j, p)
    <2>1. Listed(j, h) = list /\ FreelistPageAt(j, h).next = page.next
      BY <1>7 DEF Listed, Freelist
    <2>2. ListPage(j, h)
      BY <1>2, <1>4, <1>7, RoomForFreedIds DEF ListPage, Freelist
    <2>3. \A p \in C \ {h} : Listed(j, p) = Listed(i, p) /\ ListPage(j, p)
      BY <1>1, <1>7 DEF Listed, ListPage, Owned
    <2> QED
      BY <2>1, <2>2, <2>3 DEF Listed, page
  <1>9. ASSUME NEW p \in C, NEW n \in 1..Len(Listed(j, p))
        PROVE  \/ p = h /\ n = len + 1 /\ Listed(j, p)[n] = id
               \/ n \in 1..Len(Listed(i, p)) /\ Listed(j, p)[n] = Listed(i, p)[n]
    <2>1. CASE p # h
      BY <1>8, <2>1
    <2>2. CASE p = h
      <3>1. n \in 1..(len + 1) /\ Listed(j, p)[n] = list[n]
        BY <1>4, <1>8, <2>2
      <3>2. n = len + 1 \/ n \in 1..len
        BY <1>2, <3>1
      <3> QED
        BY <1>4, <1>8, <2>2, <3>1, <3>2 DEF len
    <2> QED
      BY <2>1, <2>2
  <1>10. Owned(j, U \ {id}, C)
    <2>1. /\ j.next \in Nat \ {0} /\ U \ {id} \subseteq 1..(j.next - 1)
          /\ C \subseteq 1..(j.next - 1) /\ (U \ {id}) \cap C = {}
          /\ \A p \in C : ListPage(j, p)
      BY <1>1, <1>6, <1>8 DEF Owned
    <2>2. ASSUME NEW p \in C, NEW n \in 1..Len(Listed(j, p))
          PROVE  Listed(j, p)[n] \in (1..(j.next - 1)) \ ((U \ {id}) \cup C)
      BY <1>1, <1>3, <1>6, <1>9 DEF Owned
    <2>3. ASSUME NEW p \in C, NEW q \in C, NEW n \in 1..Len(Listed(j, p)),
                 NEW m \in 1..Len(Listed(j, q)), Listed(j, p)[n] = Listed(j, q)[m]
          PROVE  p = q /\ n = m
      <3>1. \A x \in C : \A y \in 1..Len(Listed(i, x)) : Listed(i, x)[y] # id
        BY <1>1 DEF Owned
      <3>2. CASE Listed(j, p)[n] = id
        BY <1>9, <2>3, <3>1, <3>2
      <3>3. CASE Listed(j, p)[n] # id
        <4>1. /\ n \in 1..Len(Listed(i, p)) /\ Listed(j, p)[n] = Listed(i, p)[n]
              /\ m \in 1..Len(Listed(i, q)) /\ Listed(j, q)[m] = Listed(i, q)[m]
          BY <1>9, <2>3, <3>3
        <4>2. Listed(i, p)[n] = Listed(i, q)[m] /\ Owned(i, U, C)
          BY <1>1, <2>3, <4>1
        <4> QED
          BY <4>1, <4>2, ListedOnce
      <3> QED
        BY <3>2, <3>3
    <2>4. ASSUME NEW x \in (1..(j.next - 1)) \ ((U \ {id}) \cup C)
          PROVE  \E p \in C : \E n \in 1..Len(Listed(j, p)) : Listed(j, p)[n] = x
      <3>1. CASE x = id
        <4>1. len + 1 \in 1..Len(Listed(j, h)) /\ Listed(j, h)[len + 1] = x
          BY <1>2, <1>4, <1>8, <3>1
        <4> QED
          BY <1>1, <4>1
      <3>2. CASE x # id
        <4>1. PICK p \in C : \E n \in 1..Len(Listed(i, p)) : Listed(i, p)[n] = x
          BY <1>1, <1>6, <3>2 DEF Owned
        <4>2. PICK n \in 1..Len(Listed(i, p)) : Listed(i, p)[n] = x
          BY <4>1
        <4>3. CASE p = h
          <5>1. n \in 1..len /\ n \in 1..Len(list)
            BY <1>2, <1>4, <1>8, <4>2, <4>3 DEF len
          <5> QED
            BY <1>1, <1>4, <1>8, <4>2, <4>3, <5>1
        <4>4. CASE p # h
          BY <1>8, <4>2, <4>4
        <4> QED
          BY <4>3, <4>4
      <3> QED
        BY <3>1, <3>2
    <2> QED
      BY <2>1, <2>2, <2>3, <2>4 DEF Owned
  <1>11. Linked(j, c)
    <2>1. \A p \in C : FreelistPageAt(j, p).next = FreelistPageAt(i, p).next
      BY <1>7, <1>8
    <2>2. \A k \in 1..Len(c) : c[k] \in C
      BY DEF C, Trunk
    <2> QED
      BY <1>1, <1>6, <2>1, <2>2 DEF Linked
  <1> QED
    BY <1>1, <1>6, <1>7, <1>10, <1>11 DEF Consistent, C

\* There is no head, or it is full: a new page becomes the head and lists the id.
LEMMA NewHeadIsConsistent ==
    ASSUME NEW i, NEW U, NEW c, Consistent(i, U, c), NEW id \in U, id # i.root,
           ~HasRoom(i), NEW j, j = FreePage(i, id), j.next <= MaxPages
    PROVE  /\ Consistent(j, U \ {id}, <<i.next>> \o c)
           /\ j.root = i.root /\ j.disk = i.disk /\ j.flhead = i.next /\ i.next # i.flhead
  <1> DEFINE N == i.next
             C == Trunk(c)
             page == Freelist(i.flhead, <<id>>)
             d == <<N>> \o c
             newfl == [z \in DOMAIN i.fl \cup {N} |-> IF z = N THEN page ELSE i.fl[z]]
  <1>1. /\ IsImage(i) /\ i.err = "none" /\ i.next \in 2..MaxPages /\ i.root \in U
        /\ Owned(i, U, C) /\ Linked(i, c) /\ DOMAIN i.fl \subseteq C
        /\ i.flhead \in Nat /\ i.flhead < N /\ N \in Nat /\ Len(c) \in Nat /\ c \in Seq(Nat)
    BY HeadOfChain DEF Consistent, Linked
  <1>2. /\ U \subseteq 1..(N - 1) /\ C \subseteq 1..(N - 1) /\ U \cap C = {} /\ N \in Nat \ {0}
        /\ N \notin U /\ N \notin C /\ id \in Nat /\ id # N /\ id \in 1..(N - 1) /\ id \notin C
    BY <1>1 DEF Owned
  <1>3. i.flhead # 0 => FreelistPageAt(i, i.flhead).type = "freelist"
    <2>1. i.flhead # 0 => i.flhead \in C
      BY <1>1, HeadOfChain
    <2> QED
      BY <1>1, <2>1 DEF Owned, ListPage, Freelist
  <1>4. j = [i EXCEPT !.next = N + 1, !.fl = newfl, !.flhead = N]
    <2>1. j = [BumpAllocate(i) EXCEPT !.fl = Mapped(@, N, page), !.flhead = N]
      BY <1>3 DEF FreePage, Listed, HasRoom
    <2>2. Mapped(i.fl, N, page) = newfl
      BY DEF Mapped
    <2>3. BumpAllocate(i).fl = i.fl
      BY <1>1 DEF BumpAllocate, IsImage
    <2> HIDE DEF newfl, page
    <2> QED
      BY <1>1, <2>1, <2>2, <2>3 DEF BumpAllocate, IsImage
  <1>5. /\ d \in Seq(Nat) /\ Len(d) = Len(c) + 1 /\ d[1] = N
        /\ \A k \in 1..Len(c) : d[k + 1] = c[k]
    <2>1. <<N>> \in Seq(Nat) /\ Len(<<N>>) = 1 /\ <<N>>[1] = N
      BY <1>1
    <2> HIDE DEF N
    <2> QED
      BY <1>1, <2>1
  <1> HIDE DEF newfl, page, d, C, N
  <1>6. /\ IsImage(j) /\ j.root = i.root /\ j.flhead = N /\ j.fl = newfl
        /\ j.disk = i.disk /\ j.err = i.err /\ j.next = N + 1
    BY <1>1, <1>4 DEF IsImage
  <1>7. \A k \in 1..Len(d) : k = 1 \/ (k - 1 \in 1..Len(c) /\ d[k] = c[k - 1])
    <2>1. ASSUME NEW k \in 1..Len(d), k # 1 PROVE k - 1 \in 1..Len(c) /\ d[k] = c[k - 1]
      <3>1. k - 1 \in 1..Len(c) /\ (k - 1) + 1 = k
        BY <1>1, <1>5, <2>1
      <3> QED
        BY <1>5, <3>1
    <2> QED
      BY <2>1
  <1>8. Trunk(d) = C \cup {N}
    <2>1. ASSUME NEW p \in Trunk(d) PROVE p \in C \cup {N}
      <3>1. PICK k \in 1..Len(d) : p = d[k]
        BY DEF Trunk
      <3> QED
        BY <1>5, <1>7, <3>1 DEF Trunk, C
    <2>2. ASSUME NEW p \in C PROVE p \in Trunk(d)
      <3>1. PICK k \in 1..Len(c) : p = c[k]
        BY DEF C, Trunk
      <3>2. k + 1 \in 1..Len(d) /\ d[k + 1] = p
        BY <1>1, <1>5, <3>1
      <3> QED
        BY <3>2 DEF Trunk
    <2>3. 1 \in 1..Len(d)
      BY <1>1, <1>5
    <2>4. N \in Trunk(d)
      BY <1>5, <2>3 DEF Trunk
    <2> QED
      BY <2>1, <2>2, <2>4
  <1>9. /\ FreelistPageAt(j, N) = page
        /\ \A p \in C : FreelistPageAt(j, p) = FreelistPageAt(i, p)
        /\ DOMAIN j.fl \subseteq C \cup {N}
    <2>1. /\ DOMAIN newfl = DOMAIN i.fl \cup {N} /\ newfl[N] = page
          /\ \A p \in DOMAIN i.fl \ {N} : newfl[p] = i.fl[p]
      BY DEF newfl
    <2>2. ASSUME NEW p \in C PROVE FreelistPageAt(j, p) = FreelistPageAt(i, p)
      <3>1. p # N
        BY <1>2
      <3> QED
        BY <1>6, <2>1, <3>1, SamePage
    <2>3. FreelistPageAt(j, N) = page
      BY <1>6, <2>1 DEF FreelistPageAt
    <2> QED
      BY <1>1, <1>6, <2>1, <2>2, <2>3
  <1>10. /\ Listed(j, N) = <<id>> /\ ListPage(j, N) /\ FreelistPageAt(j, N).next = i.flhead
         /\ \A p \in C : Listed(j, p) = Listed(i, p) /\ ListPage(j, p)
    <2>1. Listed(j, N) = <<id>> /\ FreelistPageAt(j, N).next = i.flhead
      BY <1>9 DEF Listed, Freelist, page
    <2>2. <<id>> \in Seq(Nat) /\ Len(<<id>>) = 1
      BY <1>2
    <2>3. ListPage(j, N)
      BY <1>1, <1>9, <2>2, RoomForFreedIds DEF ListPage, Freelist, page
    <2>4. \A p \in C : Listed(j, p) = Listed(i, p) /\ ListPage(j, p)
      BY <1>1, <1>9 DEF Listed, ListPage, Owned
    <2> QED
      BY <2>1, <2>3, <2>4
  <1>11. \A n \in 1..Len(Listed(j, N)) : n = 1 /\ Listed(j, N)[n] = id
    BY <1>10
  <1>12. Owned(j, U \ {id}, C \cup {N})
    <2>1. /\ j.next \in Nat \ {0} /\ U \ {id} \subseteq 1..(j.next - 1)
          /\ C \cup {N} \subseteq 1..(j.next - 1) /\ (U \ {id}) \cap (C \cup {N}) = {}
          /\ \A p \in C \cup {N} : ListPage(j, p)
      BY <1>2, <1>6, <1>10
    <2>2. ASSUME NEW p \in C \cup {N}, NEW n \in 1..Len(Listed(j, p))
          PROVE  Listed(j, p)[n] \in (1..(j.next - 1)) \ ((U \ {id}) \cup (C \cup {N}))
      <3>1. CASE p = N
        BY <1>2, <1>6, <1>11, <3>1
      <3>2. CASE p \in C
        <4>1. Listed(j, p)[n] \in (1..(N - 1)) \ (U \cup C)
          BY <1>1, <1>10, <3>2 DEF Owned, N
        <4>2. Listed(j, p)[n] # N /\ Listed(j, p)[n] \in 1..(j.next - 1)
          BY <1>2, <1>6, <4>1
        <4> QED
          BY <4>1, <4>2
      <3> QED
        BY <3>1, <3>2
    <2>3. ASSUME NEW p \in C \cup {N}, NEW q \in C \cup {N}, NEW n \in 1..Len(Listed(j, p)),
                 NEW m \in 1..Len(Listed(j, q)), Listed(j, p)[n] = Listed(j, q)[m]
          PROVE  p = q /\ n = m
      <3>1. \A x \in C : \A y \in 1..Len(Listed(j, x)) : Listed(j, x)[y] # id
        BY <1>1, <1>10 DEF Owned
      <3>2. CASE p = N \/ q = N
        BY <1>11, <2>3, <3>1, <3>2
      <3>3. CASE p # N /\ q # N
        <4>1. /\ p \in C /\ q \in C /\ n \in 1..Len(Listed(i, p)) /\ m \in 1..Len(Listed(i, q))
              /\ Listed(i, p)[n] = Listed(i, q)[m]
          BY <1>10, <2>3, <3>3
        <4>2. Owned(i, U, C)
          BY <1>1
        <4> QED
          BY <4>1, <4>2, ListedOnce
      <3> QED
        BY <3>2, <3>3
    <2>4. ASSUME NEW x \in (1..(j.next - 1)) \ ((U \ {id}) \cup (C \cup {N}))
          PROVE  \E p \in C \cup {N} : \E n \in 1..Len(Listed(j, p)) : Listed(j, p)[n] = x
      <3>1. CASE x = id
        <4>1. 1 \in 1..Len(Listed(j, N)) /\ Listed(j, N)[1] = x
          BY <1>10, <3>1
        <4> QED
          BY <4>1
      <3>2. CASE x # id
        <4>1. x \in (1..(N - 1)) \ (U \cup C)
          BY <1>2, <1>6, <3>2
        <4>2. PICK p \in C : \E n \in 1..Len(Listed(i, p)) : Listed(i, p)[n] = x
          BY <1>1, <4>1 DEF Owned, N
        <4> QED
          BY <1>10, <4>2
      <3> QED
        BY <3>1, <3>2
    <2> QED
      BY <2>1, <2>2, <2>3, <2>4 DEF Owned
  <1>13. Linked(j, d)
    <2>1. ASSUME NEW k \in 1..Len(d), NEW l \in 1..Len(d), d[k] = d[l] PROVE k = l
      <3>1. \A x \in 1..Len(c) : c[x] # N
        BY <1>2 DEF C, Trunk
      <3>2. CASE k = 1 \/ l = 1
        BY <1>5, <1>7, <2>1, <3>1, <3>2
      <3>3. CASE k # 1 /\ l # 1
        <4>0. k \in Nat /\ l \in Nat
          OBVIOUS
        <4>1. /\ k - 1 \in 1..Len(c) /\ l - 1 \in 1..Len(c) /\ c[k - 1] = c[l - 1]
          BY <1>7, <2>1, <3>3
        <4>2. k - 1 = l - 1
          BY <1>1, <4>1 DEF Linked
        <4> QED
          BY <4>0, <4>2
      <3> QED
        BY <3>2, <3>3
    <2>2. j.flhead = IF Len(d) = 0 THEN 0 ELSE d[1]
      BY <1>1, <1>5, <1>6
    <2>3. ASSUME NEW k \in 1..Len(d)
          PROVE  FreelistPageAt(j, d[k]).next = IF k = Len(d) THEN 0 ELSE d[k + 1]
      <3>1. CASE k = 1
        <4>1. FreelistPageAt(j, d[k]).next = IF Len(c) = 0 THEN 0 ELSE c[1]
          BY <1>1, <1>5, <1>10, <3>1 DEF Linked
        <4>2. Len(c) # 0 => 1 \in 1..Len(c) /\ d[1 + 1] = c[1]
          BY <1>1, <1>5
        <4> QED
          BY <1>1, <1>5, <3>1, <4>1, <4>2
      <3>2. CASE k # 1
        <4>0. k \in Nat
          OBVIOUS
        <4>1. k - 1 \in 1..Len(c) /\ d[k] = c[k - 1] /\ c[k - 1] \in C
          BY <1>7, <3>2 DEF C, Trunk
        <4>2. FreelistPageAt(j, d[k]).next = IF k - 1 = Len(c) THEN 0 ELSE c[(k - 1) + 1]
          BY <1>1, <1>9, <4>1 DEF Linked
        <4>3. (k - 1 = Len(c) <=> k = Len(d)) /\ (k - 1) + 1 = k
          BY <1>1, <1>5, <4>0, <4>1
        <4>4. k # Len(d) => k \in 1..Len(c)
          BY <1>1, <1>5, <4>0, <4>1
        <4> QED
          BY <1>5, <4>2, <4>3, <4>4
      <3> QED
        BY <3>1, <3>2
    <2> QED
      BY <1>5, <2>1, <2>2, <2>3 DEF Linked
  <1> QED
    <2>1. j.next \in 2..MaxPages
      BY <1>1, <1>6, PagerAssumption
    <2>2. Consistent(j, U \ {id}, d)
      <3>1. j.root \in U \ {id} /\ j.err = "none" /\ DOMAIN j.fl \subseteq Trunk(d)
        BY <1>1, <1>6, <1>8, <1>9
      <3>2. Owned(j, U \ {id}, Trunk(d))
        BY <1>8, <1>12
      <3> QED
        BY <1>6, <1>13, <2>1, <3>1, <3>2 DEF Consistent
    <2>3. N # i.flhead
      BY <1>1
    <2> QED
      BY <1>6, <2>2, <2>3 DEF d, N

-----------------------------------------------------------------------------
(* Whole operations on an image. *)

\* Two images with the same meta fields and the same freelist pages.
LEMMA SameImage ==
    ASSUME NEW i, NEW j, NEW U, NEW c, Consistent(i, U, c), IsImage(j), j.err = "none",
           j.root \in U, j.next = i.next, j.flhead = i.flhead, DOMAIN j.fl \subseteq Trunk(c),
           \A p \in Trunk(c) : FreelistPageAt(j, p) = FreelistPageAt(i, p)
    PROVE  Consistent(j, U, c)
  <1>1. Owned(i, U, Trunk(c)) /\ Linked(i, c) /\ j.next \in 2..MaxPages
    BY DEF Consistent
  <1>2. Owned(j, U, Trunk(c)) /\ Linked(j, c)
    BY <1>1, SameOwners, SameLinks
  <1> QED
    BY <1>1, <1>2 DEF Consistent

\* allocate_page.
LEMMA AllocateIsConsistent ==
    ASSUME NEW i, NEW U, NEW c, Consistent(i, U, c), NEW j, j = AllocatePage(i),
           j.next <= MaxPages
    PROVE  /\ AllocatedId(i) \in (1..MaxPages) \ U /\ j.disk = i.disk
           /\ Consistent(j, U \cup {AllocatedId(i)},
                         IF i.flhead # 0 /\ AllocatedId(i) = i.flhead THEN Tail(c) ELSE c)
  <1>1. i.next \in Nat /\ i.next <= MaxPages
    BY PagerAssumption DEF Consistent
  <1>2. CASE i.flhead = 0
    <2>1. /\ AllocatedId(i) = i.next /\ i.next \in Nat \ {0} /\ i.next \notin U
          /\ Consistent(j, U \cup {i.next}, c) /\ j.disk = i.disk
      BY <1>2, BumpIsConsistent
    <2>2. i.next \in 1..MaxPages
      BY <1>1, <2>1, PagerAssumption
    <2> QED
      BY <1>2, <2>1, <2>2
  <1>3. CASE i.flhead # 0 /\ Listed(i, i.flhead) # <<>>
    <2>1. /\ AllocatedId(i) \in (1..(i.next - 1)) \ U /\ AllocatedId(i) # i.flhead
          /\ Consistent(j, U \cup {AllocatedId(i)}, c) /\ j.disk = i.disk
      BY <1>3, PopIsConsistent
    <2>2. AllocatedId(i) \in 1..MaxPages
      BY <1>1, <2>1, PagerAssumption
    <2> QED
      BY <2>1, <2>2
  <1>4. CASE i.flhead # 0 /\ Listed(i, i.flhead) = <<>>
    <2>1. /\ AllocatedId(i) = i.flhead /\ i.flhead \in (1..(i.next - 1)) \ U
          /\ Consistent(j, U \cup {i.flhead}, Tail(c)) /\ j.disk = i.disk
      BY <1>4, RecycleIsConsistent
    <2>2. i.flhead \in 1..MaxPages
      BY <1>1, <2>1, PagerAssumption
    <2> QED
      BY <1>4, <2>1, <2>2
  <1> QED
    BY <1>2, <1>3, <1>4

\* The chain after free_page made j of i.
Pushed(i, j, c) == IF j.flhead = i.flhead THEN c ELSE <<j.flhead>> \o c

\* free_page.
LEMMA FreeIsConsistent ==
    ASSUME NEW i, NEW U, NEW c, Consistent(i, U, c), NEW id \in U, id # i.root,
           NEW j, j = FreePage(i, id), j.next <= MaxPages
    PROVE  /\ j.disk = i.disk
           /\ Consistent(j, U \ {id}, Pushed(i, j, c))
  <1>1. CASE HasRoom(i)
    <2>1. Consistent(j, U \ {id}, c) /\ j.disk = i.disk /\ j.flhead = i.flhead
      BY <1>1, PushIsConsistent
    <2> QED
      BY <2>1 DEF Pushed
  <1>2. CASE ~HasRoom(i)
    <2>1. /\ Consistent(j, U \ {id}, <<i.next>> \o c) /\ j.disk = i.disk
          /\ j.flhead = i.next /\ i.next # i.flhead
      BY <1>2, NewHeadIsConsistent
    <2> QED
      BY <2>1 DEF Pushed
  <1> QED
    BY <1>1, <1>2

\* A flush: the pages of the freelist read the same from the file alone, and
\* the pages of the tree are not among the freelist pages that are written.
LEMMA FlushIsConsistent ==
    ASSUME NEW i, NEW U, NEW c, Consistent(i, U, c), NEW file,
           file = Over(i.fl, Over([id \in U |-> Leaf(0, <<>>)], i.disk)),
           NEW j, IsImage(j), j.err = "none", j.root = i.root, j.next = i.next,
           j.flhead = i.flhead, j.disk = file, j.fl = <<>>
    PROVE  /\ Consistent(j, U, c)
           /\ \A id \in U : id \in DOMAIN file /\ file[id].type = "leaf"
  <1> DEFINE C == Trunk(c)
             lower == Over([id \in U |-> Leaf(0, <<>>)], i.disk)
  <1>1. Owned(i, U, C) /\ DOMAIN i.fl \subseteq C /\ i.root \in U /\ U \cap C = {}
    BY DEF Consistent, Owned
  <1>2. \A p \in C : FreelistPageAt(i, p).type = "freelist"
    BY <1>1 DEF Owned, ListPage, Freelist
  <1>3. /\ DOMAIN lower = U \cup DOMAIN i.disk
        /\ \A id \in U : lower[id] = Leaf(0, <<>>)
        /\ \A id \in DOMAIN i.disk \ U : lower[id] = i.disk[id]
    BY DEF Over
  <1> HIDE DEF lower, C
  <1>4. /\ DOMAIN file = DOMAIN i.fl \cup DOMAIN lower
        /\ \A id \in DOMAIN i.fl : file[id] = i.fl[id]
        /\ \A id \in DOMAIN lower \ DOMAIN i.fl : file[id] = lower[id]
    BY DEF Over, lower
  <1>5. DOMAIN j.fl = {}
    OBVIOUS
  <1>6. ASSUME NEW p \in C PROVE FreelistPageAt(j, p) = FreelistPageAt(i, p)
    <2>1. CASE p \in DOMAIN i.fl
      <3>1. FreelistPageAt(i, p) = i.fl[p] /\ i.fl[p].type = "freelist"
        BY <1>2, <2>1 DEF FreelistPageAt
      <3>2. p \in DOMAIN j.disk /\ j.disk[p] = i.fl[p]
        BY <1>4, <2>1
      <3> QED
        BY <1>5, <3>1, <3>2 DEF FreelistPageAt
    <2>2. CASE p \notin DOMAIN i.fl
      <3>1. p \notin U
        BY <1>1
      <3>2. /\ p \in DOMAIN j.disk <=> p \in DOMAIN i.disk
            /\ p \in DOMAIN i.disk => j.disk[p] = i.disk[p]
        BY <1>3, <1>4, <2>2, <3>1
      <3> QED
        BY <1>5, <2>2, <3>2 DEF FreelistPageAt
    <2> QED
      BY <2>1, <2>2
  <1>7. Consistent(j, U, c)
    BY <1>1, <1>5, <1>6, SameImage DEF C
  <1>8. \A id \in U : id \in DOMAIN file /\ file[id] = Leaf(0, <<>>)
    BY <1>1, <1>3, <1>4
  <1> QED
    BY <1>7, <1>8 DEF Leaf

-----------------------------------------------------------------------------
(* The invariant is inductive: one step per action. *)

\* What the file tells the next open() changes only with the file.
LEMMA FileKept ==
    ASSUME FileInv, im'.disk = im.disk, meta' = meta, committed' = committed
    PROVE  FileInv'
  BY DEF FileInv, Reopened, IsLeaf, Decodes

LEMMA InitPager == Init => PagerInv
  BY DEF Init, PagerInv, FileInv, Blank, NoMeta, Decodes, Phases, CreatePhases, Snapshot, Live

LEMMA TouchPager == PagerInv /\ Touch => PagerInv'
  <1> SUFFICES ASSUME PagerInv, Touch PROVE PagerInv'
    OBVIOUS
  <1>1. ~Decodes(meta') /\ committed' = Snapshot({}, <<>>) /\ im' = Blank(im'.disk)
    BY DEF PagerInv, FileInv, Touch, NoMeta, Decodes, Blank
  <1> QED
    BY <1>1 DEF PagerInv, FileInv, Touch, Decodes, Phases, CreatePhases, Live

\* The first allocation of a new file.
LEMMA ExtendFilePager == PagerInv /\ ExtendFile => PagerInv'
  <1> SUFFICES ASSUME PagerInv, ExtendFile PROVE PagerInv'
    OBVIOUS
  <1>1. /\ im = Blank(im.disk) /\ used = {} /\ chain = <<>> /\ ~Decodes(meta)
        /\ committed = Snapshot({}, <<>>)
    BY DEF PagerInv, FileInv, ExtendFile
  <1>2. im.flhead = 0 /\ im.next = 1
    BY <1>1 DEF Blank
  <1>3. im' = [im EXCEPT !.next = 2] /\ AllocatedId(im) = 1
    BY <1>2 DEF ExtendFile, AllocatePage, AllocatedId, BumpAllocate
  <1>4. /\ IsImage(im') /\ im'.next = 2 /\ im'.flhead = 0 /\ im'.root = 1 /\ im'.err = "none"
        /\ im'.fl = <<>>
    BY <1>1, <1>3 DEF Blank, IsImage
  <1>5. Trunk(<<>>) = {}
    BY DEF Trunk
  <1>6. Owned(im', {1}, {})
    BY <1>4 DEF Owned
  <1>7. Linked(im', <<>>)
    BY <1>4 DEF Linked
  <1>8. Consistent(im', {1}, <<>>)
    <2>1. im'.next \in 2..MaxPages /\ im'.root \in {1} /\ DOMAIN im'.fl = {}
      BY <1>4, PagerAssumption
    <2> QED
      BY <1>4, <1>5, <1>6, <1>7, <2>1 DEF Consistent
  <1>9. ~Decodes(meta')
    BY DEF ExtendFile, NoMeta, Decodes
  <1> QED
    BY <1>1, <1>3, <1>8, <1>9
       DEF PagerInv, FileInv, ExtendFile, Decodes, Phases, CreatePhases, Live

LEMMA WriteLeafPager == PagerInv /\ WriteLeaf => PagerInv'
  <1> SUFFICES ASSUME PagerInv, WriteLeaf PROVE PagerInv'
    OBVIOUS
  <1> DEFINE file == Mapped(im.disk, 1, Leaf(0, <<>>))
  <1>1. /\ Consistent(im, used, chain) /\ used = {1} /\ chain = <<>> /\ ~Decodes(meta)
        /\ committed = Snapshot({}, <<>>) /\ IsImage(im) /\ im.root \in used /\ im.err = "none"
        /\ DOMAIN im.fl \subseteq Trunk(chain)
    BY DEF PagerInv, FileInv, WriteLeaf, Live, Consistent
  <1>2. 1 \in DOMAIN file /\ file[1].type = "leaf"
    BY DEF Mapped, Leaf
  <1>3. im' = [im EXCEPT !.disk = file]
    BY DEF WriteLeaf
  <1> HIDE DEF file
  <1>4. /\ IsImage(im') /\ im'.next = im.next /\ im'.flhead = im.flhead /\ im'.root = im.root
        /\ im'.err = im.err /\ im'.fl = im.fl /\ im'.disk = file
    BY <1>1, <1>3 DEF IsImage
  <1>5. Trunk(chain) = {}
    BY <1>1 DEF Trunk
  <1>6. Consistent(im', used, chain)
    BY <1>1, <1>4, <1>5, SameImage
  <1>7. IsLeaf(1)'
    BY <1>2, <1>4 DEF IsLeaf
  <1> QED
    BY <1>1, <1>6, <1>7 DEF PagerInv, FileInv, WriteLeaf, Decodes, Phases, CreatePhases, Live

\* The new meta page names the leaf written before it.
LEMMA WriteMetaPager == PagerInv /\ WriteMeta => PagerInv'
  <1> SUFFICES ASSUME PagerInv, WriteMeta PROVE PagerInv'
    OBVIOUS
  <1>1. /\ Consistent(im, used, chain) /\ used = {1} /\ chain = <<>> /\ IsLeaf(1)
        /\ im.root \in used
    BY DEF PagerInv, WriteMeta, Live, Consistent
  <1>2. /\ Decodes(meta') /\ meta'.root = im.root /\ meta'.next = im.next
        /\ meta'.flhead = im.flhead /\ im' = im
    BY DEF WriteMeta, MetaPage, Decodes
  <1>3. committed'.used = used /\ committed'.chain = chain
    BY DEF WriteMeta, Snapshot
  <1> DEFINE j == [root |-> im.root, next |-> im.next, flhead |-> im.flhead, pool |-> <<>>,
                   fl |-> <<>>, disk |-> im.disk, err |-> "none"]
  <1>4. /\ IsImage(j) /\ j.next = im.next /\ j.flhead = im.flhead /\ j.root = im.root
        /\ j.err = "none" /\ j.fl = <<>>
    BY DEF IsImage
  <1>0. Reopened' = j
    <2>1. Reopened' = [Blank(im'.disk) EXCEPT !.root = meta'.root, !.next = meta'.next,
                                             !.flhead = meta'.flhead]
      BY DEF Reopened, Blank
    <2> QED
      BY <1>2, <2>1 DEF Blank
  <1>5. Trunk(chain) = {} /\ DOMAIN j.fl = {}
    BY <1>1, <1>4 DEF Trunk
  <1> HIDE DEF j
  <1>6. Consistent(j, used, chain)
    BY <1>1, <1>4, <1>5, SameImage
  <1>7. \A id \in committed'.used : IsLeaf(id)'
    BY <1>1, <1>2, <1>3 DEF IsLeaf
  <1>8. FileInv'
    BY <1>0, <1>2, <1>3, <1>6, <1>7 DEF FileInv, Decodes
  <1> QED
    BY <1>1, <1>2, <1>8 DEF PagerInv, WriteMeta, Decodes, Phases, CreatePhases, Live

\* Steps that move the phase alone, and those that only build another image
\* from the file.
LEMMA OpeningPager ==
    PagerInv /\ (SyncFile \/ SyncDirectory \/ OpenExisting \/ OpenRejects \/ RetryOpen) => PagerInv'
  <1> SUFFICES ASSUME PagerInv,
                      SyncFile \/ SyncDirectory \/ OpenExisting \/ OpenRejects \/ RetryOpen
               PROVE  PagerInv'
    OBVIOUS
  <1>1. FileInv
    BY DEF PagerInv
  <1>2. CASE OpenExisting
    <2>1. im'.disk = im.disk /\ im' = Reopened /\ Decodes(meta)
      BY <1>2 DEF OpenExisting, Blank, Reopened
    <2>2. FileInv'
      BY <1>1, <1>2, <2>1, FileKept DEF OpenExisting
    <2>3. Consistent(im', used', chain')
      BY <1>1, <1>2, <2>1 DEF OpenExisting, PagerInv, FileInv
    <2> QED
      BY <1>2, <2>1, <2>2, <2>3 DEF PagerInv, OpenExisting, Decodes, Phases, CreatePhases, Live
  <1>3. CASE SyncFile \/ SyncDirectory \/ OpenRejects \/ RetryOpen
    <2>1. UNCHANGED <<im, meta, used, held, chain, committed>>
      BY <1>3 DEF SyncFile, SyncDirectory, OpenRejects, RetryOpen
    <2>2. FileInv'
      BY <1>1, <2>1, FileKept
    <2> QED
      BY <1>3, <2>1, <2>2 DEF PagerInv, SyncFile, SyncDirectory, OpenRejects, RetryOpen, Decodes,
                              Phases, CreatePhases, Live
  <1> QED
    BY <1>2, <1>3

LEMMA AllocatePager == PagerInv /\ Allocate => PagerInv'
  <1> SUFFICES ASSUME PagerInv, Allocate PROVE PagerInv'
    OBVIOUS
  <1>1. Consistent(im, used, chain) /\ Decodes(meta) /\ FileInv
    BY DEF PagerInv, Allocate, Live
  <1>2. Consistent(im', used', chain') /\ im'.disk = im.disk
    BY <1>1, AllocateIsConsistent DEF Allocate
  <1>3. FileInv'
    BY <1>1, <1>2, FileKept DEF Allocate
  <1> QED
    BY <1>1, <1>2, <1>3 DEF PagerInv, Allocate, Decodes, Phases, CreatePhases, Live

LEMMA FreePager == ASSUME NEW id \in used PROVE PagerInv /\ Free(id) => PagerInv'
  <1> SUFFICES ASSUME PagerInv, Free(id) PROVE PagerInv'
    OBVIOUS
  <1>1. Consistent(im, used, chain) /\ Decodes(meta) /\ FileInv
    BY DEF PagerInv, Free, Live
  <1>2. Consistent(im', used', chain') /\ im'.disk = im.disk
    <2>1. /\ id # im.root /\ im' = FreePage(im, id) /\ im'.next <= MaxPages
          /\ used' = used \ {id}
          /\ chain' = Pushed(im, im', chain)
      BY DEF Free, Pushed
    <2>2. im'.disk = im.disk /\ Consistent(im', used \ {id}, Pushed(im, im', chain))
      BY <1>1, <2>1, FreeIsConsistent
    <2> QED
      BY <2>1, <2>2
  <1>3. FileInv'
    BY <1>1, <1>2, FileKept DEF Free
  <1> QED
    BY <1>1, <1>2, <1>3 DEF PagerInv, Free, Decodes, Phases, CreatePhases, Live

LEMMA MoveRootPager == ASSUME NEW id \in used PROVE PagerInv /\ MoveRoot(id) => PagerInv'
  <1> SUFFICES ASSUME PagerInv, MoveRoot(id) PROVE PagerInv'
    OBVIOUS
  <1>1. /\ Consistent(im, used, chain) /\ Decodes(meta) /\ FileInv /\ IsImage(im)
        /\ im.err = "none" /\ DOMAIN im.fl \subseteq Trunk(chain)
    BY DEF PagerInv, MoveRoot, Live, Consistent
  <1>2. /\ IsImage(im') /\ im'.next = im.next /\ im'.flhead = im.flhead /\ im'.root = id
        /\ im'.err = im.err /\ im'.fl = im.fl /\ im'.disk = im.disk
    BY <1>1 DEF MoveRoot, IsImage
  <1>3. \A p \in Trunk(chain) : FreelistPageAt(im', p) = FreelistPageAt(im, p)
    BY <1>2, SamePage
  <1>4. Consistent(im', used, chain)
    BY <1>1, <1>2, <1>3, SameImage
  <1>5. FileInv'
    BY <1>1, <1>2, FileKept DEF MoveRoot
  <1> QED
    BY <1>1, <1>4, <1>5 DEF PagerInv, MoveRoot, Decodes, Phases, CreatePhases, Live

\* A flush makes the file tell what the process knows.
LEMMA FlushPager ==
    ASSUME Consistent(im, used, chain), Flushed, im'.disk = Written
    PROVE  FileInv' /\ Decodes(meta)'
  <1>1. /\ Decodes(meta') /\ meta'.root = im.root /\ meta'.next = im.next
        /\ meta'.flhead = im.flhead /\ committed'.used = used /\ committed'.chain = chain
    BY DEF Flushed, MetaPage, Decodes, Snapshot
  <1> DEFINE j == [root |-> im.root, next |-> im.next, flhead |-> im.flhead, pool |-> <<>>,
                   fl |-> <<>>, disk |-> Written, err |-> "none"]
  <1>2. /\ IsImage(j) /\ j.next = im.next /\ j.flhead = im.flhead /\ j.root = im.root
        /\ j.err = "none" /\ j.fl = <<>> /\ j.disk = Written
    BY DEF IsImage
  <1>0. Reopened' = j
    <2>1. Reopened' = [Blank(im'.disk) EXCEPT !.root = meta'.root, !.next = meta'.next,
                                             !.flhead = meta'.flhead]
      BY DEF Reopened, Blank
    <2> QED
      BY <1>1, <2>1 DEF Blank
  <1> HIDE DEF j
  <1>3. /\ Consistent(j, used, chain)
        /\ \A id \in used : id \in DOMAIN Written /\ Written[id].type = "leaf"
    BY <1>2, FlushIsConsistent DEF Written
  <1>4. \A id \in committed'.used : IsLeaf(id)'
    BY <1>1, <1>3 DEF IsLeaf
  <1> QED
    BY <1>0, <1>1, <1>3, <1>4 DEF FileInv, Decodes

LEMMA CheckpointPager == PagerInv /\ Checkpoint => PagerInv'
  <1> SUFFICES ASSUME PagerInv, Checkpoint PROVE PagerInv'
    OBVIOUS
  <1>1. Consistent(im, used, chain) /\ IsImage(im) /\ im.err = "none"
    BY DEF PagerInv, Checkpoint, Live, Consistent
  <1>2. /\ IsImage(im') /\ im'.next = im.next /\ im'.flhead = im.flhead /\ im'.root = im.root
        /\ im'.err = "none" /\ im'.fl = <<>> /\ im'.disk = Written
    BY <1>1 DEF Checkpoint, IsImage
  <1>3. Consistent(im', used, chain)
    BY <1>1, <1>2, FlushIsConsistent DEF Written
  <1>4. FileInv' /\ Decodes(meta)'
    BY <1>1, <1>2, FlushPager DEF Checkpoint
  <1> QED
    BY <1>3, <1>4 DEF PagerInv, Checkpoint, Decodes, Phases, CreatePhases, Live

LEMMA ClosePager == PagerInv /\ Close => PagerInv'
  <1> SUFFICES ASSUME PagerInv, Close PROVE PagerInv'
    OBVIOUS
  <1>1. Consistent(im, used, chain) /\ im'.disk = Written
    BY DEF PagerInv, Close, Live, Blank
  <1>2. FileInv' /\ Decodes(meta)'
    BY <1>1, FlushPager DEF Close
  <1>3. used' = committed'.used /\ chain' = committed'.chain
    BY DEF Close, Flushed, Snapshot
  <1> QED
    BY <1>2, <1>3 DEF PagerInv, Close, Decodes, Phases, CreatePhases, Live

\* A kill in any phase, of a pager in any state.
LEMMA KillPager == PagerInv /\ Kill => PagerInv'
  <1> SUFFICES ASSUME PagerInv, Kill PROVE PagerInv'
    OBVIOUS
  <1>1. FileInv /\ im'.disk = im.disk
    BY DEF PagerInv, Kill, Blank
  <1>2. FileInv'
    BY <1>1, FileKept DEF Kill
  <1> QED
    BY <1>2 DEF PagerInv, Kill, Decodes, Phases, CreatePhases, Live

LEMMA NextPager == PagerInv /\ [Next]_pagerVars => PagerInv'
  <1>1. PagerInv /\ UNCHANGED pagerVars => PagerInv'
    BY DEF PagerInv, FileInv, pagerVars, Reopened, IsLeaf, Decodes
  <1> QED
    BY <1>1, TouchPager, ExtendFilePager, WriteLeafPager, WriteMetaPager, OpeningPager,
       AllocatePager, FreePager, MoveRootPager, CheckpointPager, ClosePager, KillPager
       DEF Next, Opening

-----------------------------------------------------------------------------
(* The theorems. *)

\* In every reachable state the image of an open pager, and the image that the
\* next open() would build from the file, own each of their pages once.
THEOREM PagerInvariant == Spec => []PagerInv
  BY InitPager, NextPager, PTL DEF Spec

\* The elements of a sequence of page ids.
LEMMA IdsOf ==
    ASSUME NEW s \in Seq(Nat)
    PROVE  /\ DOMAIN s = 1..Len(s) /\ Trunk(s) = ToSet(s)
           /\ (\A k, l \in 1..Len(s) : s[k] = s[l] => k = l) => IsInjective(s)
  BY DEF Trunk, ToSet, IsInjective

\* Type correctness: page ids stay below next_page_id.
THEOREM PagerTypeCorrect == Spec => []PagerTypeOK
  <1>1. PagerInv => PagerTypeOK
    <2> SUFFICES ASSUME PagerInv, phase = "open"
                 PROVE  /\ im.root \in used /\ im.next \in 2..MaxPages
                        /\ im.flhead \in 0..(im.next - 1)
                        /\ used \cup ToSet(chain) \cup DOMAIN im.fl \subseteq 1..(im.next - 1)
      BY DEF PagerInv, PagerTypeOK
    <2>1. /\ Owned(im, used, Trunk(chain)) /\ Linked(im, chain) /\ im.root \in used
          /\ im.next \in 2..MaxPages /\ DOMAIN im.fl \subseteq Trunk(chain)
      BY DEF PagerInv, Live, Consistent
    <2>2. im.flhead \in Nat /\ im.flhead < im.next /\ im.next \in Nat
      BY <2>1, HeadOfChain
    <2>3. Trunk(chain) = ToSet(chain)
      BY <2>1, IdsOf DEF Linked
    <2>4. used \subseteq 1..(im.next - 1) /\ Trunk(chain) \subseteq 1..(im.next - 1)
      BY <2>1 DEF Owned
    <2>5. im.flhead \in 0..(im.next - 1)
      BY <2>2
    <2> QED
      BY <2>1, <2>3, <2>4, <2>5
  <1> QED
    BY <1>1, PagerInvariant, PTL

\* No page of an open file leaks and none is owned twice, however often heads
\* of the freelist were recycled and pushed, and whenever the process was killed.
THEOREM NoPageLeaks == Spec => []PagesOwned
  <1>1. PagerInv => PagesOwned
    <2> SUFFICES ASSUME PagerInv, phase = "open" PROVE PagesOwned
      BY DEF PagesOwned
    <2> DEFINE C == ToSet(chain)
    <2>1. /\ Owned(im, used, Trunk(chain)) /\ Linked(im, chain) /\ im.err = "none"
          /\ chain \in Seq(Nat) /\ Trunk(chain) = C
      BY IdsOf DEF PagerInv, Live, Consistent, Linked
    <2>2. /\ IsInjective(chain) /\ DOMAIN chain = 1..Len(chain) /\ Len(chain) \in Nat
          /\ (chain = <<>> <=> Len(chain) = 0) /\ \A k \in DOMAIN chain : chain[k] \in C
      BY <2>1, IdsOf DEF Linked, Trunk
    <2> HIDE DEF C
    <2>3. Owned(im, used, C)
      BY <2>1
    <2>4. \A p \in C : /\ FreelistPageAt(im, p).type = "freelist"
                       /\ Len(FreelistPageAt(im, p).freed) <= MaxFreedIds
                       /\ Listed(im, p) \in Seq(Nat)
      BY <2>3 DEF Owned, ListPage, Freelist, Listed
    <2>5. ChainIsLinked
      <3>1. im.flhead = IF chain = <<>> THEN 0 ELSE chain[1]
        BY <2>1, <2>2 DEF Linked
      <3>2. \A k \in DOMAIN chain : FreelistPageAt(im, chain[k]).next =
                                      IF k = Len(chain) THEN 0 ELSE chain[k + 1]
        BY <2>1, <2>2 DEF Linked
      <3> QED
        BY <2>2, <2>4, <3>1, <3>2 DEF ChainIsLinked
    <2>6. \A p \in C : DOMAIN Listed(im, p) = 1..Len(Listed(im, p))
      BY <2>4
    <2>7. \A p \in C : IsInjective(Listed(im, p))
      <3> SUFFICES ASSUME NEW p \in C PROVE IsInjective(Listed(im, p))
        OBVIOUS
      <3>1. \A k, l \in 1..Len(Listed(im, p)) : Listed(im, p)[k] = Listed(im, p)[l] => k = l
        BY <2>3, ListedOnce
      <3> QED
        BY <2>4, <3>1, IdsOf
    <2>8. \A p \in C : ToSet(Listed(im, p)) \subseteq (1..(im.next - 1)) \ (used \cup C)
      BY <2>3, <2>6 DEF Owned, ToSet
    <2>9. \A p \in C : \A q \in C \ {p} : ToSet(Listed(im, p)) \cap ToSet(Listed(im, q)) = {}
      <3> SUFFICES ASSUME NEW p \in C, NEW q \in C \ {p}, NEW x \in ToSet(Listed(im, p)),
                          x \in ToSet(Listed(im, q))
                   PROVE  FALSE
        OBVIOUS
      <3>1. PICK n \in 1..Len(Listed(im, p)) : x = Listed(im, p)[n]
        BY <2>6 DEF ToSet
      <3>2. PICK m \in 1..Len(Listed(im, q)) : x = Listed(im, q)[m]
        BY <2>6 DEF ToSet
      <3> QED
        BY <2>3, <3>1, <3>2, ListedOnce
    <2>10. used \cup C \cup UNION {ToSet(Listed(im, p)) : p \in C} = 1..(im.next - 1)
      <3>1. used \subseteq 1..(im.next - 1) /\ C \subseteq 1..(im.next - 1)
        BY <2>3 DEF Owned
      <3>2. ASSUME NEW x \in (1..(im.next - 1)) \ (used \cup C)
            PROVE  x \in UNION {ToSet(Listed(im, p)) : p \in C}
        <4>1. PICK p \in C : \E n \in 1..Len(Listed(im, p)) : Listed(im, p)[n] = x
          BY <2>3 DEF Owned
        <4>2. x \in ToSet(Listed(im, p))
          BY <2>6, <4>1 DEF ToSet
        <4> QED
          BY <4>2
      <3> QED
        BY <2>8, <3>1, <3>2
    <2>11. used \cap C = {}
      BY <2>3 DEF Owned
    <2> QED
      BY <2>1, <2>2, <2>5, <2>7, <2>8, <2>9, <2>10, <2>11 DEF PagesOwned, Listed, C
  <1> QED
    BY <1>1, PagerInvariant, PTL

\* The flush of freelist pages never overwrites a page of the tree.
THEOREM TreePagesStayIntact == Spec => []TreePagesIntact
  <1>1. PagerInv => TreePagesIntact
    BY DEF PagerInv, FileInv, TreePagesIntact, IsLeaf
  <1> QED
    BY <1>1, PagerInvariant, PTL

\* Whenever page 0 decodes, it names a page of the tree: also when the file's
\* creation was cut short between any two of its writes.
THEOREM MetaAlwaysNamesRoot == Spec => []MetaNamesRoot
  <1>1. PagerInv => MetaNamesRoot
    <2> SUFFICES ASSUME PagerInv, Decodes(meta) PROVE IsLeaf(meta.root)
      BY DEF MetaNamesRoot, IsLeaf
    <2>1. Reopened.root = meta.root
      BY DEF Reopened, Blank
    <2> QED
      BY <2>1 DEF PagerInv, FileInv, Consistent
  <1> QED
    BY <1>1, PagerInvariant, PTL

\* The pager implements the allocator: allocate_page never hands out a page that
\* is in use, free_page returns a page that is, and a restart brings back the
\* pages that were in use when the meta page was last written.
THEOREM PagerImplementsAllocator == Spec => PagesAllocated
  <1>1. Init => Store!Init
    BY DEF Init, Store!Init, Snapshot
  <1>2. PagerInv /\ [Next]_pagerVars =>
          [Store!Allocate \/ Store!Free \/ Store!Commit \/ Store!Restart]_Store!allocVars
    <2> SUFFICES ASSUME PagerInv, [Next]_pagerVars
                 PROVE  \/ Store!Allocate \/ Store!Free \/ Store!Commit \/ Store!Restart
                        \/ UNCHANGED Store!allocVars
      OBVIOUS
    <2>1. CASE UNCHANGED pagerVars
      BY <2>1 DEF pagerVars, Store!allocVars
    <2>2. CASE Touch \/ WriteLeaf \/ SyncFile \/ SyncDirectory \/ OpenExisting \/ OpenRejects
               \/ RetryOpen \/ \E id \in used : MoveRoot(id)
      BY <2>2 DEF Touch, WriteLeaf, SyncFile, SyncDirectory, OpenExisting, OpenRejects,
                  RetryOpen, MoveRoot, Store!allocVars
    <2>3. CASE ExtendFile
      <3>1. im.flhead = 0 /\ im.next = 1 /\ used = {} /\ held = 0
        BY <2>3 DEF PagerInv, ExtendFile, Blank
      <3>2. AllocatedId(im) = 1 /\ 1 \in 1..MaxPages
        BY <3>1, PagerAssumption DEF AllocatedId
      <3> QED
        BY <2>3, <3>1, <3>2 DEF ExtendFile, Store!Allocate
    <2>4. CASE Allocate
      <3>1. AllocatedId(im) \in (1..MaxPages) \ used
        BY <2>4, AllocateIsConsistent DEF Allocate, PagerInv, Live
      <3> QED
        BY <2>4, <3>1 DEF Allocate, Store!Allocate
    <2>5. CASE \E id \in used : Free(id)
      BY <2>5 DEF Free, Store!Free
    <2>6. CASE WriteMeta \/ Checkpoint \/ Close
      BY <2>6 DEF WriteMeta, Checkpoint, Close, Flushed, Snapshot, Store!Commit
    <2>7. CASE Kill
      BY <2>7 DEF Kill, Store!Restart, Cardinality, Store!Cardinality
    <2> QED
      BY <2>1, <2>2, <2>3, <2>4, <2>5, <2>6, <2>7 DEF Next, Opening
  <1> QED
    BY <1>1, <1>2, PagerInvariant, PTL DEF Spec, PagesAllocated, Store!Spec

=============================================================================
