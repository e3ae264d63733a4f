----------------------------- MODULE WAL_proofs -----------------------------
(***************************************************************************)
(* For any payloads, any bound on LSNs and any torn tail other than a run  *)
(* of zeros, the write-ahead log keeps what it acknowledged, stays         *)
(* readable, and never hands an acknowledged LSN out twice.                *)
(***************************************************************************)
EXTENDS WAL, SequenceTheorems, WellFoundedInduction, TLAPS

-----------------------------------------------------------------------------
(* The inductive invariant. *)

AllGood(s) == \A i \in 1..Len(s) : s[i].kind = "good"

\* Only the last cell can be torn.
Whole(s) == \A i \in 1..(Len(s) - 1) : s[i].kind = "good"

\* And LSNs go up by one from the first on.
Chained(s) ==
    /\ Whole(s)
    /\ \A i \in 1..Len(s) : s[i].kind = "good" => s[i].lsn = s[1].lsn + (i - 1)

\* The length of the good part of such a file.
End(s) == IF Len(s) # 0 /\ s[Len(s)].kind # "good" THEN Len(s) - 1 ELSE Len(s)

EndLsn(s) == IF End(s) = 0 THEN 0 ELSE s[End(s)].lsn

\* The file holds every record of N and counts at least up to the LSN a.
Covers(s, N) == \A r \in N : \E i \in 1..Len(s) : s[i] = r

Sound(s, N, a) == Chained(s) /\ Covers(s, N) /\ a <= EndLsn(s)

Keeps(s) == Sound(s, needed, lastAcked)

Recovered == {"replayed", "ready", "appended", "rotating", "renamed"}

WALInv ==
    /\ WALTypeOK
    /\ Keeps(file) /\ Keeps(durable) /\ \A s \in stale : Keeps(s)
    /\ Len(file) <= Len(durable) + 1
    /\ Len(file) = Len(durable) + 1 => AllGood(durable)
    /\ wpc \in Recovered => AllGood(file) /\ current_lsn = EndLsn(file)
    /\ wpc \in {"ready", "rotating", "renamed"} => durable = file
    /\ wpc = "appended" => /\ file # <<>>
                           /\ file = Append(durable, file[Len(file)])
    /\ wpc = "rotating" => /\ temp # <<>> /\ AllGood(temp) /\ Keeps(temp)
                           /\ current_lsn = EndLsn(temp)
    /\ online => /\ wpc \in Recovered \ {"replayed"}
                 /\ wpc # "renamed" => stale = {}

-----------------------------------------------------------------------------
(* Facts about numbers and files. *)

\* A set of natural numbers that is not empty has a least element.
LEMMA LeastNatural ==
    ASSUME NEW T, T \subseteq Nat, T # {}
    PROVE  \E x \in T : \A y \in T : x <= y
  <1> DEFINE R == OpToRel(<, Nat)
  <1>1. IsWellFoundedOn(R, Nat)
    BY NatLessThanWellFounded
  <1>2. \A x, y \in Nat : x < y => <<x, y>> \in R
    BY DEF OpToRel
  <1> HIDE DEF R
  <1>3. PICK x \in T : \A y \in T : ~ (<<y, x>> \in R)
    BY <1>1, WFMin
  <1>4. ASSUME NEW y \in T PROVE x <= y
    <2>1. x \in Nat /\ y \in Nat
      OBVIOUS
    <2>2. ~(y < x)
      BY <1>2, <1>3, <2>1
    <2> QED
      BY <2>1, <2>2
  <1> QED
    BY <1>3, <1>4

\* A cell has a kind; a good one is a record and has a positive LSN.
LEMMA CellKinds ==
    ASSUME NEW c \in Cell
    PROVE  /\ c.kind = "good" => c \in Records /\ c.lsn \in Nat \ {0}
           /\ c.kind # "good" => c \in [kind : TornKinds] /\ c.kind \in TornKinds
  BY WALAssumption DEF Cell, Records

\* The LSNs of the good cells of a chained file, counted from its first cell.
LEMMA ChainedLsns ==
    ASSUME NEW s \in Seq(Cell), Chained(s), NEW i \in 1..Len(s), s[i].kind = "good"
    PROVE  /\ s[i] \in Records /\ s[i].lsn \in Nat \ {0}
           /\ s[1].kind = "good" /\ s[1].lsn \in Nat \ {0}
           /\ s[i].lsn = s[1].lsn + (i - 1)
  <1>1. Len(s) \in Nat /\ 1 \in 1..Len(s) /\ s[i] \in Cell /\ s[1] \in Cell
    OBVIOUS
  <1>2. s[1].kind = "good"
    BY <1>1 DEF Chained, Whole
  <1> QED
    BY <1>1, <1>2, CellKinds DEF Chained

\* End is a position of the file, and everything up to it is good.
LEMMA EndIsGood ==
    ASSUME NEW s \in Seq(Cell), Whole(s)
    PROVE  /\ End(s) \in 0..Len(s)
           /\ \A i \in 1..End(s) : s[i].kind = "good"
           /\ \A i \in 1..Len(s) : s[i].kind = "good" => i <= End(s)
           /\ EndLsn(s) \in Nat
           /\ AllGood(s) => End(s) = Len(s)
  <1>1. Len(s) \in Nat
    OBVIOUS
  <1>2. End(s) \in 0..Len(s)
    BY <1>1 DEF End
  <1>3. \A i \in 1..End(s) : s[i].kind = "good"
    BY <1>1 DEF End, Whole
  <1>4. \A i \in 1..Len(s) : s[i].kind = "good" => i <= End(s)
    BY <1>1 DEF End
  <1>5. EndLsn(s) \in Nat
    <2>1. CASE End(s) = 0
      BY <2>1 DEF EndLsn
    <2>2. CASE End(s) # 0
      <3>1. End(s) \in 1..Len(s)
        BY <1>1, <1>2, <2>2
      <3>2. s[End(s)] \in Cell /\ s[End(s)].kind = "good"
        BY <3>1, <1>3
      <3> QED
        BY <2>2, <3>2, CellKinds DEF EndLsn
    <2> QED
      BY <2>1, <2>2
  <1>6. AllGood(s) => End(s) = Len(s)
    BY <1>1 DEF AllGood, End
  <1> QED
    BY <1>2, <1>3, <1>4, <1>5, <1>6

\* Where only the last cell can be torn the decoder stops exactly at End.
LEMMA GoodLenIsEnd ==
    ASSUME NEW s \in Seq(Cell), Whole(s)
    PROVE  GoodLen(s) = End(s)
  <1> DEFINE P(n) == /\ \A i \in 1..n : s[i].kind = "good"
                     /\ n < Len(s) => s[n + 1].kind # "good"
  <1>1. Len(s) \in Nat
    OBVIOUS
  <1>2. End(s) \in 0..Len(s) /\ P(End(s))
    BY <1>1, EndIsGood DEF End
  <1>3. ASSUME NEW n \in 0..Len(s), P(n)
        PROVE  n = End(s)
    BY <1>1, <1>2, <1>3
  <1>4. GoodLen(s) = CHOOSE n \in 0..Len(s) : P(n)
    BY DEF GoodLen
  <1> HIDE DEF P
  <1> QED
    BY <1>2, <1>3, <1>4

\* The decoder accepts a chained file that does not end in zeros.
LEMMA ChainedIsReadable ==
    ASSUME NEW s \in Seq(Cell), Chained(s), "zeros" \notin TornKinds \/ AllGood(s)
    PROVE  ~IterRaises(s)
  <1>1. Len(s) \in Nat /\ GoodLen(s) = End(s) /\ End(s) \in 0..Len(s)
    BY GoodLenIsEnd, EndIsGood DEF Chained
  <1>2. ~NonSequential(s)
    <2>1. SUFFICES ASSUME NEW i \in 1..(End(s) - 1) PROVE s[i + 1].lsn = s[i].lsn + 1
      BY <1>1 DEF NonSequential
    <2>2. /\ i \in 1..Len(s) /\ i + 1 \in 1..Len(s)
          /\ s[i].kind = "good" /\ s[i + 1].kind = "good"
      BY <1>1, EndIsGood DEF Chained
    <2>3. PICK b \in Nat : b = s[1].lsn /\ s[i].lsn = b + (i - 1)
      BY <2>2, ChainedLsns
    <2>4. s[i + 1].lsn = b + ((i + 1) - 1)
      BY <2>2, <2>3, ChainedLsns
    <2>5. i \in Nat
      BY <1>1
    <2> QED
      BY <2>3, <2>4, <2>5
  <1>3. ~TailRaises(s)
    <2>1. SUFFICES ASSUME TailRaises(s) PROVE FALSE
      OBVIOUS
    <2>2. End(s) + 1 = Len(s) /\ s[Len(s)] \in Cell
      BY <1>1, <2>1 DEF TailRaises, End
    <2>3. s[Len(s)].kind = "zeros"
      BY <1>1, <2>1, <2>2 DEF TailRaises
    <2> QED
      BY <1>1, <2>2, <2>3, CellKinds DEF AllGood
  <1> QED
    BY <1>2, <1>3 DEF IterRaises

\* Appending the next record, or what is left of it, to a file of good records.
LEMMA AppendKeeps ==
    ASSUME NEW s \in Seq(Cell), AllGood(s), NEW N \in SUBSET Records, NEW a \in Nat,
           Sound(s, N, a)
    PROVE  /\ \A p \in Payload :
                LET t == Append(s, Record(EndLsn(s) + 1, p))
                IN /\ t \in Seq(Cell) /\ AllGood(t) /\ Sound(t, N, a)
                   /\ EndLsn(t) = EndLsn(s) + 1
           /\ \A k \in TornKinds :
                LET t == Append(s, Torn(k)) IN t \in Seq(Cell) /\ Sound(t, N, a)
  <1>1. /\ Len(s) \in Nat /\ End(s) = Len(s) /\ EndLsn(s) \in Nat
        /\ \A i \in 1..Len(s) : s[i] \in Cell
    BY EndIsGood DEF Sound, Chained
  <1>2. ASSUME NEW p \in Payload,
               NEW t, t = Append(s, Record(EndLsn(s) + 1, p))
        PROVE  /\ t \in Seq(Cell) /\ AllGood(t) /\ Sound(t, N, a)
               /\ EndLsn(t) = EndLsn(s) + 1
    <2> DEFINE c == Record(EndLsn(s) + 1, p)
    <2>1. c \in Records /\ c \in Cell /\ c.kind = "good" /\ c.lsn = EndLsn(s) + 1
      BY <1>1 DEF Record, Records, Cell
    <2> HIDE DEF c
    <2>2. /\ t \in Seq(Cell) /\ Len(t) = Len(s) + 1 /\ t[Len(s) + 1] = c
          /\ \A i \in 1..Len(s) : t[i] = s[i]
      BY <1>1, <1>2, <2>1 DEF c
    <2>3. AllGood(t)
      BY <1>1, <2>1, <2>2 DEF AllGood
    <2>4. Chained(t)
      <3>1. CASE Len(s) = 0
        BY <1>1, <2>1, <2>2, <3>1 DEF Chained, Whole
      <3>2. CASE Len(s) # 0
        <4>1. \A i \in 1..Len(s) : s[i].lsn = s[1].lsn + (i - 1) /\ s[1].lsn \in Nat
          BY ChainedLsns DEF AllGood, Sound
        <4>2. EndLsn(s) = s[1].lsn + (Len(s) - 1) /\ s[1].lsn \in Nat
          BY <1>1, <3>2, <4>1 DEF EndLsn
        <4>3. t[1] = s[1]
          BY <1>1, <2>2, <3>2
        <4>4. \A i \in 1..Len(t) : t[i].lsn = t[1].lsn + (i - 1)
          <5>1. SUFFICES ASSUME NEW i \in 1..Len(t) PROVE t[i].lsn = t[1].lsn + (i - 1)
            OBVIOUS
          <5>2. CASE i = Len(s) + 1
            BY <1>1, <2>1, <2>2, <4>2, <4>3, <5>2
          <5>3. CASE i \in 1..Len(s)
            BY <2>2, <4>1, <4>3, <5>3
          <5> QED
            BY <1>1, <2>2, <5>2, <5>3
        <4> QED
          BY <1>1, <2>2, <2>3, <4>4 DEF Chained, Whole, AllGood
      <3> QED
        BY <3>1, <3>2
    <2>5. Covers(t, N)
      BY <1>1, <2>2 DEF Covers, Sound
    <2>6. EndLsn(t) = EndLsn(s) + 1
      BY <1>1, <2>1, <2>2, <2>3 DEF EndLsn, End, AllGood
    <2> QED
      BY <1>1, <2>2, <2>3, <2>4, <2>5, <2>6 DEF Sound
  <1>3. ASSUME NEW k \in TornKinds, NEW t, t = Append(s, Torn(k))
        PROVE  t \in Seq(Cell) /\ Sound(t, N, a)
    <2>1. Torn(k) \in Cell /\ Torn(k).kind = k /\ k # "good"
      BY WALAssumption DEF Torn, Cell
    <2>2. /\ t \in Seq(Cell) /\ Len(t) = Len(s) + 1 /\ t[Len(s) + 1].kind # "good"
          /\ \A i \in 1..Len(s) : t[i] = s[i]
      BY <1>1, <1>3, <2>1
    <2>3. Chained(t) /\ Covers(t, N)
      BY <1>1, <2>2 DEF Chained, Whole, Covers, Sound, AllGood
    <2>4. EndLsn(t) = EndLsn(s)
      BY <1>1, <2>2 DEF EndLsn, End
    <2> QED
      BY <2>2, <2>3, <2>4 DEF Sound
  <1> QED
    BY <1>2, <1>3

\* Cutting the torn tail off, as replay() does.
LEMMA GoodPartKeeps ==
    ASSUME NEW s \in Seq(Cell), NEW N \in SUBSET Records, NEW a \in Nat, Sound(s, N, a)
    PROVE  LET t == GoodPart(s)
           IN /\ t \in Seq(Cell) /\ AllGood(t) /\ Sound(t, N, a)
              /\ EndLsn(t) = EndLsn(s) /\ LastLsn(s) = EndLsn(s)
              /\ Len(t) <= Len(s) /\ (Len(t) < Len(s) => Len(t) + 1 = Len(s))
  <1> DEFINE t == GoodPart(s)
  <1>1. /\ Len(s) \in Nat /\ End(s) \in 0..Len(s) /\ GoodLen(s) = End(s)
        /\ \A i \in 1..End(s) : s[i].kind = "good"
        /\ \A i \in 1..Len(s) : s[i].kind = "good" => i <= End(s)
    BY EndIsGood, GoodLenIsEnd DEF Sound, Chained
  <1>2. /\ t \in Seq(Cell) /\ Len(t) = End(s)
        /\ \A i \in 1..End(s) : t[i] = s[i]
    BY <1>1 DEF GoodPart
  <1> HIDE DEF t
  <1>3. AllGood(t) /\ Chained(t)
    <2>1. AllGood(t)
      BY <1>1, <1>2 DEF AllGood
    <2>2. ASSUME NEW i \in 1..Len(t) PROVE t[i].lsn = t[1].lsn + (i - 1)
      <3>1. i \in 1..Len(s) /\ s[i].kind = "good" /\ t[i] = s[i] /\ t[1] = s[1]
        BY <1>1, <1>2
      <3> QED
        BY <3>1, ChainedLsns DEF Sound
    <2> QED
      BY <1>1, <1>2, <2>1, <2>2 DEF AllGood, Chained, Whole
  <1>4. \A r \in N : r.kind = "good"
    BY DEF Records
  <1>5. Covers(t, N)
    BY <1>1, <1>2, <1>4 DEF Covers, Sound
  <1>6. EndLsn(t) = EndLsn(s) /\ LastLsn(s) = EndLsn(s)
    <2>1. End(t) = End(s)
      BY <1>1, <1>2, <1>3, EndIsGood DEF Chained
    <2>2. End(s) # 0 => t[End(s)] = s[End(s)]
      BY <1>1, <1>2
    <2> QED
      BY <1>1, <2>1, <2>2 DEF EndLsn, LastLsn
  <1>7. Len(t) <= Len(s) /\ (Len(t) < Len(s) => Len(t) + 1 = Len(s))
    BY <1>1, <1>2 DEF End
  <1> QED
    BY <1>2, <1>3, <1>5, <1>6, <1>7 DEF Sound, t

\* Dropping the records below one of the file's LSNs, as truncate_before does.
LEMMA KeptFromKeeps ==
    ASSUME NEW s \in Seq(Cell), AllGood(s), NEW N \in SUBSET Records, NEW a \in Nat,
           Sound(s, N, a), NEW lsn \in 1..EndLsn(s)
    PROVE  LET t == KeptFrom(s, lsn)
           IN /\ t \in Seq(Records) /\ t # <<>> /\ AllGood(t)
              /\ Sound(t, {r \in N : r.lsn >= lsn}, a)
              /\ EndLsn(t) = EndLsn(s)
              /\ \A i \in 1..Len(t) : \E j \in 1..Len(s) : t[i] = s[j]
  <1> DEFINE P(i) == /\ \A j \in 1..(i - 1) : s[j].lsn < lsn
                     /\ i <= Len(s) => s[i].lsn >= lsn
             f == CHOOSE i \in 1..(Len(s) + 1) : P(i)
             t == SubSeq(s, f, Len(s))
             base == s[1].lsn
  <1>1. /\ Len(s) \in Nat /\ Len(s) # 0 /\ End(s) = Len(s)
        /\ \A i \in 1..Len(s) : s[i] \in Records /\ s[i].lsn \in Nat \ {0}
        /\ \A i \in 1..Len(s) : s[i].lsn = base + (i - 1)
        /\ base \in Nat \ {0} /\ EndLsn(s) = base + (Len(s) - 1)
    <2>1. Len(s) \in Nat /\ End(s) = Len(s) /\ EndLsn(s) \in Nat
      BY EndIsGood DEF Sound, Chained
    <2>2. Len(s) # 0
      BY <2>1 DEF EndLsn
    <2>3. \A i \in 1..Len(s) : s[i] \in Records /\ s[i].lsn \in Nat \ {0}
      BY CellKinds DEF AllGood
    <2>4. \A i \in 1..Len(s) : s[i].lsn = base + (i - 1)
      BY DEF AllGood, Sound, Chained
    <2> QED
      BY <2>1, <2>2, <2>3, <2>4 DEF EndLsn
  <1> HIDE DEF base
  <1>2. PICK g \in 1..Len(s) : \A i \in 1..Len(s) : i >= g <=> s[i].lsn >= lsn
    <2>1. CASE lsn <= base
      <3>1. 1 \in 1..Len(s)
        BY <1>1
      <3>2. ASSUME NEW i \in 1..Len(s) PROVE i >= 1 <=> s[i].lsn >= lsn
        <4>1. s[i].lsn = base + (i - 1)
          BY <1>1
        <4>2. base \in Nat /\ i \in Nat /\ lsn \in Nat /\ i >= 1
          BY <1>1
        <4> QED
          BY <2>1, <4>1, <4>2
      <3> QED
        BY <3>1, <3>2
    <2>2. CASE lsn > base
      <3>1. lsn - base + 1 \in 1..Len(s)
        BY <1>1, <2>2
      <3>2. ASSUME NEW i \in 1..Len(s)
            PROVE  i >= lsn - base + 1 <=> s[i].lsn >= lsn
        <4>1. s[i].lsn = base + (i - 1)
          BY <1>1
        <4>2. base \in Nat /\ i \in Nat /\ lsn \in Nat
          BY <1>1
        <4> QED
          BY <4>1, <4>2
      <3> QED
        BY <3>1, <3>2
    <2> QED
      <3>1. lsn <= base \/ lsn > base
        BY <1>1
      <3> QED
        BY <2>1, <2>2, <3>1
  <1>3. f \in 1..Len(s) /\ \A i \in 1..Len(s) : i >= f <=> s[i].lsn >= lsn
    <2>1. g \in 1..(Len(s) + 1) /\ P(g)
      BY <1>1, <1>2
    <2>2. ASSUME NEW i \in 1..(Len(s) + 1), P(i) PROVE i = g
      <3>1. ~(i < g)
        BY <1>1, <1>2, <2>2
      <3>2. ~(g < i)
        <4>1. SUFFICES ASSUME g < i PROVE FALSE
          OBVIOUS
        <4>2. g \in 1..(i - 1)
          BY <1>1, <4>1
        <4> QED
          BY <1>1, <1>2, <2>2, <4>2
      <3> QED
        BY <1>1, <3>1, <3>2
    <2> HIDE DEF P
    <2>3. f = g
      BY <2>1, <2>2
    <2> QED
      BY <1>2, <2>3
  <1> HIDE DEF f, P
  <1>4. /\ t \in Seq(Records) /\ Len(t) = Len(s) - f + 1
        /\ \A i \in 1..Len(t) : t[i] = s[f + i - 1]
    <2>2. /\ f \in Int /\ Len(s) \in Int /\ f <= Len(s)
          /\ \A i \in f..Len(s) : s[i] \in Records
      BY <1>1, <1>3
    <2>3. /\ t \in Seq(Records) /\ Len(t) = Len(s) - f + 1
          /\ \A i \in 1..(Len(s) - f + 1) : t[i] = s[f + i - 1]
      BY <2>2, SubSeqProperties
    <2> QED
      BY <2>3
  <1> HIDE DEF t
  <1>5. /\ Len(t) \in Nat \ {0} /\ t # <<>>
        /\ \A i \in 1..Len(t) : f + i - 1 \in 1..Len(s) /\ t[i] = s[f + i - 1]
    BY <1>1, <1>3, <1>4
  <1>6. AllGood(t) /\ Chained(t)
    <2>1. AllGood(t)
      BY <1>5 DEF AllGood
    <2>2. ASSUME NEW i \in 1..Len(t) PROVE t[i].lsn = t[1].lsn + (i - 1)
      <3>1. ASSUME NEW k \in 1..Len(t) PROVE t[k].lsn = base + (f + k - 1 - 1)
        <4>1. PICK n \in 1..Len(s) : n = f + k - 1 /\ t[k] = s[n]
          BY <1>5
        <4>2. s[n].lsn = base + (n - 1) /\ base \in Nat /\ f \in Nat
          BY <1>1, <1>3
        <4>3. n - 1 = f + k - 1 - 1
          BY <4>1, <4>2
        <4> QED
          BY <4>1, <4>2, <4>3
      <3>2. 1 \in 1..Len(t) /\ base \in Nat /\ f \in Nat
        BY <1>1, <1>3, <1>5
      <3>3. t[1].lsn = base + (f + 1 - 1 - 1) /\ t[i].lsn = base + (f + i - 1 - 1)
        BY <3>1, <3>2
      <3> QED
        BY <3>2, <3>3
    <2>3. Chained(t)
      BY <1>5, <2>1, <2>2 DEF AllGood, Chained, Whole
    <2> QED
      BY <2>1, <2>3
  <1>7. EndLsn(t) = EndLsn(s)
    <2>1. End(t) = Len(t)
      BY <1>5, <1>6 DEF End, AllGood
    <2>2. t[Len(t)] = s[Len(s)]
      <3>1. f + Len(t) - 1 = Len(s) /\ Len(t) \in 1..Len(t)
        BY <1>1, <1>3, <1>4, <1>5
      <3> QED
        BY <1>5, <3>1
    <2> QED
      BY <1>1, <1>5, <2>1, <2>2 DEF EndLsn
  <1>8. Covers(t, {r \in N : r.lsn >= lsn})
    <2>1. SUFFICES ASSUME NEW r \in N, r.lsn >= lsn
                   PROVE  \E i \in 1..Len(t) : t[i] = r
      BY DEF Covers
    <2>2. PICK j \in 1..Len(s) : s[j] = r
      BY DEF Sound, Covers
    <2>3. j >= f
      BY <1>3, <2>1, <2>2
    <2>4. j - f + 1 \in 1..Len(t) /\ t[j - f + 1] = s[j]
      <3>1. j - f + 1 \in 1..Len(t) /\ f + (j - f + 1) - 1 = j
        BY <1>1, <1>3, <1>4, <2>3
      <3> QED
        BY <1>5, <3>1
    <2> QED
      BY <2>2, <2>4
  <1>9. KeptFrom(s, lsn) = t
    BY DEF KeptFrom, t, f, P
  <1> QED
    <2>1. \A i \in 1..Len(t) : \E j \in 1..Len(s) : t[i] = s[j]
      BY <1>5
    <2> QED
      BY <1>4, <1>5, <1>6, <1>7, <1>8, <1>9, <2>1 DEF Sound

-----------------------------------------------------------------------------
(* The invariant is inductive. *)

\* A fresh directory satisfies the invariant.
LEMMA InitInv == Init => WALInv
  <1>1. SUFFICES ASSUME Init PROVE WALInv
    OBVIOUS
  <1>2. Keeps(<<>>)
    BY <1>1 DEF Init, Keeps, Sound, Chained, Whole, Covers, EndLsn, End
  <1>3. WALTypeOK
    <2>1. <<>> \in Seq(Cell) /\ <<>> \in Seq(Records) /\ {} \in SUBSET Seq(Cell)
      OBVIOUS
    <2>2. 0 \in Nat /\ FALSE \in BOOLEAN /\ {} \in SUBSET Records /\ "closed" \in Phases
      BY DEF Phases
    <2> QED
      BY <1>1, <2>1, <2>2 DEF Init, WALTypeOK
  <1> QED
    BY <1>1, <1>2, <1>3 DEF Init, WALInv, Recovered

\* Every file a power loss can leave is as sound as the one in use.
LEMMA MediaKeep ==
    ASSUME WALInv, NEW m \in Media
    PROVE  m \in Seq(Cell) /\ Keeps(m)
  <1>1. CASE m \in {file, durable} \cup stale
    BY <1>1 DEF WALInv, WALTypeOK
  <1>2. CASE m \in TornTails
    <2>1. PICK k \in TornKinds : m = Append(durable, Torn(k)) /\ AllGood(durable)
      BY <1>2 DEF TornTails, WALInv
    <2> QED
      BY <2>1, AppendKeeps DEF WALInv, WALTypeOK, Keeps
  <1> QED
    BY <1>1, <1>2 DEF Media

\* Steps that leave the files and the ghosts as they are.
LEMMA OpenInv == WALInv /\ Open => WALInv'
  BY DEF WALInv, WALTypeOK, Open, Keeps, Recovered, Phases

\* replay() cuts the file back to its good part, which holds all that is needed,
\* and counts on from its last record.
LEMMA ReplayInv == WALInv /\ Replay => WALInv'
  <1>1. SUFFICES ASSUME WALInv, Replay PROVE WALInv'
    OBVIOUS
  <1>2. /\ file' \in Seq(Cell) /\ AllGood(file') /\ Keeps(file)'
        /\ current_lsn' = EndLsn(file') /\ current_lsn' \in Nat
        /\ Len(file') <= Len(file) /\ Len(file') \in Nat
        /\ Len(file') < Len(file) => Len(file') + 1 = Len(file)
    <2>1. EndLsn(file) \in Nat
      BY <1>1, EndIsGood DEF WALInv, WALTypeOK, Keeps, Sound, Chained
    <2>2. /\ file \in Seq(Cell) /\ needed \in SUBSET Records /\ lastAcked \in Nat
          /\ Sound(file, needed, lastAcked)
          /\ file' = GoodPart(file) /\ current_lsn' = LastLsn(file)
          /\ needed' = needed /\ lastAcked' = lastAcked
      BY <1>1 DEF Replay, WALInv, WALTypeOK, Keeps
    <2>3. /\ file' \in Seq(Cell) /\ AllGood(file') /\ Sound(file', needed, lastAcked)
          /\ EndLsn(file') = EndLsn(file) /\ LastLsn(file) = EndLsn(file)
          /\ Len(file') <= Len(file) /\ (Len(file') < Len(file) => Len(file') + 1 = Len(file))
      BY <2>2, GoodPartKeeps
    <2> QED
      BY <2>1, <2>2, <2>3 DEF Keeps
  <1>3. WALTypeOK'
    BY <1>1, <1>2 DEF WALInv, WALTypeOK, Replay, Phases
  <1>4. /\ Len(file') <= Len(durable') + 1
        /\ Len(file') = Len(durable') + 1 => AllGood(durable')
    <2>1. Len(file) \in Nat /\ Len(durable) \in Nat
      BY <1>1 DEF WALInv, WALTypeOK
    <2> QED
      BY <1>1, <1>2, <2>1 DEF WALInv, Replay
  <1> QED
    BY <1>1, <1>2, <1>3, <1>4 DEF WALInv, Replay, Keeps, Recovered

\* The fsync of replay() makes the cut durable.
LEMMA ReplaySyncInv == WALInv /\ ReplaySync => WALInv'
  BY DEF WALInv, WALTypeOK, ReplaySync, Keeps, Recovered, Phases

\* _append adds the next record to a file of good ones: what may be torn of it
\* comes after everything that is needed.
LEMMA AppendWriteInv == WALInv /\ (\E p \in Payload : AppendWrite(p)) => WALInv'
  <1>1. SUFFICES ASSUME WALInv, NEW p \in Payload, AppendWrite(p) PROVE WALInv'
    OBVIOUS
  <1>2. /\ AllGood(file) /\ durable = file /\ current_lsn = EndLsn(file)
        /\ file \in Seq(Cell) /\ Keeps(file)
    BY <1>1 DEF WALInv, WALTypeOK, AppendWrite, Recovered
  <1>3. /\ file' = Append(file, Record(current_lsn + 1, p))
        /\ file' \in Seq(Cell) /\ AllGood(file') /\ Sound(file', needed, lastAcked)
        /\ EndLsn(file') = current_lsn + 1
    BY <1>1, <1>2, AppendKeeps DEF AppendWrite, Keeps, WALInv, WALTypeOK
  <1>4. /\ Len(file') = Len(file) + 1 /\ file' # <<>>
        /\ file' = Append(durable, file'[Len(file')])
    BY <1>2, <1>3
  <1>5. WALTypeOK'
    BY <1>1, <1>3 DEF WALInv, WALTypeOK, AppendWrite, Phases
  <1> QED
    BY <1>1, <1>2, <1>3, <1>4, <1>5 DEF WALInv, AppendWrite, Keeps, Recovered

\* Once fsynced, the new record is needed, and it is in the file.
LEMMA AppendSyncInv == WALInv /\ AppendSync => WALInv'
  <1>1. SUFFICES ASSUME WALInv, AppendSync PROVE WALInv'
    OBVIOUS
  <1>2. /\ file \in Seq(Cell) /\ AllGood(file) /\ file # <<>> /\ Keeps(file)
        /\ current_lsn = EndLsn(file) /\ (online => stale = {})
    BY <1>1 DEF WALInv, WALTypeOK, AppendSync, Recovered
  <1>3. file[Len(file)] \in Records /\ Len(file) \in 1..Len(file)
    BY <1>2, CellKinds DEF AllGood
  <1>4. WALTypeOK'
    BY <1>1, <1>3 DEF WALInv, WALTypeOK, AppendSync, Phases
  <1>5. Keeps(file)'
    BY <1>1, <1>2, <1>3 DEF AppendSync, Keeps, Sound, Covers, WALInv, WALTypeOK
  <1>6. \A s \in stale' : Keeps(s)'
    BY <1>1, <1>2 DEF AppendSync, Keeps, WALInv
  <1> QED
    BY <1>1, <1>2, <1>4, <1>5, <1>6 DEF WALInv, WALTypeOK, AppendSync, Keeps, Recovered

\* The temp file of truncate_before holds every record that is still needed.
LEMMA RotateWriteInv == WALInv /\ (\E lsn \in 1..current_lsn : RotateWrite(lsn)) => WALInv'
  <1>1. SUFFICES ASSUME WALInv, NEW lsn \in 1..current_lsn, RotateWrite(lsn) PROVE WALInv'
    OBVIOUS
  <1>2. /\ AllGood(file) /\ durable = file /\ current_lsn = EndLsn(file)
        /\ file \in Seq(Cell) /\ Sound(file, needed, lastAcked)
        /\ needed \in SUBSET Records /\ lastAcked \in Nat
    BY <1>1 DEF WALInv, WALTypeOK, RotateWrite, Recovered, Keeps
  <1>3. /\ temp' \in Seq(Records) /\ temp' # <<>> /\ AllGood(temp')
        /\ Sound(temp', needed', lastAcked') /\ EndLsn(temp') = current_lsn'
    BY <1>1, <1>2, KeptFromKeeps DEF RotateWrite
  <1>4. WALTypeOK'
    BY <1>1, <1>3 DEF WALInv, WALTypeOK, RotateWrite, Phases
  <1>5. \A s : Keeps(s) => Keeps(s)'
    BY <1>1 DEF RotateWrite, Keeps, Sound, Covers
  <1> QED
    BY <1>1, <1>2, <1>3, <1>4, <1>5 DEF WALInv, RotateWrite, Keeps, Recovered

\* Both the log that is replaced and the one that replaces it will do.
LEMMA RotateRenameInv == WALInv /\ RotateRename => WALInv'
  <1>1. SUFFICES ASSUME WALInv, RotateRename PROVE WALInv'
    OBVIOUS
  <1>2. temp \in Seq(Cell) /\ AllGood(temp) /\ current_lsn = EndLsn(temp)
    <2>1. Records \subseteq Cell
      BY DEF Cell
    <2> QED
      BY <1>1, <2>1 DEF WALInv, WALTypeOK, RotateRename
  <1>3. WALTypeOK'
    BY <1>1, <1>2 DEF WALInv, WALTypeOK, RotateRename, Phases
  <1>4. Keeps(file)' /\ Keeps(durable)' /\ \A s \in stale' : Keeps(s)'
    BY <1>1 DEF WALInv, RotateRename, Keeps
  <1> QED
    BY <1>1, <1>2, <1>3, <1>4 DEF WALInv, WALTypeOK, RotateRename, Recovered

\* After the fsync of the directory only the new log can come back.
LEMMA RotateSyncInv == WALInv /\ RotateSync => WALInv'
  BY DEF WALInv, WALTypeOK, RotateSync, Keeps, Recovered, Phases

\* close() only makes the file durable.
LEMMA CloseInv == WALInv /\ Close => WALInv'
  <1>1. SUFFICES ASSUME WALInv, Close PROVE WALInv'
    OBVIOUS
  <1>2. WALTypeOK'
    BY <1>1 DEF WALInv, WALTypeOK, Close, Phases
  <1>3. Len(file') \in Nat /\ Len(durable') = Len(file')
    BY <1>1, <1>2 DEF WALTypeOK, Close
  <1>4. Keeps(file)' /\ Keeps(durable)' /\ \A s \in stale' : Keeps(s)'
    BY <1>1 DEF WALInv, Close, Keeps
  <1> QED
    BY <1>1, <1>2, <1>3, <1>4 DEF WALInv, Close, Recovered

\* A kill leaves the file, without its last record, or with that record torn.
LEMMA KillInv == WALInv /\ Kill => WALInv'
  <1>1. SUFFICES ASSUME WALInv, Kill PROVE WALInv'
    OBVIOUS
  <1>2. PICK f \in {file, durable} \cup {Append(durable, Torn(k)) : k \in TornKinds} :
          /\ file' = f
          /\ f # file => wpc = "appended"
    BY <1>1 DEF Kill
  <1>3. wpc = "appended" => AllGood(durable) /\ Len(durable) \in Nat
    BY <1>1 DEF WALInv, WALTypeOK
  <1>4. /\ f \in Seq(Cell) /\ Keeps(f)
        /\ Len(f) <= Len(durable) + 1
        /\ Len(f) = Len(durable) + 1 => AllGood(durable)
    <2>1. CASE f = file
      BY <1>1, <2>1 DEF WALInv, WALTypeOK
    <2>2. CASE f # file /\ f = durable
      BY <1>1, <1>2, <1>3, <2>2 DEF WALInv, WALTypeOK
    <2>3. CASE f # file /\ f # durable
      <3>1. PICK k \in TornKinds : f = Append(durable, Torn(k))
        BY <1>2, <2>3
      <3>2. f \in Seq(Cell) /\ Keeps(f)
        BY <1>1, <1>2, <1>3, <2>3, <3>1, AppendKeeps DEF WALInv, WALTypeOK, Keeps
      <3>3. Len(f) = Len(durable) + 1
        BY <1>1, <3>1 DEF WALInv, WALTypeOK
      <3> QED
        BY <1>2, <1>3, <2>3, <3>2, <3>3
    <2> QED
      BY <2>1, <2>2, <2>3
  <1>5. WALTypeOK'
    BY <1>1, <1>2, <1>4 DEF WALInv, WALTypeOK, Kill, Phases
  <1> QED
    BY <1>1, <1>2, <1>4, <1>5 DEF WALInv, Kill, Keeps, Recovered

\* Whichever of the files a power loss leaves, it is sound.
LEMMA PowerLossInv == WALInv /\ PowerLoss => WALInv'
  <1>1. SUFFICES ASSUME WALInv, PowerLoss PROVE WALInv'
    OBVIOUS
  <1>2. file' \in Seq(Cell) /\ Keeps(file') /\ Len(file') \in Nat
    BY <1>1, MediaKeep DEF PowerLoss
  <1>3. WALTypeOK'
    BY <1>1, <1>2 DEF WALInv, WALTypeOK, PowerLoss, Phases
  <1> QED
    BY <1>1, <1>2, <1>3 DEF WALInv, PowerLoss, Keeps, Recovered

\* Every step of the log preserves the invariant.
LEMMA NextInv == WALInv /\ [Next]_walVars => WALInv'
  <1>1. WALInv /\ UNCHANGED walVars => WALInv'
    BY DEF WALInv, WALTypeOK, walVars, Keeps
  <1> QED
    BY <1>1, OpenInv, ReplayInv, ReplaySyncInv, AppendWriteInv, AppendSyncInv,
       RotateWriteInv, RotateRenameInv, RotateSyncInv, CloseInv, KillInv, PowerLossInv
       DEF Next

\* What is acknowledged is decoded from every file an interruption can leave.
LEMMA InvKeepsAcked == WALInv => AckedSurvive
  <1>1. SUFFICES ASSUME WALInv, NEW m \in Media, NEW r \in needed
                 PROVE  \E i \in 1..GoodLen(m) : m[i] = r
    BY DEF AckedSurvive
  <1>2. m \in Seq(Cell) /\ Chained(m) /\ Covers(m, needed)
    BY <1>1, MediaKeep DEF Keeps, Sound
  <1>3. r.kind = "good"
    BY <1>1 DEF WALInv, WALTypeOK, Records
  <1>4. PICK i \in 1..Len(m) : m[i] = r
    BY <1>2 DEF Covers
  <1> QED
    BY <1>2, <1>3, <1>4, GoodLenIsEnd, EndIsGood DEF Chained

\* And without zeros every such file can be read.
LEMMA InvReadable == ASSUME "zeros" \notin TornKinds PROVE WALInv => LogReadable
  BY MediaKeep, ChainedIsReadable DEF LogReadable, Keeps, Sound

-----------------------------------------------------------------------------
(* How far back the files reach, for the users of the log: a step that is  *)
(* not the rename of a rotation does not move the start of any file beyond *)
(* an LSN that all of them reach back to.                                  *)

First(s) == IF End(s) = 0 THEN 0 ELSE s[1].lsn

Files == {file, durable} \cup stale

BackTo(n) == \A s \in Files : First(s) <= n + 1

\* Every file starts at or below the first LSN that could be missing in the log.
StartsInReach == \A f \in {file, durable} : BackTo(EndLsn(f))

\* The start of a chained file, and what a torn cell or a cut leaves of it.
LEMMA FirstInReach ==
    ASSUME NEW s \in Seq(Cell), Chained(s)
    PROVE  First(s) \in Nat /\ EndLsn(s) \in Nat /\ First(s) <= EndLsn(s)
  <1>1. /\ Len(s) \in Nat /\ End(s) \in 0..Len(s) /\ EndLsn(s) \in Nat
        /\ \A i \in 1..End(s) : s[i].kind = "good"
    BY EndIsGood DEF Chained
  <1>2. CASE End(s) = 0
    BY <1>1, <1>2 DEF First, EndLsn
  <1>3. CASE End(s) # 0
    <2>1. End(s) \in 1..Len(s) /\ s[End(s)].kind = "good" /\ End(s) >= 1
      BY <1>1, <1>3
    <2>2. s[1].lsn \in Nat /\ s[End(s)].lsn = s[1].lsn + (End(s) - 1)
      BY <2>1, ChainedLsns
    <2> QED
      BY <1>1, <1>3, <2>1, <2>2 DEF First, EndLsn
  <1> QED
    BY <1>2, <1>3

LEMMA FirstOfTorn ==
    ASSUME NEW s \in Seq(Cell), AllGood(s), NEW k \in TornKinds
    PROVE  First(Append(s, Torn(k))) = First(s) /\ EndLsn(Append(s, Torn(k))) = EndLsn(s)
  <1> DEFINE t == Append(s, Torn(k))
  <1>1. Torn(k) \in Cell /\ Torn(k).kind # "good"
    BY WALAssumption DEF Torn, Cell
  <1>2. /\ Len(s) \in Nat /\ Len(t) = Len(s) + 1 /\ t[Len(t)].kind # "good"
        /\ \A i \in 1..Len(s) : t[i] = s[i]
    BY <1>1
  <1> HIDE DEF t
  <1>3. End(t) = Len(s) /\ End(s) = Len(s)
    BY <1>2 DEF End, AllGood
  <1>4. Len(s) # 0 => t[1] = s[1] /\ t[Len(s)] = s[Len(s)]
    BY <1>2
  <1> QED
    BY <1>3, <1>4 DEF First, EndLsn, t

LEMMA FirstOfGoodPart ==
    ASSUME NEW s \in Seq(Cell), Whole(s) PROVE First(GoodPart(s)) = First(s)
  <1> DEFINE t == GoodPart(s)
  <1>1. /\ Len(s) \in Nat /\ End(s) \in 0..Len(s) /\ GoodLen(s) = End(s)
        /\ \A i \in 1..End(s) : s[i].kind = "good"
    BY EndIsGood, GoodLenIsEnd
  <1>2. /\ Len(t) = End(s) /\ \A i \in 1..End(s) : t[i] = s[i]
    BY <1>1 DEF GoodPart
  <1> HIDE DEF t
  <1>3. End(t) = End(s)
    <2> DEFINE e == End(s)
    <2>1. e # 0 => t[e].kind = "good"
      BY <1>1, <1>2
    <2> HIDE DEF e
    <2>2. Len(t) = e
      BY <1>2 DEF e
    <2> QED
      BY <2>1, <2>2 DEF End, e
  <1>4. End(s) # 0 => t[1] = s[1]
    BY <1>1, <1>2
  <1> QED
    BY <1>3, <1>4 DEF First, t

\* The first record of an empty log is its start, with the LSN 1.
LEMMA FirstOfAppend ==
    ASSUME NEW s \in Seq(Cell), AllGood(s), NEW p \in Payload
    PROVE  First(Append(s, Record(EndLsn(s) + 1, p))) = IF Len(s) = 0 THEN 1 ELSE First(s)
  <1> DEFINE c == Record(EndLsn(s) + 1, p)
             t == Append(s, c)
  <1>1. c.kind = "good" /\ c.lsn = EndLsn(s) + 1
    BY DEF Record
  <1> HIDE DEF c
  <1>2. /\ Len(s) \in Nat /\ Len(t) = Len(s) + 1 /\ t[Len(s) + 1] = c
        /\ \A i \in 1..Len(s) : t[i] = s[i]
    OBVIOUS
  <1> HIDE DEF t
  <1>3. End(t) = Len(s) + 1 /\ End(s) = Len(s)
    BY <1>1, <1>2 DEF End, AllGood
  <1>4. CASE Len(s) = 0
    BY <1>1, <1>2, <1>3, <1>4 DEF First, EndLsn, t, c
  <1>5. CASE Len(s) # 0
    <2>1. t[1] = s[1]
      BY <1>2, <1>5
    <2> QED
      BY <1>2, <1>3, <1>5, <2>1 DEF First, t, c
  <1> QED
    BY <1>4, <1>5

\* The files of a step: which of them are there, and how the new ones start.
LEMMA FilesChained == ASSUME WALInv, NEW s \in Files PROVE s \in Seq(Cell) /\ Chained(s)
  BY DEF WALInv, WALTypeOK, Files, Keeps, Sound

\* A file that a kill leaves starts and ends as one that was there.
LEMMA KillLeaves ==
    ASSUME WALInv, Kill
    PROVE  \E g \in {file, durable} : First(file') = First(g) /\ EndLsn(file') = EndLsn(g)
  <1>1. CASE file' \in {file, durable}
    BY <1>1
  <1>2. CASE file' \notin {file, durable}
    <2>1. wpc = "appended"
      BY <1>2 DEF Kill
    <2>2. PICK k \in TornKinds : file' = Append(durable, Torn(k))
      BY <1>2 DEF Kill
    <2>3. durable \in Seq(Cell) /\ AllGood(durable)
      <3>1. file # <<>> /\ file = Append(durable, file[Len(file)])
        BY <2>1 DEF WALInv
      <3>2. durable \in Seq(Cell) /\ Len(file) = Len(durable) + 1
        BY <3>1 DEF WALInv, WALTypeOK
      <3> QED
        BY <3>2 DEF WALInv
    <2> QED
      BY <2>2, <2>3, FirstOfTorn
  <1> QED
    BY <1>1, <1>2

\* Every file that can be left starts as one of the files, if torn.
LEMMA MediaStart ==
    ASSUME WALInv, NEW m \in Media
    PROVE  \E s \in Files : First(m) = First(s)
  <1>1. CASE m \in Files
    BY <1>1
  <1>2. CASE m \notin Files
    <2>1. PICK k \in TornKinds : m = Append(durable, Torn(k)) /\ AllGood(durable)
      BY <1>2 DEF Media, Files, TornTails, WALInv
    <2>2. durable \in Seq(Cell) /\ durable \in Files
      BY DEF WALInv, WALTypeOK, Files
    <2> QED
      BY <2>1, <2>2, FirstOfTorn
  <1> QED
    BY <1>1, <1>2

\* The record of an append, and the records that a rotation has kept.
LEMMA AppendStarts ==
    ASSUME WALInv, NEW p \in Payload, AppendWrite(p)
    PROVE  /\ First(file') = (IF Len(file) = 0 THEN 1 ELSE First(file))
           /\ EndLsn(file') = EndLsn(file) + 1 /\ EndLsn(file) \in Nat
           /\ durable' = file /\ stale' = stale
  <1>1. /\ AllGood(file) /\ durable = file /\ current_lsn = EndLsn(file)
        /\ file \in Seq(Cell) /\ Sound(file, needed, lastAcked)
        /\ needed \in SUBSET Records /\ lastAcked \in Nat
    BY DEF WALInv, WALTypeOK, AppendWrite, Recovered, Keeps
  <1>2. /\ file' = Append(file, Record(EndLsn(file) + 1, p))
        /\ durable' = file /\ stale' = stale
    BY <1>1 DEF AppendWrite
  <1>3. EndLsn(file') = EndLsn(file) + 1
    BY <1>1, <1>2, AppendKeeps
  <1>4. First(file') = IF Len(file) = 0 THEN 1 ELSE First(file)
    BY <1>1, <1>2, FirstOfAppend
  <1> QED
    BY <1>1, <1>2, <1>3, <1>4, FirstInReach DEF Sound

LEMMA RenameStarts ==
    ASSUME WALInv, RotateRename
    PROVE  /\ First(temp) \in Nat /\ First(temp) <= current_lsn
           /\ EndLsn(temp) = current_lsn /\ EndLsn(file) = current_lsn
           /\ file' = temp /\ durable' = temp /\ stale' = stale \cup {durable}
  <1>1. /\ temp \in Seq(Records) /\ Chained(temp) /\ EndLsn(temp) = current_lsn
        /\ EndLsn(file) = current_lsn
    BY DEF RotateRename, WALInv, WALTypeOK, Keeps, Sound, Recovered
  <1>2. temp \in Seq(Cell)
    BY <1>1 DEF Cell
  <1> QED
    BY <1>1, <1>2, FirstInReach DEF RotateRename

LEMMA ReplayStarts ==
    ASSUME WALInv, Replay
    PROVE  /\ First(file') = First(file) /\ EndLsn(file') = EndLsn(file)
           /\ durable' = durable /\ stale' = stale
  <1>1. /\ file \in Seq(Cell) /\ Sound(file, needed, lastAcked)
        /\ needed \in SUBSET Records /\ lastAcked \in Nat
    BY DEF WALInv, WALTypeOK, Keeps
  <1>2. file' = GoodPart(file) /\ durable' = durable /\ stale' = stale
    BY DEF Replay
  <1>3. EndLsn(file') = EndLsn(file)
    BY <1>1, <1>2, GoodPartKeeps
  <1> QED
    BY <1>1, <1>2, <1>3, FirstOfGoodPart DEF Sound, Chained

\* The steps that make no file of their own.
QuietStep ==
    /\ file' = file /\ durable' \in {file, durable} /\ stale' \subseteq stale

LEMMA QuietSteps ==
    ASSUME UNCHANGED walVars \/ Open \/ ReplaySync \/ AppendSync \/ RotateSync \/ Close
              \/ (\E lsn \in 1..current_lsn : RotateWrite(lsn))
    PROVE  QuietStep
  BY DEF QuietStep, walVars, Open, ReplaySync, AppendSync, RotateSync, Close, RotateWrite

\* Wherever all files reach back to, they still do after a step, unless it is
\* the rename of a rotation that has dropped more.
LEMMA StepStarts ==
    ASSUME WALInv, [Next]_walVars, NEW n \in Nat, BackTo(n),
           wpc = "rotating" => current_lsn <= n
    PROVE  \A s \in {file', durable'} \cup stale' : First(s) <= n + 1
  <1>1. CASE QuietStep
    BY <1>1 DEF QuietStep, BackTo, Files
  <1>2. CASE Replay
    BY <1>2, ReplayStarts DEF BackTo, Files
  <1>3. CASE \E p \in Payload : AppendWrite(p)
    BY <1>3, AppendStarts DEF BackTo, Files
  <1>4. CASE RotateRename
    <2>1. wpc = "rotating" /\ current_lsn \in Nat
      BY <1>4 DEF RotateRename, WALInv, WALTypeOK
    <2>2. First(temp) <= n + 1
      BY <1>4, <2>1, RenameStarts
    <2> QED
      BY <1>4, <2>2, RenameStarts DEF BackTo, Files
  <1>5. CASE Kill
    <2>1. PICK g \in {file, durable} : First(file') = First(g)
      BY <1>5, KillLeaves
    <2>2. durable' = durable /\ stale' = stale
      BY <1>5 DEF Kill
    <2> QED
      BY <2>1, <2>2 DEF BackTo, Files
  <1>6. CASE PowerLoss
    <2>1. file' \in Media /\ durable' = file' /\ stale' = {}
      BY <1>6 DEF PowerLoss
    <2>2. PICK s \in Files : First(file') = First(s)
      BY <2>1, MediaStart
    <2> QED
      BY <2>1, <2>2 DEF BackTo
  <1> QED
    BY <1>1, <1>2, <1>3, <1>4, <1>5, <1>6, QuietSteps DEF Next

\* No step but a power loss makes a file that ends below both of the old ones.
LEMMA StepEnds ==
    ASSUME WALInv, [Next]_walVars, ~PowerLoss
    PROVE  \A f \in {file', durable'} : \E g \in {file, durable} :
              EndLsn(g) \in Nat /\ EndLsn(f) \in Nat /\ EndLsn(g) <= EndLsn(f)
  <1>0. \A g \in {file, durable} : EndLsn(g) \in Nat
    BY FilesChained, FirstInReach DEF Files
  <1>1. CASE QuietStep
    BY <1>0, <1>1 DEF QuietStep
  <1>2. CASE Replay
    BY <1>0, <1>2, ReplayStarts
  <1>3. CASE \E p \in Payload : AppendWrite(p)
    BY <1>0, <1>3, AppendStarts
  <1>4. CASE RotateRename
    BY <1>0, <1>4, RenameStarts
  <1>5. CASE Kill
    <2>1. PICK g \in {file, durable} : EndLsn(file') = EndLsn(g)
      BY <1>5, KillLeaves
    <2>2. durable' = durable
      BY <1>5 DEF Kill
    <2> QED
      BY <1>0, <2>1, <2>2
  <1> QED
    BY <1>1, <1>2, <1>3, <1>4, <1>5, QuietSteps DEF Next

\* The files stay in reach of each other.
LEMMA StepInReach ==
    ASSUME WALInv, [Next]_walVars, StartsInReach, WALInv'
    PROVE  StartsInReach'
  <1>1. CASE PowerLoss
    <2>1. file' \in Seq(Cell) /\ Chained(file') /\ durable' = file' /\ stale' = {}
      <3>1. file' \in Media /\ durable' = file' /\ stale' = {}
        BY <1>1 DEF PowerLoss
      <3> QED
        BY <3>1, MediaKeep DEF Keeps, Sound
    <2>2. First(file') <= EndLsn(file') + 1
      BY <2>1, FirstInReach
    <2> QED
      BY <2>1, <2>2 DEF StartsInReach, BackTo, Files
  <1>2. CASE ~PowerLoss
    <2>1. SUFFICES ASSUME NEW f \in {file', durable'}, NEW s \in {file', durable'} \cup stale'
                   PROVE  First(s) <= EndLsn(f) + 1
      BY DEF StartsInReach, BackTo, Files
    <2>2. PICK g \in {file, durable} :
            EndLsn(g) \in Nat /\ EndLsn(f) \in Nat /\ EndLsn(g) <= EndLsn(f)
      BY <1>2, StepEnds
    <2>3. wpc = "rotating" => current_lsn <= EndLsn(g)
      <3>1. wpc = "rotating" => current_lsn = EndLsn(file) /\ durable = file
        BY DEF WALInv, Recovered
      <3> QED
        BY <2>2, <3>1
    <2>4. First(s) <= EndLsn(g) + 1
      BY <2>2, <2>3, StepStarts DEF StartsInReach
    <2>5. First(s) \in Nat
      <3>1. s \in Seq(Cell) /\ Chained(s)
        BY DEF WALInv, WALTypeOK, Keeps, Sound
      <3> QED
        BY <3>1, FirstInReach
    <2> QED
      BY <2>2, <2>4, <2>5
  <1> QED
    BY <1>1, <1>2

\* A file that reaches back to the LSN n has every LSN from there to what was
\* acknowledged.
LEMMA ReachIsComplete ==
    ASSUME WALInv, NEW n \in Nat, BackTo(n), NEW m \in Media, NEW k \in (n + 1)..lastAcked
    PROVE  \E i \in 1..GoodLen(m) : m[i].lsn = k
  <1>1. m \in Seq(Cell) /\ Chained(m) /\ lastAcked <= EndLsn(m) /\ lastAcked \in Nat
    BY MediaKeep DEF Keeps, Sound, WALInv, WALTypeOK
  <1>2. /\ Len(m) \in Nat /\ End(m) \in 0..Len(m) /\ EndLsn(m) \in Nat /\ GoodLen(m) = End(m)
        /\ \A i \in 1..End(m) : m[i].kind = "good"
    BY <1>1, EndIsGood, GoodLenIsEnd DEF Chained
  <1>3. End(m) # 0
    BY <1>1, <1>2 DEF EndLsn
  <1>4. \A i \in 1..End(m) : m[i].lsn = m[1].lsn + (i - 1) /\ m[1].lsn \in Nat
    <2>1. SUFFICES ASSUME NEW i \in 1..End(m)
                   PROVE  m[i].lsn = m[1].lsn + (i - 1) /\ m[1].lsn \in Nat
      OBVIOUS
    <2>2. i \in 1..Len(m) /\ m[i].kind = "good"
      BY <1>2
    <2> QED
      BY <1>1, <2>2, ChainedLsns
  <1>5. m[1].lsn <= n + 1
    BY <1>3, MediaStart DEF BackTo, First
  <1>6. lastAcked <= m[1].lsn + (End(m) - 1) /\ m[1].lsn \in Nat
    BY <1>1, <1>2, <1>3, <1>4 DEF EndLsn
  <1> DEFINE j == k - m[1].lsn + 1
             e == End(m)
             b == m[1].lsn
  <1>7. e \in Nat /\ b \in Nat /\ b <= n + 1 /\ lastAcked <= b + (e - 1)
    BY <1>2, <1>5, <1>6
  <1> HIDE DEF e, b
  <1>8. k - b + 1 \in 1..e
    BY <1>1, <1>7
  <1>9. j \in 1..End(m)
    BY <1>8 DEF e, b
  <1>10. m[j].lsn = m[1].lsn + (j - 1)
    BY <1>4, <1>9
  <1>11. m[j].lsn = k
    BY <1>1, <1>6, <1>10
  <1> QED
    BY <1>2, <1>9, <1>11

-----------------------------------------------------------------------------
(* What is read from the files, for the users of the log: no step but an   *)
(* append and the rename of a rotation brings a record to a place where it *)
(* was not.                                                                *)

\* The good part of a chained file: records whose LSNs go up to EndLsn.
LEMMA GoodPartReads ==
    ASSUME NEW s \in Seq(Cell), Chained(s)
    PROVE  /\ GoodPart(s) \in Seq(Records)
           /\ \A i \in 1..Len(GoodPart(s)) :
                GoodPart(s)[i].lsn \in Nat \ {0} /\ GoodPart(s)[i].lsn <= EndLsn(s)
           /\ EndLsn(s) \in Nat
  <1> DEFINE t == GoodPart(s)
  <1>1. /\ Len(s) \in Nat /\ End(s) \in 0..Len(s) /\ GoodLen(s) = End(s) /\ EndLsn(s) \in Nat
        /\ \A i \in 1..End(s) : s[i].kind = "good"
    BY EndIsGood, GoodLenIsEnd DEF Chained
  <1>2. /\ t \in Seq(Cell) /\ Len(t) = End(s)
        /\ \A i \in 1..End(s) : t[i] = s[i]
    BY <1>1 DEF GoodPart
  <1> HIDE DEF t
  <1>3. ASSUME NEW i \in 1..End(s)
        PROVE  t[i] \in Records /\ t[i].lsn \in Nat \ {0} /\ t[i].lsn <= EndLsn(s)
    <2>1. i \in 1..Len(s) /\ s[i].kind = "good" /\ End(s) \in 1..Len(s) /\ End(s) # 0
      BY <1>1
    <2>2. s[i] \in Records /\ s[i].lsn \in Nat \ {0} /\ s[i].lsn = s[1].lsn + (i - 1)
          /\ s[1].lsn \in Nat
      BY <2>1, ChainedLsns
    <2>3. s[End(s)].lsn = s[1].lsn + (End(s) - 1)
      BY <1>1, <2>1, ChainedLsns
    <2> QED
      BY <1>1, <1>2, <2>1, <2>2, <2>3 DEF EndLsn
  <1>4. t \in Seq(Records)
    BY <1>2, <1>3
  <1> QED
    BY <1>1, <1>2, <1>3, <1>4 DEF t

\* All of a good file is read, and a torn cell is not.
LEMMA GoodPartOfGood ==
    ASSUME NEW s \in Seq(Cell), AllGood(s)
    PROVE  GoodPart(s) = s
  <1>1. Whole(s) /\ Len(s) \in Nat
    BY DEF AllGood, Whole
  <1>2. GoodLen(s) = Len(s)
    BY <1>1, EndIsGood, GoodLenIsEnd
  <1> QED
    BY <1>2 DEF GoodPart

LEMMA GoodPartOfTorn ==
    ASSUME NEW s \in Seq(Cell), AllGood(s), NEW k \in TornKinds
    PROVE  GoodPart(Append(s, Torn(k))) = s
  <1> DEFINE t == Append(s, Torn(k))
  <1>1. Torn(k) \in Cell /\ Torn(k).kind # "good"
    BY WALAssumption DEF Torn, Cell
  <1>2. /\ t \in Seq(Cell) /\ Len(s) \in Nat /\ Len(t) = Len(s) + 1
        /\ t[Len(t)].kind # "good" /\ \A i \in 1..Len(s) : t[i] = s[i]
    BY <1>1
  <1> HIDE DEF t
  <1>3. Whole(t) /\ End(t) = Len(s)
    BY <1>2 DEF Whole, AllGood, End
  <1>4. GoodLen(t) = Len(s)
    BY <1>2, <1>3, GoodLenIsEnd
  <1>5. GoodPart(t) = SubSeq(t, 1, Len(s))
    BY <1>4 DEF GoodPart
  <1>6. SubSeq(t, 1, Len(s)) = s
    BY <1>2
  <1> QED
    BY <1>5, <1>6 DEF t

\* The cut of replay() takes nothing that was read.
LEMMA ReplayReads == ASSUME WALInv, Replay PROVE GoodPart(file') = GoodPart(file)
  <1>1. /\ file \in Seq(Cell) /\ Sound(file, needed, lastAcked)
        /\ needed \in SUBSET Records /\ lastAcked \in Nat
    BY DEF WALInv, WALTypeOK, Keeps
  <1>2. GoodPart(file) \in Seq(Cell) /\ AllGood(GoodPart(file))
    BY <1>1, GoodPartKeeps
  <1> QED
    BY <1>2, GoodPartOfGood DEF Replay

\* A kill leaves what was read before it, or what was read before the append.
LEMMA KillReads ==
    ASSUME WALInv, Kill
    PROVE  \E g \in {file, durable} :
                GoodPart(file') = GoodPart(g) /\ EndLsn(file') = EndLsn(g)
  <1>1. CASE file' \in {file, durable}
    BY <1>1
  <1>2. CASE file' \notin {file, durable}
    <2>1. wpc = "appended"
      BY <1>2 DEF Kill
    <2>2. PICK k \in TornKinds : file' = Append(durable, Torn(k))
      BY <1>2 DEF Kill
    <2>3. durable \in Seq(Cell) /\ AllGood(durable)
      <3>1. file # <<>> /\ file = Append(durable, file[Len(file)])
        BY <2>1 DEF WALInv
      <3>2. durable \in Seq(Cell) /\ Len(file) = Len(durable) + 1
        BY <3>1 DEF WALInv, WALTypeOK
      <3> QED
        BY <3>2 DEF WALInv
    <2> QED
      BY <2>2, <2>3, FirstOfTorn, GoodPartOfTorn, GoodPartOfGood
  <1> QED
    BY <1>1, <1>2

\* So does a power loss, or it brings back a replaced inode.
LEMMA MediaReads ==
    ASSUME WALInv, NEW m \in Media
    PROVE  \E s \in Files : GoodPart(m) = GoodPart(s) /\ EndLsn(m) = EndLsn(s)
  <1>1. CASE m \in Files
    BY <1>1
  <1>2. CASE m \notin Files
    <2>1. PICK k \in TornKinds : m = Append(durable, Torn(k)) /\ AllGood(durable)
      BY <1>2 DEF Media, Files, TornTails, WALInv
    <2>2. durable \in Seq(Cell) /\ durable \in Files
      BY DEF WALInv, WALTypeOK, Files
    <2> QED
      BY <2>1, <2>2, FirstOfTorn, GoodPartOfTorn, GoodPartOfGood
  <1> QED
    BY <1>1, <1>2

\* But for appends and the rename of a rotation, what is read from the files
\* after a step was read from one of them before it.
LEMMA StepReads ==
    ASSUME WALInv, QuietStep \/ Replay \/ Kill \/ PowerLoss
    PROVE  \A s \in {file', durable'} \cup stale' : \E g \in Files :
                GoodPart(s) = GoodPart(g) /\ EndLsn(s) = EndLsn(g)
  <1>1. CASE QuietStep
    BY <1>1 DEF QuietStep, Files
  <1>2. CASE Replay
    BY <1>2, ReplayReads, ReplayStarts DEF Files
  <1>3. CASE Kill
    <2>1. durable' = durable /\ stale' = stale
      BY <1>3 DEF Kill
    <2> QED
      BY <1>3, <2>1, KillReads DEF Files
  <1>4. CASE PowerLoss
    <2>1. file' \in Media /\ durable' = file' /\ stale' = {}
      BY <1>4 DEF PowerLoss
    <2> QED
      BY <2>1, MediaReads
  <1> QED
    BY <1>1, <1>2, <1>3, <1>4

\* An append adds one record to what is read, and nothing yet to what is kept.
LEMMA AppendReads ==
    ASSUME WALInv, NEW p \in Payload, AppendWrite(p)
    PROVE  /\ GoodPart(file') = Append(GoodPart(file), Record(current_lsn + 1, p))
           /\ GoodPart(durable) = GoodPart(file) /\ EndLsn(file) = current_lsn
           /\ EndLsn(file') = current_lsn + 1 /\ EndLsn(durable) = current_lsn
           /\ current_lsn \in Nat
  <1> DEFINE r == Record(current_lsn + 1, p)
  <1>1. /\ wpc = "ready" /\ file' = Append(file, r)
        /\ file \in Seq(Cell) /\ AllGood(file) /\ durable = file
        /\ current_lsn = EndLsn(file) /\ current_lsn \in Nat
    BY DEF AppendWrite, WALInv, WALTypeOK, Recovered
  <1>2. r \in Cell /\ r.kind = "good" /\ r.lsn = current_lsn + 1
    BY <1>1 DEF Record, Cell, Records
  <1> HIDE DEF r
  <1>3. /\ file' \in Seq(Cell) /\ Len(file) \in Nat /\ Len(file') = Len(file) + 1
        /\ file'[Len(file')] = r /\ \A i \in 1..Len(file) : file'[i] = file[i]
    BY <1>1, <1>2
  <1>4. AllGood(file')
    BY <1>1, <1>2, <1>3 DEF AllGood
  <1>5. EndLsn(file') = current_lsn + 1
    BY <1>2, <1>3, <1>4 DEF EndLsn, End, AllGood
  <1> QED
    BY <1>1, <1>3, <1>4, <1>5, GoodPartOfGood DEF r

\* A rotation keeps records of the file.
LEMMA RotateReads ==
    ASSUME WALInv, NEW lsn, RotateWrite(lsn)
    PROVE  /\ temp' \in Seq(Cell) /\ GoodPart(temp') = temp' /\ EndLsn(temp') = EndLsn(file)
           /\ GoodPart(file) = file
           /\ \A i \in 1..Len(temp') : \E j \in 1..Len(file) : temp'[i] = file[j]
  <1>1. /\ wpc = "ready" /\ temp' = KeptFrom(file, lsn) /\ lsn \in 1..EndLsn(file)
        /\ file \in Seq(Cell) /\ AllGood(file) /\ Sound(file, needed, lastAcked)
        /\ needed \in SUBSET Records /\ lastAcked \in Nat
    BY DEF RotateWrite, WALInv, WALTypeOK, Recovered, Keeps
  <1>2. /\ temp' \in Seq(Records) /\ AllGood(temp') /\ EndLsn(temp') = EndLsn(file)
        /\ \A i \in 1..Len(temp') : \E j \in 1..Len(file) : temp'[i] = file[j]
    BY <1>1, KeptFromKeeps
  <1>3. temp' \in Seq(Cell)
    BY <1>2 DEF Cell
  <1> QED
    BY <1>1, <1>2, <1>3, GoodPartOfGood

-----------------------------------------------------------------------------
(* The theorems. *)

\* The invariant above holds in every reachable state of the log.
THEOREM WALInvariant == Spec => []WALInv
  BY InitInv, NextInv, PTL DEF Spec

\* The files wal.py leaves and the fields of the WAL object have their types.
THEOREM WALTypeCorrect == Spec => []WALTypeOK
  <1>1. WALInv => WALTypeOK
    BY DEF WALInv
  <1> QED
    BY <1>1, WALInvariant, PTL

\* What _append acknowledged and no truncate_before dropped is decoded again
\* from any file that a kill or a power loss can leave.
THEOREM AcknowledgedRecordsSurvive == Spec => []AckedSurvive
  BY InvKeepsAcked, WALInvariant, PTL

\* If an interrupted write never leaves a frame of zeros, _iter_records accepts
\* every file an interruption can leave.
THEOREM LogStaysReadable ==
    ASSUME "zeros" \notin TornKinds PROVE Spec => []LogReadable
  BY InvReadable, WALInvariant, PTL

\* The LSN _append returns is larger than every LSN it returned before, across
\* any number of restarts.
THEOREM LsnsAreNotReused == Spec => AckedLsnsIncrease
  <1>1. WALInv /\ [Next]_walVars => [\A r \in needed' \ needed : r.lsn > lastAcked]_walVars
    <2>1. SUFFICES ASSUME WALInv, Next, NEW r \in needed' \ needed PROVE r.lsn > lastAcked
      OBVIOUS
    <2>2. AppendSync /\ r = file[Len(file)]
      BY <2>1 DEF Next, Open, Replay, ReplaySync, AppendWrite, AppendSync, RotateWrite,
                  RotateRename, RotateSync, Close, Kill, PowerLoss
    <2>3. /\ file \in Seq(Cell) /\ durable \in Seq(Cell) /\ AllGood(file) /\ file # <<>>
          /\ Chained(file) /\ Chained(durable) /\ lastAcked <= EndLsn(durable)
          /\ file = Append(durable, file[Len(file)]) /\ lastAcked \in Nat
      BY <2>1, <2>2 DEF WALInv, WALTypeOK, AppendSync, Recovered, Keeps, Sound
    <2> DEFINE n == Len(durable)
    <2>4. /\ n \in Nat /\ Len(file) = n + 1 /\ \A i \in 1..n : file[i] = durable[i]
      BY <2>3
    <2>5. /\ file[n + 1].lsn \in Nat \ {0} /\ file[1].lsn \in Nat
          /\ \A i \in 1..(n + 1) : file[i].lsn = file[1].lsn + (i - 1)
      <3>1. /\ n + 1 \in 1..Len(file) /\ 1..(n + 1) = 1..Len(file)
            /\ \A i \in 1..Len(file) : file[i].kind = "good"
        BY <2>3, <2>4 DEF AllGood
      <3> HIDE DEF n
      <3> QED
        BY <2>3, <3>1, ChainedLsns
    <2>6. EndLsn(durable) < file[n + 1].lsn
      <3>1. AllGood(durable)
        BY <2>3, <2>4 DEF AllGood
      <3>2. End(durable) = n
        BY <2>3, <3>1, EndIsGood DEF Chained
      <3>3. CASE n = 0
        BY <2>5, <3>2, <3>3 DEF EndLsn
      <3>4. CASE n # 0
        <4>1. EndLsn(durable) = file[n].lsn /\ n \in 1..(n + 1) /\ n + 1 \in 1..(n + 1)
          BY <2>4, <3>2, <3>4 DEF EndLsn
        <4> QED
          BY <2>4, <2>5, <4>1
      <3> QED
        BY <3>3, <3>4
    <2>7. EndLsn(durable) \in Nat
      BY <2>3, EndIsGood DEF Chained
    <2> QED
      BY <2>2, <2>3, <2>4, <2>5, <2>6, <2>7
  <1> QED
    BY <1>1, WALInvariant, PTL DEF Spec, AckedLsnsIncrease

=============================================================================
