---------------------------- MODULE Codec_proofs ----------------------------
(***************************************************************************)
(* What the bytes of codec.py hold.                                        *)
(*                                                                         *)
(* The meta page, for every page size and every byte at which its write may *)
(* stop: the layout is that of encode_meta_page, 48 bytes of fields and their *)
(* CRC32.                                                                  *)
(*                                                                         *)
(* The log, for any operations, any number of records and every byte at which *)
(* a write may stop: what _iter_records reads of the frames and of the torn *)
(* tail behind them.                                                       *)
(*                                                                         *)
(* The pages of the tree and of the freelist, for every page size, all     *)
(* lengths of keys and values and any number of slots: each takes exactly  *)
(* the bytes that calculate_page_size says and is read back.               *)
(***************************************************************************)
EXTENDS CodecSpec, LogFormat, SequenceTheorems, FiniteSetTheorems, WellFoundedInduction, TLAPS

-----------------------------------------------------------------------------
(* Sequences of bytes. *)

IsSeq(s) == \E S : s \in Seq(S)

\* n bytes, none of which belongs to a CRC32.
IsBytes(s, n) == IsSeq(s) /\ Len(s) = n /\ \A i \in 1..n : s[i] = <<s[i][1]>>

\* The n bytes of t follow the first at bytes of s.
HasAt(s, at, n, t) == \A i \in 1..n : s[at + i] = t[i]

\* Concatenation, of sequences of any two kinds.
LEMMA Glue ==
    ASSUME NEW s, IsSeq(s), NEW t, IsSeq(t)
    PROVE  /\ IsSeq(s \o t) /\ Len(s) \in Nat /\ Len(t) \in Nat
           /\ Len(s \o t) = Len(s) + Len(t)
           /\ \A i \in 1..Len(s) : (s \o t)[i] = s[i]
           /\ \A i \in 1..Len(t) : (s \o t)[Len(s) + i] = t[i]
  <1>1. PICK S : s \in Seq(S)
    BY DEF IsSeq
  <1>2. PICK T : t \in Seq(T)
    BY DEF IsSeq
  <1> DEFINE U == S \cup T
  <1>3. s \in Seq(U) /\ t \in Seq(U)
    BY <1>1, <1>2, SeqMonotonic
  <1> HIDE DEF U
  <1>4. /\ s \o t \in Seq(U)
        /\ Len(s \o t) = Len(s) + Len(t)
        /\ \A i \in 1..(Len(s) + Len(t)) :
             (s \o t)[i] = IF i <= Len(s) THEN s[i] ELSE t[i - Len(s)]
    BY <1>3, ConcatProperties
  <1>5. Len(s) \in Nat /\ Len(t) \in Nat
    BY <1>3, LenProperties
  <1>6. \A i \in 1..Len(s) : (s \o t)[i] = s[i]
    BY <1>4, <1>5
  <1>7. ASSUME NEW i \in 1..Len(t) PROVE (s \o t)[Len(s) + i] = t[i]
    <2>1. Len(s) + i \in 1..(Len(s) + Len(t)) /\ ~(Len(s) + i <= Len(s)) /\ (Len(s) + i) - Len(s) = i
      BY <1>5
    <2> QED
      BY <1>4, <2>1
  <1>8. IsSeq(s \o t)
    BY <1>4 DEF IsSeq
  <1> QED
    BY <1>4, <1>5, <1>6, <1>7, <1>8

\* The same, in terms of positions.
LEMMA Glued ==
    ASSUME NEW s, IsSeq(s), NEW t, IsSeq(t)
    PROVE  /\ IsSeq(s \o t) /\ Len(s) \in Nat /\ Len(t) \in Nat
           /\ Len(s \o t) = Len(s) + Len(t)
           /\ HasAt(s \o t, 0, Len(s), s) /\ HasAt(s \o t, Len(s), Len(t), t)
  BY Glue DEF HasAt

LEMMA LenIsNat == \A s : IsSeq(s) => Len(s) \in Nat
  BY LenProperties DEF IsSeq

\* Concatenation of bytes.
LEMMA GlueBytes ==
    ASSUME NEW n \in Nat, NEW k \in Nat, NEW s, IsBytes(s, n), NEW t, IsBytes(t, k)
    PROVE  IsBytes(s \o t, n + k) /\ HasAt(s \o t, 0, n, s) /\ HasAt(s \o t, n, k, t)
  <1>0. IsSeq(s) /\ IsSeq(t)
    BY DEF IsBytes
  <1>1. Len(s) = n /\ Len(t) = k
    BY DEF IsBytes
  <1>2. /\ IsSeq(s \o t)
        /\ Len(s \o t) = n + k
        /\ \A i \in 1..n : (s \o t)[i] = s[i]
        /\ \A i \in 1..k : (s \o t)[n + i] = t[i]
    <2>1. /\ IsSeq(s \o t) /\ Len(s \o t) = Len(s) + Len(t)
          /\ \A i \in 1..Len(s) : (s \o t)[i] = s[i]
          /\ \A i \in 1..Len(t) : (s \o t)[Len(s) + i] = t[i]
      BY <1>0, Glue
    <2> QED
      BY <1>1, <2>1
  <1> DEFINE r == s \o t
  <1> HIDE DEF r
  <1>3. ASSUME NEW i \in 1..(n + k) PROVE r[i] = <<r[i][1]>>
    <2>1. CASE i <= n
      <3>1. i \in 1..n /\ r[i] = s[i]
        BY <1>2, <2>1 DEF r
      <3> QED
        BY <3>1 DEF IsBytes
    <2>2. CASE ~(i <= n)
      <3>1. i - n \in 1..k /\ n + (i - n) = i
        BY <2>2
      <3>2. r[i] = t[i - n]
        BY <1>2, <3>1 DEF r
      <3> QED
        BY <3>1, <3>2 DEF IsBytes
    <2> QED
      BY <2>1, <2>2
  <1>4. HasAt(r, 0, n, s)
    BY <1>2 DEF HasAt, r
  <1>5. HasAt(r, n, k, t)
    BY <1>2 DEF HasAt, r
  <1> QED
    BY <1>2, <1>3, <1>4, <1>5 DEF IsBytes, r

\* What is in the first bytes stays there.
LEMMA StillAt ==
    ASSUME NEW n \in Nat, NEW k \in Nat, NEW at \in Nat, at + k <= n,
           NEW r, NEW s, HasAt(r, 0, n, s), NEW t, HasAt(s, at, k, t)
    PROVE  HasAt(r, at, k, t)
  <1> SUFFICES ASSUME NEW i \in 1..k PROVE r[at + i] = t[i]
    BY DEF HasAt
  <1>1. at + i \in 1..n /\ 0 + (at + i) = at + i
    OBVIOUS
  <1>2. r[at + i] = s[at + i]
    BY <1>1 DEF HasAt
  <1> QED
    BY <1>2 DEF HasAt

\* A function over 1..n is a sequence.
LEMMA Listed ==
    ASSUME NEW n \in Nat, NEW f, f = [i \in 1..n |-> f[i]]
    PROVE  IsSeq(f) /\ Len(f) = n /\ DOMAIN f = 1..n
  <1> DEFINE S == {f[i] : i \in 1..n}
  <1>1. \A i \in 1..n : f[i] \in S
    OBVIOUS
  <1> HIDE DEF S
  <1>2. f \in [1..n -> S]
    BY <1>1
  <1>3. f \in Seq(S)
    BY <1>2, SeqDef
  <1>4. DOMAIN f = 1..n /\ DOMAIN f = 1..Len(f) /\ Len(f) \in Nat
    BY <1>2, <1>3, LenProperties
  <1>5. ~(Len(f) < n) /\ ~(n < Len(f))
    <2>1. n # 0 => n \in 1..n
      OBVIOUS
    <2>2. Len(f) # 0 => Len(f) \in 1..Len(f)
      BY <1>4
    <2> QED
      BY <1>4, <2>1, <2>2
  <1> QED
    BY <1>3, <1>4, <1>5 DEF IsSeq

\* A part of a sequence.
LEMMA Part ==
    ASSUME NEW s, IsSeq(s), NEW at \in Nat, NEW n \in Nat, at + n <= Len(s),
           NEW first, first = at + 1, NEW last, last = at + n
    PROVE  /\ IsSeq(SubSeq(s, first, last)) /\ Len(SubSeq(s, first, last)) = n
           /\ HasAt(s, at, n, SubSeq(s, first, last))
  <1>1. PICK S : s \in Seq(S)
    BY DEF IsSeq
  <1>2. Len(s) \in Nat
    BY <1>1, LenProperties
  <1>3. \A i \in first..last : s[i] \in S
    BY <1>1, <1>2, ElementOfSeq
  <1> DEFINE r == SubSeq(s, first, last)
  <1>4. /\ r \in Seq(S)
        /\ Len(r) = IF first <= last THEN last - first + 1 ELSE 0
        /\ \A i \in 1..(last - first + 1) : r[i] = s[first + i - 1]
    BY <1>2, <1>3, SubSeqProperties
  <1> HIDE DEF r
  <1>5. Len(r) = n
    BY <1>4
  <1>6. ASSUME NEW i \in 1..n PROVE s[at + i] = r[i]
    <2>1. i \in 1..(last - first + 1) /\ first + i - 1 = at + i
      OBVIOUS
    <2> QED
      BY <1>4, <2>1
  <1> QED
    BY <1>4, <1>5, <1>6 DEF IsSeq, HasAt, r

\* The first part of a sequence.
LEMMA FirstPart ==
    ASSUME NEW s, IsSeq(s), NEW n \in Nat, n <= Len(s)
    PROVE  /\ IsSeq(SubSeq(s, 1, n)) /\ Len(SubSeq(s, 1, n)) = n
           /\ HasAt(s, 0, n, SubSeq(s, 1, n))
  <1>1. 0 + n <= Len(s) /\ 1 = 0 + 1 /\ n = 0 + n /\ 0 \in Nat
    OBVIOUS
  <1> QED
    BY <1>1, Part

\* Sequences with the same elements.
LEMMA SameSeq ==
    ASSUME NEW s, IsSeq(s), NEW t, IsSeq(t), Len(s) = Len(t),
           \A i \in 1..Len(s) : s[i] = t[i]
    PROVE  s = t
  <1>1. PICK S : s \in Seq(S)
    BY DEF IsSeq
  <1>2. PICK T : t \in Seq(T)
    BY DEF IsSeq
  <1> DEFINE U == S \cup T
  <1>3. s \in Seq(U) /\ t \in Seq(U)
    BY <1>1, <1>2, SeqMonotonic
  <1> HIDE DEF U
  <1> QED
    BY <1>3, SeqEqual

\* The smaller of two numbers.
LEMMA MinOfTwo ==
    ASSUME NEW a \in Nat, NEW b \in Nat, a <= b
    PROVE  Min({a, b}) = a
  <1> DEFINE P == {a, b}
  <1>1. a \in P /\ \A y \in P : a =< y
    OBVIOUS
  <1>2. \A z \in P : (\A y \in P : z =< y) => z = a
    OBVIOUS
  <1> HIDE DEF P
  <1>3. (CHOOSE z \in P : \A y \in P : z =< y) = a
    BY <1>1, <1>2
  <1> QED
    BY <1>3 DEF Min, P

\* A slice that ends within the data.
LEMMA SliceIs ==
    ASSUME NEW s, IsSeq(s), NEW at \in Nat, NEW n \in Nat, at + n <= Len(s)
    PROVE  /\ IsSeq(Slice(s, at, n)) /\ Len(Slice(s, at, n)) = n
           /\ HasAt(s, at, n, Slice(s, at, n))
           /\ Slice(s, at, n) = SubSeq(s, at + 1, at + n)
  <1>1. Len(s) \in Nat
    BY LenProperties DEF IsSeq
  <1>2. Min({at + n, Len(s)}) = at + n
    BY <1>1, MinOfTwo
  <1>3. Slice(s, at, n) = SubSeq(s, at + 1, at + n)
    BY <1>2 DEF Slice
  <1> QED
    BY <1>3, Part

\* A slice is what is there.
LEMMA SliceReads ==
    ASSUME NEW s, IsSeq(s), NEW at \in Nat, NEW t, IsSeq(t), at + Len(t) <= Len(s),
           HasAt(s, at, Len(t), t)
    PROVE  Slice(s, at, Len(t)) = t
  <1>1. Len(t) \in Nat
    BY LenProperties DEF IsSeq
  <1> DEFINE r == Slice(s, at, Len(t))
  <1>2. IsSeq(r) /\ Len(r) = Len(t) /\ HasAt(s, at, Len(t), r)
    BY <1>1, SliceIs
  <1> HIDE DEF r
  <1>3. \A i \in 1..Len(t) : r[i] = t[i]
    BY <1>2 DEF HasAt
  <1>4. r = t
    BY <1>2, <1>3, SameSeq
  <1> QED
    BY <1>4 DEF r

\* What stands in a part that stands in s.
LEMMA Within ==
    ASSUME NEW s, NEW at \in Nat, NEW n \in Nat, NEW t, HasAt(s, at, n, t),
           NEW from \in Nat, NEW k \in Nat, from + k <= n, NEW u, HasAt(t, from, k, u),
           NEW there, there = at + from
    PROVE  HasAt(s, there, k, u)
  <1> SUFFICES ASSUME NEW i \in 1..k PROVE s[there + i] = u[i]
    BY DEF HasAt
  <1>1. from + i \in 1..n /\ at + (from + i) = there + i
    OBVIOUS
  <1>2. s[there + i] = t[from + i]
    BY <1>1 DEF HasAt
  <1> QED
    BY <1>2 DEF HasAt

-----------------------------------------------------------------------------
(* Fields and checksums. *)

\* A field is bytes.
LEMMA FieldIsBytes ==
    ASSUME NEW x, NEW n \in Nat
    PROVE  IsBytes(Field(x, n), n)
  <1> DEFINE b(i) == IF i > 4 THEN 0 ELSE (x \div 256^(i - 1)) % 256
             f == [i \in 1..n |-> <<b(i)>>]
  <1>1. Field(x, n) = f
    BY DEF Field
  <1> HIDE DEF b
  <1>2. \A i \in 1..n : f[i] = <<b(i)>>
    OBVIOUS
  <1>3. f = [i \in 1..n |-> f[i]]
    OBVIOUS
  <1> HIDE DEF f
  <1>4. IsSeq(f) /\ Len(f) = n
    BY <1>3, Listed
  <1>5. \A i \in 1..n : f[i] = <<f[i][1]>>
    BY <1>2
  <1> QED
    BY <1>1, <1>4, <1>5 DEF IsBytes

\* Three digits in base 256.
LEMMA Digits ==
    ASSUME NEW x \in Int, 0 <= x, x < 16777216,
           NEW a \in Int, NEW b \in Int, NEW c \in Int, NEW p \in Int, NEW q \in Int,
           a = x % 256, p = x \div 256, b = p % 256, q = x \div 65536, c = q % 256
    PROVE  a + 256 * b + 65536 * c = x
  BY SMT

\* The digits of a number are numbers, and make it up.
LEMMA NumberDigits ==
    ASSUME NEW x, IsNumber(x)
    PROVE  (x % 256) + 256 * ((x \div 256) % 256) + 65536 * ((x \div 65536) % 256) = x
  <1>1. 256^3 = 16777216
    BY SMT
  <1>2. x \in Int /\ 0 <= x /\ x < 16777216
    BY <1>1, SMT DEF IsNumber
  <1>3. x % 256 \in Int /\ x \div 256 \in Int /\ x \div 65536 \in Int
    BY <1>2, SMT
  <1>4. (x \div 256) % 256 \in Int /\ (x \div 65536) % 256 \in Int
    BY <1>3, SMT
  <1> QED
    BY <1>2, <1>3, <1>4, Digits, SMT

\* A number is read back from a field of three bytes or more.
LEMMA FieldReadsBack ==
    ASSUME NEW x, IsNumber(x), NEW n \in Nat, n >= 3
    PROVE  Number(Field(x, n)) = x
  <1>1. 256^(1 - 1) = 1 /\ 256^(2 - 1) = 256 /\ 256^(3 - 1) = 65536
    BY SMT
  <1> DEFINE b(i) == (x \div 256^(i - 1)) % 256
  <1>2. \A i \in 1..n : Field(x, n)[i] = <<IF i > 4 THEN 0 ELSE b(i)>>
    BY DEF Field
  <1> HIDE DEF b
  <1>3. Field(x, n)[1][1] = b(1) /\ Field(x, n)[2][1] = b(2) /\ Field(x, n)[3][1] = b(3)
    BY <1>2
  <1>4. b(1) = x % 256
    <2>1. x \div 1 = x
      BY SMT DEF IsNumber
    <2> QED
      BY <1>1, <2>1, SMT DEF b
  <1>5. b(2) = (x \div 256) % 256 /\ b(3) = (x \div 65536) % 256
    BY <1>1, SMT DEF b
  <1>6. (x % 256) + 256 * ((x \div 256) % 256) + 65536 * ((x \div 65536) % 256) = x
    BY NumberDigits, SMT
  <1> QED
    BY <1>3, <1>4, <1>5, <1>6, SMT DEF Number

\* A number is read from where it was written.
LEMMA NumberAt ==
    ASSUME NEW t, IsSeq(t), NEW at \in Nat, NEW n \in Nat, n >= 3, at + n <= Len(t),
           NEW x, IsNumber(x), HasAt(t, at, n, Field(x, n))
    PROVE  Number(Slice(t, at, n)) = x
  <1> DEFINE s == Slice(t, at, n)
             f == Field(x, n)
  <1>1. HasAt(t, at, n, s)
    BY SliceIs
  <1>2. Number(f) = x
    BY FieldReadsBack
  <1> HIDE DEF s, f
  <1>3. t[at + 1] = s[1] /\ t[at + 2] = s[2] /\ t[at + 3] = s[3]
    BY <1>1 DEF HasAt
  <1>4. t[at + 1] = f[1] /\ t[at + 2] = f[2] /\ t[at + 3] = f[3]
    BY DEF HasAt, f
  <1>5. Number(s) = Number(f)
    BY <1>3, <1>4 DEF Number
  <1> QED
    BY <1>2, <1>5 DEF s

\* Equal checksums, equal bytes: their last cells tell them apart.
LEMMA ChecksumTells ==
    ASSUME NEW n \in Nat \ {0}, NEW a, IsBytes(a, n), NEW b, IsBytes(b, n),
           Crc32(a)[4] = Crc32(b)[4]
    PROVE  \A i \in 1..n : a[i] = b[i]
  <1>1. ASSUME NEW s, IsBytes(s, n)
        PROVE  \A i \in 1..n : Crc32(s)[4][1 + i] = s[i][1]
    <2> DEFINE v == [j \in DOMAIN s |-> s[j][1]]
    <2>1. PICK S : s \in Seq(S)
      BY <1>1 DEF IsBytes, IsSeq
    <2>2. DOMAIN s = 1..n /\ s # <<>>
      BY <1>1, <2>1, LenProperties, EmptySeq DEF IsBytes
    <2>3. Crc32(s)[4] = <<255 + 4>> \o v
      BY <2>2 DEF Crc32
    <2>4. v = [j \in 1..n |-> v[j]] /\ \A j \in 1..n : v[j] = s[j][1]
      BY <2>2
    <2> HIDE DEF v
    <2>5. IsSeq(v) /\ Len(v) = n
      BY <2>4, Listed
    <2>6. IsSeq(<<255 + 4>>) /\ Len(<<255 + 4>>) = 1
      <3>1. <<255 + 4>> \in Seq({255 + 4})
        OBVIOUS
      <3> QED
        BY <3>1 DEF IsSeq
    <2>7. \A i \in 1..n : (<<255 + 4>> \o v)[1 + i] = v[i]
      BY <2>5, <2>6, Glue
    <2> QED
      BY <2>3, <2>4, <2>7
  <1>2. \A i \in 1..n : a[i][1] = b[i][1]
    BY <1>1
  <1> QED
    BY <1>2 DEF IsBytes

-----------------------------------------------------------------------------
(* The meta page. *)

\* encode_meta_page puts the four numbers at bytes 16, 24, 32 and 40.
LEMMA MetaLayout ==
    ASSUME NEW m
    PROVE  /\ IsBytes(MetaFields(m), 48)
           /\ HasAt(MetaFields(m), 16, 8, Field(m.root, 8))
           /\ HasAt(MetaFields(m), 24, 8, Field(m.next, 8))
           /\ HasAt(MetaFields(m), 32, 8, Field(m.flhead, 8))
           /\ HasAt(MetaFields(m), 40, 8, Field(m.last_checkpoint_lsn, 8))
  <1> DEFINE f1 == Field(1, 4)
             f2 == Field(PageSize, 4)
             f3 == Field(m.root, 8)
             f4 == Field(m.next, 8)
             f5 == Field(m.flhead, 8)
             f6 == Field(m.last_checkpoint_lsn, 8)
             m1 == Magic \o f1
             m2 == m1 \o f2
             m3 == m2 \o f3
             m4 == m3 \o f4
             m5 == m4 \o f5
             m6 == m5 \o f6
  <1>1. MetaFields(m) = m6
    BY DEF MetaFields
  <1>2. IsBytes(Magic, 8)
    <2> DEFINE letter(i) == (<<66, 80, 84, 82, 69, 69, 68, 66>>)[i]
    <2>1. Magic = [i \in 1..8 |-> <<letter(i)>>]
      BY DEF Magic
    <2> HIDE DEF letter
    <2>2. Magic = [i \in 1..8 |-> Magic[i]] /\ \A i \in 1..8 : Magic[i] = <<Magic[i][1]>>
      BY <2>1
    <2> QED
      BY <2>2, Listed DEF IsBytes
  <1>f1. IsBytes(f1, 4)
    BY FieldIsBytes
  <1>f2. IsBytes(f2, 4)
    BY FieldIsBytes
  <1>f3. IsBytes(f3, 8)
    BY FieldIsBytes
  <1>f4. IsBytes(f4, 8)
    BY FieldIsBytes
  <1>f5. IsBytes(f5, 8)
    BY FieldIsBytes
  <1>f6. IsBytes(f6, 8)
    BY FieldIsBytes
  <1> HIDE DEF f1, f2, f3, f4, f5, f6
  <1>4. IsBytes(m1, 12)
    BY <1>2, <1>f1, 8 + 4 = 12, GlueBytes
  <1> HIDE DEF m1
  <1>5. IsBytes(m2, 16)
    BY <1>4, <1>f2, 12 + 4 = 16, GlueBytes
  <1> HIDE DEF m2
  <1>6. IsBytes(m3, 24)
    BY <1>5, <1>f3, 16 + 8 = 24, GlueBytes
  <1>m3. HasAt(m3, 0, 16, m2) /\ HasAt(m3, 16, 8, f3)
    BY <1>5, <1>f3, GlueBytes
  <1> HIDE DEF m3
  <1>7. IsBytes(m4, 32)
    BY <1>6, <1>f4, 24 + 8 = 32, GlueBytes
  <1>m4. HasAt(m4, 0, 24, m3) /\ HasAt(m4, 24, 8, f4)
    BY <1>6, <1>f4, GlueBytes
  <1> HIDE DEF m4
  <1>8. IsBytes(m5, 40)
    BY <1>7, <1>f5, 32 + 8 = 40, GlueBytes
  <1>m5. HasAt(m5, 0, 32, m4) /\ HasAt(m5, 32, 8, f5)
    BY <1>7, <1>f5, GlueBytes
  <1> HIDE DEF m5
  <1>9. IsBytes(m6, 48)
    BY <1>8, <1>f6, 40 + 8 = 48, GlueBytes
  <1>m6. HasAt(m6, 0, 40, m5) /\ HasAt(m6, 40, 8, f6)
    BY <1>8, <1>f6, GlueBytes
  <1> HIDE DEF m6
  <1>10. HasAt(m6, 32, 8, f5)
    BY <1>m5, <1>m6, StillAt
  <1>11. HasAt(m6, 24, 8, f4)
    <2>1. HasAt(m5, 24, 8, f4)
      BY <1>m4, <1>m5, StillAt
    <2> QED
      BY <2>1, <1>m6, StillAt
  <1>12. HasAt(m6, 16, 8, f3)
    <2>1. HasAt(m4, 16, 8, f3)
      BY <1>m3, <1>m4, StillAt
    <2>2. HasAt(m5, 16, 8, f3)
      BY <2>1, <1>m5, StillAt
    <2> QED
      BY <2>2, <1>m6, StillAt
  <1> QED
    BY <1>1, <1>9, <1>m6, <1>10, <1>11, <1>12 DEF f3, f4, f5, f6

\* The page: the fields, their checksum up to byte 52, and zeros.
LEMMA MetaPage ==
    ASSUME NEW m
    PROVE  /\ IsSeq(EncodeMetaPage(m)) /\ Len(EncodeMetaPage(m)) = PageSize
           /\ HasAt(EncodeMetaPage(m), 0, 48, MetaFields(m))
           /\ EncodeMetaPage(m)[52] = Crc32(MetaFields(m))[4]
  <1> DEFINE f == MetaFields(m)
             c == Crc32(f)
             z == Zeros(PageSize - MinPageSize)
             cell(i) == <<255 + i>> \o [j \in DOMAIN f |-> f[j][1]]
  <1>0. IsSeq(f)
    BY MetaLayout DEF IsBytes
  <1>1. Len(f) = 48
    BY MetaLayout DEF IsBytes
  <1>2. f # <<>>
    <2>1. Len(<<>>) = 0
      OBVIOUS
    <2> HIDE DEF f
    <2> QED
      BY <1>1, <2>1
  <1>3. EncodeMetaPage(m) = f \o c \o z
    BY DEF EncodeMetaPage
  <1> HIDE DEF f
  <1>4. c = [i \in 1..4 |-> cell(i)]
    BY <1>2 DEF Crc32
  <1> HIDE DEF cell, c
  <1>5. c = [i \in 1..4 |-> c[i]]
    BY <1>4
  <1>c. IsSeq(c)
    BY <1>5, Listed
  <1>6. Len(c) = 4
    BY <1>5, Listed
  <1>7. IsSeq(z) /\ Len(z) = PageSize - 52
    <2>1. PageSize - 52 \in Nat
      BY PagesAssumption DEF MinPageSize
    <2>2. z = [i \in 1..(PageSize - 52) |-> z[i]]
      BY DEF Zeros, MinPageSize
    <2> QED
      BY <2>1, <2>2, Listed
  <1> HIDE DEF z
  <1> DEFINE g == f \o c
  <1>8. /\ IsSeq(g) /\ Len(g) = Len(f) + Len(c)
        /\ \A i \in 1..Len(f) : g[i] = f[i]
        /\ \A i \in 1..Len(c) : g[Len(f) + i] = c[i]
    BY <1>0, <1>c, Glue
  <1> HIDE DEF g
  <1>9. Len(g) = 52 /\ (\A i \in 1..48 : g[i] = f[i]) /\ g[52] = c[4]
    <2>1. Len(g) = 52 /\ (\A i \in 1..48 : g[i] = f[i]) /\ (\A i \in 1..4 : g[48 + i] = c[i])
      BY <1>1, <1>6, <1>8
    <2>2. g[48 + 4] = c[4]
      BY <2>1
    <2> QED
      BY <2>1, <2>2
  <1>10. /\ IsSeq(g \o z) /\ Len(g \o z) = Len(g) + Len(z)
         /\ \A i \in 1..Len(g) : (g \o z)[i] = g[i]
    BY <1>7, <1>8, Glue
  <1>11. PageSize \in Nat
    BY PagesAssumption
  <1> DEFINE e == g \o z
  <1>12. EncodeMetaPage(m) = e
    BY <1>3 DEF g
  <1> HIDE DEF e
  <1>13. IsSeq(e) /\ Len(e) = PageSize
    BY <1>7, <1>9, <1>10, <1>11 DEF e
  <1>14. \A i \in 1..52 : e[i] = g[i]
    BY <1>9, <1>10 DEF e
  <1>15. HasAt(e, 0, 48, f) /\ e[52] = c[4]
    BY <1>9, <1>14 DEF HasAt
  <1> QED
    BY <1>12, <1>13, <1>15 DEF f, c

\* decode_meta_page takes the meta page out of its fields.
LEMMA MetaReadsBack ==
    ASSUME NEW t, IsSeq(t), Len(t) = PageSize, NEW m \in Metas,
           HasAt(t, 0, 48, MetaFields(m))
    PROVE  MetaIn(t) = m
  <1>1. /\ HasAt(MetaFields(m), 16, 8, Field(m.root, 8))
        /\ HasAt(MetaFields(m), 24, 8, Field(m.next, 8))
        /\ HasAt(MetaFields(m), 32, 8, Field(m.flhead, 8))
        /\ HasAt(MetaFields(m), 40, 8, Field(m.last_checkpoint_lsn, 8))
    BY MetaLayout
  <1>2. /\ m.root \in PageIds /\ m.next \in PageIds
        /\ m.flhead \in PageIds \cup {0} /\ m.last_checkpoint_lsn \in PageIds \cup {0}
    BY DEF Metas
  <1>3. IsNumber(0)
    BY SMT DEF IsNumber
  <1>4. \A x \in PageIds \cup {0} : IsNumber(x)
    BY <1>3, PageIdAssumption
  <1>5. HasAt(t, 16, 8, Field(m.root, 8))
    BY <1>1, 16 + 8 <= 48, StillAt
  <1>6. HasAt(t, 24, 8, Field(m.next, 8))
    BY <1>1, 24 + 8 <= 48, StillAt
  <1>7. HasAt(t, 32, 8, Field(m.flhead, 8))
    BY <1>1, 32 + 8 <= 48, StillAt
  <1>8. HasAt(t, 40, 8, Field(m.last_checkpoint_lsn, 8))
    BY <1>1, 40 + 8 <= 48, StillAt
  <1>0. 16 + 8 <= Len(t) /\ 24 + 8 <= Len(t) /\ 32 + 8 <= Len(t) /\ 40 + 8 <= Len(t) /\ 8 >= 3
    BY PagesAssumption DEF MinPageSize
  <1>9. Number(Slice(t, 16, 8)) = m.root
    BY <1>0, <1>2, <1>4, <1>5, NumberAt
  <1>10. Number(Slice(t, 24, 8)) = m.next
    BY <1>0, <1>2, <1>4, <1>6, NumberAt
  <1>11. Number(Slice(t, 32, 8)) = m.flhead
    BY <1>0, <1>2, <1>4, <1>7, NumberAt
  <1>12. Number(Slice(t, 40, 8)) = m.last_checkpoint_lsn
    BY <1>0, <1>2, <1>4, <1>8, NumberAt
  <1>13. m = [type |-> "meta", root |-> m.root, next |-> m.next, flhead |-> m.flhead,
              last_checkpoint_lsn |-> m.last_checkpoint_lsn]
    BY DEF Metas
  <1> QED
    BY <1>9, <1>10, <1>11, <1>12, <1>13 DEF MetaIn

\* Byte 52 ends the checksum.
LEMMA LastChecksumByte ==
    ASSUME NEW t, IsSeq(t), 52 <= Len(t)
    PROVE  t[52] = SubSeq(t, 49, 52)[4]
  <1> DEFINE c == SubSeq(t, 49, 52)
  <1>1. 48 + 4 <= Len(t) /\ 49 = 48 + 1 /\ 52 = 48 + 4 /\ 48 \in Nat /\ 4 \in Nat
    OBVIOUS
  <1>2. HasAt(t, 48, 4, c)
    BY <1>1, Part
  <1> HIDE DEF c
  <1>3. t[52] = c[4]
    BY <1>2 DEF HasAt
  <1> QED
    BY <1>3 DEF c

\* A page that begins with the bytes of one meta page and goes on with those
\* of another reads as one of the two, if its checksum holds.
LEMMA TornReads ==
    ASSUME NEW m \in Metas, NEW o \in Metas, NEW n \in 0..52, NEW t,
           t = SubSeq(EncodeMetaPage(m), 1, n) \o SubSeq(EncodeMetaPage(o), n + 1, PageSize),
           Crc32(SubSeq(t, 1, 48)) = SubSeq(t, 49, 52)
    PROVE  MetaIn(t) \in {m, o}
  <1>1. PageSize \in Nat /\ PageSize >= 52
    BY PagesAssumption DEF MinPageSize
  <1> DEFINE fm == MetaFields(m)
             fo == MetaFields(o)
             em == EncodeMetaPage(m)
             eo == EncodeMetaPage(o)
             a == SubSeq(em, 1, n)
             b == SubSeq(eo, n + 1, PageSize)
             u == SubSeq(t, 1, 48)
  <1>2. IsBytes(fm, 48) /\ IsBytes(fo, 48)
    BY MetaLayout
  <1>3. IsSeq(em) /\ Len(em) = PageSize /\ HasAt(em, 0, 48, fm)
    BY MetaPage
  <1>4. IsSeq(eo) /\ Len(eo) = PageSize /\ HasAt(eo, 0, 48, fo) /\ eo[52] = Crc32(fo)[4]
    BY MetaPage
  <1>5. t = a \o b
    OBVIOUS
  <1>6. Crc32(u) = SubSeq(t, 49, 52)
    OBVIOUS
  <1>7. ASSUME HasAt(t, 0, 48, fm), IsSeq(t), Len(t) = PageSize PROVE MetaIn(t) = m
    BY <1>7, MetaReadsBack
  <1>8. ASSUME HasAt(t, 0, 48, fo), IsSeq(t), Len(t) = PageSize PROVE MetaIn(t) = o
    BY <1>8, MetaReadsBack
  <1> HIDE DEF em, eo, fm, fo
  <1>9. IsSeq(a) /\ Len(a) = n /\ HasAt(em, 0, n, a)
    <2>1. n <= Len(em) /\ n \in Nat
      BY <1>1, <1>3
    <2>2. IsSeq(em)
      BY <1>3
    <2> QED
      BY <2>1, <2>2, FirstPart
  <1>10. IsSeq(b) /\ Len(b) = PageSize - n /\ HasAt(eo, n, PageSize - n, b)
    <2>0. Len(eo) = PageSize
      BY <1>4
    <2>1. n + (PageSize - n) <= Len(eo) /\ PageSize = n + (PageSize - n)
      BY <1>1, <2>0
    <2>2. PageSize - n \in Nat /\ n \in Nat
      BY <1>1
    <2>3. IsSeq(eo)
      BY <1>4
    <2> QED
      BY <2>1, <2>2, <2>3, Part
  <1> HIDE DEF a, b
  <1>11. /\ IsSeq(t) /\ Len(t) = PageSize
         /\ HasAt(t, 0, n, a) /\ HasAt(t, n, PageSize - n, b)
    <2>1. IsSeq(a) /\ IsSeq(b)
      BY <1>9, <1>10
    <2> DEFINE g == a \o b
    <2>2. /\ IsSeq(g) /\ Len(g) = Len(a) + Len(b)
          /\ \A i \in 1..Len(a) : g[i] = a[i]
          /\ \A i \in 1..Len(b) : g[Len(a) + i] = b[i]
      BY <2>1, Glue
    <2> HIDE DEF g
    <2>3. Len(g) = PageSize
      BY <1>1, <1>9, <1>10, <2>2
    <2>4. HasAt(g, 0, n, a)
      BY <1>9, <2>2 DEF HasAt
    <2>5. HasAt(g, n, PageSize - n, b)
      BY <1>9, <1>10, <2>2 DEF HasAt
    <2> QED
      BY <1>5, <2>2, <2>3, <2>4, <2>5 DEF g
  <1>12. IsSeq(u) /\ Len(u) = 48 /\ HasAt(t, 0, 48, u)
    <2>1. 48 <= Len(t) /\ 48 \in Nat
      BY <1>1, <1>11
    <2>2. IsSeq(t)
      BY <1>11
    <2> QED
      BY <2>1, <2>2, FirstPart
  <1>13. t[52] = Crc32(u)[4]
    <2>1. IsSeq(t) /\ 52 <= Len(t)
      BY <1>1, <1>11
    <2> QED
      BY <1>6, <2>1, LastChecksumByte
  <1> HIDE DEF u
  <1>14. ASSUME NEW i \in 1..n PROVE t[i] = em[i]
    <2>1. t[0 + i] = a[i] /\ em[0 + i] = a[i] /\ 0 + i = i
      BY <1>9, <1>11 DEF HasAt
    <2> QED
      BY <2>1
  <1>15. ASSUME NEW i \in (n + 1)..PageSize PROVE t[i] = eo[i]
    <2>1. i - n \in 1..(PageSize - n) /\ n + (i - n) = i
      BY <1>1
    <2>2. t[n + (i - n)] = b[i - n] /\ eo[n + (i - n)] = b[i - n]
      BY <1>10, <1>11, <2>1 DEF HasAt
    <2> QED
      BY <2>1, <2>2
  <1>16. ASSUME NEW i \in 1..48 PROVE em[i] = fm[i] /\ eo[i] = fo[i] /\ t[i] = u[i]
    <2>1. em[0 + i] = fm[i]
      BY <1>3 DEF HasAt
    <2>2. eo[0 + i] = fo[i]
      BY <1>4 DEF HasAt
    <2>3. t[0 + i] = u[i]
      BY <1>12 DEF HasAt
    <2>4. 0 + i = i
      OBVIOUS
    <2> QED
      BY <2>1, <2>2, <2>3, <2>4
  <1>17. CASE n >= 48
    <2>1. ASSUME NEW i \in 1..48 PROVE t[0 + i] = fm[i]
      <3>1. i \in 1..n /\ 0 + i = i
        BY <1>17
      <3> QED
        BY <1>14, <1>16, <3>1
    <2>2. HasAt(t, 0, 48, fm)
      BY <2>1 DEF HasAt
    <2> QED
      BY <1>7, <1>11, <2>2
  <1>18. CASE n < 48
    <2>1. t[52] = Crc32(fo)[4]
      <3>1. 52 \in (n + 1)..PageSize
        BY <1>1, <1>18
      <3> QED
        BY <1>4, <1>15, <3>1
    <2>2. ASSUME NEW i \in 1..48 PROVE u[i] = <<u[i][1]>>
      <3>1. fm[i] = <<fm[i][1]>> /\ fo[i] = <<fo[i][1]>>
        BY <1>2 DEF IsBytes
      <3>2. i \in 1..n \/ i \in (n + 1)..PageSize
        BY <1>1
      <3>3. u[i] = fm[i] \/ u[i] = fo[i]
        BY <1>14, <1>15, <1>16, <3>2
      <3> QED
        BY <3>1, <3>3
    <2>3. IsBytes(u, 48)
      BY <1>12, <2>2 DEF IsBytes
    <2>4. Crc32(u)[4] = Crc32(fo)[4]
      BY <1>13, <2>1
    <2>5. IsBytes(fo, 48) /\ 48 \in Nat \ {0}
      BY <1>2
    <2>6. \A i \in 1..48 : u[i] = fo[i]
      BY <2>3, <2>4, <2>5, ChecksumTells
    <2>7. ASSUME NEW i \in 1..48 PROVE t[0 + i] = fo[i]
      <3>1. 0 + i = i
        OBVIOUS
      <3> QED
        BY <1>16, <2>6, <3>1
    <2>8. HasAt(t, 0, 48, fo)
      BY <2>7 DEF HasAt
    <2> QED
      BY <1>8, <1>11, <2>8
  <1> QED
    BY <1>17, <1>18

-----------------------------------------------------------------------------
(* The specification. *)

\* A meta page is rewritten by meta pages only.
MetaInv ==
    /\ "type" \in DOMAIN page /\ page.type \in {"leaf", "internal", "freelist", "meta"}
    /\ page.type = "meta" => page \in Metas /\ old \in Metas

\* No other page turns into a meta page.
LEMMA MetaStep == MetaInv /\ [CodecNext]_codecVars => MetaInv'
  <1> SUFFICES ASSUME MetaInv, [CodecNext]_codecVars PROVE MetaInv'
    OBVIOUS
  <1>1. ASSUME NEW slot, page.type # "meta", AddSlot(slot) PROVE MetaInv'
    <2>1. PICK s : page' = [page EXCEPT !.slots = s]
      BY <1>1 DEF AddSlot
    <2>2. "type" \in DOMAIN page' /\ page'.type = page.type
      BY <2>1 DEF MetaInv
    <2> QED
      BY <1>1, <2>2 DEF MetaInv
  <1>2. ASSUME NEW id \in PageIds, AddFreed(id) PROVE MetaInv'
    <2>1. page' = [page EXCEPT !.freed = Append(@, id)] /\ page.type # "meta"
      BY <1>2 DEF AddFreed
    <2>2. "type" \in DOMAIN page' /\ page'.type = page.type
      BY <2>1 DEF MetaInv
    <2> QED
      BY <2>1, <2>2 DEF MetaInv
  <1>3. ASSUME NEW id \in PageIds, NEW n \in PageIds, Relink(id, n) PROVE MetaInv'
    <2>1. page.type # "meta"
      BY <1>3 DEF Relink
    <2>2. page' = CASE page.type = "leaf" -> [page EXCEPT !.right = id]
                    [] page.type = "internal" -> [page EXCEPT !.leftmost = id]
                    [] page.type = "freelist" -> [page EXCEPT !.next = id]
      BY <1>3 DEF Relink
    <2>3. CASE page.type = "leaf"
      <3>1. page' = [page EXCEPT !.right = id]
        BY <2>2, <2>3
      <3> QED
        BY <2>3, <3>1 DEF MetaInv
    <2>4. CASE page.type = "internal"
      <3>1. page' = [page EXCEPT !.leftmost = id]
        BY <2>2, <2>4
      <3> QED
        BY <2>4, <3>1 DEF MetaInv
    <2>5. CASE page.type = "freelist"
      <3>1. page' = [page EXCEPT !.next = id]
        BY <2>2, <2>5
      <3> QED
        BY <2>5, <3>1 DEF MetaInv
    <2> QED
      BY <2>1, <2>3, <2>4, <2>5 DEF MetaInv
  <1>4. ASSUME NEW m \in Metas, RewriteMeta(m) PROVE MetaInv'
    <2>1. page.type = "meta" /\ old' = page /\ page' = m
      BY <1>4 DEF RewriteMeta
    <2>2. "type" \in DOMAIN m /\ m.type = "meta"
      BY DEF Metas
    <2> QED
      BY <2>1, <2>2 DEF MetaInv
  <1>5. CASE UNCHANGED codecVars
    BY <1>5 DEF codecVars, MetaInv
  <1> QED
    BY <1>1, <1>2, <1>3, <1>4, <1>5 DEF CodecNext

\* Whatever pager.py rewrites the meta page with and wherever the write stops,
\* decode_meta_page gives the old page or the new one, or raises: for every page
\* size and all numbers below 2^24 in the fields.
THEOREM TornMetaPagesAreDetected == CodecSpecification => []TornMetaIsDetected
  <1>1. CodecInit => MetaInv
    <2> SUFFICES ASSUME CodecInit PROVE MetaInv
      OBVIOUS
    <2>1. CASE page \in {Leaf(0, <<>>), Internal(1, <<>>), Freelist(0, <<>>)}
      BY <2>1 DEF MetaInv, Leaf, Internal, Freelist
    <2>2. CASE page \in Metas
      BY <2>2 DEF CodecInit, MetaInv, Metas
    <2> QED
      BY <2>1, <2>2 DEF CodecInit
  <1>2. MetaInv => TornMetaIsDetected
    <2> SUFFICES ASSUME MetaInv, page.type = "meta", NEW n \in 0..MinPageSize, NEW t,
                        t = SubSeq(EncodeMetaPage(page), 1, n)
                              \o SubSeq(EncodeMetaPage(old), n + 1, PageSize),
                        DecodeMetaPage(t).err = "none"
                 PROVE  DecodeMetaPage(t).page \in {page, old}
      BY DEF TornMetaIsDetected
    <2>1. page \in Metas /\ old \in Metas
      BY DEF MetaInv
    <2>2. n \in 0..52
      BY DEF MinPageSize
    <2>3. /\ Crc32(SubSeq(t, 1, 48)) = SubSeq(t, 49, 52)
          /\ DecodeMetaPage(t) = [err |-> "none", page |-> MetaIn(t)]
      BY DEF DecodeMetaPage
    <2>4. MetaIn(t) \in {page, old}
      BY <2>1, <2>2, <2>3, TornReads
    <2> QED
      BY <2>3, <2>4
  <1> QED
    BY <1>1, <1>2, MetaStep, PTL DEF CodecSpecification

-----------------------------------------------------------------------------
(* A record of the log. *)

\* Induction, with the set of the numbers that have the property.
LEMMA SetInduction ==
    ASSUME NEW T, 0 \in T, \A n \in Nat : n \in T => n + 1 \in T
    PROVE  \A n \in Nat : n \in T
  <1> DEFINE M == {n \in Nat : n \notin T}
             R == OpToRel(<, Nat)
  <1>1. SUFFICES ASSUME M # {} PROVE FALSE
    OBVIOUS
  <1>2. IsWellFoundedOn(R, Nat)
    BY NatLessThanWellFounded
  <1>3. \A x, y \in Nat : x < y => <<x, y>> \in R
    BY DEF OpToRel
  <1>4. M \subseteq Nat /\ \A n \in Nat : n \in M <=> n \notin T
    OBVIOUS
  <1> HIDE DEF R, M
  <1>5. PICK x \in M : \A y \in M : ~ (<<y, x>> \in R)
    BY <1>1, <1>2, <1>4, WFMin
  <1>6. x \in Nat /\ x \notin T /\ x # 0
    BY <1>4, <1>5
  <1>7. x - 1 \in Nat /\ x - 1 < x /\ (x - 1) + 1 = x
    BY <1>6
  <1>8. x - 1 \in M
    BY <1>4, <1>6, <1>7
  <1> QED
    BY <1>3, <1>5, <1>6, <1>7, <1>8

\* Bytes behind their length.
LEMMA PrefixedLayout ==
    ASSUME NEW t, IsSeq(t)
    PROVE  /\ IsSeq(LengthPrefixed(t)) /\ Len(LengthPrefixed(t)) = 4 + Len(t)
           /\ HasAt(LengthPrefixed(t), 0, 4, Field(Len(t), 4))
           /\ HasAt(LengthPrefixed(t), 4, Len(t), t)
  <1> DEFINE f == Field(Len(t), 4)
  <1>1. IsSeq(f) /\ Len(f) = 4
    BY FieldIsBytes DEF IsBytes
  <1>2. LengthPrefixed(t) = f \o t
    BY DEF LengthPrefixed, LengthField
  <1> HIDE DEF f
  <1>3. /\ IsSeq(f \o t) /\ Len(f \o t) = 4 + Len(t)
        /\ HasAt(f \o t, 0, 4, f) /\ HasAt(f \o t, 4, Len(t), t)
    BY <1>1, Glued
  <1> QED
    BY <1>2, <1>3 DEF f

\* read_length_prefixed_bytes reads what write_length_prefixed_bytes has written.
LEMMA PrefixedReads ==
    ASSUME NEW s, IsSeq(s), NEW at \in Nat, NEW t, IsSeq(t), IsNumber(Len(t)),
           at + 4 + Len(t) <= Len(s), HasAt(s, at, 4 + Len(t), LengthPrefixed(t))
    PROVE  ReadPrefixed(s, at) = t
  <1>0. Len(t) \in Nat
    BY DEF IsNumber
  <1> DEFINE p == LengthPrefixed(t)
  <1>1. HasAt(p, 0, 4, Field(Len(t), 4)) /\ HasAt(p, 4, Len(t), t)
    BY PrefixedLayout
  <1>2. HasAt(s, at, 4 + Len(t), p)
    OBVIOUS
  <1> HIDE DEF p
  <1>3. HasAt(s, at, 4, Field(Len(t), 4))
    BY <1>0, <1>1, <1>2, Within
  <1>4. HasAt(s, at + 4, Len(t), t)
    BY <1>0, <1>1, <1>2, Within
  <1>5. Number(Slice(s, at, 4)) = Len(t)
    BY <1>0, <1>3, NumberAt
  <1>6. Slice(s, at + 4, Len(t)) = t
    BY <1>0, <1>4, SliceReads
  <1> QED
    BY <1>5, <1>6 DEF ReadPrefixed, LengthField

\* Keys and values are sequences of their lengths.
LEMMA DataIsSeq ==
    /\ \A k \in Keys : IsSeq(KeyBytes(k)) /\ Len(KeyBytes(k)) = KeyLen[k] /\ KeyLen[k] \in Nat
    /\ \A v \in Values : IsSeq(ValueBytes(v)) /\ Len(ValueBytes(v)) = ValueLen[v] /\ ValueLen[v] \in Nat
  <1>1. ASSUME NEW k \in Keys
        PROVE  IsSeq(KeyBytes(k)) /\ Len(KeyBytes(k)) = KeyLen[k] /\ KeyLen[k] \in Nat
    <2>1. KeyLen[k] \in Nat
      BY PagesAssumption
    <2>2. KeyBytes(k) = [i \in 1..KeyLen[k] |-> KeyBytes(k)[i]]
      BY DEF KeyBytes
    <2> QED
      BY <2>1, <2>2, Listed
  <1>2. ASSUME NEW v \in Values
        PROVE  IsSeq(ValueBytes(v)) /\ Len(ValueBytes(v)) = ValueLen[v] /\ ValueLen[v] \in Nat
    <2>1. ValueLen[v] \in Nat
      BY PagesAssumption
    <2>2. ValueBytes(v) = [i \in 1..ValueLen[v] |-> ValueBytes(v)[i]]
      BY DEF ValueBytes
    <2> QED
      BY <2>1, <2>2, Listed
  <1> QED
    BY <1>1, <1>2

\* A CRC32 is four cells.
LEMMA CrcIsSeq ==
    ASSUME NEW s
    PROVE  IsSeq(Crc32(s)) /\ Len(Crc32(s)) = 4
  <1>1. ASSUME NEW f, f = [i \in 1..4 |-> f[i]] PROVE IsSeq(f) /\ Len(f) = 4
    BY <1>1, Listed
  <1>2. CASE s = <<>>
    BY <1>1, <1>2 DEF Crc32, Zeros
  <1>3. CASE s # <<>>
    <2> DEFINE v == [j \in DOMAIN s |-> s[j][1]]
               c == [i \in 1..4 |-> <<255 + i>> \o v]
    <2>1. Crc32(s) = c
      BY <1>3 DEF Crc32
    <2> HIDE DEF v
    <2>2. c = [i \in 1..4 |-> c[i]]
      OBVIOUS
    <2> QED
      BY <1>1, <2>1, <2>2
  <1> QED
    BY <1>2, <1>3

\* The payload of a logged operation.
LEMMA PayloadIsSeq ==
    ASSUME NEW op \in LogOps
    PROVE  IsSeq(RecordPayload(op)) /\ Len(RecordPayload(op)) \in Nat
  <1>1. CASE \E k \in Keys, v \in Values : op = <<"put", k, v>>
    <2>1. PICK k \in Keys, v \in Values : op = <<"put", k, v>>
      BY <1>1
    <2>2. op[1] = "put" /\ op[2] = k /\ op[3] = v
      BY <2>1
    <2> DEFINE a == LengthPrefixed(KeyBytes(k))
               b == LengthPrefixed(ValueBytes(v))
    <2>3. IsSeq(a) /\ IsSeq(b)
      BY DataIsSeq, PrefixedLayout
    <2>4. RecordPayload(op) = a \o b
      BY <2>2 DEF RecordPayload
    <2> HIDE DEF a, b
    <2>5. IsSeq(a \o b)
      BY <2>3, Glued
    <2> QED
      BY <2>4, <2>5, LenIsNat
  <1>2. CASE \E k \in Keys : op = <<"delete", k>>
    <2>1. PICK k \in Keys : op = <<"delete", k>>
      BY <1>2
    <2>2. op[1] = "delete" /\ op[2] = k
      BY <2>1
    <2>3. RecordPayload(op) = LengthPrefixed(KeyBytes(k))
      BY <2>2 DEF RecordPayload
    <2> QED
      BY <2>3, DataIsSeq, PrefixedLayout
  <1>3. CASE op = <<"checkpoint", op[2], op[3], op[4]>>
    <2>1. op[1] = "checkpoint"
      BY <1>3
    <2> DEFINE a == Field(op[2], 8)
               b == Field(op[3], 8)
               c == Field(op[4], 8)
    <2>2. RecordPayload(op) = a \o b \o c
      BY <2>1 DEF RecordPayload
    <2>3. IsSeq(a) /\ IsSeq(b) /\ IsSeq(c)
      BY FieldIsBytes DEF IsBytes
    <2> HIDE DEF a, b, c
    <2>4. IsSeq(a \o b)
      BY <2>3, Glued
    <2>5. IsSeq(a \o b \o c)
      BY <2>3, <2>4, Glued
    <2> QED
      BY <2>2, <2>5, LenIsNat
  <1> QED
    BY <1>1, <1>2, <1>3, FormatAssumption

\* The frame: length, LSN, tag, payload, and the checksum of all of them.
LEMMA RecordLayout ==
    ASSUME NEW n, NEW op \in LogOps, NEW r, r = EncodeWalRecord(n, op),
           NEW payload, payload = RecordPayload(op), NEW k, k = Len(payload)
    PROVE  /\ IsSeq(r) /\ k \in Nat /\ Len(r) = 17 + k /\ IsNumber(13 + k)
           /\ HasAt(r, 0, 4, Field(13 + k, 4))
           /\ HasAt(r, 4, 8, Field(n, 8))
           /\ HasAt(r, 12, 1, Field(OpTag[op[1]], 1))
           /\ HasAt(r, 13, k, payload)
           /\ ChecksumHolds(r)
  <1>0. IsSeq(payload) /\ k \in Nat /\ IsNumber(13 + k)
    BY PayloadIsSeq, FormatAssumption
  <1> DEFINE a == Field(n, 8)
             b == Field(OpTag[op[1]], 1)
             ab == a \o b
             body == ab \o payload
             f == Field(Len(body) + 4, 4)
             framed == f \o body
             c == Crc32(framed)
  <1>1. r = framed \o c
    BY DEF EncodeWalRecord, LengthField
  <1>2. IsSeq(a) /\ Len(a) = 8 /\ IsSeq(b) /\ Len(b) = 1 /\ IsSeq(f) /\ Len(f) = 4
    BY FieldIsBytes DEF IsBytes
  <1>3. IsSeq(c) /\ Len(c) = 4
    BY CrcIsSeq
  <1> HIDE DEF a, b
  <1>4. IsSeq(ab) /\ Len(ab) = 9 /\ HasAt(ab, 0, 8, a) /\ HasAt(ab, 8, 1, b)
    <2>1. /\ IsSeq(a \o b) /\ Len(a \o b) = Len(a) + Len(b)
          /\ HasAt(a \o b, 0, Len(a), a) /\ HasAt(a \o b, Len(a), Len(b), b)
      BY <1>2, Glued
    <2>2. Len(a) = 8 /\ Len(b) = 1
      BY <1>2
    <2> QED
      BY <2>1, <2>2
  <1> HIDE DEF ab
  <1>5. IsSeq(body) /\ Len(body) = 9 + k /\ HasAt(body, 0, 9, ab) /\ HasAt(body, 9, k, payload)
    BY <1>0, <1>4, Glued
  <1> HIDE DEF body
  <1>6. f = Field(13 + k, 4)
    BY <1>0, <1>5
  <1> HIDE DEF f
  <1>7. /\ IsSeq(framed) /\ Len(framed) = 13 + k
        /\ HasAt(framed, 0, 4, f) /\ HasAt(framed, 4, 9 + k, body)
    <2>1. /\ IsSeq(f \o body) /\ Len(f \o body) = Len(f) + Len(body)
          /\ HasAt(f \o body, 0, Len(f), f) /\ HasAt(f \o body, Len(f), Len(body), body)
      BY <1>2, <1>5, Glued
    <2>2. Len(f) = 4 /\ Len(body) = 9 + k
      BY <1>2, <1>5
    <2> QED
      BY <1>0, <2>1, <2>2
  <1> HIDE DEF framed
  <1>8. /\ IsSeq(r) /\ Len(r) = 17 + k
        /\ HasAt(r, 0, 13 + k, framed) /\ HasAt(r, 13 + k, 4, c)
    <2>1. /\ IsSeq(framed \o c) /\ Len(framed \o c) = Len(framed) + Len(c)
          /\ HasAt(framed \o c, 0, Len(framed), framed) /\ HasAt(framed \o c, Len(framed), Len(c), c)
      BY <1>3, <1>7, Glued
    <2>2. Len(framed) = 13 + k /\ Len(c) = 4
      BY <1>3, <1>7
    <2> QED
      BY <1>0, <1>1, <2>1, <2>2
  <1> HIDE DEF c
  <1>9. HasAt(r, 0, 4, f) /\ HasAt(r, 4, 9 + k, body)
    <2>1. 0 + 4 <= 13 + k /\ 0 = 0 + 0 /\ 4 + (9 + k) <= 13 + k /\ 4 = 0 + 4
      BY <1>0
    <2> QED
      BY <1>0, <1>7, <1>8, <2>1, Within
  <1>10. HasAt(r, 4, 9, ab) /\ HasAt(r, 13, k, payload)
    <2>1. 0 + 9 <= 9 + k /\ 4 = 4 + 0 /\ 9 + k <= 9 + k /\ 13 = 4 + 9 /\ 9 + k \in Nat
      BY <1>0
    <2>2. HasAt(r, 4, 9, ab)
      BY <1>5, <1>9, <2>1, Within
    <2>3. HasAt(r, 13, k, payload)
      BY <1>0, <1>5, <1>9, <2>1, Within
    <2> QED
      BY <2>2, <2>3
  <1>11. HasAt(r, 4, 8, a) /\ HasAt(r, 12, 1, b)
    <2>1. 0 + 8 <= 9 /\ 4 = 4 + 0 /\ 8 + 1 <= 9 /\ 12 = 4 + 8
      BY <1>0
    <2> QED
      BY <1>4, <1>10, <2>1, Within
  <1>12. ChecksumHolds(r)
    <2>1. Len(r) - 4 = 13 + k /\ Len(r) - 3 = (13 + k) + 1 /\ Len(r) = (13 + k) + 4
      BY <1>0, <1>8
    <2>2. SubSeq(r, 1, 13 + k) = framed
      <3>1. /\ IsSeq(SubSeq(r, 1, 13 + k)) /\ Len(SubSeq(r, 1, 13 + k)) = 13 + k
            /\ HasAt(r, 0, 13 + k, SubSeq(r, 1, 13 + k))
        BY <1>0, <1>8, FirstPart
      <3>2. \A i \in 1..(13 + k) : SubSeq(r, 1, 13 + k)[i] = framed[i]
        BY <1>8, <3>1 DEF HasAt
      <3> QED
        BY <1>7, <3>1, <3>2, SameSeq
    <2>3. SubSeq(r, (13 + k) + 1, (13 + k) + 4) = c
      <3>1. (13 + k) + 4 <= Len(r) /\ 13 + k \in Nat /\ 4 \in Nat
        BY <1>0, <1>8
      <3> DEFINE d == SubSeq(r, (13 + k) + 1, (13 + k) + 4)
      <3>2. IsSeq(d) /\ Len(d) = 4 /\ HasAt(r, 13 + k, 4, d)
        BY <1>8, <3>1, Part
      <3> HIDE DEF d
      <3>3. \A i \in 1..4 : d[i] = c[i]
        BY <1>8, <3>2 DEF HasAt
      <3>4. d = c
        BY <1>3, <3>2, <3>3, SameSeq
      <3> QED
        BY <3>4 DEF d
    <2> QED
      BY <2>1, <2>2, <2>3 DEF ChecksumHolds, c
  <1> QED
    BY <1>0, <1>6, <1>8, <1>9, <1>10, <1>11, <1>12 DEF a, b

\* The length of a record, and the field that says it.
LEMMA RecordHead ==
    ASSUME NEW n, NEW op \in LogOps, NEW r, r = EncodeWalRecord(n, op)
    PROVE  \E k \in Nat : /\ IsSeq(r) /\ Len(r) = 17 + k /\ IsNumber(13 + k)
                          /\ HasAt(r, 0, 4, Field(13 + k, 4))
  <1> DEFINE payload == RecordPayload(op)
             k == Len(payload)
  <1>0. payload = RecordPayload(op) /\ k = Len(payload)
    OBVIOUS
  <1> HIDE DEF payload, k
  <1>1. /\ IsSeq(r) /\ k \in Nat /\ Len(r) = 17 + k /\ IsNumber(13 + k)
        /\ HasAt(r, 0, 4, Field(13 + k, 4))
    BY <1>0, RecordLayout
  <1> QED
    BY <1>1

\* A number below one that fits a field.
LEMMA SmallerNumber ==
    ASSUME NEW x, IsNumber(x), NEW y \in Nat, y <= x
    PROVE  IsNumber(y)
  <1>1. 256^3 = 16777216
    BY SMT
  <1> QED
    BY <1>1 DEF IsNumber

\* The tag is read back.
LEMMA TagReads ==
    ASSUME NEW r, NEW x \in {1, 2, 3}, HasAt(r, 12, 1, Field(x, 1))
    PROVE  Number(<<r[13], <<0>>, <<0>>>>) = x
  <1>1. 256^(1 - 1) = 1
    BY SMT
  <1>2. Field(x, 1)[1] = <<(x \div 256^(1 - 1)) % 256>>
    BY DEF Field
  <1>3. (x \div 1) % 256 = x
    BY SMT
  <1>4. r[12 + 1] = Field(x, 1)[1]
    BY DEF HasAt
  <1>5. r[13] = <<x>>
    BY <1>1, <1>2, <1>3, <1>4
  <1> QED
    BY <1>5 DEF Number

\* What stands in the first and in the second part of a payload.
LEMMA PayloadParts ==
    ASSUME NEW r, NEW at \in Nat, NEW a, IsSeq(a), NEW b, IsSeq(b),
           HasAt(r, at, Len(a \o b), a \o b)
    PROVE  /\ Len(a) \in Nat /\ Len(b) \in Nat /\ Len(a \o b) = Len(a) + Len(b)
           /\ HasAt(r, at, Len(a), a) /\ HasAt(r, at + Len(a), Len(b), b)
  <1> DEFINE p == a \o b
  <1>1. /\ Len(a) \in Nat /\ Len(b) \in Nat /\ Len(p) = Len(a) + Len(b)
        /\ HasAt(p, 0, Len(a), a) /\ HasAt(p, Len(a), Len(b), b)
    BY Glued
  <1>2. HasAt(r, at, Len(p), p)
    OBVIOUS
  <1> HIDE DEF p
  <1>3. 0 + Len(a) <= Len(p) /\ at = at + 0 /\ Len(a) + Len(b) <= Len(p) /\ Len(p) \in Nat
    BY <1>1
  <1>4. HasAt(r, at, Len(a), a)
    BY <1>1, <1>2, <1>3, Within
  <1>5. HasAt(r, at + Len(a), Len(b), b)
    BY <1>1, <1>2, <1>3, Within
  <1> QED
    BY <1>1, <1>4, <1>5 DEF p

\* decode_wal_record gives back what encode_wal_record was given.
LEMMA FrameReads ==
    ASSUME NEW n, IsNumber(n), NEW op \in LogOps, NEW r, r = EncodeWalRecord(n, op)
    PROVE  DecodeWalRecord(r) = [kind |-> "record", lsn |-> n, op |-> OpInBytes(op)]
  <1> DEFINE payload == RecordPayload(op)
             k == Len(payload)
  <1>2. payload = RecordPayload(op) /\ k = Len(payload)
    OBVIOUS
  <1> HIDE DEF payload, k
  <1>1. /\ IsSeq(r) /\ k \in Nat /\ Len(r) = 17 + k /\ IsNumber(13 + k)
        /\ HasAt(r, 4, 8, Field(n, 8)) /\ HasAt(r, 12, 1, Field(OpTag[op[1]], 1))
        /\ HasAt(r, 13, k, payload)
    BY <1>2, RecordLayout
  <1>3. Number(Slice(r, 4, 8)) = n
    <2>1. 4 + 8 <= Len(r) /\ 8 >= 3
      BY <1>1
    <2> QED
      BY <1>1, <2>1, NumberAt
  <1>4. Readable(r, 4, 9)
    BY <1>1 DEF Readable
  <1>5. CASE \E key \in Keys, v \in Values : op = <<"put", key, v>>
    <2>1. PICK key \in Keys, v \in Values : op = <<"put", key, v>>
      BY <1>5
    <2>2. op[1] = "put" /\ op[2] = key /\ op[3] = v
      BY <2>1
    <2> DEFINE kb == KeyBytes(key)
               vb == ValueBytes(v)
               a == LengthPrefixed(kb)
               b == LengthPrefixed(vb)
    <2>3. IsSeq(kb) /\ IsSeq(vb) /\ Len(kb) \in Nat /\ Len(vb) \in Nat
      BY DataIsSeq
    <2>4. payload = a \o b /\ OpInBytes(op) = <<"put", kb, vb>>
      BY <1>2, <2>2 DEF RecordPayload, OpInBytes
    <2> HIDE DEF kb, vb
    <2>5. IsSeq(a) /\ IsSeq(b) /\ Len(a) = 4 + Len(kb) /\ Len(b) = 4 + Len(vb)
      BY <2>3, PrefixedLayout
    <2> HIDE DEF a, b
    <2>6. k = Len(a) + Len(b) /\ HasAt(r, 13, Len(a), a) /\ HasAt(r, 13 + Len(a), Len(b), b)
      <3>1. HasAt(r, 13, Len(a \o b), a \o b) /\ k = Len(a \o b)
        BY <1>1, <1>2, <2>4
      <3> QED
        BY <2>5, <3>1, PayloadParts
    <2>7. IsNumber(Len(kb)) /\ IsNumber(Len(vb))
      <3>1. Len(kb) <= 13 + k /\ Len(vb) <= 13 + k
        BY <2>3, <2>5, <2>6
      <3> QED
        BY <1>1, <2>3, <3>1, SmallerNumber
    <2>8. ReadPrefixed(r, 13) = kb
      <3>1. 13 + 4 + Len(kb) <= Len(r) /\ HasAt(r, 13, 4 + Len(kb), LengthPrefixed(kb))
        BY <1>1, <2>3, <2>5, <2>6 DEF a
      <3> QED
        BY <1>1, <2>3, <2>7, <3>1, PrefixedReads
    <2>9. ReadPrefixed(r, 13 + 4 + Len(kb)) = vb
      <3>1. 13 + Len(a) = 13 + 4 + Len(kb) /\ 13 + 4 + Len(kb) \in Nat
        BY <2>3, <2>5
      <3>2. /\ 13 + 4 + Len(kb) + 4 + Len(vb) <= Len(r)
            /\ HasAt(r, 13 + 4 + Len(kb), 4 + Len(vb), LengthPrefixed(vb))
        BY <1>1, <2>3, <2>5, <2>6, <3>1 DEF b
      <3> QED
        BY <1>1, <2>3, <2>7, <3>1, <3>2, PrefixedReads
    <2>10. Number(<<r[13], <<0>>, <<0>>>>) = 1
      BY <1>1, <2>2, TagReads DEF OpTag
    <2> QED
      BY <1>3, <1>4, <2>4, <2>8, <2>9, <2>10 DEF DecodeWalRecord, LengthField
  <1>6. CASE \E key \in Keys : op = <<"delete", key>>
    <2>1. PICK key \in Keys : op = <<"delete", key>>
      BY <1>6
    <2>2. op[1] = "delete" /\ op[2] = key
      BY <2>1
    <2> DEFINE kb == KeyBytes(key)
    <2>3. IsSeq(kb) /\ Len(kb) \in Nat
      BY DataIsSeq
    <2>4. payload = LengthPrefixed(kb) /\ OpInBytes(op) = <<"delete", kb>>
      BY <1>2, <2>2 DEF RecordPayload, OpInBytes
    <2> HIDE DEF kb
    <2>5. k = 4 + Len(kb)
      BY <1>2, <2>3, <2>4, PrefixedLayout
    <2>6. IsNumber(Len(kb))
      BY <1>1, <2>3, <2>5, SmallerNumber
    <2>7. ReadPrefixed(r, 13) = kb
      <3>1. 13 + 4 + Len(kb) <= Len(r) /\ HasAt(r, 13, 4 + Len(kb), LengthPrefixed(kb))
        BY <1>1, <2>3, <2>4, <2>5
      <3> QED
        BY <1>1, <2>3, <2>6, <3>1, PrefixedReads
    <2>8. Number(<<r[13], <<0>>, <<0>>>>) = 2
      BY <1>1, <2>2, TagReads DEF OpTag
    <2> QED
      BY <1>3, <1>4, <2>4, <2>7, <2>8 DEF DecodeWalRecord
  <1>7. CASE op = <<"checkpoint", op[2], op[3], op[4]>> /\ \A i \in 2..4 : IsNumber(op[i])
    <2>1. op[1] = "checkpoint"
      BY <1>7
    <2> DEFINE a == Field(op[2], 8)
               b == Field(op[3], 8)
               c == Field(op[4], 8)
               ab == a \o b
    <2>2. payload = ab \o c /\ OpInBytes(op) = op
      BY <1>2, <2>1 DEF RecordPayload, OpInBytes
    <2>3. /\ IsSeq(a) /\ IsSeq(b) /\ IsSeq(c)
          /\ Len(a) = 8 /\ Len(b) = 8 /\ Len(c) = 8
      BY FieldIsBytes DEF IsBytes
    <2> HIDE DEF a, b, c
    <2>4. IsSeq(ab) /\ Len(ab) = 16
      <3>1. IsSeq(a \o b) /\ Len(a \o b) = Len(a) + Len(b)
        BY <2>3, Glued
      <3> QED
        BY <2>3, <3>1
    <2>5. k = 24 /\ HasAt(r, 13, 16, ab) /\ HasAt(r, 29, 8, c)
      <3>1. HasAt(r, 13, Len(ab \o c), ab \o c) /\ k = Len(ab \o c)
        BY <1>1, <1>2, <2>2
      <3> HIDE DEF ab
      <3>2. IsSeq(ab) /\ IsSeq(c) /\ 13 \in Nat
        BY <2>3, <2>4
      <3>3. k = Len(ab) + Len(c) /\ HasAt(r, 13, Len(ab), ab) /\ HasAt(r, 13 + Len(ab), Len(c), c)
        BY <3>1, <3>2, PayloadParts
      <3> QED
        BY <2>3, <2>4, <3>3
    <2>6. HasAt(r, 13, 8, a) /\ HasAt(r, 21, 8, b)
      <3>1. HasAt(r, 13, Len(a \o b), a \o b)
        BY <2>4, <2>5
      <3>2. HasAt(r, 13, Len(a), a) /\ HasAt(r, 13 + Len(a), Len(b), b)
        BY <2>3, <3>1, PayloadParts
      <3> QED
        BY <2>3, <3>2
    <2>7. 13 + 8 <= Len(r) /\ 21 + 8 <= Len(r) /\ 29 + 8 <= Len(r) /\ 8 >= 3
      BY <1>1, <2>5
    <2>8. IsNumber(op[2]) /\ IsNumber(op[3]) /\ IsNumber(op[4])
      BY <1>7
    <2>9. /\ Number(Slice(r, 13, 8)) = op[2] /\ Number(Slice(r, 21, 8)) = op[3]
          /\ Number(Slice(r, 29, 8)) = op[4]
      BY <1>1, <2>5, <2>6, <2>7, <2>8, NumberAt DEF a, b, c
    <2>10. Number(<<r[13], <<0>>, <<0>>>>) = 3
      BY <1>1, <2>1, TagReads DEF OpTag
    <2> QED
      BY <1>3, <1>4, <1>7, <2>2, <2>9, <2>10 DEF DecodeWalRecord
  <1> QED
    BY <1>5, <1>6, <1>7, FormatAssumption

-----------------------------------------------------------------------------
(* What _iter_records finds at a position of the log. *)

\* A whole record.
LEMMA RecordReads ==
    ASSUME NEW b, IsSeq(b), NEW at \in Nat, NEW n, IsNumber(n), NEW op \in LogOps,
           NEW r, r = EncodeWalRecord(n, op), at + Len(r) <= Len(b), HasAt(b, at, Len(r), r)
    PROVE  DecodeNext(b, at) = [kind |-> "record", lsn |-> n, op |-> OpInBytes(op),
                                next |-> at + Len(r)]
  <1> DEFINE payload == RecordPayload(op)
             k == Len(payload)
  <1>0. payload = RecordPayload(op) /\ k = Len(payload)
    OBVIOUS
  <1> HIDE DEF payload, k
  <1>1. /\ IsSeq(r) /\ k \in Nat /\ Len(r) = 17 + k /\ IsNumber(13 + k)
        /\ HasAt(r, 0, 4, Field(13 + k, 4)) /\ ChecksumHolds(r)
    BY <1>0, RecordLayout
  <1>2. Number(Slice(b, at, 4)) = 13 + k
    <2>1. 0 + 4 <= Len(r) /\ at = at + 0 /\ at + 4 <= Len(b) /\ 4 >= 3 /\ Len(r) \in Nat
      BY <1>1
    <2>2. HasAt(b, at, 4, Field(13 + k, 4))
      BY <1>1, <2>1, Within
    <2> QED
      BY <1>1, <2>1, <2>2, NumberAt
  <1>3. Slice(b, at, 4 + (13 + k)) = r
    <2>1. 4 + (13 + k) = Len(r)
      BY <1>1
    <2> QED
      BY <1>1, <2>1, SliceReads
  <1>4. Readable(b, at, 4) /\ Readable(b, at + 4, 13 + k) /\ at + 4 + (13 + k) = at + Len(r)
    <2>1. Len(b) \in Nat
      BY LenIsNat
    <2> QED
      BY <1>1, <2>1 DEF Readable
  <1>5. DecodeWalRecord(r) = [kind |-> "record", lsn |-> n, op |-> OpInBytes(op)]
    BY FrameReads
  <1> DEFINE read == DecodeWalRecord(r)
  <1>6. read.kind = "record" /\ read.lsn = n /\ read.op = OpInBytes(op)
    BY <1>5
  <1> HIDE DEF read
  <1> QED
    BY <1>1, <1>2, <1>3, <1>4, <1>6 DEF DecodeNext, LengthField, read

\* The end of the file.
LEMMA EndReads ==
    ASSUME NEW b, IsSeq(b)
    PROVE  DecodeNext(b, Len(b)).kind = "EOFError"
  <1>1. ~Readable(b, Len(b), 4)
    BY LenIsNat DEF Readable
  <1> QED
    BY <1>1 DEF DecodeNext, LengthField

\* A record that is cut short.
LEMMA ShortReads ==
    ASSUME NEW b, IsSeq(b), NEW at \in Nat, NEW n, NEW op \in LogOps,
           NEW r, r = EncodeWalRecord(n, op), NEW m \in Nat, m < Len(r),
           Len(b) = at + m, HasAt(b, at, m, r)
    PROVE  DecodeNext(b, at).kind = "EOFError"
  <1> DEFINE payload == RecordPayload(op)
             k == Len(payload)
  <1>0. payload = RecordPayload(op) /\ k = Len(payload)
    OBVIOUS
  <1> HIDE DEF payload, k
  <1>1. /\ IsSeq(r) /\ k \in Nat /\ Len(r) = 17 + k /\ IsNumber(13 + k)
        /\ HasAt(r, 0, 4, Field(13 + k, 4)) /\ ChecksumHolds(r)
    BY <1>0, RecordLayout
  <1>2. CASE m < 4
    <2>1. ~Readable(b, at, 4)
      BY <1>2 DEF Readable
    <2> QED
      BY <2>1 DEF DecodeNext, LengthField
  <1>3. CASE m >= 4
    <2>1. 0 + 4 <= m /\ at = at + 0 /\ at + 4 <= Len(b) /\ 4 >= 3
      BY <1>3
    <2>2. HasAt(b, at, 4, Field(13 + k, 4))
      BY <1>1, <2>1, Within
    <2>3. Number(Slice(b, at, 4)) = 13 + k
      BY <1>1, <2>1, <2>2, NumberAt
    <2>4. ~Readable(b, at + 4, 13 + k)
      BY <1>1 DEF Readable
    <2> QED
      BY <2>3, <2>4 DEF DecodeNext, LengthField
  <1> QED
    BY <1>2, <1>3

\* A frame of some length that ends in a zero where its checksum should be.
LEMMA BrokenReads ==
    ASSUME NEW b, IsSeq(b), NEW at \in Nat, NEW n \in Nat, n > 0, at + 4 + n <= Len(b),
           Number(Slice(b, at, 4)) = n, b[at + 4 + n] = << 0 >>
    PROVE  DecodeNext(b, at) = [kind |-> "DBChecksumError", next |-> at + 4 + n]
  <1> DEFINE f == Slice(b, at, 4 + n)
  <1>0. 4 + n \in Nat /\ at + (4 + n) <= Len(b)
    BY LenIsNat
  <1>1. IsSeq(f) /\ Len(f) = 4 + n /\ HasAt(b, at, 4 + n, f)
    BY <1>0, SliceIs
  <1> HIDE DEF f
  <1>2. f[4 + n] = <<0>>
    <2>1. 4 + n \in 1..(4 + n) /\ at + (4 + n) = at + 4 + n
      OBVIOUS
    <2> QED
      BY <1>1, <2>1 DEF HasAt
  <1> DEFINE s == SubSeq(f, 1, n)
             v == [j \in DOMAIN s |-> s[j][1]]
             c == SubSeq(f, n + 1, n + 4)
  <1>3. IsSeq(s) /\ Len(s) = n
    BY <1>1, FirstPart
  <1>4. c[4] = <<0>>
    <2>1. HasAt(f, n, 4, c)
      BY <1>1, Part
    <2> HIDE DEF c
    <2>2. f[n + 4] = c[4]
      BY <2>1 DEF HasAt
    <2> QED
      BY <1>2, <2>2
  <1>5. Crc32(s)[4][1] = 259
    <2> HIDE DEF s
    <2>0. PICK S : s \in Seq(S)
      BY <1>3 DEF IsSeq
    <2>1. s # <<>> /\ DOMAIN s = 1..n
      BY <1>3, <2>0, LenProperties, EmptySeq
    <2>2. Crc32(s)[4] = <<255 + 4>> \o v
      BY <2>1 DEF Crc32
    <2>3. v = [j \in 1..n |-> v[j]]
      BY <2>1
    <2> HIDE DEF v
    <2>4. IsSeq(v)
      BY <2>3, Listed
    <2>5. IsSeq(<<255 + 4>>) /\ Len(<<255 + 4>>) = 1
      <3>1. <<255 + 4>> \in Seq({255 + 4})
        OBVIOUS
      <3> QED
        BY <3>1 DEF IsSeq
    <2>6. (<<255 + 4>> \o v)[1] = <<255 + 4>>[1]
      BY <2>4, <2>5, Glue
    <2> QED
      BY <2>2, <2>6
  <1>6. Crc32(s) # c
    <2>1. c[4][1] = 0
      BY <1>4
    <2> HIDE DEF c, s
    <2> QED
      BY <1>5, <2>1
  <1>7. ~ChecksumHolds(f)
    <2>1. Len(f) - 4 = n /\ Len(f) - 3 = n + 1 /\ Len(f) = n + 4
      BY <1>1
    <2> QED
      BY <1>6, <2>1 DEF ChecksumHolds
  <1>8. Readable(b, at, 4) /\ Readable(b, at + 4, n)
    <2>1. Len(b) \in Nat
      BY LenIsNat
    <2> QED
      BY <2>1 DEF Readable
  <1> QED
    BY <1>7, <1>8 DEF DecodeNext, LengthField, f

\* Four zeros: a frame of no bytes, whose checksum is the one of no bytes.
LEMMA ZerosRead ==
    ASSUME NEW b, IsSeq(b), NEW at \in Nat, at + 4 <= Len(b),
           \A i \in 1..4 : b[at + i] = << 0 >>
    PROVE  DecodeNext(b, at) = [kind |-> "struct.error"]
  <1> DEFINE f == Slice(b, at, 4)
  <1>1. IsSeq(f) /\ Len(f) = 4 /\ HasAt(b, at, 4, f)
    BY SliceIs
  <1>2. f = Slice(b, at, 4)
    OBVIOUS
  <1> HIDE DEF f
  <1>3. \A i \in 1..4 : f[i] = <<0>>
    BY <1>1 DEF HasAt
  <1>4. Number(f) = 0
    <2>1. f[1][1] = 0 /\ f[2][1] = 0 /\ f[3][1] = 0
      BY <1>3
    <2> QED
      BY <2>1 DEF Number
  <1>5. ChecksumHolds(f)
    <2>1. SubSeq(f, 1, 0) = <<>>
      <3>0. 0 \in Nat /\ 0 <= Len(f)
        BY <1>1
      <3>1. IsSeq(SubSeq(f, 1, 0)) /\ Len(SubSeq(f, 1, 0)) = 0
        BY <1>1, <3>0, FirstPart
      <3> QED
        BY <3>1, EmptySeq DEF IsSeq
    <2>2. SubSeq(f, 1, 4) = Zeros(4)
      <3> DEFINE g == SubSeq(f, 1, 4)
                 z == Zeros(4)
      <3>0. 4 \in Nat /\ 4 <= Len(f)
        BY <1>1
      <3>1. IsSeq(g) /\ Len(g) = 4 /\ HasAt(f, 0, 4, g)
        BY <1>1, <3>0, FirstPart
      <3>2. z = [i \in 1..4 |-> z[i]] /\ \A i \in 1..4 : z[i] = <<0>>
        BY DEF Zeros
      <3> HIDE DEF g, z
      <3>3. IsSeq(z) /\ Len(z) = 4
        BY <3>2, Listed
      <3>4. \A i \in 1..4 : g[i] = z[i]
        BY <1>3, <3>1, <3>2 DEF HasAt
      <3>5. g = z
        BY <3>1, <3>3, <3>4, SameSeq
      <3> QED
        BY <3>5 DEF g, z
    <2> QED
      BY <1>1, <2>1, <2>2 DEF ChecksumHolds, Crc32
  <1>6. Readable(b, at, 4) /\ Readable(b, at + 4, 0) /\ ~Readable(f, 4, 9)
    <2>1. Len(b) \in Nat
      BY LenIsNat
    <2> QED
      BY <1>1, <2>1 DEF Readable
  <1>7. DecodeWalRecord(f) = [kind |-> "struct.error"]
    BY <1>6 DEF DecodeWalRecord
  <1> DEFINE read == DecodeWalRecord(f)
  <1>8. read.kind = "struct.error" /\ read = [kind |-> "struct.error"]
    BY <1>7
  <1> HIDE DEF read
  <1>9. Slice(b, at, 4 + 0) = f
    BY <1>2
  <1> QED
    BY <1>2, <1>4, <1>5, <1>6, <1>8, <1>9 DEF DecodeNext, LengthField, read

\* The i-th base-256 digit of a number, i in 1..3.
Digit(x, i) == (x \div 256^(i - 1)) % 256

\* The cells of a field.
LEMMA FieldCells ==
    ASSUME NEW x, IsNumber(x)
    PROVE  /\ Digit(x, 1) \in 0..255 /\ Digit(x, 2) \in 0..255 /\ Digit(x, 3) \in 0..255
           /\ x = Digit(x, 1) + 256 * Digit(x, 2) + 65536 * Digit(x, 3)
           /\ Field(x, 4)[1] = <<Digit(x, 1)>> /\ Field(x, 4)[2] = <<Digit(x, 2)>>
           /\ Field(x, 4)[3] = <<Digit(x, 3)>>
  <1>1. 256^(1 - 1) = 1 /\ 256^(2 - 1) = 256 /\ 256^(3 - 1) = 65536
    BY SMT
  <1>2. x \in Nat /\ x \div 1 = x
    BY SMT DEF IsNumber
  <1>3. \A i \in 1..4 : Field(x, 4)[i] = <<IF i > 4 THEN 0 ELSE Digit(x, i)>>
    BY DEF Field, Digit
  <1>4. Field(x, 4)[1] = <<Digit(x, 1)>> /\ Field(x, 4)[2] = <<Digit(x, 2)>> /\ Field(x, 4)[3] = <<Digit(x, 3)>>
    BY <1>3
  <1>5. Digit(x, 1) = x % 256 /\ Digit(x, 2) = (x \div 256) % 256 /\ Digit(x, 3) = (x \div 65536) % 256
    BY <1>1, <1>2, SMT DEF Digit
  <1>6. x \div 256 \in Nat /\ x \div 65536 \in Nat
    BY <1>2, SMT
  <1>7. Digit(x, 1) \in 0..255 /\ Digit(x, 2) \in 0..255 /\ Digit(x, 3) \in 0..255
    BY <1>2, <1>5, <1>6, SMT
  <1>8. x = Digit(x, 1) + 256 * Digit(x, 2) + 65536 * Digit(x, 3)
    BY <1>5, NumberDigits
  <1> QED
    BY <1>4, <1>7, <1>8

\* A record r of which only the first m cells were written, and zeros behind.
Filled(b, at, m, r) ==
    /\ IsSeq(b) /\ at \in Nat /\ m \in Nat /\ m < Len(r) /\ Len(b) = at + Len(r)
    /\ HasAt(b, at, m, r)
    /\ \A i \in (m + 1)..Len(r) : b[at + i] = <<0>>

\* Its length field is the record's, or has lost cells: then there are zeros
\* from the field on and the length it says leaves four of them and more.
LEMMA FilledLength ==
    ASSUME NEW b, NEW at, NEW m, NEW k \in Nat, NEW r, Filled(b, at, m, r),
           IsSeq(r), Len(r) = 17 + k, IsNumber(13 + k), HasAt(r, 0, 4, Field(13 + k, 4))
    PROVE  /\ Number(Slice(b, at, 4)) \in Nat
           /\ Number(Slice(b, at, 4)) # 13 + k => m < 3 /\ Number(Slice(b, at, 4)) + 4 <= 13 + k
           /\ Number(Slice(b, at, 4)) = 0 => \A i \in 1..4 : b[at + i] = << 0 >>
  <1> DEFINE f == Slice(b, at, 4)
             x == 13 + k
             g == Field(x, 4)
             d1 == Digit(x, 1)
             d2 == Digit(x, 2)
             d3 == Digit(x, 3)
             e1 == IF m >= 1 THEN d1 ELSE 0
             e2 == IF m >= 2 THEN d2 ELSE 0
             e3 == IF m >= 3 THEN d3 ELSE 0
  <1>1. m \in Nat /\ at \in Nat
    BY DEF Filled
  <1>2. HasAt(b, at, 4, f)
    <2>1. IsSeq(b) /\ 4 \in Nat /\ at + 4 <= Len(b)
      BY DEF Filled
    <2> QED
      BY <1>1, <2>1, SliceIs
  <1>4. HasAt(r, 0, 4, g) /\ x >= 4 /\ x = 13 + k /\ IsNumber(x)
    OBVIOUS
  <1> HIDE DEF x
  <1>3. /\ d1 \in 0..255 /\ d2 \in 0..255 /\ d3 \in 0..255
        /\ x = d1 + 256 * d2 + 65536 * d3
        /\ g[1] = <<d1>> /\ g[2] = <<d2>> /\ g[3] = <<d3>>
    BY <1>4, FieldCells
  <1> HIDE DEF f, g, d1, d2, d3
  <1>5. \A i \in 1..3 : i <= m => b[at + i] = g[i]
    <2> SUFFICES ASSUME NEW i \in 1..3, i <= m PROVE b[at + i] = g[i]
      OBVIOUS
    <2>1. i \in 1..m /\ i \in 1..4 /\ 0 + i = i
      BY <1>1
    <2>2. b[at + i] = r[i] /\ r[i] = g[i]
      BY <1>4, <2>1 DEF HasAt, Filled
    <2> QED
      BY <2>2
  <1>6. \A i \in 1..4 : ~(i <= m) => b[at + i] = <<0>>
    <2> SUFFICES ASSUME NEW i \in 1..4, ~(i <= m) PROVE b[at + i] = <<0>>
      OBVIOUS
    <2>1. i \in (m + 1)..Len(r)
      BY <1>1
    <2> QED
      BY <2>1 DEF Filled
  <1>7. b[at + 1] = <<e1>> /\ b[at + 2] = <<e2>> /\ b[at + 3] = <<e3>>
    BY <1>1, <1>3, <1>5, <1>6
  <1>8. f[1] = <<e1>> /\ f[2] = <<e2>> /\ f[3] = <<e3>>
    BY <1>2, <1>7 DEF HasAt
  <1> DEFINE y == e1 + 256 * e2 + 65536 * e3
  <1>9. Number(f) = y
    <2> HIDE DEF e1, e2, e3
    <2> QED
      BY <1>8 DEF Number
  <1>10. /\ y \in Nat /\ (y # x => m < 3 /\ y + 4 <= x)
         /\ y = 0 => e1 = 0 /\ e2 = 0 /\ e3 = 0 /\ m < 3
    <2>0. x = d1 + 256 * d2 + 65536 * d3 /\ x >= 4 /\ d1 \in 0..255 /\ d2 \in 0..255 /\ d3 \in 0..255
      BY <1>3, <1>4
    <2>1. CASE m = 0
      BY <2>0, <2>1
    <2>2. CASE m = 1
      BY <2>0, <2>2
    <2>3. CASE m = 2
      BY <2>0, <2>3
    <2>4. CASE m >= 3
      <3>1. e1 = d1 /\ e2 = d2 /\ e3 = d3
        BY <1>1, <2>4
      <3>2. y = x
        BY <2>0, <3>1
      <3>3. x \in Nat /\ x # 0
        BY <2>0
      <3> HIDE DEF y
      <3> QED
        BY <3>2, <3>3
    <2> QED
      BY <1>1, <2>1, <2>2, <2>3, <2>4
  <1>11. y = 0 => \A i \in 1..4 : b[at + i] = <<0>>
    <2> SUFFICES ASSUME y = 0 PROVE \A i \in 1..4 : b[at + i] = <<0>>
      OBVIOUS
    <2>1. e1 = 0 /\ e2 = 0 /\ e3 = 0 /\ m < 3
      BY <1>10
    <2> HIDE DEF e1, e2, e3, y
    <2>2. b[at + 1] = <<0>> /\ b[at + 2] = <<0>> /\ b[at + 3] = <<0>>
      BY <1>7, <2>1
    <2>3. b[at + 4] = <<0>>
      BY <1>1, <1>6, <2>1
    <2>4. \A i \in 1..4 : i = 1 \/ i = 2 \/ i = 3 \/ i = 4
      OBVIOUS
    <2> QED
      BY <2>2, <2>3, <2>4
  <1> HIDE DEF y
  <1> QED
    BY <1>4, <1>9, <1>10, <1>11 DEF f

\* It reads as a bad checksum, or at last as a frame of zeros.
LEMMA FilledReads ==
    ASSUME NEW b, NEW at, NEW n, NEW op \in LogOps, NEW r, r = EncodeWalRecord(n, op),
           NEW m, Filled(b, at, m, r)
    PROVE  /\ Number(Slice(b, at, 4)) = Len(r) - 4 =>
                DecodeNext(b, at) = [kind |-> "DBChecksumError", next |-> Len(b)]
           /\ Number(Slice(b, at, 4)) # Len(r) - 4 =>
                \/ DecodeNext(b, at).kind = "struct.error"
                \/ \E p \in Nat : /\ DecodeNext(b, at) = [kind |-> "DBChecksumError", next |-> p]
                                  /\ DecodeNext(b, p).kind = "struct.error"
  <1> DEFINE length == Number(Slice(b, at, 4))
  <1>0. PICK k \in Nat :
           IsSeq(r) /\ Len(r) = 17 + k /\ IsNumber(13 + k) /\ HasAt(r, 0, 4, Field(13 + k, 4))
    BY RecordHead
  <1>1. /\ IsSeq(b) /\ at \in Nat /\ m \in Nat /\ Len(b) = at + (17 + k) /\ m < 17 + k
        /\ Len(r) = 17 + k /\ Len(r) - 4 = 13 + k
    BY <1>0 DEF Filled
  <1>2. /\ length \in Nat
        /\ length # 13 + k => m < 3 /\ length + 4 <= 13 + k
        /\ length = 0 => \A i \in 1..4 : b[at + i] = <<0>>
    BY <1>0, FilledLength
  <1>3. \A i \in (m + 1)..(17 + k) : b[at + i] = <<0>>
    BY <1>1 DEF Filled
  <1>4. length = Number(Slice(b, at, 4))
    OBVIOUS
  <1> HIDE DEF length
  <1>8. CASE length = 13 + k
    <2>1. length > 0 /\ at + 4 + length = Len(b) /\ at + (17 + k) = at + 4 + length
      BY <1>1, <1>8
    <2>2. b[at + 4 + length] = <<0>>
      <3>1. 17 + k \in (m + 1)..(17 + k)
        BY <1>1
      <3>2. b[at + (17 + k)] = <<0>>
        BY <1>3, <3>1
      <3> QED
        BY <2>1, <3>2
    <2>3. at + 4 + length <= Len(b)
      BY <1>1, <2>1
    <2>4. DecodeNext(b, at) = [kind |-> "DBChecksumError", next |-> at + 4 + length]
      BY <1>1, <1>2, <1>4, <2>1, <2>2, <2>3, BrokenReads
    <2> QED
      BY <1>1, <1>4, <1>8, <2>1, <2>4
  <1>9. CASE length # 13 + k /\ length = 0
    <2>3. at + 4 <= Len(b)
      BY <1>1
    <2>4. DecodeNext(b, at) = [kind |-> "struct.error"]
      BY <1>1, <1>2, <1>9, <2>3, ZerosRead
    <2> QED
      BY <1>1, <1>4, <1>9, <2>4
  <1>10. CASE length # 13 + k /\ length # 0
    <2> DEFINE p == at + 4 + length
    <2>1. m < 3 /\ length + 4 <= 13 + k /\ length > 0
      BY <1>2, <1>10
    <2>2. b[at + 4 + length] = <<0>> /\ at + 4 + length <= Len(b)
      <3>1. 4 + length \in (m + 1)..(17 + k) /\ at + (4 + length) = at + 4 + length
        BY <1>1, <1>2, <2>1
      <3>2. b[at + (4 + length)] = <<0>>
        BY <1>3, <3>1
      <3>3. at + 4 + length <= Len(b)
        BY <1>1, <1>2, <2>1
      <3> QED
        BY <3>1, <3>2, <3>3
    <2>3. DecodeNext(b, at) = [kind |-> "DBChecksumError", next |-> p]
      BY <1>1, <1>2, <1>4, <2>1, <2>2, BrokenReads
    <2>4. p \in Nat /\ p + 4 <= Len(b)
      BY <1>1, <1>2, <2>1
    <2>5. \A i \in 1..4 : b[p + i] = <<0>>
      <3> SUFFICES ASSUME NEW i \in 1..4 PROVE b[p + i] = <<0>>
        OBVIOUS
      <3>0. length \in Nat /\ k \in Nat /\ m \in Nat /\ at \in Nat
        BY <1>1, <1>2
      <3>1. 4 + length + i \in (m + 1)..(17 + k)
        BY <2>1, <3>0
      <3>2. b[at + (4 + length + i)] = <<0>>
        BY <1>3, <3>1
      <3>3. at + (4 + length + i) = p + i
        BY <3>0
      <3> QED
        BY <3>2, <3>3
    <2> HIDE DEF p
    <2>6. DecodeNext(b, p) = [kind |-> "struct.error"]
      BY <1>1, <2>4, <2>5, ZerosRead
    <2>7. DecodeNext(b, p).kind = "struct.error"
      BY <2>6
    <2> QED
      BY <1>1, <1>4, <1>10, <2>3, <2>4, <2>7
  <1> QED
    BY <1>8, <1>9, <1>10

-----------------------------------------------------------------------------
(* The log as bytes: FormatSpec. *)

Frame(w, i) == EncodeWalRecord(i, w[i].op)

\* The frames of the records w stand in b, and e[i] is where the i-th ends.
Framed(b, w, e) ==
    /\ IsSeq(b) /\ IsSeq(w) /\ Len(w) <= MaxRecords
    /\ e \in [0..Len(w) -> Nat] /\ e[0] = 0 /\ e[Len(w)] <= Len(b)
    /\ \A i \in 1..Len(w) :
        /\ w[i].op \in LogOps /\ w[i] = [lsn |-> i, op |-> w[i].op]
        /\ e[i] = e[i - 1] + Len(Frame(w, i)) /\ e[i] <= e[Len(w)]
        /\ HasAt(b, e[i - 1], Len(Frame(w, i)), Frame(w, i))

\* What is behind the frames, as _iter_records will find it.
TailIs(b, at, t) ==
    /\ t \in {"none", "short", "badcrc", "zeros"}
    /\ t = "none" => Len(b) = at
    /\ t = "short" => DecodeNext(b, at).kind = "EOFError"
    /\ t = "badcrc" => DecodeNext(b, at) = [kind |-> "DBChecksumError", next |-> Len(b)]
    /\ t = "zeros" =>
        \/ DecodeNext(b, at).kind = "struct.error"
        \/ \E p \in Nat : /\ DecodeNext(b, at) = [kind |-> "DBChecksumError", next |-> p]
                          /\ DecodeNext(b, p).kind = "struct.error"

\* The i-th record as the reader yields it.
Yielded(w, i) == [lsn |-> i, op |-> OpInBytes(w[i].op)]

\* The reader has yielded the first j records; behind a bad checksum it has
\* yielded them all.
ReadUpTo(rd, b, w, e, t, j) ==
    /\ rd = [at |-> rd.at, good |-> e[j], yielded |-> [i \in 1..j |-> Yielded(w, i)],
             broken |-> rd.broken, state |-> rd.state]
    /\ rd.broken \in BOOLEAN
    /\ ~rd.broken => rd.at = e[j]
    /\ rd.broken => /\ j = Len(w)
                    /\ \/ t = "badcrc" /\ rd.at = Len(b)
                       \/ t = "zeros" /\ DecodeNext(b, rd.at).kind = "struct.error"
    /\ rd.state \in {"reading", "ended", "raised"}
    /\ rd.state = "ended" => j = Len(w) /\ t # "zeros"
    /\ rd.state = "raised" => t = "zeros"

FormatInv ==
    \E e : /\ Framed(bytes, written, e) /\ TailIs(bytes, e[Len(written)], tail)
           /\ \/ reader = NotReading
              \/ \E j \in 0..Len(written) : ReadUpTo(reader, bytes, written, e, tail, j)

\* Nothing is read.
LEMMA ReaderIsOff ==
    ASSUME FormatInv, reader.state = "off"
    PROVE  \E e : /\ Framed(bytes, written, e) /\ TailIs(bytes, e[Len(written)], tail)
                  /\ reader = NotReading
  BY DEF FormatInv, ReadUpTo

\* At the end of the i-th record the next one is read.
LEMMA NextRecordReads ==
    ASSUME NEW b, NEW w, NEW e, Framed(b, w, e), NEW j \in 0..Len(w), j # Len(w)
    PROVE  /\ j + 1 \in 0..Len(w)
           /\ DecodeNext(b, e[j]) = [kind |-> "record", lsn |-> j + 1,
                                     op |-> OpInBytes(w[j + 1].op), next |-> e[j + 1]]
  <1>1. IsSeq(b) /\ IsSeq(w) /\ Len(w) \in Nat /\ Len(b) \in Nat
    BY LenIsNat DEF Framed
  <1> DEFINE i == j + 1
             r == Frame(w, i)
  <1>2. i \in 1..Len(w) /\ i \in Nat /\ i - 1 = j
    BY <1>1
  <1>3. /\ w[i].op \in LogOps /\ e[i] = e[i - 1] + Len(r) /\ e[i] <= e[Len(w)]
        /\ HasAt(b, e[i - 1], Len(r), r) /\ e[i - 1] \in Nat /\ e[i] \in Nat
        /\ e[Len(w)] \in Nat /\ e[Len(w)] <= Len(b)
    <2>1. i - 1 \in 0..Len(w) /\ i \in 0..Len(w) /\ Len(w) \in 0..Len(w)
      BY <1>1, <1>2
    <2> QED
      BY <1>2, <2>1 DEF Framed
  <1>4. IsNumber(i)
    <2>1. i <= MaxRecords
      BY <1>1, <1>2, FormatAssumption DEF Framed, IsNumber
    <2> QED
      BY <1>2, <2>1, FormatAssumption, SmallerNumber
  <1>5. r = EncodeWalRecord(i, w[i].op)
    BY DEF Frame
  <1> HIDE DEF r, i
  <1>6. e[i - 1] + Len(r) <= Len(b)
    BY <1>1, <1>3
  <1>7. DecodeNext(b, e[i - 1]) = [kind |-> "record", lsn |-> i, op |-> OpInBytes(w[i].op),
                                   next |-> e[i - 1] + Len(r)]
    BY <1>1, <1>3, <1>4, <1>5, <1>6, RecordReads
  <1>8. DecodeNext(b, e[j]) = [kind |-> "record", lsn |-> i, op |-> OpInBytes(w[i].op),
                               next |-> e[i]]
    BY <1>2, <1>3, <1>7
  <1> QED
    BY <1>1, <1>2, <1>8 DEF i

\* What has been yielded, with one record more.
LEMMA YieldedOneMore ==
    ASSUME NEW w, NEW j \in Nat, NEW y, y = [i \in 1..j |-> Yielded(w, i)]
    PROVE  /\ IsSeq(y) /\ Len(y) = j
           /\ Append(y, Yielded(w, j + 1)) = [i \in 1..(j + 1) |-> Yielded(w, i)]
           /\ y # <<>> => j # 0 /\ Last(y).lsn = j
  <1>1. IsSeq(y) /\ Len(y) = j /\ DOMAIN y = 1..j
    BY Listed
  <1> DEFINE S == {Yielded(w, i) : i \in 1..(j + 1)}
             x == Yielded(w, j + 1)
             z == [i \in 1..(j + 1) |-> Yielded(w, i)]
  <1>2. y \in [1..j -> S] /\ x \in S /\ z \in [1..(j + 1) -> S]
    <2>1. \A i \in 1..(j + 1) : Yielded(w, i) \in S
      OBVIOUS
    <2>2. j + 1 \in 1..(j + 1) /\ \A i \in 1..j : i \in 1..(j + 1)
      OBVIOUS
    <2> HIDE DEF S
    <2> QED
      BY <2>1, <2>2
  <1> HIDE DEF S
  <1>3. y \in Seq(S) /\ z \in Seq(S)
    BY <1>2, SeqDef
  <1>4. \A i \in 1..(j + 1) : z[i] = Yielded(w, i)
    OBVIOUS
  <1>5. z = [i \in 1..(j + 1) |-> z[i]]
    OBVIOUS
  <1>6. IsSeq(z) /\ Len(z) = j + 1
    BY <1>5, Listed
  <1> HIDE DEF z, x
  <1>7. /\ Append(y, x) \in Seq(S) /\ Len(Append(y, x)) = Len(y) + 1
        /\ \A i \in 1..Len(y) : Append(y, x)[i] = y[i]
        /\ Append(y, x)[Len(y) + 1] = x
    BY <1>2, <1>3, AppendProperties
  <1>8. \A i \in 1..(j + 1) : Append(y, x)[i] = z[i]
    <2> SUFFICES ASSUME NEW i \in 1..(j + 1) PROVE Append(y, x)[i] = z[i]
      OBVIOUS
    <2>1. CASE i = j + 1
      BY <1>1, <1>4, <1>7, <2>1 DEF x
    <2>2. CASE i # j + 1
      <3>1. i \in 1..j
        BY <2>2
      <3> QED
        BY <1>1, <1>4, <1>7, <3>1
    <2> QED
      BY <2>1, <2>2
  <1>9. Append(y, x) = z
    BY <1>1, <1>3, <1>6, <1>7, <1>8, SeqEqual
  <1>10. y # <<>> => j # 0 /\ Last(y).lsn = j
    <2> SUFFICES ASSUME y # <<>> PROVE j # 0 /\ Last(y).lsn = j
      OBVIOUS
    <2>1. j # 0
      BY <1>1, <1>3, EmptySeq
    <2>2. y[j] = Yielded(w, j)
      BY <2>1
    <2> QED
      BY <1>1, <2>1, <2>2 DEF Last, Yielded
  <1> QED
    BY <1>1, <1>9, <1>10 DEF x, z

\* The frames stay where they are in bytes that begin the same.
LEMMA FramedIn ==
    ASSUME NEW b, NEW w, NEW e, Framed(b, w, e), NEW c, IsSeq(c), e[Len(w)] <= Len(c),
           \A i \in 1..e[Len(w)] : c[i] = b[i]
    PROVE  Framed(c, w, e)
  <1>1. IsSeq(w) /\ Len(w) \in Nat
    BY LenIsNat DEF Framed
  <1>2. ASSUME NEW i \in 1..Len(w)
        PROVE  HasAt(c, e[i - 1], Len(Frame(w, i)), Frame(w, i))
    <2> DEFINE r == Frame(w, i)
               at == e[i - 1]
               n == e[Len(w)]
    <2>1. at \in Nat /\ n \in Nat /\ e[i] = at + Len(r) /\ e[i] <= n /\ HasAt(b, at, Len(r), r)
      <3>1. i - 1 \in 0..Len(w) /\ Len(w) \in 0..Len(w)
        BY <1>1
      <3> QED
        BY <1>1, <3>1 DEF Framed
    <2>2. Len(r) \in Nat
      <3>1. w[i].op \in LogOps
        BY DEF Framed
      <3>2. IsSeq(r)
        BY <3>1, RecordHead DEF Frame
      <3> QED
        BY <3>2, LenIsNat
    <2>3. \A k \in 1..n : c[k] = b[k]
      OBVIOUS
    <2> HIDE DEF r, at, n
    <2>4. HasAt(c, at, Len(r), r)
      <3> SUFFICES ASSUME NEW k \in 1..Len(r) PROVE c[at + k] = r[k]
        BY DEF HasAt
      <3>1. at + k \in 1..n
        BY <2>1, <2>2
      <3> QED
        BY <2>1, <2>3, <3>1 DEF HasAt
    <2> QED
      BY <2>4 DEF r, at
  <1> QED
    BY <1>2 DEF Framed

\* The log with bytes behind its frames.
LEMMA FramedLonger ==
    ASSUME NEW b, NEW w, NEW e, Framed(b, w, e), Len(b) = e[Len(w)], NEW t, IsSeq(t)
    PROVE  /\ Framed(b \o t, w, e) /\ IsSeq(b \o t) /\ Len(b) \in Nat /\ Len(t) \in Nat
           /\ Len(b \o t) = Len(b) + Len(t) /\ HasAt(b \o t, Len(b), Len(t), t)
  <1>1. IsSeq(b)
    BY DEF Framed
  <1> DEFINE c == b \o t
  <1>2. /\ IsSeq(c) /\ Len(b) \in Nat /\ Len(t) \in Nat /\ Len(c) = Len(b) + Len(t)
        /\ HasAt(c, 0, Len(b), b) /\ HasAt(c, Len(b), Len(t), t)
    BY <1>1, Glued
  <1> HIDE DEF c
  <1>3. e[Len(w)] <= Len(c) /\ \A i \in 1..e[Len(w)] : c[i] = b[i]
    <2>1. Len(b) <= Len(c)
      BY <1>2
    <2>2. \A i \in 1..Len(b) : c[i] = b[i]
      BY <1>2 DEF HasAt
    <2> QED
      BY <2>1, <2>2
  <1>4. Framed(c, w, e)
    BY <1>2, <1>3, FramedIn
  <1> QED
    BY <1>2, <1>4 DEF c

\* The log with one record more.
LEMMA FramedMore ==
    ASSUME NEW b, NEW w, NEW e, Framed(b, w, e), Len(b) = e[Len(w)], Len(w) < MaxRecords,
           NEW op \in LogOps
    PROVE  \E f : /\ Framed(b \o EncodeWalRecord(Len(w) + 1, op),
                            Append(w, [lsn |-> Len(w) + 1, op |-> op]), f)
                  /\ Len(b \o EncodeWalRecord(Len(w) + 1, op)) =
                        f[Len(Append(w, [lsn |-> Len(w) + 1, op |-> op]))]
  <1> DEFINE n == Len(w)
             r == EncodeWalRecord(n + 1, op)
             x == [lsn |-> n + 1, op |-> op]
             v == Append(w, x)
             c == b \o r
  <1>0. r = EncodeWalRecord(n + 1, op)
    OBVIOUS
  <1>1. IsSeq(w) /\ n \in Nat /\ IsSeq(r) /\ Len(r) \in Nat
    BY LenIsNat, RecordHead DEF Framed
  <1> HIDE DEF r
  <1>2. /\ Framed(c, w, e) /\ IsSeq(c) /\ Len(b) \in Nat /\ Len(c) = Len(b) + Len(r)
        /\ HasAt(c, Len(b), Len(r), r)
    BY <1>1, FramedLonger
  <1>3. /\ IsSeq(v) /\ Len(v) = n + 1 /\ v[n + 1] = x
        /\ \A i \in 1..n : v[i] = w[i]
    <2>1. PICK S : w \in Seq(S)
      BY <1>1 DEF IsSeq
    <2> DEFINE T == S \cup {x}
    <2>2. w \in Seq(T) /\ x \in T
      BY <2>1, SeqMonotonic
    <2> HIDE DEF T, x
    <2> QED
      BY <2>2, AppendProperties DEF IsSeq
  <1>4. n <= n + 1 /\ n + 1 <= MaxRecords
    BY <1>1, FormatAssumption DEF IsNumber
  <1> DEFINE f == [i \in 0..(n + 1) |-> IF i = n + 1 THEN Len(c) ELSE e[i]]
  <1>5. /\ e \in [0..n -> Nat] /\ e[0] = 0 /\ e[n] = Len(b)
        /\ \A i \in 1..n :
            /\ w[i].op \in LogOps /\ w[i] = [lsn |-> i, op |-> w[i].op]
            /\ e[i] = e[i - 1] + Len(Frame(w, i)) /\ e[i] <= e[n]
            /\ HasAt(c, e[i - 1], Len(Frame(w, i)), Frame(w, i))
    BY <1>2 DEF Framed
  <1>6. x.op = op /\ x.lsn = n + 1 /\ x = [lsn |-> n + 1, op |-> op]
    OBVIOUS
  <1>7. Len(c) \in Nat
    BY <1>1, <1>2
  <1> HIDE DEF x, c, v
  <1>8. f \in [0..(n + 1) -> Nat] /\ f[0] = 0 /\ f[n + 1] = Len(c)
    BY <1>1, <1>5, <1>7
  <1>9. \A i \in 0..n : f[i] = e[i]
    BY <1>1
  <1> HIDE DEF f, n
  <1>10. ASSUME NEW i \in 1..(n + 1)
         PROVE  /\ v[i].op \in LogOps /\ v[i] = [lsn |-> i, op |-> v[i].op]
                /\ f[i] = f[i - 1] + Len(Frame(v, i)) /\ f[i] <= f[n + 1]
                /\ HasAt(c, f[i - 1], Len(Frame(v, i)), Frame(v, i))
    <2>1. CASE i = n + 1
      <3>1. v[i] = x /\ Frame(v, i) = r
        BY <1>0, <1>3, <1>6, <2>1 DEF Frame
      <3>2. f[i - 1] = Len(b) /\ f[i] = Len(c)
        <4>1. i - 1 = n /\ n \in 0..n
          BY <1>1, <2>1
        <4> QED
          BY <1>5, <1>8, <1>9, <2>1, <4>1
      <3>3. f[i] = f[i - 1] + Len(r) /\ f[i] <= f[n + 1] /\ HasAt(c, f[i - 1], Len(r), r)
        BY <1>2, <1>7, <1>8, <3>2
      <3>4. v[i].op \in LogOps /\ v[i] = [lsn |-> i, op |-> v[i].op]
        BY <1>6, <2>1, <3>1
      <3> QED
        BY <3>1, <3>3, <3>4
    <2>2. CASE i # n + 1
      <3>1. i \in 1..n /\ i \in 0..n /\ i - 1 \in 0..n
        BY <1>1, <2>2
      <3>2. v[i] = w[i] /\ Frame(v, i) = Frame(w, i) /\ f[i] = e[i] /\ f[i - 1] = e[i - 1]
        BY <1>3, <1>9, <3>1 DEF Frame
      <3>3. e[i] <= e[n] /\ e[i] \in Nat /\ e[n] <= Len(c)
        <4>1. e[i] <= e[n] /\ e[i] \in Nat
          BY <1>5, <3>1
        <4>2. e[n] <= Len(c)
          BY <1>1, <1>2, <1>5
        <4> QED
          BY <4>1, <4>2
      <3>4. e[i] <= Len(c)
        BY <1>5, <1>7, <3>3
      <3>5. /\ w[i].op \in LogOps /\ w[i] = [lsn |-> i, op |-> w[i].op]
            /\ e[i] = e[i - 1] + Len(Frame(w, i))
            /\ HasAt(c, e[i - 1], Len(Frame(w, i)), Frame(w, i))
        BY <1>5, <3>1
      <3> QED
        BY <1>8, <3>2, <3>4, <3>5
    <2> QED
      BY <2>1, <2>2
  <1>11. f[n + 1] <= Len(c)
    BY <1>7, <1>8
  <1>12. Framed(c, v, f)
    BY <1>2, <1>3, <1>4, <1>8, <1>10, <1>11 DEF Framed
  <1>13. \E g : Framed(c, v, g) /\ Len(c) = g[Len(v)]
    BY <1>3, <1>8, <1>12
  <1> QED
    BY <1>13 DEF c, v, x, r, n

\* The torn tail is cut off.
LEMMA FramedCut ==
    ASSUME NEW b, NEW w, NEW e, Framed(b, w, e), NEW n, n = e[Len(w)]
    PROVE  Framed(SubSeq(b, 1, n), w, e) /\ Len(SubSeq(b, 1, n)) = n
  <1>1. IsSeq(b) /\ n \in Nat /\ n <= Len(b)
    <2>1. Len(w) \in 0..Len(w)
      BY LenIsNat DEF Framed
    <2> QED
      BY <2>1 DEF Framed
  <1> DEFINE c == SubSeq(b, 1, n)
  <1>2. IsSeq(c) /\ Len(c) = n /\ HasAt(b, 0, n, c)
    BY <1>1, FirstPart
  <1> HIDE DEF c
  <1>3. \A i \in 1..n : c[i] = b[i]
    BY <1>1, <1>2 DEF HasAt
  <1>4. e[Len(w)] <= Len(c)
    BY <1>1, <1>2
  <1>5. Framed(c, w, e)
    BY <1>2, <1>3, <1>4, FramedIn
  <1> QED
    BY <1>2, <1>5 DEF c

\* A write stops before the last byte of the record.
LEMMA TearsInside ==
    ASSUME NEW n, NEW op \in LogOps, NEW m \in TearPoints(Len(EncodeWalRecord(n, op)))
    PROVE  m \in Nat /\ m < Len(EncodeWalRecord(n, op))
  <1>1. PICK k \in Nat : Len(EncodeWalRecord(n, op)) = 17 + k
    BY RecordHead
  <1> QED
    BY <1>1 DEF TearPoints

\* A number is in the first three cells.
LEMMA SameNumber ==
    ASSUME NEW s, NEW t, s[1] = t[1], s[2] = t[2], s[3] = t[3]
    PROVE  Number(s) = Number(t)
  BY DEF Number

\* What the zeros behind the first m cells of a record make of the log.
LEMMA TornIsFilled ==
    ASSUME NEW b, IsSeq(b), NEW r, IsSeq(r), NEW m \in Nat, m < Len(r), Len(r) >= 4
    PROVE  LET t == SubSeq(r, 1, m) \o Zeros(Len(r) - m)
           IN /\ IsSeq(t) /\ Filled(b \o t, Len(b), m, r)
              /\ Number(t) = Number(Slice(b \o t, Len(b), 4))
  <1> DEFINE l == Len(r)
             at == Len(b)
             s == SubSeq(r, 1, m)
             z == Zeros(l - m)
             t == s \o z
             c == b \o t
  <1>1. l \in Nat /\ at \in Nat /\ l - m \in Nat /\ m <= l
    BY LenIsNat
  <1>2. IsSeq(s) /\ Len(s) = m /\ HasAt(r, 0, m, s)
    BY <1>1, FirstPart
  <1>3. z = [i \in 1..(l - m) |-> z[i]] /\ \A i \in 1..(l - m) : z[i] = <<0>>
    BY DEF Zeros
  <1>4. l = Len(r) /\ t = s \o z /\ at = Len(b)
    OBVIOUS
  <1> HIDE DEF l, s, z
  <1>5. IsSeq(z) /\ Len(z) = l - m
    BY <1>1, <1>3, Listed
  <1>6. /\ IsSeq(t) /\ Len(t) = l
        /\ \A i \in 1..m : t[i] = r[i]
        /\ \A i \in (m + 1)..l : t[i] = <<0>>
    <2>1. /\ IsSeq(s \o z) /\ Len(s \o z) = Len(s) + Len(z)
          /\ HasAt(s \o z, 0, Len(s), s) /\ HasAt(s \o z, Len(s), Len(z), z)
      BY <1>2, <1>5, Glued
    <2>2. /\ IsSeq(t) /\ Len(t) = m + (l - m)
          /\ HasAt(t, 0, m, s) /\ HasAt(t, m, l - m, z)
      BY <1>2, <1>4, <1>5, <2>1
    <2>3. \A i \in 1..m : t[i] = r[i]
      BY <1>2, <2>2 DEF HasAt
    <2>4. ASSUME NEW i \in (m + 1)..l PROVE t[i] = <<0>>
      <3>1. i - m \in 1..(l - m) /\ m + (i - m) = i
        BY <1>1
      <3>2. t[m + (i - m)] = z[i - m]
        BY <2>2, <3>1 DEF HasAt
      <3> QED
        BY <1>3, <3>1, <3>2
    <2>5. m + (l - m) = l
      BY <1>1
    <2> QED
      BY <2>2, <2>3, <2>4, <2>5
  <1> HIDE DEF t
  <1>7. /\ IsSeq(c) /\ Len(c) = at + l
        /\ HasAt(c, at, l, t)
    <2>1. /\ IsSeq(b \o t) /\ Len(b \o t) = Len(b) + Len(t)
          /\ HasAt(b \o t, Len(b), Len(t), t)
      BY <1>6, Glued
    <2> QED
      BY <1>6, <2>1
  <1> HIDE DEF c, at
  <1>8. Filled(c, at, m, r)
    <2>0. \A i \in 1..l : c[at + i] = t[i]
      BY <1>7 DEF HasAt
    <2>1. ASSUME NEW i \in 1..m PROVE c[at + i] = r[i]
      <3>1. i \in 1..l
        BY <1>1
      <3> QED
        BY <1>6, <2>0, <3>1
    <2>2. ASSUME NEW i \in (m + 1)..l PROVE c[at + i] = <<0>>
      <3>1. i \in 1..l
        BY <1>1
      <3> QED
        BY <1>6, <2>0, <3>1
    <2>3. HasAt(c, at, m, r)
      BY <2>1 DEF HasAt
    <2> QED
      BY <1>1, <1>4, <1>7, <2>2, <2>3 DEF Filled
  <1>9. Number(t) = Number(Slice(c, at, 4))
    <2> DEFINE f == Slice(c, at, 4)
    <2>1. 4 \in Nat /\ at + 4 <= Len(c) /\ 4 <= l
      BY <1>1, <1>4, <1>7
    <2>2. HasAt(c, at, 4, f)
      BY <1>1, <1>7, <2>1, SliceIs
    <2> HIDE DEF f
    <2>3. 1 \in 1..l /\ 2 \in 1..l /\ 3 \in 1..l
      BY <1>1, <2>1
    <2>4. c[at + 1] = t[1] /\ c[at + 2] = t[2] /\ c[at + 3] = t[3]
      BY <1>7, <2>3 DEF HasAt
    <2>5. c[at + 1] = f[1] /\ c[at + 2] = f[2] /\ c[at + 3] = f[3]
      BY <2>2 DEF HasAt
    <2>6. Number(t) = Number(f)
      BY <2>4, <2>5, SameNumber
    <2> QED
      BY <2>6 DEF f
  <1> QED
    BY <1>6, <1>8, <1>9 DEF c, t, at, s, z, l

LEMMA AppendKeeps ==
    ASSUME FormatInv, NEW op \in LogOps, AppendRecord(op)
    PROVE  FormatInv'
  <1>1. PICK e : /\ Framed(bytes, written, e) /\ TailIs(bytes, e[Len(written)], tail)
                 /\ reader = NotReading
    BY ReaderIsOff DEF AppendRecord
  <1>2. /\ tail = "none" /\ Len(written) < MaxRecords /\ tail' = tail /\ reader' = reader
        /\ bytes' = bytes \o EncodeWalRecord(Len(written) + 1, op)
        /\ written' = Append(written, [lsn |-> Len(written) + 1, op |-> op])
    BY DEF AppendRecord, NextLsn
  <1>3. Len(bytes) = e[Len(written)]
    BY <1>1, <1>2 DEF TailIs
  <1> DEFINE b == bytes'
             v == written'
  <1>4. \E f : Framed(b, v, f) /\ Len(b) = f[Len(v)]
    BY <1>1, <1>2, <1>3, FramedMore
  <1>5. PICK f : Framed(b, v, f) /\ Len(b) = f[Len(v)]
    BY <1>4
  <1>6. TailIs(b, f[Len(v)], tail')
    BY <1>2, <1>5 DEF TailIs
  <1>7. reader' = NotReading
    BY <1>1, <1>2
  <1> QED
    BY <1>5, <1>6, <1>7 DEF FormatInv

\* The log before a write that is interrupted.
LEMMA BeforeTear ==
    ASSUME FormatInv, Interrupted
    PROVE  \E e : /\ Framed(bytes, written, e) /\ Len(bytes) = e[Len(written)]
                  /\ reader = NotReading /\ IsSeq(bytes) /\ Len(bytes) \in Nat
  <1>1. PICK e : /\ Framed(bytes, written, e) /\ TailIs(bytes, e[Len(written)], tail)
                 /\ reader = NotReading
    BY ReaderIsOff DEF Interrupted
  <1>2. Len(bytes) = e[Len(written)]
    BY <1>1 DEF TailIs, Interrupted
  <1>3. IsSeq(bytes) /\ Len(bytes) \in Nat
    BY <1>1, LenIsNat DEF Framed
  <1> QED
    BY <1>1, <1>2, <1>3

LEMMA CutShortKeeps ==
    ASSUME FormatInv, NEW op \in LogOps,
           NEW n \in TearPoints(Len(EncodeWalRecord(NextLsn, op))), CutShort(op, n)
    PROVE  FormatInv'
  <1>1. PICK e : /\ Framed(bytes, written, e) /\ Len(bytes) = e[Len(written)]
                 /\ reader = NotReading /\ IsSeq(bytes) /\ Len(bytes) \in Nat
    BY BeforeTear DEF CutShort
  <1> DEFINE r == EncodeWalRecord(NextLsn, op)
             t == SubSeq(r, 1, n)
             at == Len(bytes)
             b == bytes \o t
  <1>2. /\ bytes' = b /\ tail' = "short" /\ written' = written /\ reader' = reader
    BY DEF CutShort
  <1>3. IsSeq(r) /\ n \in Nat /\ n < Len(r) /\ Len(r) \in Nat
    BY RecordHead, TearsInside, LenIsNat
  <1>4. IsSeq(t) /\ Len(t) = n /\ HasAt(r, 0, n, t)
    BY <1>3, FirstPart
  <1>5. r = EncodeWalRecord(NextLsn, op) /\ at = Len(bytes)
    OBVIOUS
  <1> HIDE DEF r, t
  <1>6. /\ Framed(b, written, e) /\ IsSeq(b) /\ Len(b) = at + Len(t) /\ HasAt(b, at, Len(t), t)
    BY <1>1, <1>4, FramedLonger
  <1> HIDE DEF b, at
  <1>7. HasAt(b, at, n, r)
    BY <1>4, <1>6 DEF HasAt
  <1>8. DecodeNext(b, at).kind = "EOFError"
    <2>1. Len(b) = at + n /\ at \in Nat
      BY <1>1, <1>4, <1>5, <1>6
    <2> QED
      BY <1>3, <1>5, <1>6, <1>7, <2>1, ShortReads
  <1>9. TailIs(b, e[Len(written)], "short")
    BY <1>1, <1>5, <1>8 DEF TailIs
  <1> QED
    BY <1>1, <1>2, <1>6, <1>9 DEF FormatInv

LEMMA ZeroFilledKeeps ==
    ASSUME FormatInv, NEW op \in LogOps,
           NEW n \in TearPoints(Len(EncodeWalRecord(NextLsn, op))), ZeroFilled(op, n)
    PROVE  FormatInv'
  <1>0. Interrupted
    BY DEF ZeroFilled
  <1>1. PICK e : /\ Framed(bytes, written, e) /\ Len(bytes) = e[Len(written)]
                 /\ reader = NotReading /\ IsSeq(bytes) /\ Len(bytes) \in Nat
    BY <1>0, BeforeTear
  <1> DEFINE r == EncodeWalRecord(NextLsn, op)
             t == SubSeq(r, 1, n) \o Zeros(Len(r) - n)
             at == Len(bytes)
             b == bytes \o t
  <1>2. /\ bytes' = b /\ tail' = (IF Number(t) = Len(r) - 4 THEN "badcrc" ELSE "zeros")
        /\ written' = written /\ reader' = reader
    BY DEF ZeroFilled, LengthField
  <1>3. IsSeq(r) /\ n \in Nat /\ n < Len(r) /\ Len(r) >= 4
    <2>1. PICK k \in Nat : IsSeq(r) /\ Len(r) = 17 + k
      BY RecordHead
    <2> QED
      BY <2>1, TearsInside
  <1>4. r = EncodeWalRecord(NextLsn, op) /\ at = Len(bytes) /\ t = SubSeq(r, 1, n) \o Zeros(Len(r) - n)
    OBVIOUS
  <1> HIDE DEF r, t
  <1>5. IsSeq(t) /\ Filled(b, at, n, r) /\ Number(t) = Number(Slice(b, at, 4))
    BY <1>1, <1>3, TornIsFilled DEF t
  <1>6. Framed(b, written, e)
    BY <1>1, <1>5, FramedLonger
  <1> HIDE DEF b, at
  <1>7. /\ Number(t) = Len(r) - 4 =>
                DecodeNext(b, at) = [kind |-> "DBChecksumError", next |-> Len(b)]
        /\ Number(t) # Len(r) - 4 =>
                \/ DecodeNext(b, at).kind = "struct.error"
                \/ \E p \in Nat : /\ DecodeNext(b, at) = [kind |-> "DBChecksumError", next |-> p]
                                  /\ DecodeNext(b, p).kind = "struct.error"
    BY <1>4, <1>5, FilledReads
  <1>8. TailIs(b, at, tail')
    <2>1. CASE Number(t) = Len(r) - 4
      BY <1>2, <1>7, <2>1 DEF TailIs
    <2>2. CASE Number(t) # Len(r) - 4
      <3>1. tail' = "zeros"
        BY <1>2, <2>2
      <3>2. \/ DecodeNext(b, at).kind = "struct.error"
            \/ \E p \in Nat : /\ DecodeNext(b, at) = [kind |-> "DBChecksumError", next |-> p]
                              /\ DecodeNext(b, p).kind = "struct.error"
        BY <1>7, <2>2
      <3> QED
        BY <3>1, <3>2 DEF TailIs
    <2> QED
      BY <2>1, <2>2
  <1> QED
    BY <1>1, <1>2, <1>4, <1>6, <1>8 DEF FormatInv

LEMMA StartKeeps ==
    ASSUME FormatInv, StartReading
    PROVE  FormatInv'
  <1>1. PICK e : /\ Framed(bytes, written, e) /\ TailIs(bytes, e[Len(written)], tail)
                 /\ reader = NotReading
    BY ReaderIsOff DEF StartReading
  <1>2. /\ reader' = [at |-> 0, good |-> 0, yielded |-> <<>>, broken |-> FALSE, state |-> "reading"]
        /\ bytes' = bytes /\ written' = written /\ tail' = tail
    BY DEF StartReading, NotReading
  <1> DEFINE rd == reader'
  <1>3. 0 \in 0..Len(written) /\ e[0] = 0
    BY <1>1, LenIsNat DEF Framed
  <1>4. [i \in 1..0 |-> Yielded(written, i)] = <<>>
    <2> DEFINE y == [i \in 1..0 |-> Yielded(written, i)]
    <2>1. y = [i \in 1..0 |-> y[i]]
      OBVIOUS
    <2> HIDE DEF y
    <2>2. IsSeq(y) /\ Len(y) = 0
      BY <2>1, Listed
    <2> QED
      BY <2>2, EmptySeq DEF IsSeq, y
  <1>5. ReadUpTo(rd, bytes, written, e, tail, 0)
    <2>1. rd.at = 0 /\ rd.broken = FALSE /\ rd.state = "reading" /\ rd.good = 0 /\ rd.yielded = <<>>
      BY <1>2
    <2>2. rd = [at |-> rd.at, good |-> e[0], yielded |-> [i \in 1..0 |-> Yielded(written, i)],
                broken |-> rd.broken, state |-> rd.state]
      BY <1>2, <1>3, <1>4
    <2> HIDE DEF rd
    <2> QED
      BY <1>3, <2>1, <2>2 DEF ReadUpTo
  <1> QED
    BY <1>1, <1>2, <1>3, <1>5 DEF FormatInv

LEMMA CutTailKeeps ==
    ASSUME FormatInv, CutTail
    PROVE  FormatInv'
  <1>1. PICK e : /\ Framed(bytes, written, e) /\ TailIs(bytes, e[Len(written)], tail)
                 /\ \/ reader = NotReading
                    \/ \E j \in 0..Len(written) : ReadUpTo(reader, bytes, written, e, tail, j)
    BY DEF FormatInv
  <1>2. reader # NotReading
    BY DEF CutTail, NotReading
  <1>3. PICK j \in 0..Len(written) : ReadUpTo(reader, bytes, written, e, tail, j)
    BY <1>1, <1>2
  <1>4. reader.good = e[Len(written)]
    BY <1>3 DEF ReadUpTo, CutTail
  <1> DEFINE n == e[Len(written)]
             b == SubSeq(bytes, 1, n)
  <1>5. bytes' = b /\ tail' = "none" /\ reader' = NotReading /\ written' = written
    BY <1>4 DEF CutTail
  <1>6. Framed(b, written, e) /\ Len(b) = n
    BY <1>1, FramedCut
  <1> HIDE DEF b
  <1>7. TailIs(b, n, "none")
    BY <1>6 DEF TailIs
  <1> QED
    BY <1>5, <1>6, <1>7 DEF FormatInv

\* The reader after one turn of its loop.
LEMMA ReadsOn ==
    ASSUME ReadFrame, NEW a, NEW g, NEW y, NEW b,
           reader = [at |-> a, good |-> g, yielded |-> y, broken |-> b, state |-> "reading"]
    PROVE  LET f == DecodeNext(bytes, a)
           IN /\ f.kind = "EOFError" =>
                    reader' = [at |-> a, good |-> g, yielded |-> y, broken |-> b, state |-> "ended"]
              /\ f.kind = "DBChecksumError" =>
                    reader' = [at |-> f.next, good |-> g, yielded |-> y, broken |-> TRUE,
                               state |-> "reading"]
              /\ f.kind = "struct.error" =>
                    reader' = [at |-> a, good |-> g, yielded |-> y, broken |-> b, state |-> "raised"]
              /\ (/\ f.kind = "record" /\ ~b
                  /\ y # <<>> => f.lsn = Last(y).lsn + 1) =>
                    reader' = [at |-> f.next, good |-> f.next,
                               yielded |-> Append(y, [lsn |-> f.lsn, op |-> f.op]),
                               broken |-> b, state |-> "reading"]
  <1> DEFINE f == DecodeNext(bytes, a)
  <1>1. reader.at = a /\ reader.yielded = y /\ reader.broken = b
    OBVIOUS
  <1>2. /\ f.kind = "EOFError" => reader' = [reader EXCEPT !.state = "ended"]
        /\ f.kind = "DBChecksumError" => reader' = [reader EXCEPT !.at = f.next, !.broken = TRUE]
        /\ f.kind = "struct.error" => reader' = [reader EXCEPT !.state = "raised"]
        /\ (/\ f.kind = "record" /\ ~b
            /\ y # <<>> => f.lsn = Last(y).lsn + 1)
              => reader' = [reader EXCEPT
                              !.at = f.next, !.good = f.next,
                              !.yielded = Append(@, [lsn |-> f.lsn, op |-> f.op])]
    BY <1>1 DEF ReadFrame, Uncaught
  <1> HIDE DEF f
  <1>3. [reader EXCEPT !.at = f.next, !.broken = TRUE] =
            [at |-> f.next, good |-> g, yielded |-> y, broken |-> TRUE, state |-> "reading"]
    <2> DEFINE q == [reader EXCEPT !.at = f.next]
    <2>1. q = [at |-> f.next, good |-> g, yielded |-> y, broken |-> b, state |-> "reading"]
      OBVIOUS
    <2>2. [reader EXCEPT !.at = f.next, !.broken = TRUE] = [q EXCEPT !.broken = TRUE]
      OBVIOUS
    <2> HIDE DEF q
    <2>3. \A v : [q EXCEPT !.broken = v] =
            [at |-> f.next, good |-> g, yielded |-> y, broken |-> v, state |-> "reading"]
      BY <2>1
    <2> QED
      BY <2>2, <2>3
  <1>4. [reader EXCEPT !.at = f.next, !.good = f.next,
                       !.yielded = Append(@, [lsn |-> f.lsn, op |-> f.op])] =
            [at |-> f.next, good |-> f.next, yielded |-> Append(y, [lsn |-> f.lsn, op |-> f.op]),
             broken |-> b, state |-> "reading"]
    <2> DEFINE q == [reader EXCEPT !.at = f.next]
               r == [q EXCEPT !.good = f.next]
               x == [lsn |-> f.lsn, op |-> f.op]
    <2>1. q = [at |-> f.next, good |-> g, yielded |-> y, broken |-> b, state |-> "reading"]
      OBVIOUS
    <2>2. [reader EXCEPT !.at = f.next, !.good = f.next, !.yielded = Append(@, x)]
            = [r EXCEPT !.yielded = Append(@, x)]
      OBVIOUS
    <2> HIDE DEF q, x
    <2>3. r = [at |-> f.next, good |-> f.next, yielded |-> y, broken |-> b, state |-> "reading"]
      BY <2>1
    <2> HIDE DEF r
    <2>4. [r EXCEPT !.yielded = Append(@, x)] =
            [at |-> f.next, good |-> f.next, yielded |-> Append(y, x), broken |-> b, state |-> "reading"]
      <3>1. r.yielded = y
        BY <2>3
      <3>2. \A v : [r EXCEPT !.yielded = v] =
              [at |-> f.next, good |-> f.next, yielded |-> v, broken |-> b, state |-> "reading"]
        BY <2>3
      <3> QED
        BY <3>1, <3>2
    <2> QED
      BY <2>2, <2>4 DEF x
  <1>5. \A s : [reader EXCEPT !.state = s] =
            [at |-> a, good |-> g, yielded |-> y, broken |-> b, state |-> s]
    OBVIOUS
  <1> QED
    BY <1>2, <1>3, <1>4, <1>5 DEF f

LEMMA ReadFrameKeeps ==
    ASSUME FormatInv, ReadFrame
    PROVE  FormatInv'
  <1>1. PICK e : /\ Framed(bytes, written, e) /\ TailIs(bytes, e[Len(written)], tail)
                 /\ \/ reader = NotReading
                    \/ \E j \in 0..Len(written) : ReadUpTo(reader, bytes, written, e, tail, j)
    BY DEF FormatInv
  <1>2. reader # NotReading /\ reader.state = "reading"
    BY DEF ReadFrame, NotReading
  <1>3. PICK j \in 0..Len(written) : ReadUpTo(reader, bytes, written, e, tail, j)
    BY <1>1, <1>2
  <1> DEFINE f == DecodeNext(bytes, reader.at)
             N == Len(written)
             y == [i \in 1..j |-> Yielded(written, i)]
             rd == reader'
  <1>4. bytes' = bytes /\ written' = written /\ tail' = tail
    BY DEF ReadFrame
  <1>5. SUFFICES \E k \in 0..N : ReadUpTo(rd, bytes, written, e, tail, k)
    BY <1>1, <1>4 DEF FormatInv
  <1>6. f = DecodeNext(bytes, reader.at)
    OBVIOUS
  <1>7. reader = [at |-> reader.at, good |-> e[j], yielded |-> y,
                  broken |-> reader.broken, state |-> "reading"]
    BY <1>2, <1>3 DEF ReadUpTo
  <1>8. /\ reader.broken \in BOOLEAN /\ (~reader.broken => reader.at = e[j])
        /\ reader.broken => /\ j = N
                            /\ \/ tail = "badcrc" /\ reader.at = Len(bytes)
                               \/ tail = "zeros" /\ DecodeNext(bytes, reader.at).kind = "struct.error"
    BY <1>3 DEF ReadUpTo
  <1>9. N \in Nat /\ j \in Nat /\ IsSeq(bytes) /\ N \in 0..N
    BY <1>1, LenIsNat DEF Framed
  <1>16. /\ f.kind = "EOFError" =>
                rd = [at |-> reader.at, good |-> e[j], yielded |-> y, broken |-> reader.broken,
                      state |-> "ended"]
         /\ f.kind = "DBChecksumError" =>
                rd = [at |-> f.next, good |-> e[j], yielded |-> y, broken |-> TRUE,
                      state |-> "reading"]
         /\ f.kind = "struct.error" =>
                rd = [at |-> reader.at, good |-> e[j], yielded |-> y, broken |-> reader.broken,
                      state |-> "raised"]
         /\ (/\ f.kind = "record" /\ ~reader.broken
             /\ y # <<>> => f.lsn = Last(y).lsn + 1) =>
                rd = [at |-> f.next, good |-> f.next,
                      yielded |-> Append(y, [lsn |-> f.lsn, op |-> f.op]),
                      broken |-> reader.broken, state |-> "reading"]
    <2> DEFINE a == reader.at
               g == e[j]
               br == reader.broken
    <2> HIDE DEF a, g, y, br
    <2>1. reader = [at |-> a, good |-> g, yielded |-> y, broken |-> br, state |-> "reading"]
      BY <1>7 DEF a, g, br
    <2> QED
      BY <2>1, ReadsOn DEF a, g, br
  <1> HIDE DEF f
  <1>10. ASSUME f.kind = "EOFError", j = N, tail # "zeros"
         PROVE  ReadUpTo(rd, bytes, written, e, tail, j)
    <2>2. rd = [at |-> reader.at, good |-> e[j], yielded |-> y,
                broken |-> reader.broken, state |-> "ended"]
      BY <1>10, <1>16
    <2> QED
      BY <1>8, <1>10, <2>2 DEF ReadUpTo
  <1>11. ASSUME f.kind = "struct.error", tail = "zeros"
         PROVE  ReadUpTo(rd, bytes, written, e, tail, j)
    <2>2. rd = [at |-> reader.at, good |-> e[j], yielded |-> y,
                broken |-> reader.broken, state |-> "raised"]
      BY <1>11, <1>16
    <2> QED
      BY <1>8, <1>11, <2>2 DEF ReadUpTo
  <1>12. ASSUME NEW p, f = [kind |-> "DBChecksumError", next |-> p], j = N,
                \/ tail = "badcrc" /\ p = Len(bytes)
                \/ tail = "zeros" /\ DecodeNext(bytes, p).kind = "struct.error"
         PROVE  ReadUpTo(rd, bytes, written, e, tail, j)
    <2>1. f.kind = "DBChecksumError" /\ f.next = p
      BY <1>12
    <2>3. rd = [at |-> p, good |-> e[j], yielded |-> y, broken |-> TRUE, state |-> "reading"]
      BY <1>16, <2>1
    <2> QED
      BY <1>12, <2>3 DEF ReadUpTo
  <1>13. CASE reader.broken
    <2>1. CASE tail = "badcrc" /\ reader.at = Len(bytes)
      <3>1. f.kind = "EOFError"
        BY <1>6, <1>9, <2>1, EndReads
      <3> QED
        BY <1>8, <1>10, <1>13, <2>1, <3>1
    <2>2. CASE tail = "zeros" /\ f.kind = "struct.error"
      BY <1>11, <2>2
    <2> QED
      BY <1>6, <1>8, <1>13, <2>1, <2>2
  <1>14. CASE ~reader.broken /\ j = N
    <2>0. f = DecodeNext(bytes, e[N])
      BY <1>6, <1>8, <1>14
    <2>1. CASE tail = "none"
      <3>1. f.kind = "EOFError"
        BY <1>1, <1>9, <2>0, <2>1, EndReads DEF TailIs
      <3> QED
        BY <1>10, <1>14, <2>1, <3>1
    <2>2. CASE tail = "short"
      <3>1. f.kind = "EOFError"
        BY <1>1, <2>0, <2>2 DEF TailIs
      <3> QED
        BY <1>10, <1>14, <2>2, <3>1
    <2>3. CASE tail = "badcrc"
      <3>1. f = [kind |-> "DBChecksumError", next |-> Len(bytes)]
        BY <1>1, <2>0, <2>3 DEF TailIs
      <3> QED
        BY <1>12, <1>14, <2>3, <3>1
    <2>4. CASE tail = "zeros"
      <3>1. \/ f.kind = "struct.error"
            \/ \E p \in Nat : /\ f = [kind |-> "DBChecksumError", next |-> p]
                              /\ DecodeNext(bytes, p).kind = "struct.error"
        BY <1>1, <2>0, <2>4 DEF TailIs
      <3>2. CASE f.kind = "struct.error"
        BY <1>11, <2>4, <3>2
      <3>3. CASE \E p \in Nat : /\ f = [kind |-> "DBChecksumError", next |-> p]
                                /\ DecodeNext(bytes, p).kind = "struct.error"
        <4>1. PICK p \in Nat : /\ f = [kind |-> "DBChecksumError", next |-> p]
                               /\ DecodeNext(bytes, p).kind = "struct.error"
          BY <3>3
        <4> QED
          BY <1>12, <1>14, <2>4, <4>1
      <3> QED
        BY <3>1, <3>2, <3>3
    <2> QED
      BY <1>1, <2>1, <2>2, <2>3, <2>4 DEF TailIs
  <1>15. CASE ~reader.broken /\ j # N
    <2> DEFINE op == OpInBytes(written[j + 1].op)
    <2>1. /\ j + 1 \in 0..N
          /\ f = [kind |-> "record", lsn |-> j + 1, op |-> op, next |-> e[j + 1]]
      BY <1>1, <1>6, <1>8, <1>15, NextRecordReads
    <2>2. f.kind = "record" /\ f.lsn = j + 1 /\ f.op = op /\ f.next = e[j + 1]
      BY <2>1
    <2>3. /\ Append(y, Yielded(written, j + 1)) = [i \in 1..(j + 1) |-> Yielded(written, i)]
          /\ y # <<>> => Last(y).lsn = j
      BY <1>9, YieldedOneMore
    <2>4. Yielded(written, j + 1) = [lsn |-> f.lsn, op |-> f.op]
      BY <2>2 DEF Yielded
    <2> DEFINE z == [i \in 1..(j + 1) |-> Yielded(written, i)]
    <2> HIDE DEF y, z, op
    <2>6. y # <<>> => f.lsn = Last(y).lsn + 1
      BY <2>2, <2>3
    <2>8. Append(y, [lsn |-> f.lsn, op |-> f.op]) = z
      BY <2>3, <2>4 DEF z
    <2>9. rd = [at |-> e[j + 1], good |-> e[j + 1], yielded |-> z,
                broken |-> reader.broken, state |-> "reading"]
      BY <1>15, <1>16, <2>2, <2>6, <2>8
    <2>10. ReadUpTo(rd, bytes, written, e, tail, j + 1)
      <3>1. rd.at = e[j + 1] /\ rd.broken = FALSE /\ rd.state = "reading"
        BY <1>8, <1>15, <2>9
      <3>2. rd = [at |-> rd.at, good |-> e[j + 1], yielded |-> z,
                  broken |-> rd.broken, state |-> rd.state]
        BY <2>9, <3>1
      <3> HIDE DEF rd
      <3> QED
        BY <3>1, <3>2 DEF ReadUpTo, z
    <2> QED
      BY <2>1, <2>10
  <1> QED
    BY <1>8, <1>13, <1>14, <1>15

LEMMA FormatStep == FormatInv /\ [FormatNext]_formatVars => FormatInv'
  <1> SUFFICES ASSUME FormatInv, [FormatNext]_formatVars PROVE FormatInv'
    OBVIOUS
  <1>1. ASSUME NEW op \in LogOps, AppendRecord(op) PROVE FormatInv'
    BY <1>1, AppendKeeps
  <1>2. ASSUME NEW op \in LogOps, NEW n \in TearPoints(Len(EncodeWalRecord(NextLsn, op))),
               CutShort(op, n)
        PROVE  FormatInv'
    BY <1>2, CutShortKeeps
  <1>3. ASSUME NEW op \in LogOps, NEW n \in TearPoints(Len(EncodeWalRecord(NextLsn, op))),
               ZeroFilled(op, n)
        PROVE  FormatInv'
    BY <1>3, ZeroFilledKeeps
  <1>4. CASE StartReading
    BY <1>4, StartKeeps
  <1>5. CASE ReadFrame
    BY <1>5, ReadFrameKeeps
  <1>6. CASE CutTail
    BY <1>6, CutTailKeeps
  <1>7. CASE UNCHANGED formatVars
    BY <1>7 DEF formatVars, FormatInv
  <1> QED
    BY <1>1, <1>2, <1>3, <1>4, <1>5, <1>6, <1>7 DEF FormatNext

LEMMA FormatStart == FormatInit => FormatInv
  <1> SUFFICES ASSUME FormatInit PROVE FormatInv
    OBVIOUS
  <1>1. bytes = <<>> /\ written = <<>> /\ tail = "none" /\ reader = NotReading
    BY DEF FormatInit
  <1>2. IsSeq(<<>>) /\ Len(<<>>) = 0
    <2>1. <<>> \in Seq({})
      BY EmptySeq
    <2> QED
      BY <2>1, EmptySeq DEF IsSeq
  <1> DEFINE e == [i \in 0..0 |-> 0]
  <1>3. e \in [0..0 -> Nat] /\ e[0] = 0
    OBVIOUS
  <1>4. 0 <= MaxRecords
    BY FormatAssumption DEF IsNumber
  <1> HIDE DEF e
  <1>5. Framed(bytes, written, e)
    <2>1. \A i \in 1..0 : FALSE
      OBVIOUS
    <2> QED
      BY <1>1, <1>2, <1>3, <1>4, <2>1 DEF Framed
  <1>6. TailIs(bytes, e[Len(written)], tail)
    BY <1>1, <1>2, <1>3 DEF TailIs
  <1> QED
    BY <1>1, <1>5, <1>6 DEF FormatInv

THEOREM FormatInvariant == FormatSpec => []FormatInv
  BY FormatStart, FormatStep, PTL DEF FormatSpec

-----------------------------------------------------------------------------
(* What follows for the log. *)

\* The records as the reader is to yield them.
LEMMA WholeIs ==
    ASSUME NEW b, NEW w, NEW e, Framed(b, w, e)
    PROVE  /\ Len(w) \in Nat /\ DOMAIN w = 1..Len(w)
           /\ [i \in DOMAIN w |-> [lsn |-> w[i].lsn, op |-> OpInBytes(w[i].op)]]
                = [i \in 1..Len(w) |-> Yielded(w, i)]
  <1>1. Len(w) \in Nat /\ DOMAIN w = 1..Len(w)
    BY LenProperties DEF Framed, IsSeq
  <1>2. ASSUME NEW i \in 1..Len(w) PROVE w[i].lsn = i
    <2>1. w[i] = [lsn |-> i, op |-> w[i].op]
      BY DEF Framed
    <2> QED
      BY <2>1
  <1> QED
    BY <1>1, <1>2 DEF Yielded

\* What is yielded at any time is a prefix of them.
LEMMA YieldedIsPrefix ==
    ASSUME NEW w, NEW n \in Nat, NEW j \in 0..n
    PROVE  IsPrefix([i \in 1..j |-> Yielded(w, i)], [i \in 1..n |-> Yielded(w, i)])
  <1> DEFINE y == [i \in 1..j |-> Yielded(w, i)]
             z == [i \in 1..n |-> Yielded(w, i)]
  <1>1. y = [i \in 1..j |-> y[i]] /\ z = [i \in 1..n |-> z[i]] /\ j \in Nat /\ j <= n
    OBVIOUS
  <1>2. \A i \in 1..j : y[i] = z[i]
    OBVIOUS
  <1> HIDE DEF y, z
  <1>3. IsSeq(y) /\ Len(y) = j /\ IsSeq(z) /\ Len(z) = n
    BY <1>1, Listed
  <1> DEFINE p == SubSeq(y, 1, j)
             q == SubSeq(z, 1, j)
  <1>4. /\ IsSeq(p) /\ Len(p) = j /\ HasAt(y, 0, j, p)
        /\ IsSeq(q) /\ Len(q) = j /\ HasAt(z, 0, j, q)
    <2>1. j <= Len(y) /\ j <= Len(z)
      BY <1>1, <1>3
    <2> QED
      BY <1>1, <1>3, <2>1, FirstPart
  <1> HIDE DEF p, q
  <1>5. \A i \in 1..j : p[i] = q[i]
    BY <1>2, <1>4 DEF HasAt
  <1>6. p = q
    BY <1>4, <1>5, SameSeq
  <1>7. IsPrefix(y, z)
    BY <1>1, <1>3, <1>6 DEF IsPrefix, p, q
  <1> QED
    BY <1>7 DEF y, z

\* _iter_records yields what was written: whatever was logged, however often
\* and wherever the writes were interrupted, for numbers below 2^24 in the fields.
THEOREM RecordsReadBack == FormatSpec => []YieldsWhatWasWritten
  <1>1. FormatInv => YieldsWhatWasWritten
    <2> SUFFICES ASSUME FormatInv PROVE YieldsWhatWasWritten
      OBVIOUS
    <2>1. PICK e : /\ Framed(bytes, written, e)
                   /\ \/ reader = NotReading
                      \/ \E j \in 0..Len(written) : ReadUpTo(reader, bytes, written, e, tail, j)
      BY DEF FormatInv
    <2> DEFINE N == Len(written)
               whole == [i \in DOMAIN written |->
                            [lsn |-> written[i].lsn, op |-> OpInBytes(written[i].op)]]
               first(j) == [i \in 1..j |-> Yielded(written, i)]
    <2>2. N \in Nat /\ whole = first(N)
      BY <2>1, WholeIs
    <2>3. \A j \in 0..N : IsPrefix(first(j), first(N))
      BY <2>2, YieldedIsPrefix
    <2>4. first(0) = <<>>
      <3> DEFINE y == first(0)
      <3>1. y = [i \in 1..0 |-> y[i]]
        OBVIOUS
      <3> HIDE DEF y
      <3>2. IsSeq(y) /\ Len(y) = 0
        BY <3>1, Listed
      <3> QED
        BY <3>2, EmptySeq DEF IsSeq, y
    <2>5. CASE reader = NotReading
      <3>1. reader.yielded = first(0) /\ reader.state = "off" /\ 0 \in 0..N
        BY <2>2, <2>4, <2>5 DEF NotReading
      <3> HIDE DEF first, whole
      <3>2. IsPrefix(reader.yielded, whole)
        BY <2>2, <2>3, <3>1
      <3> QED
        BY <3>1, <3>2 DEF YieldsWhatWasWritten, whole
    <2>6. CASE \E j \in 0..N : ReadUpTo(reader, bytes, written, e, tail, j)
      <3>1. PICK j \in 0..N : ReadUpTo(reader, bytes, written, e, tail, j)
        BY <2>6
      <3>2. reader.yielded = first(j) /\ (reader.state = "ended" => j = N)
        BY <3>1 DEF ReadUpTo
      <3> HIDE DEF first, whole
      <3>3. IsPrefix(reader.yielded, whole) /\ (reader.state = "ended" => reader.yielded = whole)
        BY <2>2, <2>3, <3>2
      <3> QED
        BY <3>3 DEF YieldsWhatWasWritten, whole
    <2> QED
      BY <2>1, <2>5, <2>6
  <1> QED
    BY <1>1, FormatInvariant, PTL

\* The cells of module WAL that the log stands for.
LEMMA CellsAre ==
    ASSUME NEW e, Framed(bytes, written, e), NEW N, N = Len(written)
    PROVE  /\ N \in Nat /\ IsSeq(Cells) /\ Len(Cells) = IF tail = "none" THEN N ELSE N + 1
           /\ \A i \in 1..N : Cells[i].kind = "good" /\ Cells[i].lsn = i
           /\ tail # "none" => Cells[N + 1].kind = tail
  <1> DEFINE g == [i \in DOMAIN written |->
                      [kind |-> "good", lsn |-> written[i].lsn, op |-> written[i].op]]
             t == IF tail = "none" THEN <<>> ELSE <<[kind |-> tail]>>
  <1>1. N \in Nat /\ DOMAIN written = 1..N
    BY WholeIs
  <1>2. \A i \in 1..N : written[i].lsn = i
    BY DEF Framed
  <1>3. g = [i \in 1..N |-> g[i]] /\ \A i \in 1..N : g[i].kind = "good" /\ g[i].lsn = i
    BY <1>1, <1>2
  <1>4. Cells = g \o t
    BY DEF Cells
  <1> HIDE DEF g
  <1>5. IsSeq(g) /\ Len(g) = N
    BY <1>1, <1>3, Listed
  <1>6. IsSeq(t) /\ Len(t) = (IF tail = "none" THEN 0 ELSE 1) /\ (tail # "none" => t[1].kind = tail)
    <2>1. CASE tail = "none"
      <3>1. t = <<>> /\ <<>> \in Seq({})
        BY <2>1, EmptySeq
      <3> QED
        BY <2>1, <3>1, EmptySeq DEF IsSeq
    <2>2. CASE tail # "none"
      <3> DEFINE x == [kind |-> tail]
      <3>1. t = <<x>> /\ x.kind = tail
        BY <2>2
      <3> HIDE DEF x, t
      <3>2. <<x>> \in Seq({x}) /\ Len(<<x>>) = 1 /\ <<x>>[1] = x
        OBVIOUS
      <3> QED
        BY <2>2, <3>1, <3>2 DEF IsSeq
    <2> QED
      BY <2>1, <2>2
  <1> HIDE DEF t
  <1>7. /\ IsSeq(g \o t) /\ Len(g \o t) = Len(g) + Len(t)
        /\ HasAt(g \o t, 0, Len(g), g) /\ HasAt(g \o t, Len(g), Len(t), t)
    BY <1>5, <1>6, Glued
  <1>8. /\ IsSeq(Cells) /\ Len(Cells) = N + Len(t) /\ HasAt(Cells, 0, N, g)
        /\ HasAt(Cells, N, Len(t), t)
    BY <1>4, <1>5, <1>7
  <1>9. \A i \in 1..N : Cells[i] = g[i]
    BY <1>1, <1>8 DEF HasAt
  <1>10. tail # "none" => Cells[N + 1] = t[1]
    BY <1>6, <1>8 DEF HasAt
  <1> QED
    BY <1>1, <1>3, <1>6, <1>8, <1>9, <1>10

\* To module WAL, _iter_records raises on this log exactly when there are zeros
\* at its end.
LEMMA RaisesOnZeros ==
    ASSUME NEW e, Framed(bytes, written, e), tail \in {"none", "short", "badcrc", "zeros"}
    PROVE  Log!IterRaises(Cells) <=> tail = "zeros"
  <1> DEFINE N == Len(written)
             s == Cells
  <1>1. /\ N \in Nat /\ Len(s) = (IF tail = "none" THEN N ELSE N + 1)
        /\ \A i \in 1..N : s[i].kind = "good" /\ s[i].lsn = i
        /\ tail # "none" => s[N + 1].kind = tail
    BY CellsAre
  <1> HIDE DEF s, N
  <1>2. Log!GoodLen(s) = N
    <2> DEFINE P(n) == /\ \A i \in 1..n : s[i].kind = "good"
                       /\ n < Len(s) => s[n + 1].kind # "good"
    <2>1. N \in 0..Len(s) /\ P(N)
      BY <1>1
    <2>2. ASSUME NEW n \in 0..Len(s), P(n) PROVE n = N
      <3>1. ~(n < N)
        <4>1. n < N => n + 1 \in 1..N /\ n < Len(s)
          BY <1>1
        <4> QED
          BY <1>1, <2>2, <4>1
      <3>2. ~(N < n)
        <4>1. N < n => N + 1 \in 1..n /\ tail # "none"
          BY <1>1
        <4> QED
          BY <1>1, <2>2, <4>1
      <3> QED
        BY <1>1, <3>1, <3>2
    <2>3. Log!GoodLen(s) = CHOOSE n \in 0..Len(s) : P(n)
      BY DEF Log!GoodLen
    <2> HIDE DEF P
    <2> QED
      BY <2>1, <2>2, <2>3
  <1>3. ~Log!NonSequential(s)
    <2> SUFFICES ASSUME NEW i \in 1..(N - 1) PROVE s[i + 1].lsn = s[i].lsn + 1
      BY <1>2 DEF Log!NonSequential
    <2>1. i \in 1..N /\ i + 1 \in 1..N
      BY <1>1
    <2> QED
      BY <1>1, <2>1
  <1>4. Log!TailRaises(s) <=> tail = "zeros"
    <2>1. CASE tail = "none"
      <3>1. ~(N + 1 <= Len(s))
        BY <1>1, <2>1
      <3> QED
        BY <1>2, <2>1, <3>1 DEF Log!TailRaises
    <2>2. CASE tail # "none"
      <3>1. N + 1 <= Len(s) /\ s[N + 1].kind = tail /\ \A j \in (N + 2)..Len(s) : FALSE
        BY <1>1, <2>2
      <3>2. (N + 1) + 1 = N + 2
        BY <1>1
      <3> QED
        BY <1>2, <3>1, <3>2 DEF Log!TailRaises
    <2> QED
      BY <2>1, <2>2
  <1> QED
    BY <1>3, <1>4 DEF Log!IterRaises, s

\* Module WAL tells the torn tails apart as the bytes do: on every tail that an
\* interrupted write can leave, _iter_records raises when IterRaises says so.
THEOREM TornKindsMatchBytes == FormatSpec => []TornKindsAreExact
  <1>1. FormatInv => TornKindsAreExact
    <2> SUFFICES ASSUME FormatInv PROVE TornKindsAreExact
      OBVIOUS
    <2>1. PICK e : /\ Framed(bytes, written, e) /\ TailIs(bytes, e[Len(written)], tail)
                   /\ \/ reader = NotReading
                      \/ \E j \in 0..Len(written) : ReadUpTo(reader, bytes, written, e, tail, j)
      BY DEF FormatInv
    <2>2. tail \in {"none", "short", "badcrc", "zeros"}
      BY <2>1 DEF TailIs
    <2>3. Log!IterRaises(Cells) <=> tail = "zeros"
      BY <2>1, <2>2, RaisesOnZeros
    <2>4. (reader.state = "raised" => tail = "zeros") /\ (reader.state = "ended" => tail # "zeros")
      BY <2>1 DEF ReadUpTo, NotReading
    <2> QED
      BY <2>3, <2>4 DEF TornKindsAreExact
  <1> QED
    BY <1>1, FormatInvariant, PTL

\* The recursive definition of FlattenSeq has a solution, so that it is one.
LEMMA FlattenRecursion ==
    ASSUME NEW F, Len(F) \in Nat, Len(F) # 0
    PROVE  \E f : /\ FlattenSeq(F) = f[Len(F)] /\ f[1] = F[1]
                  /\ \A i \in 2..Len(F) : f[i] = f[i - 1] \o F[i]
  <1> DEFINE Val(g, i) == IF i = 1 THEN F[i] ELSE g[i - 1] \o F[i]
             Solves(g, m) == g = [i \in 1..m |-> Val(g, i)]
             T == {m \in Nat : \E g : Solves(g, m + 1)}
  <1>1. 0 \in T
    <2> DEFINE h == [i \in 1..1 |-> F[1]]
    <2>1. Solves(h, 1)
      OBVIOUS
    <2>2. 0 + 1 = 1 /\ 0 \in Nat
      OBVIOUS
    <2> HIDE DEF Solves, h
    <2>3. \E g : Solves(g, 0 + 1)
      BY <2>1, <2>2
    <2> QED
      BY <2>2, <2>3
  <1>2. ASSUME NEW k \in Nat, k \in T PROVE k + 1 \in T
    <2> DEFINE m == k + 2
    <2>1. PICK g : Solves(g, k + 1)
      BY <1>2
    <2> DEFINE h == [i \in 1..m |-> IF i = m THEN Val(g, m) ELSE g[i]]
    <2>2. ASSUME NEW i \in 1..m PROVE h[i] = Val(h, i)
      <3>1. CASE i = 1
        <4>1. 1 \in 1..(k + 1) /\ i # m
          BY <3>1
        <4>2. g[1] = F[1]
          BY <2>1, <4>1
        <4> QED
          BY <3>1, <4>1, <4>2
      <3>2. CASE i # 1 /\ i # m
        <4>1. i \in 1..(k + 1) /\ i - 1 \in 1..m /\ i - 1 # m
          BY <3>2
        <4>2. g[i] = Val(g, i) /\ h[i] = g[i] /\ h[i - 1] = g[i - 1]
          BY <2>1, <3>2, <4>1
        <4> HIDE DEF h
        <4> QED
          BY <3>2, <4>2
      <3>3. CASE i # 1 /\ i = m
        <4>1. i - 1 \in 1..m /\ i - 1 # m
          BY <3>3
        <4>2. h[i] = Val(g, i) /\ h[i - 1] = g[i - 1]
          BY <3>3, <4>1
        <4> HIDE DEF h
        <4> QED
          BY <3>3, <4>2
      <3> QED
        BY <3>1, <3>2, <3>3
    <2>3. Solves(h, m)
      BY <2>2
    <2>4. (k + 1) + 1 = m /\ k + 1 \in Nat
      OBVIOUS
    <2> QED
      BY <2>3, <2>4
  <1>3. \A m \in Nat : m \in T
    <2> HIDE DEF T
    <2> QED
      BY <1>1, <1>2, SetInduction
  <1> DEFINE f == CHOOSE g : Solves(g, Len(F))
  <1>4. Solves(f, Len(F))
    <2>1. Len(F) - 1 \in Nat /\ (Len(F) - 1) + 1 = Len(F)
      OBVIOUS
    <2> HIDE DEF Solves
    <2>2. \E g : Solves(g, (Len(F) - 1) + 1)
      BY <1>3, <2>1
    <2>3. \E g : Solves(g, Len(F))
      BY <2>1, <2>2
    <2> QED
      BY <2>3
  <1>5. FlattenSeq(F) = f[Len(F)]
    BY DEF FlattenSeq
  <1> HIDE DEF f
  <1>6. \A i \in 1..Len(F) : f[i] = Val(f, i)
    BY <1>4
  <1>7. f[1] = F[1] /\ \A i \in 2..Len(F) : f[i] = f[i - 1] \o F[i]
    <2>1. 1 \in 1..Len(F) /\ \A i \in 2..Len(F) : i \in 1..Len(F) /\ i # 1
      OBVIOUS
    <2> QED
      BY <1>6, <2>1
  <1> QED
    BY <1>5, <1>7

\* The N frames F stand in s one after the other, and nothing behind them.
Chained(s, N, F, e) ==
    /\ IsSeq(s) /\ N \in Nat /\ F = [i \in 1..N |-> F[i]]
    /\ e \in [0..N -> Nat] /\ e[0] = 0 /\ e[N] = Len(s)
    /\ \A i \in 1..N : /\ IsSeq(F[i]) /\ e[i] = e[i - 1] + Len(F[i])
                       /\ HasAt(s, e[i - 1], Len(F[i]), F[i])

\* Bytes that hold the frames F one after the other, and nothing behind them,
\* are these frames.
LEMMA FlattenIs ==
    ASSUME NEW s, NEW N, NEW F, NEW e, Chained(s, N, F, e)
    PROVE  s = FlattenSeq(F)
  <1> USE DEF Chained
  <1>1. IsSeq(F) /\ Len(F) = N
    BY Listed
  <1>2. CASE N = 0
    <2>1. FlattenSeq(F) = F
      BY <1>1, <1>2 DEF FlattenSeq
    <2>2. Len(s) = 0
      BY <1>2
    <2>3. s = <<>> /\ F = <<>>
      BY <1>1, <1>2, <2>2, EmptySeq DEF IsSeq
    <2> QED
      BY <2>1, <2>3
  <1>3. CASE N # 0
    <2>1. PICK f : /\ FlattenSeq(F) = f[N] /\ f[1] = F[1]
                   /\ \A i \in 2..N : f[i] = f[i - 1] \o F[i]
      <3>1. \E f : /\ FlattenSeq(F) = f[Len(F)] /\ f[1] = F[1]
                   /\ \A i \in 2..Len(F) : f[i] = f[i - 1] \o F[i]
        BY <1>1, <1>3, FlattenRecursion
      <3> QED
        BY <1>1, <3>1
    <2> DEFINE Right(i) == IsSeq(f[i]) /\ Len(f[i]) = e[i] /\ HasAt(s, 0, e[i], f[i])
               T == {m \in Nat : m + 1 > N \/ Right(m + 1)}
    <2>2. 0 \in T
      <3>1. 1 \in 1..N /\ e[1 - 1] = 0 /\ 1 - 1 = 0
        BY <1>3
      <3>2. IsSeq(F[1]) /\ e[1] = 0 + Len(F[1]) /\ HasAt(s, 0, Len(F[1]), F[1])
        BY <3>1
      <3>3. Len(F[1]) \in Nat
        BY <3>2, LenIsNat
      <3>4. Right(1)
        BY <2>1, <3>2, <3>3
      <3> QED
        BY <3>4
    <2>3. ASSUME NEW m \in Nat, m \in T PROVE m + 1 \in T
      <3>1. CASE m + 2 > N
        <4>1. (m + 1) + 1 > N /\ m + 1 \in Nat
          BY <3>1
        <4> QED
          BY <4>1
      <3>2. CASE ~(m + 2 > N)
        <4> DEFINE i == m + 2
                   a == f[m + 1]
                   b == F[i]
        <4>1. i \in 2..N /\ i \in 1..N /\ i - 1 = m + 1 /\ m + 1 \in 0..N /\ ~(m + 1 > N)
          BY <3>2
        <4>2. Right(m + 1)
          BY <2>3, <4>1
        <4>3. f[i] = a \o b
          BY <2>1, <4>1
        <4>4. IsSeq(b) /\ e[i] = e[m + 1] + Len(b) /\ HasAt(s, e[m + 1], Len(b), b)
          BY <4>1
        <4>5. IsSeq(a) /\ Len(a) = e[m + 1] /\ HasAt(s, 0, Len(a), a)
          BY <4>2
        <4> HIDE DEF a, b, i
        <4>6. /\ IsSeq(a \o b) /\ Len(a \o b) = Len(a) + Len(b) /\ Len(a) \in Nat /\ Len(b) \in Nat
              /\ HasAt(a \o b, 0, Len(a), a) /\ HasAt(a \o b, Len(a), Len(b), b)
          BY <4>4, <4>5, Glued
        <4> DEFINE c == a \o b
        <4>7. \A k \in 1..Len(a) : s[k] = c[k]
          BY <4>5, <4>6 DEF HasAt
        <4>8. \A k \in 1..Len(b) : s[Len(a) + k] = c[Len(a) + k]
          BY <4>4, <4>5, <4>6 DEF HasAt
        <4> HIDE DEF c
        <4>9. ASSUME NEW k \in 1..(Len(a) + Len(b)) PROVE s[k] = c[k]
          <5>1. CASE k <= Len(a)
            BY <4>6, <4>7, <5>1
          <5>2. CASE ~(k <= Len(a))
            <6>1. k - Len(a) \in 1..Len(b) /\ Len(a) + (k - Len(a)) = k
              BY <4>6, <5>2
            <6> QED
              BY <4>8, <6>1
          <5> QED
            BY <5>1, <5>2
        <4>10. e[i] = Len(a) + Len(b) /\ f[i] = c /\ Len(c) = Len(a) + Len(b) /\ IsSeq(c)
          BY <4>3, <4>4, <4>5, <4>6 DEF c
        <4>11. HasAt(s, 0, e[i], f[i])
          BY <4>6, <4>9, <4>10 DEF HasAt
        <4>12. Right(i)
          BY <4>10, <4>11
        <4>13. i = (m + 1) + 1 /\ m + 1 \in Nat
          BY DEF i
        <4> HIDE DEF Right
        <4> QED
          BY <4>12, <4>13
      <3> QED
        BY <3>1, <3>2
    <2>4. Right(N)
      <3>1. \A m \in Nat : m \in T
        <4> HIDE DEF T
        <4> QED
          BY <2>2, <2>3, SetInduction
      <3>2. N - 1 \in Nat /\ (N - 1) + 1 = N /\ ~(N > N)
        BY <1>3
      <3> HIDE DEF Right
      <3>3. N - 1 \in T
        BY <3>1, <3>2
      <3> QED
        BY <3>2, <3>3
    <2> DEFINE t == f[N]
    <2>5. IsSeq(t) /\ Len(t) = Len(s) /\ HasAt(s, 0, Len(s), t)
      BY <2>4
    <2> HIDE DEF t
    <2>6. \A i \in 1..Len(s) : s[i] = t[i]
      BY <2>5, LenIsNat DEF HasAt
    <2>7. s = t
      BY <2>5, <2>6, SameSeq
    <2> QED
      BY <2>1, <2>7 DEF t
  <1> QED
    BY <1>2, <1>3

\* What replay() leaves of the log is whole frames, and so is the log after
\* every later append.
THEOREM LogIsWholeFrames == FormatSpec => []ReplayLeavesWholeFrames
  <1>1. FormatInv => ReplayLeavesWholeFrames
    <2> SUFFICES ASSUME FormatInv, tail = "none" PROVE ReplayLeavesWholeFrames
      BY DEF ReplayLeavesWholeFrames
    <2>1. PICK e : Framed(bytes, written, e) /\ TailIs(bytes, e[Len(written)], tail)
      BY DEF FormatInv
    <2> DEFINE N == Len(written)
               F == [i \in DOMAIN written |-> EncodeWalRecord(written[i].lsn, written[i].op)]
    <2>2. N \in Nat /\ DOMAIN written = 1..N /\ IsSeq(bytes) /\ Len(bytes) = e[N]
      BY <2>1, WholeIs DEF Framed, TailIs
    <2>3. F = [i \in 1..N |-> F[i]]
      BY <2>2
    <2>4. ASSUME NEW i \in 1..N PROVE F[i] = Frame(written, i) /\ IsSeq(F[i])
      <3>1. written[i].op \in LogOps /\ written[i] = [lsn |-> i, op |-> written[i].op]
        BY <2>1 DEF Framed
      <3>2. written[i].lsn = i
        BY <3>1
      <3>3. F[i] = EncodeWalRecord(i, written[i].op)
        BY <2>2, <3>2
      <3>4. IsSeq(EncodeWalRecord(i, written[i].op))
        BY <3>1, RecordHead
      <3> QED
        BY <3>3, <3>4 DEF Frame
    <2> HIDE DEF F
    <2>5. /\ e \in [0..N -> Nat] /\ e[0] = 0
          /\ \A i \in 1..N : /\ IsSeq(F[i]) /\ e[i] = e[i - 1] + Len(F[i])
                             /\ HasAt(bytes, e[i - 1], Len(F[i]), F[i])
      BY <2>1, <2>4 DEF Framed
    <2>6. bytes = FlattenSeq(F)
      <3>1. Chained(bytes, N, F, e)
        BY <2>2, <2>3, <2>5 DEF Chained
      <3> QED
        BY <3>1, FlattenIs
    <2> QED
      BY <2>6 DEF ReplayLeavesWholeFrames, F
  <1> QED
    BY <1>1, FormatInvariant, PTL

-----------------------------------------------------------------------------
(* Slotted pages and freelist pages. *)

\* The N parts F, and where each of them ends when they are put together.
Parts(N, F, e) ==
    /\ N \in Nat /\ F = [i \in 1..N |-> F[i]]
    /\ e \in [0..N -> Nat] /\ e[0] = 0
    /\ \A i \in 1..N : IsSeq(F[i]) /\ e[i] = e[i - 1] + Len(F[i])

\* FlattenSeq puts them together.
LEMMA FlattenHolds ==
    ASSUME NEW N, NEW F, NEW e, Parts(N, F, e)
    PROVE  /\ IsSeq(FlattenSeq(F)) /\ Len(FlattenSeq(F)) = e[N]
           /\ \A k \in 1..N : HasAt(FlattenSeq(F), e[k - 1], Len(F[k]), F[k])
  <1>1. IsSeq(F) /\ Len(F) = N /\ N \in Nat
    BY Listed DEF Parts
  <1>0. e[0] = 0 /\ \A i \in 1..N : /\ IsSeq(F[i]) /\ e[i] = e[i - 1] + Len(F[i])
                                    /\ e[i] \in Nat /\ e[i - 1] \in Nat
    <2>1. \A i \in 1..N : i \in 0..N /\ i - 1 \in 0..N
      BY <1>1
    <2> QED
      BY <2>1 DEF Parts
  <1>2. CASE N = 0
    <2>1. FlattenSeq(F) = F
      BY <1>1, <1>2 DEF FlattenSeq
    <2> QED
      BY <1>0, <1>1, <1>2, <2>1
  <1>3. CASE N # 0
    <2>1. PICK f : /\ FlattenSeq(F) = f[N] /\ f[1] = F[1]
                   /\ \A i \in 2..N : f[i] = f[i - 1] \o F[i]
      <3>1. \E f : /\ FlattenSeq(F) = f[Len(F)] /\ f[1] = F[1]
                   /\ \A i \in 2..Len(F) : f[i] = f[i - 1] \o F[i]
        BY <1>1, <1>3, FlattenRecursion
      <3> QED
        BY <1>1, <3>1
    <2> DEFINE Right(i) == /\ IsSeq(f[i]) /\ Len(f[i]) = e[i]
                           /\ \A k \in 1..i : /\ e[k] <= e[i]
                                              /\ HasAt(f[i], e[k - 1], Len(F[k]), F[k])
               T == {m \in Nat : m + 1 > N \/ Right(m + 1)}
    <2>2. 0 \in T
      <3>1. 1 \in 1..N /\ 1 - 1 = 0
        BY <1>1, <1>3
      <3>2. IsSeq(F[1]) /\ e[1] = 0 + Len(F[1]) /\ e[1] \in Nat /\ e[1 - 1] = 0
        BY <1>0, <3>1
      <3>3. Len(F[1]) \in Nat
        BY <3>2, LenIsNat
      <3>4. HasAt(F[1], 0, Len(F[1]), F[1])
        BY <3>3 DEF HasAt
      <3>5. \A k \in 1..1 : k = 1
        OBVIOUS
      <3>6. Len(f[1]) = e[1] /\ IsSeq(f[1])
        BY <2>1, <3>2, <3>3
      <3>7. Right(1)
        BY <2>1, <3>2, <3>4, <3>5, <3>6
      <3>8. 0 + 1 = 1 /\ 0 \in Nat
        OBVIOUS
      <3> HIDE DEF Right
      <3> QED
        BY <3>7, <3>8
    <2>3. ASSUME NEW m \in Nat, m \in T PROVE m + 1 \in T
      <3>1. CASE m + 2 > N
        <4>1. (m + 1) + 1 > N /\ m + 1 \in Nat
          BY <1>1, <3>1
        <4> QED
          BY <4>1
      <3>2. CASE ~(m + 2 > N)
        <4> DEFINE i == m + 2
                   l == m + 1
                   a == f[l]
                   b == F[i]
                   c == a \o b
        <4>1. i \in 2..N /\ i \in 1..N /\ i - 1 = l /\ l \in Nat /\ ~(l > N) /\ l \in 1..N
          BY <1>1, <3>2
        <4>2. Right(l)
          BY <2>3, <4>1
        <4>3. f[i] = c
          BY <2>1, <4>1
        <4>4. IsSeq(b) /\ e[i] = e[l] + Len(b) /\ e[i] \in Nat /\ e[l] \in Nat
          BY <1>0, <4>1
        <4>5. /\ IsSeq(a) /\ Len(a) = e[l]
              /\ \A k \in 1..l : e[k] <= e[l] /\ HasAt(a, e[k - 1], Len(F[k]), F[k])
          BY <4>2
        <4>13. i = (m + 1) + 1 /\ i = l + 1 /\ b = F[i]
          OBVIOUS
        <4> HIDE DEF a, b, i, l
        <4>6. /\ IsSeq(c) /\ Len(c) = Len(a) + Len(b) /\ Len(a) \in Nat /\ Len(b) \in Nat
              /\ HasAt(c, 0, Len(a), a) /\ HasAt(c, Len(a), Len(b), b)
          BY <4>4, <4>5, Glued
        <4> HIDE DEF c
        <4>7. Len(c) = e[i] /\ e[l] <= e[i]
          BY <4>4, <4>5, <4>6
        <4>8. ASSUME NEW k \in 1..i
              PROVE  e[k] <= e[i] /\ HasAt(c, e[k - 1], Len(F[k]), F[k])
          <5>1. CASE k = i
            BY <4>1, <4>4, <4>5, <4>6, <4>13, <5>1
          <5>2. CASE k # i
            <6>1. k \in 1..l /\ k \in 1..N
              BY <1>1, <4>1, <4>13, <5>2
            <6>2. /\ e[k] = e[k - 1] + Len(F[k]) /\ e[k] \in Nat /\ e[k - 1] \in Nat
                  /\ e[k] <= e[l] /\ HasAt(a, e[k - 1], Len(F[k]), F[k]) /\ IsSeq(F[k])
              BY <1>0, <4>5, <6>1
            <6>3. Len(F[k]) \in Nat
              BY <6>2, LenIsNat
            <6>4. e[k - 1] + Len(F[k]) <= Len(a)
              BY <4>5, <6>2
            <6>5. HasAt(c, e[k - 1], Len(F[k]), F[k])
              BY <4>6, <6>2, <6>3, <6>4, StillAt
            <6>6. e[k] <= e[i]
              BY <4>4, <4>7, <6>2
            <6> QED
              BY <6>5, <6>6
          <5> QED
            BY <5>1, <5>2
        <4>12. Right(i)
          BY <4>3, <4>6, <4>7, <4>8
        <4> HIDE DEF Right
        <4> QED
          BY <4>12, <4>13
      <3> QED
        BY <3>1, <3>2
    <2>4. Right(N)
      <3>1. \A m \in Nat : m \in T
        <4> HIDE DEF T
        <4> QED
          BY <2>2, <2>3, SetInduction
      <3>2. N - 1 \in Nat /\ (N - 1) + 1 = N /\ ~(N > N)
        BY <1>1, <1>3
      <3> HIDE DEF Right
      <3>3. N - 1 \in T
        BY <3>1, <3>2
      <3> QED
        BY <3>2, <3>3
    <2> QED
      BY <2>1, <2>4
  <1> QED
    BY <1>2, <1>3

\* Running sums of natural numbers.
LEMMA SumsExist ==
    ASSUME NEW N \in Nat, NEW d, \A i \in 1..N : d[i] \in Nat
    PROVE  \E g : /\ g \in [0..N -> Nat] /\ g[0] = 0
                  /\ \A i \in 1..N : g[i] = g[i - 1] + d[i]
  <1> DEFINE Sums(g, m) == /\ g \in [0..m -> Nat] /\ g[0] = 0
                           /\ \A i \in 1..m : g[i] = g[i - 1] + d[i]
             T == {m \in Nat : m > N \/ \E g : Sums(g, m)}
  <1>1. 0 \in T
    <2> DEFINE h == [i \in 0..0 |-> 0]
    <2>1. Sums(h, 0)
      OBVIOUS
    <2> HIDE DEF Sums, h
    <2> QED
      BY <2>1
  <1>2. ASSUME NEW k \in Nat, k \in T PROVE k + 1 \in T
    <2>1. CASE k + 1 > N
      BY <2>1
    <2>2. CASE ~(k + 1 > N)
      <3> DEFINE m == k + 1
      <3>1. PICK g : Sums(g, k)
        <4>1. ~(k > N)
          BY <2>2
        <4> HIDE DEF Sums
        <4> QED
          BY <1>2, <4>1
      <3>2. d[m] \in Nat
        BY <2>2
      <3> DEFINE h == [i \in 0..m |-> IF i = m THEN g[k] + d[m] ELSE g[i]]
      <3>3. \A i \in 0..k : h[i] = g[i] /\ g[i] \in Nat
        BY <3>1
      <3>4. h[m] = g[k] + d[m] /\ k \in 0..k /\ 0 \in 0..k
        OBVIOUS
      <3>5. h \in [0..m -> Nat]
        <4>1. ASSUME NEW i \in 0..m PROVE h[i] \in Nat
          <5>1. CASE i = m
            <6>1. g[k] \in Nat
              BY <3>3, <3>4
            <6> HIDE DEF h
            <6> QED
              BY <3>2, <3>4, <5>1, <6>1
          <5>2. CASE i # m
            <6>1. i \in 0..k
              BY <5>2
            <6> QED
              BY <3>3, <6>1
          <5> QED
            BY <5>1, <5>2
        <4> QED
          BY <4>1
      <3> HIDE DEF h
      <3>6. ASSUME NEW i \in 1..m PROVE h[i] = h[i - 1] + d[i]
        <4>1. CASE i = m
          <5>1. i - 1 = k
            BY <4>1
          <5> QED
            BY <3>3, <3>4, <4>1, <5>1
        <4>2. CASE i # m
          <5>1. i \in 1..k /\ i \in 0..k /\ i - 1 \in 0..k
            BY <4>2
          <5>2. g[i] = g[i - 1] + d[i]
            BY <3>1, <5>1
          <5> QED
            BY <3>3, <5>1, <5>2
        <4> QED
          BY <4>1, <4>2
      <3>7. h[0] = 0
        BY <3>1, <3>3, <3>4
      <3>8. Sums(h, m)
        BY <3>5, <3>6, <3>7
      <3>9. m = k + 1 /\ k + 1 \in Nat
        OBVIOUS
      <3> HIDE DEF Sums, m
      <3> QED
        BY <3>8, <3>9
    <2> QED
      BY <2>1, <2>2
  <1>3. \A m \in Nat : m \in T
    <2> HIDE DEF T
    <2> QED
      BY <1>1, <1>2, SetInduction
  <1>4. ~(N > N)
    OBVIOUS
  <1>5. \E g : Sums(g, N)
    <2> HIDE DEF Sums
    <2> QED
      BY <1>3, <1>4
  <1> QED
    BY <1>5

\* A page of the tree in memory.
TreePage(p) ==
    /\ p.type \in {"leaf", "internal"} /\ IsSeq(p.slots)
    /\ \A i \in 1..Len(p.slots) :
        /\ p.slots[i].key \in Keys
        /\ p.type = "leaf" => p.slots[i].value \in Values
        /\ p.type = "internal" => p.slots[i].child \in PageIds

\* The second part of the i-th record: the value behind its length, or the child.
SlotRest(p, i) ==
    IF p.type = "leaf" THEN LengthPrefixed(ValueBytes(p.slots[i].value))
    ELSE Field(p.slots[i].child, 8)

\* The two parts of a record, and that calculate_slot_size counts their bytes.
LEMMA SlotRecordIs ==
    ASSUME NEW p, TreePage(p), NEW i \in 1..Len(p.slots)
    PROVE  LET kb == KeyBytes(p.slots[i].key)
               r == SlotRecord(p, i)
               rest == SlotRest(p, i)
           IN /\ IsSeq(kb) /\ Len(kb) \in Nat /\ IsSeq(rest) /\ Len(rest) \in Nat /\ Len(rest) >= 4
              /\ IsSeq(r) /\ Len(r) = 4 + Len(kb) + Len(rest)
              /\ HasAt(r, 0, 4 + Len(kb), LengthPrefixed(kb))
              /\ HasAt(r, 4 + Len(kb), Len(rest), rest)
              /\ SlotSize(p.type, p.slots[i]) = 8 + Len(r)
  <1> DEFINE slot == p.slots[i]
             kb == KeyBytes(slot.key)
             a == LengthPrefixed(kb)
             rest == SlotRest(p, i)
             r == SlotRecord(p, i)
  <1>1. /\ slot.key \in Keys /\ p.type \in {"leaf", "internal"}
        /\ p.type = "leaf" => slot.value \in Values
    BY DEF TreePage
  <1>2. IsSeq(kb) /\ Len(kb) = KeyLen[slot.key] /\ Len(kb) \in Nat
    BY <1>1, DataIsSeq
  <1>3. IsSeq(a) /\ Len(a) = 4 + Len(kb)
    BY <1>2, PrefixedLayout
  <1>4. /\ IsSeq(rest) /\ Len(rest) \in Nat /\ Len(rest) >= 4
        /\ SlotSize(p.type, slot) = 12 + KeyLen[slot.key] + Len(rest)
    <2>1. CASE p.type = "leaf"
      <3> DEFINE vb == ValueBytes(slot.value)
      <3>1. IsSeq(vb) /\ Len(vb) = ValueLen[slot.value] /\ Len(vb) \in Nat
        BY <1>1, <2>1, DataIsSeq
      <3>2. IsSeq(LengthPrefixed(vb)) /\ Len(LengthPrefixed(vb)) = 4 + Len(vb)
        BY <3>1, PrefixedLayout
      <3>3. rest = LengthPrefixed(vb)
        BY <2>1 DEF SlotRest
      <3>4. SlotSize(p.type, slot) = 8 + (2 * 4 + KeyLen[slot.key] + ValueLen[slot.value])
        BY <2>1 DEF SlotSize, LeafRecordSize, SlotEntry, LengthField
      <3> DEFINE kl == KeyLen[slot.key]
                 size == SlotSize(p.type, slot)
      <3>5. kl \in Nat /\ size = 8 + (2 * 4 + kl + Len(vb))
        BY <1>2, <3>1, <3>4
      <3> HIDE DEF vb, rest, kl, size, slot
      <3>6. IsSeq(rest) /\ Len(rest) = 4 + Len(vb)
        BY <3>2, <3>3
      <3>7. Len(rest) \in Nat /\ Len(rest) >= 4 /\ size = 12 + kl + Len(rest)
        <4>1. \A n, m, l, z : n \in Nat /\ l \in Nat /\ m = 4 + n /\ z = 8 + (2 * 4 + l + n)
                => m \in Nat /\ m >= 4 /\ z = 12 + l + m
          OBVIOUS
        <4>2. Len(vb) \in Nat
          BY <3>1
        <4> QED
          BY <3>5, <3>6, <4>1, <4>2
      <3> QED
        BY <3>6, <3>7 DEF kl, size
    <2>2. CASE p.type = "internal"
      <3>1. rest = Field(slot.child, 8)
        BY <2>2 DEF SlotRest
      <3>2. IsSeq(Field(slot.child, 8)) /\ Len(Field(slot.child, 8)) = 8
        BY FieldIsBytes DEF IsBytes
      <3>3. SlotSize(p.type, slot) = 8 + (4 + KeyLen[slot.key] + 8)
        BY <2>2 DEF SlotSize, SlotEntry, LengthField, PageIdField
      <3> DEFINE kl == KeyLen[slot.key]
                 size == SlotSize(p.type, slot)
      <3>4. kl \in Nat /\ size = 8 + (4 + kl + 8)
        BY <1>2, <3>3
      <3> HIDE DEF rest, kl, size, slot
      <3>5. IsSeq(rest) /\ Len(rest) = 8
        BY <3>1, <3>2
      <3>6. Len(rest) \in Nat /\ Len(rest) >= 4 /\ size = 12 + kl + Len(rest)
        BY <3>4, <3>5
      <3> QED
        BY <3>5, <3>6 DEF kl, size
    <2> QED
      BY <1>1, <2>1, <2>2
  <1>5. r = a \o rest
    BY <1>1 DEF SlotRecord, SlotRest, PageIdField
  <1> HIDE DEF a, rest, kb
  <1>6. /\ IsSeq(a \o rest) /\ Len(a \o rest) = Len(a) + Len(rest)
        /\ HasAt(a \o rest, 0, Len(a), a) /\ HasAt(a \o rest, Len(a), Len(rest), rest)
    BY <1>3, <1>4, Glued
  <1> HIDE DEF r
  <1>7. /\ IsSeq(r) /\ Len(r) = 4 + Len(kb) + Len(rest)
        /\ HasAt(r, 0, 4 + Len(kb), a) /\ HasAt(r, 4 + Len(kb), Len(rest), rest)
    BY <1>3, <1>5, <1>6
  <1>8. SlotSize(p.type, slot) = 8 + Len(r)
    <2> DEFINE kl == KeyLen[slot.key]
               size == SlotSize(p.type, slot)
    <2>1. size = 12 + kl + Len(rest) /\ kl = Len(kb)
      BY <1>2, <1>4
    <2> HIDE DEF kl, size, slot
    <2>2. size = 8 + Len(r)
      BY <1>2, <1>4, <1>7, <2>1
    <2> QED
      BY <2>2 DEF size
  <1> HIDE DEF slot
  <1> QED
    BY <1>2, <1>4, <1>7, <1>8 DEF kb, a, r, rest, slot

\* Where the records end up: g[i] bytes are taken by the first i of them, from
\* the end of the page on, and calculate_page_size counts them and 8 for each.
Laid(p, N, g) ==
    /\ TreePage(p) /\ N = Len(p.slots) /\ N \in Nat /\ g \in [0..N -> Nat] /\ g[0] = 0
    /\ \A i \in 1..N : g[i] = g[i - 1] + Len(SlotRecord(p, i))
    /\ \A i \in 0..N : /\ CumulativeSize(p)[i] = g[i] + 8 * i
                       /\ RecordStarts(p)[i] = PageSize - g[i]

LEMMA PageLayout ==
    ASSUME NEW p, TreePage(p)
    PROVE  \E g : Laid(p, Len(p.slots), g)
  <1> DEFINE N == Len(p.slots)
  <1>1. N \in Nat
    BY LenIsNat DEF TreePage
  <1> DEFINE d == [i \in 1..N |-> Len(SlotRecord(p, i))]
  <1>2. \A i \in 1..N : /\ d[i] = Len(SlotRecord(p, i)) /\ d[i] \in Nat
                        /\ SlotSize(p.type, p.slots[i]) = 8 + d[i]
    <2> SUFFICES ASSUME NEW i \in 1..N
                 PROVE  /\ d[i] = Len(SlotRecord(p, i)) /\ d[i] \in Nat
                        /\ SlotSize(p.type, p.slots[i]) = 8 + d[i]
      OBVIOUS
    <2>1. d[i] = Len(SlotRecord(p, i))
      OBVIOUS
    <2>2. SlotSize(p.type, p.slots[i]) = 8 + Len(SlotRecord(p, i)) /\ IsSeq(SlotRecord(p, i))
      BY SlotRecordIs
    <2> HIDE DEF d
    <2> QED
      BY <2>1, <2>2, LenIsNat
  <1> HIDE DEF d
  <1>3. PICK g : /\ g \in [0..N -> Nat] /\ g[0] = 0
                 /\ \A i \in 1..N : g[i] = g[i - 1] + d[i]
    BY <1>1, <1>2, SumsExist
  <1>4. \A i \in 1..N : i \in 0..N /\ i - 1 \in 0..N
    BY <1>1
  <1> DEFINE sz == CumulativeSize(p)
             st == RecordStarts(p)
  <1>5. sz[0] = 0 /\ \A i \in 1..N : sz[i] = sz[i - 1] + SlotSize(p.type, p.slots[i])
    <2> DEFINE Solves(f) == f = [i \in 0..N |->
                                  IF i = 0 THEN 0 ELSE f[i - 1] + SlotSize(p.type, p.slots[i])]
               h == [i \in 0..N |-> g[i] + 8 * i]
    <2>1. ASSUME NEW i \in 0..N
          PROVE  h[i] = IF i = 0 THEN 0 ELSE h[i - 1] + SlotSize(p.type, p.slots[i])
      <3>1. CASE i = 0
        BY <1>3, <3>1
      <3>2. CASE i # 0
        <4>1. i \in 1..N /\ i - 1 \in 0..N
          BY <1>1, <3>2
        <4>2. h[i] = g[i] + 8 * i /\ h[i - 1] = g[i - 1] + 8 * (i - 1)
          BY <4>1
        <4>3. g[i] = g[i - 1] + d[i] /\ g[i - 1] \in Nat /\ d[i] \in Nat
          BY <1>2, <1>3, <4>1
        <4>4. SlotSize(p.type, p.slots[i]) = 8 + d[i]
          BY <1>2, <4>1
        <4> DEFINE size == SlotSize(p.type, p.slots[i])
        <4>5. 8 * i = 8 * (i - 1) + 8 /\ 8 * (i - 1) \in Int
          BY <4>1
        <4>6. size = 8 + d[i]
          BY <4>4
        <4> HIDE DEF h, size
        <4>7. h[i] = h[i - 1] + size
          BY <4>2, <4>3, <4>5, <4>6
        <4> QED
          BY <3>2, <4>7 DEF size
      <3> QED
        BY <3>1, <3>2
    <2>2. Solves(h)
      BY <2>1
    <2>3. sz = CHOOSE f : Solves(f)
      BY DEF CumulativeSize
    <2>4. Solves(sz)
      <3> HIDE DEF Solves, sz, h
      <3> QED
        BY <2>2, <2>3
    <2> HIDE DEF sz
    <2>5. \A i \in 0..N : sz[i] = IF i = 0 THEN 0 ELSE sz[i - 1] + SlotSize(p.type, p.slots[i])
      BY <2>4
    <2>6. 0 \in 0..N /\ \A i \in 1..N : i \in 0..N /\ i # 0
      BY <1>1
    <2> QED
      BY <2>5, <2>6
  <1>6. st[0] = PageSize /\ \A i \in 1..N : st[i] = st[i - 1] - Len(SlotRecord(p, i))
    <2> DEFINE Solves(f) == f = [i \in 0..N |->
                                  IF i = 0 THEN PageSize ELSE f[i - 1] - Len(SlotRecord(p, i))]
               h == [i \in 0..N |-> PageSize - g[i]]
    <2>0. PageSize \in Nat
      BY PagesAssumption
    <2>1. ASSUME NEW i \in 0..N
          PROVE  h[i] = IF i = 0 THEN PageSize ELSE h[i - 1] - Len(SlotRecord(p, i))
      <3>1. CASE i = 0
        BY <1>3, <2>0, <3>1
      <3>2. CASE i # 0
        <4>1. i \in 1..N /\ i - 1 \in 0..N
          BY <1>1, <3>2
        <4>2. h[i] = PageSize - g[i] /\ h[i - 1] = PageSize - g[i - 1]
          BY <4>1
        <4>3. /\ g[i] = g[i - 1] + d[i] /\ g[i - 1] \in Nat /\ d[i] \in Nat
              /\ Len(SlotRecord(p, i)) = d[i]
          BY <1>2, <1>3, <4>1
        <4> HIDE DEF h
        <4> QED
          BY <2>0, <3>2, <4>2, <4>3
      <3> QED
        BY <3>1, <3>2
    <2>2. Solves(h)
      BY <2>1
    <2>3. st = CHOOSE f : Solves(f)
      BY DEF RecordStarts
    <2>4. Solves(st)
      <3> HIDE DEF Solves, st, h
      <3> QED
        BY <2>2, <2>3
    <2> HIDE DEF st
    <2>5. \A i \in 0..N : st[i] = IF i = 0 THEN PageSize ELSE st[i - 1] - Len(SlotRecord(p, i))
      BY <2>4
    <2>6. 0 \in 0..N /\ \A i \in 1..N : i \in 0..N /\ i # 0
      BY <1>1
    <2> QED
      BY <2>5, <2>6
  <1> HIDE DEF sz, st
  <1> DEFINE Right(i) == sz[i] = g[i] + 8 * i /\ st[i] = PageSize - g[i]
             T == {m \in Nat : m > N \/ Right(m)}
  <1>7. 0 \in T
    <2>1. Right(0)
      BY <1>3, <1>5, <1>6, PagesAssumption
    <2> QED
      BY <2>1
  <1>8. ASSUME NEW m \in Nat, m \in T PROVE m + 1 \in T
    <2>1. CASE m + 1 > N
      BY <2>1
    <2>2. CASE ~(m + 1 > N)
      <3> DEFINE i == m + 1
      <3>1. i \in 1..N /\ i - 1 = m /\ ~(m > N) /\ m \in 0..N
        BY <1>1, <2>2
      <3>2. sz[m] = g[m] + 8 * m /\ st[m] = PageSize - g[m]
        BY <1>8, <3>1
      <3>3. sz[i] = sz[m] + (8 + d[i]) /\ st[i] = st[m] - d[i]
        BY <1>2, <1>5, <1>6, <3>1
      <3>4. g[i] = g[m] + d[i] /\ g[m] \in Nat /\ d[i] \in Nat /\ PageSize \in Nat
        BY <1>2, <1>3, <3>1, PagesAssumption
      <3>5. 8 * i = 8 * m + 8 /\ 8 * m \in Nat
        OBVIOUS
      <3>6. i = m + 1 /\ m + 1 \in Nat
        OBVIOUS
      <3> HIDE DEF i
      <3>7. Right(i)
        <4>1. sz[i] = g[i] + 8 * i
          <5> DEFINE a == g[m]
                     b == d[i]
                     c == 8 * m
                     y == sz[m]
          <5>1. a \in Nat /\ b \in Nat /\ c \in Nat /\ y = a + c
            BY <3>2, <3>4, <3>5
          <5>2. sz[i] = y + (8 + b) /\ g[i] = a + b /\ 8 * i = c + 8
            BY <3>3, <3>4, <3>5
          <5> HIDE DEF a, b, c, y
          <5>3. y + (8 + b) = (a + b) + (c + 8)
            BY <5>1
          <5> QED
            BY <5>2, <5>3
        <4>2. st[i] = PageSize - g[i]
          BY <3>2, <3>3, <3>4
        <4> QED
          BY <4>1, <4>2
      <3> HIDE DEF Right
      <3> QED
        BY <3>6, <3>7
    <2> QED
      BY <2>1, <2>2
  <1>9. \A i \in 0..N : Right(i)
    <2>1. \A m \in Nat : m \in T
      <3> HIDE DEF T
      <3> QED
        BY <1>7, <1>8, SetInduction
    <2>2. \A i \in 0..N : i \in Nat /\ ~(i > N)
      BY <1>1
    <2> HIDE DEF Right
    <2> QED
      BY <2>1, <2>2
  <1> QED
    <2>1. \A i \in 1..N : g[i] = g[i - 1] + Len(SlotRecord(p, i))
      BY <1>2, <1>3
    <2> QED
      <3>1. Laid(p, N, g)
        BY <1>1, <1>3, <1>9, <2>1 DEF sz, st, Laid
      <3> QED
        BY <3>1


\* The parts of the records of a page.
LEMMA LaidRecords ==
    ASSUME NEW p, NEW N, NEW g, Laid(p, N, g), NEW i \in 1..N
    PROVE  /\ IsSeq(SlotRecord(p, i)) /\ Len(SlotRecord(p, i)) \in Nat
           /\ g[i] \in Nat /\ g[i - 1] \in Nat /\ g[i] = g[i - 1] + Len(SlotRecord(p, i))
  <1>1. TreePage(p) /\ i \in 1..Len(p.slots) /\ N \in Nat
    BY DEF Laid
  <1>2. IsSeq(SlotRecord(p, i))
    BY <1>1, SlotRecordIs
  <1>3. i \in 0..N /\ i - 1 \in 0..N
    BY <1>1
  <1>4. g[i] \in Nat /\ g[i - 1] \in Nat /\ g[i] = g[i - 1] + Len(SlotRecord(p, i))
    BY <1>3 DEF Laid
  <1> QED
    BY <1>2, <1>4, LenIsNat

\* Running sums do not decrease.
LEMMA LaidGrows ==
    ASSUME NEW p, NEW N, NEW g, Laid(p, N, g)
    PROVE  \A i \in 0..N : g[i] \in Nat /\ g[i] <= g[N]
  <1>1. N \in Nat /\ \A i \in 0..N : g[i] \in Nat
    BY DEF Laid
  <1> DEFINE T == {m \in Nat : m > N \/ \A k \in 0..m : g[k] <= g[m]}
  <1>2. 0 \in T
    <2>1. \A k \in 0..0 : k = 0 /\ k \in 0..N
      BY <1>1
    <2> QED
      BY <1>1, <2>1
  <1>3. ASSUME NEW m \in Nat, m \in T PROVE m + 1 \in T
    <2>1. CASE m + 1 > N
      BY <2>1
    <2>2. CASE ~(m + 1 > N)
      <3> DEFINE l == m + 1
      <3>1. l \in 1..N /\ l - 1 = m /\ m \in 0..N /\ l \in 0..N /\ ~(m > N)
        BY <1>1, <2>2
      <3>2. g[l] \in Nat /\ g[m] \in Nat /\ g[m] <= g[l]
        <4>1. /\ Len(SlotRecord(p, l)) \in Nat /\ g[l] \in Nat /\ g[l - 1] \in Nat
              /\ g[l] = g[l - 1] + Len(SlotRecord(p, l))
          BY <3>1, LaidRecords
        <4> HIDE DEF l
        <4> QED
          BY <3>1, <4>1
      <3>3. ASSUME NEW k \in 0..l PROVE g[k] <= g[l]
        <4>1. CASE k = l
          <5> HIDE DEF l
          <5> QED
            BY <3>2, <4>1
        <4>2. CASE k # l
          <5>1. k \in 0..m /\ k \in 0..N
            BY <1>1, <3>1, <4>2
          <5>2. g[k] <= g[m] /\ g[k] \in Nat
            BY <1>1, <1>3, <3>1, <5>1
          <5> HIDE DEF l
          <5> QED
            BY <3>2, <5>2
        <4> QED
          BY <4>1, <4>2
      <3> QED
        BY <3>3
    <2> QED
      BY <2>1, <2>2
  <1>4. N \in T
    <2> HIDE DEF T
    <2> QED
      BY <1>1, <1>2, <1>3, SetInduction
  <1>5. ~(N > N)
    BY <1>1
  <1> QED
    BY <1>1, <1>4, <1>5

\* The records stand behind each other, the last one first.
LEMMA RecordsAre ==
    ASSUME NEW p, NEW N, NEW g, Laid(p, N, g)
    PROVE  LET recs == FlattenSeq(Reverse([i \in DOMAIN p.slots |-> SlotRecord(p, i)]))
           IN /\ IsSeq(recs) /\ Len(recs) = g[N]
              /\ \A i \in 1..N : HasAt(recs, g[N] - g[i], Len(SlotRecord(p, i)), SlotRecord(p, i))
  <1> DEFINE G == [i \in DOMAIN p.slots |-> SlotRecord(p, i)]
             R == [k \in 1..N |-> SlotRecord(p, (N - k) + 1)]
             e == [k \in 0..N |-> g[N] - g[N - k]]
             recs == FlattenSeq(Reverse(G))
  <1>1. N \in Nat /\ DOMAIN p.slots = 1..N
    <2>1. IsSeq(p.slots) /\ N = Len(p.slots) /\ N \in Nat
      BY DEF Laid, TreePage
    <2> QED
      BY <2>1, LenProperties DEF IsSeq
  <1>2. Reverse(G) = R
    <2>1. G = [i \in 1..N |-> SlotRecord(p, i)]
      BY <1>1
    <2>2. Len(G) = N
      <3>1. G = [i \in 1..N |-> G[i]]
        BY <2>1
      <3> HIDE DEF G
      <3> QED
        BY <1>1, <3>1, Listed
    <2>3. \A k \in 1..N : G[(N - k) + 1] = SlotRecord(p, (N - k) + 1)
      <3>1. \A k \in 1..N : (N - k) + 1 \in 1..N
        BY <1>1
      <3> QED
        BY <2>1, <3>1
    <2>4. Reverse(G) = [k \in 1..N |-> G[(N - k) + 1]]
      <3> HIDE DEF G
      <3> QED
        BY <2>2 DEF Reverse
    <2> HIDE DEF G
    <2> QED
      BY <2>3, <2>4
  <1>3. Parts(N, R, e)
    <2>1. \A k \in 0..N : N - k \in 0..N
      BY <1>1
    <2>2. \A k \in 0..N : e[k] = g[N] - g[N - k] /\ e[k] \in Nat
      <3> SUFFICES ASSUME NEW k \in 0..N PROVE e[k] = g[N] - g[N - k] /\ e[k] \in Nat
        OBVIOUS
      <3>1. e[k] = g[N] - g[N - k]
        OBVIOUS
      <3>2. N \in 0..N /\ N - k \in 0..N
        BY <1>1, <2>1
      <3>3. g[N] \in Nat /\ g[N - k] \in Nat /\ g[N - k] <= g[N]
        BY <3>2, LaidGrows
      <3> HIDE DEF e
      <3> QED
        BY <3>1, <3>3
    <2>3. e \in [0..N -> Nat]
      BY <2>2
    <2>4. e[0] = 0
      <3>1. 0 \in 0..N /\ N - 0 = N /\ N \in 0..N
        BY <1>1
      <3>2. e[0] = g[N] - g[N] /\ g[N] \in Nat
        BY <2>2, <3>1, LaidGrows
      <3> HIDE DEF e
      <3> QED
        BY <3>2
    <2>5. ASSUME NEW k \in 1..N PROVE IsSeq(R[k]) /\ e[k] = e[k - 1] + Len(R[k])
      <3> DEFINE i == (N - k) + 1
      <3>1. i \in 1..N /\ i - 1 = N - k /\ N - (k - 1) = i /\ k \in 0..N /\ k - 1 \in 0..N
        BY <1>1
      <3>2. R[k] = SlotRecord(p, i)
        OBVIOUS
      <3>3. e[k] = g[N] - g[i - 1] /\ e[k - 1] = g[N] - g[i]
        BY <2>2, <3>1
      <3>4. N \in 0..N
        BY <1>1
      <3>5. g[N] \in Nat
        BY <3>4, LaidGrows
      <3> HIDE DEF R, e, i
      <3>6. /\ IsSeq(SlotRecord(p, i)) /\ Len(SlotRecord(p, i)) \in Nat
            /\ g[i] \in Nat /\ g[i - 1] \in Nat /\ g[i] = g[i - 1] + Len(SlotRecord(p, i))
        BY <3>1, LaidRecords
      <3> DEFINE l == Len(SlotRecord(p, i))
                 a == g[i - 1]
                 b == g[i]
                 c == g[N]
      <3>7. l \in Nat /\ a \in Nat /\ b = a + l /\ c \in Nat
        BY <3>5, <3>6
      <3>8. e[k] = c - a /\ e[k - 1] = c - b /\ Len(R[k]) = l
        BY <3>2, <3>3
      <3> HIDE DEF l, a, b, c
      <3>9. c - a = (c - b) + l
        BY <3>7
      <3> QED
        BY <3>2, <3>6, <3>8, <3>9
    <2>6. R = [k \in 1..N |-> R[k]]
      OBVIOUS
    <2> HIDE DEF R, e
    <2> QED
      BY <1>1, <2>3, <2>4, <2>5, <2>6 DEF Parts
  <1>4. /\ IsSeq(FlattenSeq(R)) /\ Len(FlattenSeq(R)) = e[N]
        /\ \A k \in 1..N : HasAt(FlattenSeq(R), e[k - 1], Len(R[k]), R[k])
    <2> HIDE DEF R, e
    <2> QED
      BY <1>3, FlattenHolds
  <1>5. e[N] = g[N]
    <2>1. N \in 0..N /\ N - N = 0
      BY <1>1
    <2>2. e[N] = g[N] - g[0]
      BY <2>1
    <2>3. g[0] = 0 /\ g[N] \in Nat
      BY <2>1, LaidGrows DEF Laid
    <2> HIDE DEF e
    <2> QED
      BY <2>2, <2>3
  <1>6. ASSUME NEW i \in 1..N
        PROVE  HasAt(FlattenSeq(R), g[N] - g[i], Len(SlotRecord(p, i)), SlotRecord(p, i))
    <2> DEFINE k == (N - i) + 1
    <2>1. k \in 1..N /\ (N - k) + 1 = i /\ k - 1 \in 0..N /\ N - (k - 1) = i
      BY <1>1
    <2>2. R[k] = SlotRecord(p, (N - k) + 1) /\ e[k - 1] = g[N] - g[N - (k - 1)]
      BY <2>1
    <2> HIDE DEF R, e, k
    <2> QED
      BY <1>4, <2>1, <2>2
  <1> HIDE DEF R, e
  <1>7. /\ IsSeq(recs) /\ Len(recs) = g[N]
        /\ \A i \in 1..N : HasAt(recs, g[N] - g[i], Len(SlotRecord(p, i)), SlotRecord(p, i))
    BY <1>2, <1>4, <1>5, <1>6
  <1> QED
    BY <1>7 DEF recs, G

\* Entries of eight bytes, put together.
LEMMA EntriesAre ==
    ASSUME NEW N \in Nat, NEW F, F = [i \in 1..N |-> F[i]], \A i \in 1..N : IsBytes(F[i], 8)
    PROVE  /\ IsSeq(FlattenSeq(F)) /\ Len(FlattenSeq(F)) = 8 * N
           /\ \A i \in 1..N : HasAt(FlattenSeq(F), 8 * (i - 1), 8, F[i])
  <1> DEFINE e == [i \in 0..N |-> 8 * i]
  <1>1. \A i \in 1..N : IsSeq(F[i]) /\ Len(F[i]) = 8
    BY DEF IsBytes
  <1>2. /\ e \in [0..N -> Nat] /\ e[0] = 0 /\ e[N] = 8 * N
        /\ \A i \in 1..N : e[i] = e[i - 1] + 8 /\ e[i - 1] = 8 * (i - 1)
    OBVIOUS
  <1> HIDE DEF e
  <1>3. Parts(N, F, e)
    BY <1>1, <1>2 DEF Parts
  <1>4. /\ IsSeq(FlattenSeq(F)) /\ Len(FlattenSeq(F)) = e[N]
        /\ \A i \in 1..N : HasAt(FlattenSeq(F), e[i - 1], Len(F[i]), F[i])
    BY <1>3, FlattenHolds
  <1> QED
    BY <1>1, <1>2, <1>4

\* The slot directory: where each record starts and how long it is.
LEMMA DirectoryIs ==
    ASSUME NEW p, NEW N, NEW g, Laid(p, N, g)
    PROVE  /\ IsSeq(Directory(p)) /\ Len(Directory(p)) = 8 * N
           /\ \A i \in 1..N :
                /\ HasAt(Directory(p), 8 * (i - 1), 4, Field(PageSize - g[i], 4))
                /\ HasAt(Directory(p), 8 * (i - 1) + 4, 4, Field(Len(SlotRecord(p, i)), 4))
  <1> DEFINE A(i) == Field(PageSize - g[i], 4)
             B(i) == Field(Len(SlotRecord(p, i)), 4)
             F == [i \in 1..N |-> A(i) \o B(i)]
             dir == FlattenSeq(F)
  <1>1. N \in Nat /\ DOMAIN p.slots = 1..N /\ p.type # "freelist"
    <2>1. IsSeq(p.slots) /\ N = Len(p.slots) /\ N \in Nat /\ p.type \in {"leaf", "internal"}
      BY DEF Laid, TreePage
    <2> QED
      BY <2>1, LenProperties DEF IsSeq
  <1>2. Directory(p) = dir
    <2>1. \A i \in 1..N : RecordStarts(p)[i] = PageSize - g[i]
      <3>1. \A i \in 1..N : i \in 0..N
        BY <1>1
      <3> QED
        BY <3>1 DEF Laid
    <2>2. [i \in 1..N |-> Field(RecordStarts(p)[i], 4) \o Field(Len(SlotRecord(p, i)), 4)] = F
      BY <2>1
    <2> QED
      BY <1>1, <2>2 DEF Directory
  <1>3. \A i \in 1..N : IsBytes(A(i), 4) /\ IsBytes(B(i), 4)
    BY FieldIsBytes
  <1>4. \A i \in 1..N : F[i] = A(i) \o B(i)
    OBVIOUS
  <1>5. F = [i \in 1..N |-> F[i]]
    OBVIOUS
  <1> HIDE DEF A, B, F
  <1>6. \A i \in 1..N : IsBytes(F[i], 8) /\ HasAt(F[i], 0, 4, A(i)) /\ HasAt(F[i], 4, 4, B(i))
    <2> SUFFICES ASSUME NEW i \in 1..N
                 PROVE  IsBytes(F[i], 8) /\ HasAt(F[i], 0, 4, A(i)) /\ HasAt(F[i], 4, 4, B(i))
      OBVIOUS
    <2>1. /\ IsBytes(A(i) \o B(i), 4 + 4) /\ HasAt(A(i) \o B(i), 0, 4, A(i))
          /\ HasAt(A(i) \o B(i), 4, 4, B(i))
      BY <1>3, 4 \in Nat, GlueBytes
    <2>2. 4 + 4 = 8
      OBVIOUS
    <2> QED
      BY <1>4, <2>1, <2>2
  <1>7. /\ IsSeq(dir) /\ Len(dir) = 8 * N
        /\ \A i \in 1..N : HasAt(dir, 8 * (i - 1), 8, F[i])
    BY <1>1, <1>5, <1>6, EntriesAre
  <1> HIDE DEF dir
  <1>8. ASSUME NEW i \in 1..N
        PROVE  HasAt(dir, 8 * (i - 1), 4, A(i)) /\ HasAt(dir, 8 * (i - 1) + 4, 4, B(i))
    <2> DEFINE at == 8 * (i - 1)
    <2>1. at \in Nat
      BY <1>1
    <2>2. HasAt(dir, at, 8, F[i]) /\ HasAt(F[i], 0, 4, A(i)) /\ HasAt(F[i], 4, 4, B(i))
      BY <1>6, <1>7
    <2> HIDE DEF at
    <2>3. HasAt(dir, at, 4, A(i))
      BY <2>1, <2>2, Within
    <2>4. HasAt(dir, at + 4, 4, B(i))
      BY <2>1, <2>2, Within
    <2> QED
      BY <2>3, <2>4 DEF at
  <1> QED
    BY <1>2, <1>7, <1>8 DEF A, B

\* The fields of _PAGE_HEADER.
HeaderFields(t, n, a, b, l, k) ==
    Field(t, 1) \o Zeros(3) \o Field(n, 4) \o Field(a, 4) \o Field(b, 4) \o Field(l, 8) \o Field(k, 8)

\* Where they stand.
LEMMA HeaderLayout ==
    ASSUME NEW t, NEW n, NEW a, NEW b, NEW l, NEW k
    PROVE  LET h == HeaderFields(t, n, a, b, l, k)
           IN /\ IsBytes(h, 32)
              /\ HasAt(h, 0, 1, Field(t, 1)) /\ HasAt(h, 4, 4, Field(n, 4))
              /\ HasAt(h, 16, 8, Field(l, 8)) /\ HasAt(h, 24, 8, Field(k, 8))
  <1> DEFINE f0 == Field(t, 1)
             z == Zeros(3)
             f1 == Field(n, 4)
             f2 == Field(a, 4)
             f3 == Field(b, 4)
             f4 == Field(l, 8)
             f5 == Field(k, 8)
             h0 == f0 \o z
             h1 == h0 \o f1
             h2 == h1 \o f2
             h3 == h2 \o f3
             h4 == h3 \o f4
             h5 == h4 \o f5
  <1>1. HeaderFields(t, n, a, b, l, k) = h5
    BY DEF HeaderFields
  <1>2. IsBytes(z, 3)
    <2>1. z = [i \in 1..3 |-> z[i]] /\ \A i \in 1..3 : z[i] = <<z[i][1]>>
      BY DEF Zeros
    <2> QED
      BY <2>1, Listed DEF IsBytes
  <1>f0. IsBytes(f0, 1)
    BY FieldIsBytes
  <1>f1. IsBytes(f1, 4)
    BY FieldIsBytes
  <1>f2. IsBytes(f2, 4)
    BY FieldIsBytes
  <1>f3. IsBytes(f3, 4)
    BY FieldIsBytes
  <1>f4. IsBytes(f4, 8)
    BY FieldIsBytes
  <1>f5. IsBytes(f5, 8)
    BY FieldIsBytes
  <1> HIDE DEF f0, f1, f2, f3, f4, f5, z
  <1>4. IsBytes(h0, 4) /\ HasAt(h0, 0, 1, f0)
    BY <1>2, <1>f0, 1 + 3 = 4, GlueBytes
  <1> HIDE DEF h0
  <1>5. IsBytes(h1, 8) /\ HasAt(h1, 0, 4, h0) /\ HasAt(h1, 4, 4, f1)
    BY <1>4, <1>f1, 4 + 4 = 8, GlueBytes
  <1> HIDE DEF h1
  <1>6. IsBytes(h2, 12) /\ HasAt(h2, 0, 8, h1)
    BY <1>5, <1>f2, 8 + 4 = 12, GlueBytes
  <1> HIDE DEF h2
  <1>7. IsBytes(h3, 16) /\ HasAt(h3, 0, 12, h2)
    BY <1>6, <1>f3, 12 + 4 = 16, GlueBytes
  <1> HIDE DEF h3
  <1>8. IsBytes(h4, 24) /\ HasAt(h4, 0, 16, h3) /\ HasAt(h4, 16, 8, f4)
    BY <1>7, <1>f4, 16 + 8 = 24, GlueBytes
  <1> HIDE DEF h4
  <1>9. IsBytes(h5, 32) /\ HasAt(h5, 0, 24, h4) /\ HasAt(h5, 24, 8, f5)
    BY <1>8, <1>f5, 24 + 8 = 32, GlueBytes
  <1> HIDE DEF h5
  <1>10. HasAt(h5, 16, 8, f4)
    BY <1>8, <1>9, StillAt
  <1>11. HasAt(h5, 0, 8, h1)
    <2>1. HasAt(h3, 0, 8, h1)
      BY <1>6, <1>7, StillAt
    <2>2. HasAt(h4, 0, 8, h1)
      BY <2>1, <1>8, StillAt
    <2> QED
      BY <2>2, <1>9, StillAt
  <1>12. HasAt(h5, 4, 4, f1)
    BY <1>5, <1>11, StillAt
  <1>13. HasAt(h5, 0, 1, f0)
    <2>1. HasAt(h1, 0, 1, f0)
      BY <1>4, <1>5, StillAt
    <2> QED
      BY <2>1, <1>11, StillAt
  <1> QED
    BY <1>1, <1>9, <1>10, <1>12, <1>13 DEF f0, f1, f4, f5

\* A page put together: what goes to its front, and what goes behind it at an offset.
Assembled(front, records, start) ==
    [i \in 1..Max({PageSize, Len(front)}) |->
        IF i <= Len(front) THEN front[i]
        ELSE IF i - start \in DOMAIN records THEN records[i - start] ELSE <<0>>]

\* It is one page long if the two fit into one.
LEMMA AssembledIs ==
    ASSUME NEW front, IsSeq(front), NEW records, IsSeq(records), NEW start \in Nat,
           Len(front) <= start, start + Len(records) = PageSize
    PROVE  LET b == Assembled(front, records, start)
           IN /\ IsSeq(b) /\ Len(b) = PageSize
              /\ HasAt(b, 0, Len(front), front) /\ HasAt(b, start, Len(records), records)
  <1> DEFINE n == Len(front)
             m == Len(records)
             cell(i) == IF i <= n THEN front[i]
                        ELSE IF i - start \in DOMAIN records THEN records[i - start] ELSE <<0>>
             b == [i \in 1..PageSize |-> cell(i)]
  <1>1. n \in Nat /\ m \in Nat /\ PageSize \in Nat /\ n <= PageSize
    BY LenIsNat, PagesAssumption
  <1>2. DOMAIN records = 1..m
    BY LenProperties DEF IsSeq
  <1>3. Max({PageSize, n}) = PageSize
    <2> HIDE DEF n
    <2> QED
      BY <1>1 DEF Max
  <1>4. Assembled(front, records, start) = b
    BY <1>3 DEF Assembled
  <1>5. \A i \in 1..n : b[0 + i] = front[i]
    <2> SUFFICES ASSUME NEW i \in 1..n PROVE b[0 + i] = front[i]
      OBVIOUS
    <2>1. i \in 1..PageSize /\ i <= n /\ 0 + i = i
      <3> HIDE DEF n
      <3> QED
        BY <1>1
    <2> HIDE DEF n
    <2> QED
      BY <2>1
  <1>6. \A i \in 1..m : b[start + i] = records[i]
    <2> SUFFICES ASSUME NEW i \in 1..m PROVE b[start + i] = records[i]
      OBVIOUS
    <2> HIDE DEF n, m
    <2>1. start + i \in 1..PageSize /\ ~(start + i <= n) /\ (start + i) - start = i
      BY <1>1 DEF n, m
    <2> QED
      BY <1>2, <2>1
  <1>7. b = [i \in 1..PageSize |-> b[i]]
    OBVIOUS
  <1> HIDE DEF b
  <1>8. IsSeq(b) /\ Len(b) = PageSize
    BY <1>1, <1>7, Listed
  <1> QED
    BY <1>4, <1>5, <1>6, <1>8 DEF HasAt

\* The header of any page.
LEMMA HeaderIs ==
    ASSUME NEW p, NEW n
    PROVE  LET h == Header(p, n)
           IN /\ IsBytes(h, 32)
              /\ HasAt(h, 0, 1, Field(TypeTag[p.type], 1)) /\ HasAt(h, 4, 4, Field(CountOf(p), 4))
              /\ HasAt(h, 16, 8, Field(n, 8)) /\ HasAt(h, 24, 8, Field(LinkOf(p), 8))
  <1> DEFINE c == CountOf(p)
             free == IF p.type = "freelist" THEN <<0, 0>>
                     ELSE <<PageHeader + SlotEntry * c, RecordStarts(p)[c]>>
  <1>1. Header(p, n) = HeaderFields(TypeTag[p.type], c, free[1], free[2], n, LinkOf(p))
    BY DEF Header, HeaderFields, PageIdField
  <1> HIDE DEF free, c
  <1> QED
    BY <1>1, HeaderLayout DEF c

\* What decode_page reads from the header.
LEMMA HeaderReads ==
    ASSUME NEW b, IsSeq(b), Len(b) = PageSize, NEW p, NEW n, HasAt(b, 0, 32, Header(p, n)),
           TypeTag[p.type] \in {1, 2, 3}, IsNumber(CountOf(p)), IsNumber(n), IsNumber(LinkOf(p))
    PROVE  /\ Number(<<b[1], << 0 >>, << 0 >>>>) = TypeTag[p.type]
           /\ Number(Slice(b, 4, 4)) = CountOf(p)
           /\ Number(Slice(b, 16, 8)) = n
           /\ Number(Slice(b, 24, 8)) = LinkOf(p)
  <1> DEFINE h == Header(p, n)
             x == TypeTag[p.type]
  <1>0. PageSize \in Nat /\ PageSize >= 52
    BY PagesAssumption DEF MinPageSize
  <1>1. /\ HasAt(h, 0, 1, Field(x, 1)) /\ HasAt(h, 4, 4, Field(CountOf(p), 4))
        /\ HasAt(h, 16, 8, Field(n, 8)) /\ HasAt(h, 24, 8, Field(LinkOf(p), 8))
    BY HeaderIs
  <1>2. HasAt(b, 0, 32, h) /\ x \in {1, 2, 3}
    OBVIOUS
  <1> HIDE DEF h, x
  <1>3. HasAt(b, 4, 4, Field(CountOf(p), 4)) /\ 4 + 4 <= Len(b)
    BY <1>0, <1>1, <1>2, StillAt
  <1>4. HasAt(b, 16, 8, Field(n, 8)) /\ 16 + 8 <= Len(b)
    BY <1>0, <1>1, <1>2, StillAt
  <1>5. HasAt(b, 24, 8, Field(LinkOf(p), 8)) /\ 24 + 8 <= Len(b)
    BY <1>0, <1>1, <1>2, StillAt
  <1>6. HasAt(b, 0, 1, Field(x, 1))
    BY <1>1, <1>2, StillAt
  <1>7. Number(<<b[1], << 0 >>, << 0 >>>>) = x
    <2>1. 256^(1 - 1) = 1
      BY SMT
    <2>2. Field(x, 1)[1] = <<(x \div 256^(1 - 1)) % 256>>
      BY DEF Field
    <2>3. (x \div 1) % 256 = x
      BY <1>2, SMT
    <2>4. b[0 + 1] = Field(x, 1)[1]
      BY <1>6 DEF HasAt
    <2>5. b[1] = <<x>>
      BY <2>1, <2>2, <2>3, <2>4
    <2> QED
      BY <1>2, <2>5 DEF Number
  <1>8. Number(Slice(b, 4, 4)) = CountOf(p)
    BY <1>3, NumberAt
  <1>9. Number(Slice(b, 16, 8)) = n
    BY <1>4, NumberAt
  <1>10. Number(Slice(b, 24, 8)) = LinkOf(p)
    BY <1>5, NumberAt
  <1> QED
    BY <1>7, <1>8, <1>9, <1>10 DEF x

\* The front of a page: its header and its directory.
LEMMA FrontIs ==
    ASSUME NEW p, NEW n, IsSeq(Directory(p))
    PROVE  LET front == Header(p, n) \o Directory(p)
           IN /\ IsSeq(front) /\ Len(front) = 32 + Len(Directory(p))
              /\ HasAt(front, 0, 32, Header(p, n))
              /\ HasAt(front, 32, Len(Directory(p)), Directory(p))
  <1>1. IsSeq(Header(p, n)) /\ Len(Header(p, n)) = 32
    BY HeaderIs DEF IsBytes
  <1> QED
    BY <1>1, Glued

\* A page of the tree that fits: header, directory and records, each where it is
\* looked for.
LEMMA TreePageBytes ==
    ASSUME NEW p, NEW N, NEW g, Laid(p, N, g), 32 + 8 * N + g[N] <= PageSize, NEW n
    PROVE  LET b == EncodePage(p, n)
           IN /\ IsSeq(b) /\ Len(b) = PageSize
              /\ HasAt(b, 0, 32, Header(p, n)) /\ HasAt(b, 32, 8 * N, Directory(p))
              /\ \A i \in 1..N : HasAt(b, PageSize - g[i], Len(SlotRecord(p, i)), SlotRecord(p, i))
  <1> DEFINE dir == Directory(p)
             h == Header(p, n)
             front == h \o dir
             recs == FlattenSeq(Reverse([i \in DOMAIN p.slots |-> SlotRecord(p, i)]))
             start == PageSize - g[N]
             b == Assembled(front, recs, start)
  <1>1. /\ N \in Nat /\ g[N] \in Nat /\ PageSize \in Nat /\ N = Len(p.slots)
        /\ RecordStarts(p)[N] = PageSize - g[N] /\ p.type # "freelist"
    <2>1. N \in Nat /\ N = Len(p.slots) /\ p.type \in {"leaf", "internal"}
      BY DEF Laid, TreePage
    <2>2. N \in 0..N
      BY <2>1
    <2> QED
      BY <2>1, <2>2, LaidGrows, PagesAssumption DEF Laid
  <1>2. IsSeq(dir) /\ Len(dir) = 8 * N
    BY DirectoryIs
  <1>3. /\ IsSeq(front) /\ Len(front) = 32 + 8 * N
        /\ HasAt(front, 0, 32, h) /\ HasAt(front, 32, 8 * N, dir)
    BY <1>2, FrontIs
  <1>4. /\ IsSeq(recs) /\ Len(recs) = g[N]
        /\ \A i \in 1..N : HasAt(recs, g[N] - g[i], Len(SlotRecord(p, i)), SlotRecord(p, i))
    BY RecordsAre
  <1>5. EncodePage(p, n) = b
    <2>1. (IF recs = <<>> THEN PageSize ELSE RecordStarts(p)[Len(p.slots)]) = start
      <3>1. CASE recs = <<>>
        <4>1. g[N] = 0
          <5> HIDE DEF recs
          <5> QED
            BY <1>4, <3>1
        <4> QED
          BY <1>1, <3>1, <4>1
      <3>2. CASE recs # <<>>
        BY <1>1, <3>2
      <3> QED
        BY <3>1, <3>2
    <2> QED
      BY <1>1, <2>1 DEF EncodePage, Assembled
  <1>6. start \in Nat /\ Len(front) <= start /\ start + Len(recs) = PageSize
    <2>1. start = PageSize - g[N]
      OBVIOUS
    <2> DEFINE x == g[N]
               y == 8 * N
    <2>2. x \in Nat /\ y \in Nat /\ 32 + y + x <= PageSize /\ PageSize \in Nat /\ start = PageSize - x
      BY <1>1
    <2>3. Len(front) = 32 + y /\ Len(recs) = x
      BY <1>3, <1>4
    <2> HIDE DEF x, y, start, front, recs
    <2> QED
      BY <2>2, <2>3
  <1> HIDE DEF start, front, recs
  <1>7. /\ IsSeq(b) /\ Len(b) = PageSize
        /\ HasAt(b, 0, Len(front), front) /\ HasAt(b, start, Len(recs), recs)
    BY <1>3, <1>4, <1>6, AssembledIs
  <1> HIDE DEF b, h, dir
  <1>8. HasAt(b, 0, 32 + 8 * N, front) /\ HasAt(b, start, g[N], recs)
    BY <1>3, <1>4, <1>7
  <1>9. HasAt(b, 0, 32, h) /\ HasAt(b, 32, 8 * N, dir)
    <2> DEFINE y == 8 * N
    <2>1. y \in Nat /\ 32 + y \in Nat
      BY <1>1
    <2>2. HasAt(b, 0, 32 + y, front) /\ HasAt(front, 0, 32, h) /\ HasAt(front, 32, y, dir)
      BY <1>3, <1>8
    <2> HIDE DEF y
    <2>3. HasAt(b, 0, 32, h)
      BY <2>1, <2>2, StillAt
    <2>4. HasAt(b, 32, y, dir)
      BY <2>1, <2>2, StillAt
    <2> QED
      BY <2>3, <2>4 DEF y
  <1>10. ASSUME NEW i \in 1..N
         PROVE  HasAt(b, PageSize - g[i], Len(SlotRecord(p, i)), SlotRecord(p, i))
    <2> DEFINE r == SlotRecord(p, i)
               k == Len(r)
               from == g[N] - g[i]
               total == g[N]
               there == PageSize - g[i]
    <2>1. HasAt(recs, from, k, r) /\ HasAt(b, start, total, recs)
      BY <1>4, <1>8
    <2>2. /\ k \in Nat /\ g[i] \in Nat /\ g[i - 1] \in Nat /\ g[i] = g[i - 1] + k
          /\ g[i] <= g[N]
      <3>1. i \in 0..N
        BY <1>1
      <3>2. k \in Nat /\ g[i] \in Nat /\ g[i - 1] \in Nat /\ g[i] = g[i - 1] + k
        BY LaidRecords
      <3>3. g[i] <= g[N]
        BY <3>1, LaidGrows
      <3> QED
        BY <3>2, <3>3
    <2>3. /\ from \in Nat /\ total \in Nat /\ from + k <= total /\ there = start + from
      <3> DEFINE a == g[i]
                 c == g[i - 1]
      <3>1. /\ k \in Nat /\ a \in Nat /\ c \in Nat /\ a = c + k /\ a <= total /\ total \in Nat
            /\ from = total - a /\ there = PageSize - a /\ start = PageSize - total
            /\ PageSize \in Nat
        BY <1>1, <2>2 DEF start
      <3> HIDE DEF a, c, k, total, from, there
      <3> QED
        BY <3>1
    <2>4. start \in Nat /\ k \in Nat
      BY <1>6, <2>2
    <2> HIDE DEF r, k, from, total, there
    <2>5. HasAt(b, there, k, r)
      BY <2>1, <2>3, <2>4, Within
    <2> QED
      BY <2>5 DEF there, k, r
  <1>11. /\ IsSeq(b) /\ Len(b) = PageSize
         /\ HasAt(b, 0, 32, h) /\ HasAt(b, 32, 8 * N, dir)
         /\ \A i \in 1..N : HasAt(b, PageSize - g[i], Len(SlotRecord(p, i)), SlotRecord(p, i))
    BY <1>7, <1>9, <1>10
  <1> QED
    BY <1>5, <1>11 DEF h, dir

\* A slot as it is read: its key, and its value or its child.
SlotInBytes(p, i) ==
    IF p.type = "leaf"
    THEN [key |-> KeyBytes(p.slots[i].key), value |-> ValueBytes(p.slots[i].value)]
    ELSE [key |-> KeyBytes(p.slots[i].key), child |-> p.slots[i].child]

\* The two parts of a record are read back.
LEMMA RecordPartsRead ==
    ASSUME NEW p, TreePage(p), NEW i \in 1..Len(p.slots), IsNumber(Len(SlotRecord(p, i)))
    PROVE  LET r == SlotRecord(p, i)
               kb == KeyBytes(p.slots[i].key)
           IN /\ ReadPrefixed(r, 0) = kb
              /\ p.type = "leaf" => ReadPrefixed(r, 4 + Len(kb)) = ValueBytes(p.slots[i].value)
              /\ p.type = "internal" => Number(Slice(r, 4 + Len(kb), 8)) = p.slots[i].child
  <1> DEFINE slot == p.slots[i]
             kb == KeyBytes(slot.key)
             rest == SlotRest(p, i)
             r == SlotRecord(p, i)
  <1>1. /\ IsSeq(kb) /\ Len(kb) \in Nat /\ IsSeq(rest) /\ Len(rest) \in Nat
        /\ IsSeq(r) /\ Len(r) = 4 + Len(kb) + Len(rest)
        /\ HasAt(r, 0, 4 + Len(kb), LengthPrefixed(kb)) /\ HasAt(r, 4 + Len(kb), Len(rest), rest)
    BY SlotRecordIs
  <1>2. /\ p.type = "leaf" => slot.value \in Values /\ rest = LengthPrefixed(ValueBytes(slot.value))
        /\ p.type = "internal" => slot.child \in PageIds /\ rest = Field(slot.child, 8)
    BY DEF TreePage, SlotRest
  <1>n. IsNumber(Len(r))
    OBVIOUS
  <1> HIDE DEF slot, kb, rest, r
  <1>3. IsNumber(Len(kb))
    <2>1. Len(kb) <= Len(r)
      BY <1>1
    <2> QED
      BY <1>n, <1>1, <2>1, SmallerNumber
  <1>4. ReadPrefixed(r, 0) = kb
    <2>1. 0 + 4 + Len(kb) <= Len(r)
      BY <1>1
    <2> QED
      BY <1>1, <1>3, <2>1, PrefixedReads
  <1>5. ASSUME p.type = "leaf" PROVE ReadPrefixed(r, 4 + Len(kb)) = ValueBytes(slot.value)
    <2> DEFINE vb == ValueBytes(slot.value)
               at == 4 + Len(kb)
    <2>1. IsSeq(vb) /\ Len(vb) \in Nat
      BY <1>2, <1>5, DataIsSeq
    <2>2. rest = LengthPrefixed(vb)
      BY <1>2, <1>5
    <2> HIDE DEF vb
    <2>3. Len(rest) = 4 + Len(vb)
      BY <2>1, <2>2, PrefixedLayout
    <2>4. at \in Nat /\ at + 4 + Len(vb) = Len(r) /\ Len(vb) <= Len(r) /\ Len(r) \in Nat
      BY <1>1, <2>1, <2>3
    <2>5. HasAt(r, at, 4 + Len(vb), LengthPrefixed(vb))
      BY <1>1, <2>2, <2>3
    <2>6. IsNumber(Len(vb))
      BY <1>n, <2>1, <2>4, SmallerNumber
    <2>8. at + 4 + Len(vb) <= Len(r)
      BY <2>4
    <2> HIDE DEF at
    <2>7. ReadPrefixed(r, at) = vb
      BY <1>1, <2>1, <2>4, <2>5, <2>6, <2>8, PrefixedReads
    <2> QED
      BY <2>7 DEF at, vb
  <1>6. ASSUME p.type = "internal" PROVE Number(Slice(r, 4 + Len(kb), 8)) = slot.child
    <2> DEFINE f == Field(slot.child, 8)
               at == 4 + Len(kb)
    <2>1. IsNumber(slot.child) /\ rest = f
      BY <1>2, <1>6, PageIdAssumption
    <2>2. Len(f) = 8
      BY FieldIsBytes DEF IsBytes
    <2> HIDE DEF f
    <2>6. Len(rest) = 8
      BY <2>1, <2>2
    <2>3. at \in Nat /\ at + 8 <= Len(r)
      BY <1>1, <2>6
    <2>4. HasAt(r, at, 8, f)
      BY <1>1, <2>1, <2>6
    <2> HIDE DEF at
    <2>7. IsNumber(slot.child) /\ IsSeq(r) /\ 8 \in Nat /\ 8 >= 3
      BY <1>1, <2>1
    <2>5. Number(Slice(r, at, 8)) = slot.child
      BY <2>3, <2>4, <2>7, NumberAt DEF f
    <2> QED
      BY <2>5 DEF at
  <1> QED
    BY <1>4, <1>5, <1>6 DEF slot, kb, r

\* decode_page finds every slot in its directory entry.
LEMMA SlotReads ==
    ASSUME NEW p, NEW N, NEW g, Laid(p, N, g), 32 + 8 * N + g[N] <= PageSize, NEW n, NEW i \in 1..N
    PROVE  DecodeSlot(EncodePage(p, n), 32 + 8 * (i - 1), p.type) = SlotInBytes(p, i)
  <1> DEFINE b == EncodePage(p, n)
             dir == Directory(p)
             off == 8 * (i - 1)
             at == 32 + off
             size == 8 * N
             r == SlotRecord(p, i)
             k == Len(r)
             there == PageSize - g[i]
  <1>1. /\ IsSeq(b) /\ Len(b) = PageSize /\ HasAt(b, 32, size, dir) /\ HasAt(b, there, k, r)
    BY TreePageBytes
  <1>2. HasAt(dir, off, 4, Field(there, 4)) /\ HasAt(dir, off + 4, 4, Field(k, 4))
    BY DirectoryIs
  <1>3. N \in Nat /\ PageSize \in Nat /\ IsNumber(PageSize) /\ g[N] \in Nat
    <2>1. N \in Nat
      BY DEF Laid
    <2>2. N \in 0..N
      BY <2>1
    <2> QED
      BY <2>1, <2>2, LaidGrows, PagesAssumption, PageIdAssumption
  <1>4. off \in Nat /\ off + 4 \in Nat /\ size \in Nat /\ off + 8 <= size /\ 32 + size + g[N] <= PageSize
    BY <1>3
  <1>5. /\ IsSeq(r) /\ k \in Nat /\ there \in Nat /\ there + k <= PageSize
        /\ there <= PageSize /\ k <= PageSize
    <2> DEFINE a == g[i]
               c == g[i - 1]
               t == g[N]
    <2>1. IsSeq(r) /\ k \in Nat /\ a \in Nat /\ c \in Nat /\ a = c + k
      BY LaidRecords
    <2>2. a <= t /\ t \in Nat
      <3>1. i \in 0..N
        BY <1>3
      <3> QED
        BY <1>3, <3>1, LaidGrows
    <2>3. there = PageSize - a /\ size \in Nat /\ 32 + size + t <= PageSize /\ PageSize \in Nat
      BY <1>3, <1>4
    <2> HIDE DEF a, c, t, k, there, size, r
    <2> QED
      BY <2>1, <2>2, <2>3
  <1>6. TreePage(p) /\ i \in 1..Len(p.slots) /\ p.type \in {"leaf", "internal"}
    BY DEF Laid, TreePage
  <1> HIDE DEF b, dir, off, size, k, there, r
  <1>7. HasAt(b, at, 4, Field(there, 4))
    <2>1. off + 4 <= size /\ at = 32 + off
      BY <1>4
    <2> HIDE DEF at
    <2> QED
      BY <1>1, <1>2, <1>4, <2>1, Within
  <1>8. HasAt(b, at + 4, 4, Field(k, 4))
    <2>1. (off + 4) + 4 <= size /\ at + 4 = 32 + (off + 4)
      BY <1>4
    <2> DEFINE o == off + 4
               w == at + 4
    <2>2. o \in Nat /\ o + 4 <= size /\ w = 32 + o /\ HasAt(dir, o, 4, Field(k, 4))
      BY <1>2, <1>4, <2>1
    <2> HIDE DEF o, w
    <2>3. HasAt(b, w, 4, Field(k, 4))
      BY <1>1, <1>4, <2>2, Within
    <2> QED
      BY <2>3 DEF w
  <1>9. IsNumber(there) /\ IsNumber(k)
    BY <1>3, <1>5, SmallerNumber
  <1>10. /\ at \in Nat /\ at + 4 \in Nat /\ at + 4 <= Len(b) /\ (at + 4) + 4 <= Len(b)
    BY <1>1, <1>3, <1>4
  <1>11. Number(Slice(b, at, 4)) = there /\ Number(Slice(b, at + 4, 4)) = k
    <2> DEFINE w == at + 4
    <2>1. w \in Nat /\ w + 4 <= Len(b) /\ HasAt(b, w, 4, Field(k, 4))
      BY <1>8, <1>10
    <2> HIDE DEF w, at
    <2>2. Number(Slice(b, w, 4)) = k
      BY <1>1, <1>9, <2>1, NumberAt
    <2>3. Number(Slice(b, at, 4)) = there
      BY <1>1, <1>7, <1>9, <1>10, NumberAt
    <2> QED
      BY <2>2, <2>3 DEF w
  <1>12. Slice(b, there, k) = r
    BY <1>1, <1>5, SliceReads DEF k
  <1> DEFINE kb == KeyBytes(p.slots[i].key)
  <1>13. /\ ReadPrefixed(r, 0) = kb
         /\ p.type = "leaf" => ReadPrefixed(r, 4 + Len(kb)) = ValueBytes(p.slots[i].value)
         /\ p.type = "internal" => Number(Slice(r, 4 + Len(kb), 8)) = p.slots[i].child
    BY <1>6, <1>9, RecordPartsRead DEF r, k
  <1> HIDE DEF at
  <1>14. DecodeSlot(b, at, p.type) = SlotInBytes(p, i)
    <2> HIDE DEF kb
    <2>1. SlotInBytes(p, i) = IF p.type = "leaf"
                              THEN [key |-> kb, value |-> ValueBytes(p.slots[i].value)]
                              ELSE [key |-> kb, child |-> p.slots[i].child]
      BY DEF SlotInBytes, kb
    <2>2. DecodeSlot(b, at, p.type) =
            IF p.type = "leaf" THEN [key |-> kb, value |-> ReadPrefixed(r, 4 + Len(kb))]
            ELSE [key |-> kb, child |-> Number(Slice(r, 4 + Len(kb), 8))]
      BY <1>11, <1>12, <1>13 DEF DecodeSlot, LengthField, PageIdField
    <2>3. CASE p.type = "leaf"
      BY <1>13, <2>1, <2>2, <2>3
    <2>4. CASE p.type = "internal"
      <3>1. p.type # "leaf" /\ Number(Slice(r, 4 + Len(kb), 8)) = p.slots[i].child
        BY <1>13, <2>4
      <3> QED
        BY <2>1, <2>2, <3>1
    <2> QED
      BY <1>6, <2>3, <2>4
  <1> QED
    BY <1>14 DEF b, at, off

\* The tags of the kinds of pages.
LEMMA Tags == TypeTag["internal"] = 1 /\ TypeTag["leaf"] = 2 /\ TypeTag["freelist"] = 3
  BY DEF TypeTag

\* calculate_page_size is what the page takes.
LEMMA LaidFits ==
    ASSUME NEW p, NEW N, NEW g, Laid(p, N, g)
    PROVE  PageBytes(p) = 32 + 8 * N + g[N] /\ N \in Nat /\ g[N] \in Nat
  <1>1. N \in Nat /\ N = Len(p.slots)
    BY DEF Laid
  <1>2. N \in 0..N
    BY <1>1
  <1>3. CumulativeSize(p)[N] = g[N] + 8 * N /\ g[N] \in Nat
    BY <1>2 DEF Laid
  <1>4. PageBytes(p) = 32 + CumulativeSize(p)[N]
    BY <1>1 DEF PageBytes, PageHeader
  <1> DEFINE c == CumulativeSize(p)[N]
             x == g[N]
             y == 8 * N
  <1>5. c = x + y /\ x \in Nat /\ y \in Nat /\ PageBytes(p) = 32 + c
    BY <1>1, <1>3, <1>4
  <1> HIDE DEF c, x, y
  <1>6. PageBytes(p) = 32 + y + x
    BY <1>5
  <1> QED
    BY <1>1, <1>3, <1>6 DEF x, y

\* The three kinds of pages that decode_page tells apart by their tag.
LEMMA DecodeCases ==
    ASSUME NEW b
    PROVE  LET tag == Number(<<b[1], << 0 >>, << 0 >>>>)
               count == Number(Slice(b, 4, 4))
               lsn_ == Number(Slice(b, 16, 8))
               link == Number(Slice(b, 24, 8))
               slots(type) == [i \in 1..count |-> DecodeSlot(b, 32 + 8 * (i - 1), type)]
               ids == [i \in 1..count |-> Number(Slice(b, 32 + 8 * (i - 1), 8))]
           IN /\ tag = 1 => DecodePage(b) = [page |-> Internal(link, slots("internal")), lsn |-> lsn_]
              /\ tag = 2 => DecodePage(b) = [page |-> Leaf(link, slots("leaf")), lsn |-> lsn_]
              /\ tag = 3 => DecodePage(b) = [page |-> Freelist(link, ids), lsn |-> lsn_]
  <1> DEFINE tag == Number(<<b[1], << 0 >>, << 0 >>>>)
             count == Number(Slice(b, 4, 4))
             n == Number(Slice(b, 16, 8))
             link == Number(Slice(b, 24, 8))
             slots(type) == [i \in 1..count |-> DecodeSlot(b, 32 + 8 * (i - 1), type)]
             ids == [i \in 1..count |-> Number(Slice(b, 32 + 8 * (i - 1), 8))]
             p1 == [page |-> Internal(link, slots("internal")), lsn |-> n]
             p2 == [page |-> Leaf(link, slots("leaf")), lsn |-> n]
             p3 == [page |-> Freelist(link, ids), lsn |-> n]
             p4 == [page |-> Unreadable, lsn |-> 0]
  <1>1. DecodePage(b) = CASE tag = 1 -> p1 [] tag = 2 -> p2 [] tag = 3 -> p3
                          [] tag \notin 1..3 -> p4
    BY DEF DecodePage, PageIdField, PageHeader
  <1> HIDE DEF p1, p2, p3, p4, tag
  <1>2. /\ tag = 1 => DecodePage(b) = p1
        /\ tag = 2 => DecodePage(b) = p2
        /\ tag = 3 => DecodePage(b) = p3
    BY <1>1
  <1> QED
    BY <1>2 DEF p1, p2, p3, tag

\* A page of the tree that is not to be split is read back.
LEMMA TreePageReads ==
    ASSUME NEW p, TreePage(p), ~Overpopulated(p), IsNumber(LinkOf(p)), NEW n, IsNumber(n)
    PROVE  LET b == EncodePage(p, n)
               S == [i \in 1..Len(p.slots) |-> SlotInBytes(p, i)]
           IN /\ Len(b) = PageSize
              /\ DecodePage(b) = [page |-> IF p.type = "leaf" THEN Leaf(LinkOf(p), S)
                                           ELSE Internal(LinkOf(p), S), lsn |-> n]
  <1> DEFINE N == Len(p.slots)
             b == EncodePage(p, n)
             S == [i \in 1..N |-> SlotInBytes(p, i)]
             D(type) == [i \in 1..N |-> DecodeSlot(b, PageHeader + 8 * (i - 1), type)]
             link == LinkOf(p)
  <1>1. PICK g : Laid(p, N, g)
    BY PageLayout
  <1>2. /\ PageBytes(p) = 32 + 8 * N + g[N] /\ N \in Nat /\ g[N] \in Nat
    BY <1>1, LaidFits
  <1>3. PageSize \in Nat /\ IsNumber(PageSize)
    BY PagesAssumption, PageIdAssumption
  <1>4. 32 + 8 * N + g[N] <= PageSize
    BY <1>2, <1>3 DEF Overpopulated
  <1>5. IsSeq(b) /\ Len(b) = PageSize /\ HasAt(b, 0, 32, Header(p, n))
    BY <1>1, <1>4, TreePageBytes
  <1>6. \A i \in 1..N : DecodeSlot(b, 32 + 8 * (i - 1), p.type) = SlotInBytes(p, i)
    BY <1>1, <1>4, SlotReads
  <1>7. p.type \in {"leaf", "internal"}
    BY DEF TreePage
  <1>8. CountOf(p) = N
    BY <1>7 DEF CountOf
  <1>9. IsNumber(N)
    <2>1. N <= PageSize
      BY <1>2, <1>3, <1>4
    <2> QED
      BY <1>2, <1>3, <2>1, SmallerNumber
  <1>10. TypeTag[p.type] \in {1, 2, 3}
    BY <1>7, Tags
  <1>11. /\ Number(<<b[1], << 0 >>, << 0 >>>>) = TypeTag[p.type]
         /\ Number(Slice(b, 4, 4)) = N /\ Number(Slice(b, 16, 8)) = n /\ Number(Slice(b, 24, 8)) = link
    BY <1>5, <1>8, <1>9, <1>10, HeaderReads
  <1>12. D(p.type) = S
    BY <1>6 DEF PageHeader
  <1> HIDE DEF b, S, N
  <1>13. CASE p.type = "leaf"
    <2>1. Number(<<b[1], << 0 >>, << 0 >>>>) = 2
      BY <1>11, <1>13, Tags
    <2>2. DecodePage(b) = [page |-> Leaf(link, D("leaf")), lsn |-> n]
      <3> HIDE DEF link
      <3> QED
        BY <1>11, <2>1, DecodeCases DEF PageHeader
    <2>3. DecodePage(b) = [page |-> Leaf(link, S), lsn |-> n]
      BY <1>12, <1>13, <2>2
    <2> QED
      BY <1>5, <1>13, <2>3 DEF b, S, N
  <1>14. CASE p.type = "internal"
    <2>1. Number(<<b[1], << 0 >>, << 0 >>>>) = 1
      BY <1>11, <1>14, Tags
    <2>2. DecodePage(b) = [page |-> Internal(link, D("internal")), lsn |-> n]
      <3> HIDE DEF link
      <3> QED
        BY <1>11, <2>1, DecodeCases DEF PageHeader
    <2>3. DecodePage(b) = [page |-> Internal(link, S), lsn |-> n]
      BY <1>12, <1>14, <2>2
    <2> QED
      BY <1>5, <1>14, <2>3 DEF b, S, N
  <1> QED
    BY <1>7, <1>13, <1>14

\* The ids of a freelist page that is not full are read back.
LEMMA FreelistReads ==
    ASSUME NEW l, IsNumber(l), NEW s \in Seq(PageIds), Len(s) <= MaxFreedIds, NEW n, IsNumber(n)
    PROVE  LET b == EncodePage(Freelist(l, s), n)
           IN /\ Len(b) = PageSize
              /\ DecodePage(b) = [page |-> Freelist(l, s), lsn |-> n]
  <1> DEFINE p == Freelist(l, s)
             N == Len(s)
             F == [i \in 1..N |-> Field(s[i], 8)]
             dir == Directory(p)
             h == Header(p, n)
             front == h \o dir
             b == EncodePage(p, n)
  <1>1. p.type = "freelist" /\ p.next = l /\ p.freed = s
    BY DEF Freelist
  <1>2. N \in Nat /\ DOMAIN s = 1..N /\ \A i \in 1..N : s[i] \in PageIds
    BY LenProperties
  <1>3. PageSize \in Nat /\ IsNumber(PageSize) /\ PageSize >= 52 /\ 32 + 8 * N <= PageSize
    <2>1. PageSize \in Nat /\ IsNumber(PageSize) /\ PageSize >= 52
      BY PagesAssumption, PageIdAssumption DEF MinPageSize
    <2>2. N <= (PageSize - 32) \div 8
      BY DEF MaxFreedIds, PageHeader, PageIdField
    <2> HIDE DEF N
    <2> QED
      BY <1>2, <2>1, <2>2
  <1>4. dir = FlattenSeq(F)
    BY <1>1, <1>2 DEF Directory, PageIdField
  <1>5. F = [i \in 1..N |-> F[i]] /\ \A i \in 1..N : F[i] = Field(s[i], 8) /\ IsBytes(F[i], 8)
    BY FieldIsBytes
  <1> HIDE DEF F, N, p
  <1>6. IsSeq(dir) /\ Len(dir) = 8 * N /\ \A i \in 1..N : HasAt(dir, 8 * (i - 1), 8, F[i])
    BY <1>2, <1>4, <1>5, EntriesAre
  <1>7. /\ IsSeq(front) /\ Len(front) = 32 + 8 * N
        /\ HasAt(front, 0, 32, h) /\ HasAt(front, 32, 8 * N, dir)
    BY <1>6, FrontIs
  <1>8. b = Assembled(front, <<>>, PageSize)
    BY <1>1 DEF EncodePage, Assembled
  <1>9. IsSeq(<<>>) /\ Len(<<>>) = 0
    BY EmptySeq DEF IsSeq
  <1> HIDE DEF b, h, dir, front
  <1>10. IsSeq(b) /\ Len(b) = PageSize /\ HasAt(b, 0, Len(front), front)
    <2>1. Len(front) <= PageSize /\ PageSize + Len(<<>>) = PageSize
      BY <1>3, <1>7, <1>9
    <2> QED
      BY <1>3, <1>7, <1>8, <1>9, <2>1, AssembledIs
  <1>11. HasAt(b, 0, 32, h) /\ HasAt(b, 32, 8 * N, dir)
    <2> DEFINE y == 8 * N
    <2>1. y \in Nat /\ 32 + y \in Nat
      BY <1>2
    <2>2. HasAt(b, 0, 32 + y, front) /\ HasAt(front, 0, 32, h) /\ HasAt(front, 32, y, dir)
      BY <1>7, <1>10
    <2> HIDE DEF y
    <2>3. HasAt(b, 0, 32, h)
      BY <2>1, <2>2, StillAt
    <2>4. HasAt(b, 32, y, dir)
      BY <2>1, <2>2, StillAt
    <2> QED
      BY <2>3, <2>4 DEF y
  <1>12. \A i \in 1..N : Number(Slice(b, 32 + 8 * (i - 1), 8)) = s[i]
    <2> SUFFICES ASSUME NEW i \in 1..N PROVE Number(Slice(b, 32 + 8 * (i - 1), 8)) = s[i]
      OBVIOUS
    <2> DEFINE off == 8 * (i - 1)
               size == 8 * N
               at == 32 + off
    <2>1. off \in Nat /\ size \in Nat /\ off + 8 <= size /\ at \in Nat /\ at + 8 <= PageSize
      BY <1>2, <1>3
    <2>2. HasAt(b, 32, size, dir) /\ HasAt(dir, off, 8, Field(s[i], 8)) /\ IsNumber(s[i])
      BY <1>2, <1>5, <1>6, <1>11, PageIdAssumption
    <2>3. at = 32 + off /\ 8 \in Nat /\ 32 \in Nat /\ 8 >= 3
      OBVIOUS
    <2> HIDE DEF off, size, at
    <2>4. HasAt(b, at, 8, Field(s[i], 8))
      BY <2>1, <2>2, <2>3, Within
    <2>5. Number(Slice(b, at, 8)) = s[i]
      BY <1>10, <2>1, <2>2, <2>3, <2>4, NumberAt
    <2> QED
      BY <2>5 DEF at, off
  <1>13. CountOf(p) = N /\ LinkOf(p) = l /\ TypeTag[p.type] = 3
    BY <1>1, Tags DEF CountOf, LinkOf, N
  <1>14. IsNumber(N)
    <2>1. N <= PageSize
      BY <1>2, <1>3
    <2> QED
      BY <1>2, <1>3, <2>1, SmallerNumber
  <1>15. /\ Number(<<b[1], << 0 >>, << 0 >>>>) = 3
         /\ Number(Slice(b, 4, 4)) = N /\ Number(Slice(b, 16, 8)) = n /\ Number(Slice(b, 24, 8)) = l
    BY <1>10, <1>11, <1>13, <1>14, HeaderReads DEF h
  <1> DEFINE ids == [i \in 1..N |-> Number(Slice(b, 32 + 8 * (i - 1), 8))]
  <1>16. DecodePage(b) = [page |-> Freelist(l, ids), lsn |-> n]
    BY <1>15, DecodeCases
  <1>17. ids = s
    <2>1. s = [i \in 1..N |-> s[i]]
      BY <1>2, LenProperties DEF N
    <2> QED
      BY <1>12, <2>1
  <1> QED
    BY <1>10, <1>16, <1>17 DEF b, p

-----------------------------------------------------------------------------
(* The pages that reach encode_page. *)

LeafSlots == [key : Keys, value : Values]
InternalSlots == [key : Keys, child : PageIds]

GoodLeaf(p) ==
    \E l, s : IsNumber(l) /\ s \in Seq(LeafSlots) /\ p = Leaf(l, s) /\ ~Overpopulated(p)
GoodInternal(p) ==
    \E l, s : IsNumber(l) /\ s \in Seq(InternalSlots) /\ p = Internal(l, s) /\ ~Overpopulated(p)
GoodFreelist(p) ==
    \E l, s : IsNumber(l) /\ s \in Seq(PageIds) /\ p = Freelist(l, s) /\ Len(s) <= MaxFreedIds

\* The inductive invariant: the tree splits a page before it is written, and the
\* pager starts a new freelist page before one is full.
PageInv ==
    /\ page \in Metas \/ GoodLeaf(page) \/ GoodInternal(page) \/ GoodFreelist(page)
    /\ IsNumber(lsn)

\* The fields of the three kinds of pages.
LEMMA LeafFields ==
    ASSUME NEW l, NEW s
    PROVE  /\ Leaf(l, s).type = "leaf" /\ Leaf(l, s).right = l /\ Leaf(l, s).slots = s
           /\ LinkOf(Leaf(l, s)) = l
           /\ \A r : [Leaf(l, s) EXCEPT !.slots = r] = Leaf(l, r)
           /\ \A k : [Leaf(l, s) EXCEPT !.right = k] = Leaf(k, s)
  BY DEF Leaf, LinkOf

LEMMA InternalFields ==
    ASSUME NEW l, NEW s
    PROVE  /\ Internal(l, s).type = "internal" /\ Internal(l, s).leftmost = l
           /\ Internal(l, s).slots = s /\ LinkOf(Internal(l, s)) = l
           /\ \A r : [Internal(l, s) EXCEPT !.slots = r] = Internal(l, r)
           /\ \A k : [Internal(l, s) EXCEPT !.leftmost = k] = Internal(k, s)
  BY DEF Internal, LinkOf

LEMMA FreelistFields ==
    ASSUME NEW l, NEW s
    PROVE  /\ Freelist(l, s).type = "freelist" /\ Freelist(l, s).next = l /\ Freelist(l, s).freed = s
           /\ \A r : [Freelist(l, s) EXCEPT !.freed = r] = Freelist(l, r)
           /\ \A k : [Freelist(l, s) EXCEPT !.next = k] = Freelist(k, s)
  BY DEF Freelist

\* Good slots make pages of the tree.
LEMMA LeafIsTreePage ==
    ASSUME NEW l, NEW s \in Seq(LeafSlots)
    PROVE  TreePage(Leaf(l, s))
  <1>1. \A i \in 1..Len(s) : s[i].key \in Keys /\ s[i].value \in Values
    <2> SUFFICES ASSUME NEW i \in 1..Len(s) PROVE s[i].key \in Keys /\ s[i].value \in Values
      OBVIOUS
    <2>1. s[i] \in LeafSlots
      BY ElementOfSeq
    <2> QED
      BY <2>1 DEF LeafSlots
  <1>2. IsSeq(s)
    BY DEF IsSeq
  <1> QED
    BY <1>1, <1>2, LeafFields DEF TreePage

LEMMA InternalIsTreePage ==
    ASSUME NEW l, NEW s \in Seq(InternalSlots)
    PROVE  TreePage(Internal(l, s))
  <1>1. \A i \in 1..Len(s) : s[i].key \in Keys /\ s[i].child \in PageIds
    <2> SUFFICES ASSUME NEW i \in 1..Len(s) PROVE s[i].key \in Keys /\ s[i].child \in PageIds
      OBVIOUS
    <2>1. s[i] \in InternalSlots
      BY ElementOfSeq
    <2> QED
      BY <2>1 DEF InternalSlots
  <1>2. IsSeq(s)
    BY DEF IsSeq
  <1> QED
    BY <1>1, <1>2, InternalFields DEF TreePage

\* Such pages are read back.
LEMMA GoodLeafReads ==
    ASSUME NEW p, GoodLeaf(p), NEW n, IsNumber(n)
    PROVE  LET b == EncodePage(p, n)
           IN Len(b) = PageSize /\ DecodePage(b) = [page |-> PageInBytes(p), lsn |-> n]
  <1>1. PICK l, s : IsNumber(l) /\ s \in Seq(LeafSlots) /\ p = Leaf(l, s) /\ ~Overpopulated(p)
    BY DEF GoodLeaf
  <1>2. TreePage(p) /\ p.type = "leaf" /\ p.slots = s /\ LinkOf(p) = l
    BY <1>1, LeafIsTreePage, LeafFields
  <1> DEFINE S == [i \in 1..Len(p.slots) |-> SlotInBytes(p, i)]
             b == EncodePage(p, n)
  <1>3. Len(b) = PageSize /\ DecodePage(b) = [page |-> Leaf(l, S), lsn |-> n]
    <2>1. Len(b) = PageSize
      BY <1>1, <1>2, TreePageReads
    <2>2. DecodePage(b) = [page |-> IF p.type = "leaf" THEN Leaf(LinkOf(p), S)
                                    ELSE Internal(LinkOf(p), S), lsn |-> n]
      BY <1>1, <1>2, TreePageReads
    <2> HIDE DEF S, b
    <2> QED
      BY <1>2, <2>1, <2>2
  <1>4. PageInBytes(p) = Leaf(l, S)
    <2> DEFINE R == [i \in DOMAIN s |-> [key |-> KeyBytes(s[i].key), value |-> ValueBytes(s[i].value)]]
    <2>1. PageInBytes(p) = [p EXCEPT !.slots = R]
      BY <1>2 DEF PageInBytes
    <2>2. S = R
      <3>1. DOMAIN s = 1..Len(p.slots)
        BY <1>1, <1>2, LenProperties
      <3>2. \A i \in 1..Len(p.slots) : SlotInBytes(p, i) =
                [key |-> KeyBytes(s[i].key), value |-> ValueBytes(s[i].value)]
        BY <1>2 DEF SlotInBytes
      <3> QED
        BY <3>1, <3>2
    <2> HIDE DEF R, S
    <2> QED
      BY <1>1, <2>1, <2>2, LeafFields
  <1> QED
    BY <1>3, <1>4

LEMMA GoodInternalReads ==
    ASSUME NEW p, GoodInternal(p), NEW n, IsNumber(n)
    PROVE  LET b == EncodePage(p, n)
           IN Len(b) = PageSize /\ DecodePage(b) = [page |-> PageInBytes(p), lsn |-> n]
  <1>1. PICK l, s : IsNumber(l) /\ s \in Seq(InternalSlots) /\ p = Internal(l, s) /\ ~Overpopulated(p)
    BY DEF GoodInternal
  <1>2. TreePage(p) /\ p.type = "internal" /\ p.type # "leaf" /\ p.slots = s /\ LinkOf(p) = l
    <2>1. TreePage(p) /\ p.type = "internal" /\ p.slots = s /\ LinkOf(p) = l
      BY <1>1, InternalIsTreePage, InternalFields
    <2> QED
      BY <2>1
  <1> DEFINE S == [i \in 1..Len(p.slots) |-> SlotInBytes(p, i)]
             b == EncodePage(p, n)
  <1>3. Len(b) = PageSize /\ DecodePage(b) = [page |-> Internal(l, S), lsn |-> n]
    <2>1. Len(b) = PageSize
      BY <1>1, <1>2, TreePageReads
    <2>2. DecodePage(b) = [page |-> IF p.type = "leaf" THEN Leaf(LinkOf(p), S)
                                    ELSE Internal(LinkOf(p), S), lsn |-> n]
      BY <1>1, <1>2, TreePageReads
    <2> HIDE DEF S, b
    <2> QED
      BY <1>2, <2>1, <2>2
  <1>4. PageInBytes(p) = Internal(l, S)
    <2> DEFINE R == [i \in DOMAIN s |-> [key |-> KeyBytes(s[i].key), child |-> s[i].child]]
    <2>1. PageInBytes(p) = [p EXCEPT !.slots = R]
      BY <1>2 DEF PageInBytes
    <2>2. S = R
      <3>1. DOMAIN s = 1..Len(p.slots)
        BY <1>1, <1>2, LenProperties
      <3>2. \A i \in 1..Len(p.slots) : SlotInBytes(p, i) =
                [key |-> KeyBytes(s[i].key), child |-> s[i].child]
        BY <1>2 DEF SlotInBytes
      <3> QED
        BY <3>1, <3>2
    <2> HIDE DEF R, S
    <2> QED
      BY <1>1, <2>1, <2>2, InternalFields
  <1> QED
    BY <1>3, <1>4

\* The invariant is what is wanted of pages.
LEMMA GoodPagesRead == PageInv => PagesReadBack
  <1> SUFFICES ASSUME PageInv, page.type # "meta"
               PROVE  LET b == EncodePage(page, lsn)
                      IN Len(b) = PageSize /\ DecodePage(b) = [page |-> PageInBytes(page), lsn |-> lsn]
    BY DEF PagesReadBack
  <1>1. page \notin Metas
    BY DEF Metas
  <1>2. IsNumber(lsn)
    BY DEF PageInv
  <1>3. CASE GoodLeaf(page)
    BY <1>2, <1>3, GoodLeafReads
  <1>4. CASE GoodInternal(page)
    BY <1>2, <1>4, GoodInternalReads
  <1>5. CASE GoodFreelist(page)
    <2>1. PICK l, s : IsNumber(l) /\ s \in Seq(PageIds) /\ page = Freelist(l, s) /\ Len(s) <= MaxFreedIds
      BY <1>5 DEF GoodFreelist
    <2>2. page.type = "freelist"
      BY <2>1, FreelistFields
    <2>3. PageInBytes(page) = page
      BY <2>2 DEF PageInBytes
    <2> QED
      BY <1>2, <2>1, <2>3, FreelistReads
  <1> QED
    BY <1>1, <1>3, <1>4, <1>5 DEF PageInv

\* The size of a page is that of its slots.
LEMMA SameBytes ==
    ASSUME NEW p, NEW q, p.type = q.type, p.slots = q.slots
    PROVE  Overpopulated(p) <=> Overpopulated(q)
  <1> DEFINE Sums(type, slots) ==
                CHOOSE f : f = [i \in 0..Len(slots) |->
                                  IF i = 0 THEN 0 ELSE f[i - 1] + SlotSize(type, slots[i])]
  <1>1. /\ CumulativeSize(p) = Sums(p.type, p.slots)
        /\ CumulativeSize(q) = Sums(q.type, q.slots)
    BY DEF CumulativeSize
  <1> HIDE DEF Sums
  <1>2. CumulativeSize(p) = CumulativeSize(q)
    BY <1>1
  <1> QED
    BY <1>2 DEF Overpopulated, PageBytes

\* A page without slots.
LEMMA EmptyFits ==
    ASSUME NEW p, TreePage(p), p.slots = <<>>
    PROVE  ~Overpopulated(p)
  <1>1. PICK g : Laid(p, Len(p.slots), g)
    BY PageLayout
  <1>2. Len(p.slots) = 0
    BY EmptySeq
  <1>3. Laid(p, 0, g)
    BY <1>1, <1>2
  <1>4. g[0] = 0
    BY <1>3 DEF Laid
  <1>5. PageBytes(p) = 32 + 8 * 0 + g[0]
    BY <1>3, LaidFits
  <1>6. PageBytes(p) = 32
    BY <1>4, <1>5
  <1> QED
    BY <1>6, PagesAssumption DEF Overpopulated, MinPageSize

\* A slot is added to slots of its kind.
LEMMA InsertedSlots ==
    ASSUME NEW S, NEW s \in Seq(S), NEW e \in S, NEW T \in SUBSET (DOMAIN s)
    PROVE  InsertAt(s, Cardinality(T) + 1, e) \in Seq(S)
  <1> DEFINE n == Cardinality(T)
             N == Len(s)
  <1>1. N \in Nat /\ DOMAIN s = 1..N
    BY LenProperties
  <1>2. IsFiniteSet(1..N) /\ Cardinality(1..N) = IF 1 > N THEN 0 ELSE N - 1 + 1
    BY <1>1, FS_Interval
  <1>3. Cardinality(1..N) = N
    BY <1>1, <1>2
  <1>4. IsFiniteSet(T) /\ n <= N
    BY <1>1, <1>2, <1>3, FS_Subset
  <1>5. n \in Nat
    BY <1>4, FS_CardinalityType
  <1> HIDE DEF n
  <1>6. (n + 1) - 1 = n /\ n + 1 \in Int /\ n \in Int /\ N \in Int /\ 1 \in Int
    BY <1>1, <1>5
  <1>7. \A i \in 1..N : s[i] \in S
    BY ElementOfSeq
  <1>8. SubSeq(s, 1, n) \in Seq(S)
    <2>1. \A i \in 1..n : s[i] \in S
      BY <1>1, <1>4, <1>5, <1>7
    <2> QED
      BY <1>6, <2>1, SubSeqProperties
  <1>9. SubSeq(s, n + 1, N) \in Seq(S)
    <2>1. \A i \in (n + 1)..N : s[i] \in S
      BY <1>1, <1>5, <1>7
    <2> DEFINE m == n + 1
    <2>2. m \in Int /\ \A i \in m..N : s[i] \in S
      BY <1>6, <2>1
    <2> HIDE DEF m, N
    <2>3. SubSeq(s, m, N) \in Seq(S)
      BY <1>6, <2>2, SubSeqProperties
    <2> QED
      BY <2>3 DEF m
  <1>10. <<e>> \in Seq(S)
    OBVIOUS
  <1>11. SubSeq(s, 1, n) \o <<e>> \in Seq(S)
    BY <1>8, <1>10, ConcatProperties
  <1>12. (SubSeq(s, 1, n) \o <<e>>) \o SubSeq(s, n + 1, N) \in Seq(S)
    BY <1>9, <1>11, ConcatProperties
  <1> QED
    BY <1>6, <1>12 DEF InsertAt, n

\* The kinds of pages are told apart by their type.
LEMMA KindsDiffer ==
    /\ \A p \in Metas : p.type = "meta"
    /\ \A p : GoodLeaf(p) => p.type = "leaf"
    /\ \A p : GoodInternal(p) => p.type = "internal"
    /\ \A p : GoodFreelist(p) => p.type = "freelist"
  <1>1. \A p \in Metas : p.type = "meta"
    BY DEF Metas
  <1>2. \A p : GoodLeaf(p) => p.type = "leaf"
    BY LeafFields DEF GoodLeaf
  <1>3. \A p : GoodInternal(p) => p.type = "internal"
    BY InternalFields DEF GoodInternal
  <1>4. \A p : GoodFreelist(p) => p.type = "freelist"
    BY FreelistFields DEF GoodFreelist
  <1> QED
    BY <1>1, <1>2, <1>3, <1>4

\* Each kind of page stays what it is.
LEMMA KindOfPage ==
    ASSUME PageInv
    PROVE  /\ page.type = "leaf" => GoodLeaf(page)
           /\ page.type = "internal" => GoodInternal(page)
           /\ page.type = "freelist" => GoodFreelist(page)
           /\ page.type \in {"meta", "leaf", "internal", "freelist"}
  BY KindsDiffer DEF PageInv

\* Every step keeps the invariant.
LEMMA LeafGrows ==
    ASSUME PageInv, NEW k \in Keys, NEW v \in Values, page.type = "leaf", AddSlot(LeafSlot(k, v))
    PROVE  PageInv'
  <1> DEFINE slot == LeafSlot(k, v)
             T == {i \in DOMAIN page.slots : page.slots[i].key <= slot.key}
             r == InsertAt(page.slots, Cardinality(T) + 1, slot)
  <1>1. PICK l, s : IsNumber(l) /\ s \in Seq(LeafSlots) /\ page = Leaf(l, s) /\ ~Overpopulated(page)
    BY KindOfPage DEF GoodLeaf
  <1>2. page.slots = s
    BY <1>1, LeafFields
  <1>3. slot \in LeafSlots
    BY DEF LeafSlot, LeafSlots
  <1>4. T \in SUBSET (DOMAIN s)
    BY <1>2
  <1>5. page' = [page EXCEPT !.slots = r] /\ ~Overpopulated([page EXCEPT !.slots = r]) /\ lsn' = lsn
    BY DEF AddSlot
  <1>6. r = InsertAt(s, Cardinality(T) + 1, slot)
    BY <1>2
  <1> HIDE DEF T, slot, r
  <1>7. r \in Seq(LeafSlots)
    BY <1>1, <1>3, <1>4, <1>6, InsertedSlots
  <1>8. page' = Leaf(l, r) /\ ~Overpopulated(page')
    <2>1. [page EXCEPT !.slots = r] = Leaf(l, r)
      BY <1>1, LeafFields
    <2> QED
      BY <1>5, <2>1
  <1>9. GoodLeaf(page')
    BY <1>1, <1>7, <1>8 DEF GoodLeaf
  <1> QED
    BY <1>5, <1>9 DEF PageInv, GoodLeaf

LEMMA InternalGrows ==
    ASSUME PageInv, NEW k \in Keys, NEW id \in PageIds, page.type = "internal",
           AddSlot(InternalSlot(k, id))
    PROVE  PageInv'
  <1> DEFINE slot == InternalSlot(k, id)
             T == {i \in DOMAIN page.slots : page.slots[i].key <= slot.key}
             r == InsertAt(page.slots, Cardinality(T) + 1, slot)
  <1>1. PICK l, s : IsNumber(l) /\ s \in Seq(InternalSlots) /\ page = Internal(l, s) /\ ~Overpopulated(page)
    BY KindOfPage DEF GoodInternal
  <1>2. page.slots = s
    BY <1>1, InternalFields
  <1>3. slot \in InternalSlots
    BY DEF InternalSlot, InternalSlots
  <1>4. T \in SUBSET (DOMAIN s)
    BY <1>2
  <1>5. page' = [page EXCEPT !.slots = r] /\ ~Overpopulated([page EXCEPT !.slots = r]) /\ lsn' = lsn
    BY DEF AddSlot
  <1>6. r = InsertAt(s, Cardinality(T) + 1, slot)
    BY <1>2
  <1> HIDE DEF T, slot, r
  <1>7. r \in Seq(InternalSlots)
    BY <1>1, <1>3, <1>4, <1>6, InsertedSlots
  <1>8. page' = Internal(l, r) /\ ~Overpopulated(page')
    <2>1. [page EXCEPT !.slots = r] = Internal(l, r)
      BY <1>1, InternalFields
    <2> QED
      BY <1>5, <2>1
  <1>9. GoodInternal(page')
    BY <1>1, <1>7, <1>8 DEF GoodInternal
  <1> QED
    BY <1>5, <1>9 DEF PageInv, GoodInternal

LEMMA FreelistGrows ==
    ASSUME PageInv, NEW id \in PageIds, AddFreed(id)
    PROVE  PageInv'
  <1>1. PICK l, s : IsNumber(l) /\ s \in Seq(PageIds) /\ page = Freelist(l, s) /\ Len(s) <= MaxFreedIds
    BY KindOfPage DEF GoodFreelist, AddFreed
  <1>2. page.freed = s
    BY <1>1, FreelistFields
  <1> DEFINE r == Append(s, id)
  <1>3. page' = [page EXCEPT !.freed = r] /\ Len(s) < MaxFreedIds /\ lsn' = lsn
    BY <1>2 DEF AddFreed
  <1>4. r \in Seq(PageIds) /\ Len(r) = Len(s) + 1 /\ Len(s) \in Nat
    BY <1>1, LenProperties
  <1> HIDE DEF r
  <1>5. page' = Freelist(l, r)
    BY <1>1, <1>3, FreelistFields
  <1>6. Len(r) <= MaxFreedIds
    <2>1. MaxFreedIds \in Int
      BY PagesAssumption DEF MaxFreedIds, PageHeader, PageIdField, MinPageSize
    <2> QED
      BY <1>3, <1>4, <2>1
  <1>7. GoodFreelist(page')
    BY <1>1, <1>4, <1>5, <1>6 DEF GoodFreelist
  <1> QED
    BY <1>3, <1>7 DEF PageInv, GoodFreelist

LEMMA RelinkKeeps ==
    ASSUME PageInv, NEW id \in PageIds, NEW n \in PageIds, Relink(id, n)
    PROVE  PageInv'
  <1>1. IsNumber(id) /\ IsNumber(n) /\ lsn' = n /\ page.type # "meta"
    BY PageIdAssumption DEF Relink
  <1>2. CASE page.type = "leaf"
    <2>1. PICK l, s : IsNumber(l) /\ s \in Seq(LeafSlots) /\ page = Leaf(l, s) /\ ~Overpopulated(page)
      BY <1>2, KindOfPage DEF GoodLeaf
    <2>2. page' = [page EXCEPT !.right = id]
      BY <1>2 DEF Relink
    <2>3. page' = Leaf(id, s)
      BY <2>1, <2>2, LeafFields
    <2>4. ~Overpopulated(Leaf(id, s))
      BY <2>1, LeafFields, SameBytes
    <2>5. GoodLeaf(page')
      BY <1>1, <2>1, <2>3, <2>4 DEF GoodLeaf
    <2> QED
      BY <1>1, <2>5 DEF PageInv, GoodLeaf
  <1>3. CASE page.type = "internal"
    <2>1. PICK l, s : IsNumber(l) /\ s \in Seq(InternalSlots) /\ page = Internal(l, s) /\ ~Overpopulated(page)
      BY <1>3, KindOfPage DEF GoodInternal
    <2>2. page' = [page EXCEPT !.leftmost = id]
      BY <1>3 DEF Relink
    <2>3. page' = Internal(id, s)
      BY <2>1, <2>2, InternalFields
    <2>4. ~Overpopulated(Internal(id, s))
      BY <2>1, InternalFields, SameBytes
    <2>5. GoodInternal(page')
      BY <1>1, <2>1, <2>3, <2>4 DEF GoodInternal
    <2> QED
      BY <1>1, <2>5 DEF PageInv, GoodInternal
  <1>4. CASE page.type = "freelist"
    <2>1. PICK l, s : IsNumber(l) /\ s \in Seq(PageIds) /\ page = Freelist(l, s) /\ Len(s) <= MaxFreedIds
      BY <1>4, KindOfPage DEF GoodFreelist
    <2>2. page' = [page EXCEPT !.next = id]
      BY <1>4 DEF Relink
    <2>3. page' = Freelist(id, s)
      BY <2>1, <2>2, FreelistFields
    <2>4. GoodFreelist(page')
      BY <1>1, <2>1, <2>3 DEF GoodFreelist
    <2> QED
      BY <1>1, <2>4 DEF PageInv, GoodFreelist
  <1> QED
    BY <1>1, <1>2, <1>3, <1>4, KindOfPage

LEMMA PageStep == PageInv /\ [CodecNext]_codecVars => PageInv'
  <1> SUFFICES ASSUME PageInv, [CodecNext]_codecVars PROVE PageInv'
    OBVIOUS
  <1>1. CASE UNCHANGED codecVars
    BY <1>1 DEF codecVars, PageInv, GoodLeaf, GoodInternal, GoodFreelist
  <1>2. ASSUME NEW m \in Metas, RewriteMeta(m) PROVE PageInv'
    BY <1>2 DEF RewriteMeta, PageInv
  <1> QED
    BY <1>1, <1>2, LeafGrows, InternalGrows, FreelistGrows, RelinkKeeps DEF CodecNext

\* The empty pages.
LEMMA PageStart == CodecInit => PageInv
  <1> SUFFICES ASSUME CodecInit PROVE PageInv
    OBVIOUS
  <1>1. IsNumber(0) /\ IsNumber(1)
    <2>1. 256^3 = 16777216
      BY SMT
    <2> QED
      BY <2>1 DEF IsNumber
  <1>2. GoodLeaf(Leaf(0, <<>>))
    <2>1. <<>> \in Seq(LeafSlots)
      BY EmptySeq
    <2>2. TreePage(Leaf(0, <<>>)) /\ Leaf(0, <<>>).slots = <<>>
      BY <2>1, LeafIsTreePage, LeafFields
    <2> QED
      BY <1>1, <2>1, <2>2, EmptyFits DEF GoodLeaf
  <1>3. GoodInternal(Internal(1, <<>>))
    <2>1. <<>> \in Seq(InternalSlots)
      BY EmptySeq
    <2>2. TreePage(Internal(1, <<>>)) /\ Internal(1, <<>>).slots = <<>>
      BY <2>1, InternalIsTreePage, InternalFields
    <2> QED
      BY <1>1, <2>1, <2>2, EmptyFits DEF GoodInternal
  <1>4. GoodFreelist(Freelist(0, <<>>))
    <2>1. <<>> \in Seq(PageIds) /\ Len(<<>>) = 0
      BY EmptySeq
    <2>2. 0 <= MaxFreedIds
      BY PagesAssumption DEF MaxFreedIds, PageHeader, PageIdField, MinPageSize
    <2> QED
      BY <1>1, <2>1, <2>2 DEF GoodFreelist
  <1> QED
    BY <1>1, <1>2, <1>3, <1>4 DEF CodecInit, PageInv

\* Every page of the tree that is not to be split and every freelist page that is
\* not full, whatever the page size, the lengths of its keys and values (all below
\* 2^24, as are the page ids) and the number of its slots, is encoded by encode_page into exactly one page, from which
\* decode_page reads it back.
THEOREM PagesAreReadBack == CodecSpecification => []PagesReadBack
  <1>1. CodecSpecification => []PageInv
    BY PageStart, PageStep, PTL DEF CodecSpecification
  <1> QED
    BY <1>1, GoodPagesRead, PTL

=============================================================================
