-------------------------- MODULE WALFaults_proofs --------------------------
(***************************************************************************)
(* The write-ahead log when its calls raise.  As long as fsync_directory   *)
(* does sync the directory, no append that raised takes an acknowledged    *)
(* record along.  As long as, moreover, an append that raised has written  *)
(* its record, the log stays readable and LSNs are never acknowledged      *)
(* twice.                                                                  *)
(***************************************************************************)
EXTENDS WALFaults, WAL_proofs

-----------------------------------------------------------------------------
(* The inductive invariants.  The first does without LSNs: an append that  *)
(* was lost leaves a gap in them.                                          *)

\* Where truncate_before and _append find the log.
Writing == {"ready", "appended", "failed", "rotating", "renamed"}

FaultsTypeOK ==
    /\ wpc \in Phases \cup {"failed", "nofd"}
    /\ file \in Seq(Cell) /\ durable \in Seq(Cell) /\ temp \in Seq(Records)
    /\ stale \in SUBSET Seq(Cell)
    /\ current_lsn \in Nat /\ online \in BOOLEAN
    /\ needed \in SUBSET Records /\ lastAcked \in Nat

Held(s) == Whole(s) /\ Covers(s, needed)

\* The file goes on where its durable part ends.
Ahead ==
    /\ AllGood(durable) /\ Len(durable) <= Len(file)
    /\ \A i \in 1..Len(durable) : file[i] = durable[i]

HeldInv ==
    /\ FaultsTypeOK
    /\ Held(file) /\ Held(durable) /\ \A s \in stale : Held(s)
    /\ Len(file) > Len(durable) => Ahead
    /\ wpc \in Writing => AllGood(file) /\ Ahead
    /\ wpc = "replayed" => AllGood(file)
    /\ wpc = "appended" => Len(file) > Len(durable)
    /\ wpc = "rotating" => AllGood(temp) /\ Covers(temp, needed)
    /\ online => /\ wpc \in (Writing \ {"failed"}) \cup {"nofd"}
                 /\ wpc \notin {"renamed", "nofd"} => stale = {}

\* LSNs without a gap, counted at least up to the newest acknowledged one.
Counts(s) == Chained(s) /\ lastAcked <= EndLsn(s)

CountInv ==
    /\ Counts(file) /\ Counts(durable) /\ \A s \in stale : Counts(s)
    /\ wpc \in Writing \cup {"replayed"} => current_lsn = EndLsn(file)
    /\ wpc = "rotating" => Counts(temp) /\ EndLsn(temp) = current_lsn

-----------------------------------------------------------------------------
(* Facts about files. *)

\* An unsynced record can be cut off, or torn, without harm to the durable ones.
LEMMA FrontsHeld ==
    ASSUME HeldInv, NEW m \in Fronts(TornKinds)
    PROVE  /\ m \in Seq(Cell) /\ Held(m) /\ Len(m) >= Len(durable)
           /\ AllGood(durable) /\ \A i \in 1..Len(durable) : m[i] = durable[i]
           /\ \A i \in 1..Len(m) :
                m[i].kind = "good" => i \in 1..Len(file) /\ m[i] = file[i]
  <1>1. Unsynced # {} /\ \A n \in Unsynced : n \in Len(durable)..Len(file)
    BY DEF Fronts, Unsynced
  <1>2. /\ Len(file) \in Nat /\ Len(durable) \in Nat /\ Len(file) > Len(durable)
        /\ file \in Seq(Cell) /\ durable \in Seq(Cell)
    BY <1>1 DEF HeldInv, FaultsTypeOK, Unsynced
  <1>3. /\ AllGood(durable) /\ \A i \in 1..Len(durable) : file[i] = durable[i]
        /\ \A i \in 1..(Len(file) - 1) : file[i].kind = "good"
        /\ Covers(durable, needed)
    BY <1>2 DEF HeldInv, Ahead, Held, Whole
  <1>4. ASSUME NEW n \in Len(durable)..Len(file)
        PROVE  LET s == SubSeq(file, 1, n)
               IN /\ s \in Seq(Cell) /\ Len(s) = n /\ \A i \in 1..n : s[i] = file[i]
                  /\ Held(s) /\ (n < Len(file) => AllGood(s))
    <2> DEFINE s == SubSeq(file, 1, n)
    <2>1. n \in Nat /\ n <= Len(file)
      BY <1>2
    <2>2. s \in Seq(Cell) /\ Len(s) = n /\ \A i \in 1..n : s[i] = file[i]
      BY <1>2, <2>1
    <2> HIDE DEF s
    <2>3. Whole(s)
      <3>1. SUFFICES ASSUME NEW i \in 1..(n - 1) PROVE s[i].kind = "good"
        BY <2>2 DEF Whole
      <3>2. i \in 1..n /\ i \in 1..(Len(file) - 1)
        BY <1>2, <2>1
      <3> QED
        BY <1>3, <2>2, <3>2
    <2>4. n < Len(file) => AllGood(s)
      <3>1. n < Len(file) => \A i \in 1..n : i \in 1..(Len(file) - 1)
        BY <1>2, <2>1
      <3> QED
        BY <1>3, <2>2, <3>1 DEF AllGood
    <2>5. Covers(s, needed)
      BY <1>2, <1>3, <2>1, <2>2 DEF Covers
    <2> QED
      BY <2>2, <2>3, <2>4, <2>5 DEF Held, s
  <1>5. CASE m \in {SubSeq(file, 1, n) : n \in Unsynced}
    <2>1. PICK n \in Len(durable)..Len(file) : m = SubSeq(file, 1, n)
      BY <1>1, <1>5
    <2>2. m \in Seq(Cell) /\ Len(m) = n /\ (\A i \in 1..n : m[i] = file[i]) /\ Held(m)
      BY <1>4, <2>1
    <2>3. n \in Nat /\ n >= Len(durable) /\ n <= Len(file)
      BY <1>2
    <2>4. \A i \in 1..Len(durable) : i \in 1..n
      BY <1>2, <2>3
    <2>5. \A i \in 1..Len(m) : i \in 1..Len(file) /\ i \in 1..n
      BY <1>2, <2>2, <2>3
    <2> QED
      BY <1>3, <2>2, <2>3, <2>4, <2>5
  <1> DEFINE TornFront(n, k) == Append(SubSeq(file, 1, n), Torn(k))
             Cut == {SubSeq(file, 1, n) : n \in Unsynced}
             Tear == {TornFront(n, k) : n \in Unsynced \ {Len(file)}, k \in TornKinds}
  <1>6. Fronts(TornKinds) = Cut \cup Tear
    BY DEF Fronts
  <1> HIDE DEF TornFront
  <1>7. CASE m \in Tear
    <2>0. PICK n \in Unsynced \ {Len(file)}, k \in TornKinds : m = TornFront(n, k)
      BY <1>7
    <2>1. n \in Len(durable)..Len(file) /\ n < Len(file)
      BY <1>1, <1>2
    <2> DEFINE s == SubSeq(file, 1, n)
    <2>2. /\ s \in Seq(Cell) /\ Len(s) = n /\ \A i \in 1..n : s[i] = file[i]
          /\ Held(s) /\ AllGood(s)
      BY <1>4, <2>1
    <2>3. m = Append(s, Torn(k)) /\ Torn(k) \in Cell /\ Torn(k).kind # "good"
      BY <2>0, WALAssumption DEF Torn, Cell, TornFront
    <2> HIDE DEF s
    <2>4. /\ m \in Seq(Cell) /\ Len(m) = n + 1 /\ n \in Nat
          /\ \A i \in 1..n : m[i] = s[i]
          /\ m[n + 1].kind # "good"
      BY <1>2, <2>2, <2>3
    <2>5. Held(m)
      BY <2>2, <2>4 DEF Held, Whole, Covers, AllGood
    <2>6. Len(m) >= Len(durable) /\ \A i \in 1..Len(durable) : i \in 1..n
      BY <1>2, <2>1, <2>4
    <2>7. \A i \in 1..Len(m) : i = n + 1 \/ (i \in 1..n /\ i \in 1..Len(file))
      BY <1>2, <2>1, <2>4
    <2> QED
      BY <1>3, <2>2, <2>4, <2>5, <2>6, <2>7
  <1> QED
    BY <1>5, <1>6, <1>7

\* Every file an interruption can leave holds what is needed.
LEMMA SurvivorsHeld ==
    ASSUME HeldInv, NEW m \in Survivors
    PROVE  m \in Seq(Cell) /\ Held(m)
  <1>1. CASE m \in {file, durable} \cup stale
    BY <1>1 DEF HeldInv, FaultsTypeOK
  <1>2. CASE m \in Fronts(TornKinds)
    BY <1>2, FrontsHeld
  <1> QED
    BY <1>1, <1>2 DEF Survivors

\* Fewer kinds of tear, fewer files.
LEMMA FrontsGrow ==
    ASSUME NEW kinds \in SUBSET TornKinds
    PROVE  Fronts(kinds) \subseteq Fronts(TornKinds)
  <1> DEFINE TornFront(n, k) == Append(SubSeq(file, 1, n), Torn(k))
             Tear(K) == {TornFront(n, k) : n \in Unsynced \ {Len(file)}, k \in K}
  <1>1. \A K : Fronts(K) = {SubSeq(file, 1, n) : n \in Unsynced} \cup Tear(K)
    BY DEF Fronts
  <1> HIDE DEF TornFront
  <1>2. Tear(kinds) \subseteq Tear(TornKinds)
    OBVIOUS
  <1> QED
    BY <1>1, <1>2

\* Cutting the torn tail off loses no record, whatever the LSNs are.
LEMMA GoodPartHeld ==
    ASSUME NEW s \in Seq(Cell), Whole(s), NEW N \in SUBSET Records, Covers(s, N)
    PROVE  LET t == GoodPart(s)
           IN /\ t \in Seq(Cell) /\ AllGood(t) /\ Whole(t) /\ Covers(t, N)
              /\ Len(t) <= Len(s) /\ \A i \in 1..Len(t) : t[i] = s[i]
              /\ AllGood(s) => t = s
              /\ Len(t) >= Len(s) - 1
  <1> DEFINE t == GoodPart(s)
  <1>1. /\ Len(s) \in Nat /\ End(s) \in 0..Len(s) /\ GoodLen(s) = End(s)
        /\ \A i \in 1..End(s) : s[i].kind = "good"
        /\ \A i \in 1..Len(s) : s[i].kind = "good" => i <= End(s)
        /\ AllGood(s) => End(s) = Len(s)
        /\ End(s) >= Len(s) - 1
    BY EndIsGood, GoodLenIsEnd DEF End
  <1>2. /\ t \in Seq(Cell) /\ Len(t) = End(s)
        /\ \A i \in 1..End(s) : t[i] = s[i]
    BY <1>1 DEF GoodPart
  <1>3. AllGood(s) => t = s
    BY <1>1, SubSeqFull DEF GoodPart
  <1> HIDE DEF t
  <1>4. AllGood(t) /\ Whole(t)
    BY <1>1, <1>2 DEF AllGood, Whole
  <1>5. \A r \in N : r.kind = "good"
    BY DEF Records
  <1>6. Covers(t, N)
    BY <1>1, <1>2, <1>5 DEF Covers
  <1> QED
    BY <1>1, <1>2, <1>3, <1>4, <1>6 DEF t

\* Whatever the LSNs are, truncate_before drops no record from lsn on.
LEMMA KeptFromHeld ==
    ASSUME NEW s \in Seq(Cell), AllGood(s), NEW N \in SUBSET Records, Covers(s, N),
           NEW lsn \in Nat
    PROVE  LET t == KeptFrom(s, lsn)
           IN t \in Seq(Records) /\ AllGood(t) /\ Covers(t, {r \in N : r.lsn >= lsn})
  <1> DEFINE P(i) == /\ \A j \in 1..(i - 1) : s[j].lsn < lsn
                     /\ i <= Len(s) => s[i].lsn >= lsn
             f == CHOOSE i \in 1..(Len(s) + 1) : P(i)
             t == SubSeq(s, f, Len(s))
  <1>1. /\ Len(s) \in Nat
        /\ \A i \in 1..Len(s) : s[i] \in Records /\ s[i].lsn \in Nat /\ s[i].kind = "good"
    BY CellKinds DEF AllGood
  <1>2. \E i \in 1..(Len(s) + 1) : P(i)
    <2> DEFINE T == {i \in 1..(Len(s) + 1) : i <= Len(s) => s[i].lsn >= lsn}
    <2>1. Len(s) + 1 \in T /\ T \subseteq Nat /\ T # {}
      BY <1>1
    <2>2. PICK i \in T : \A j \in T : i <= j
      BY <2>1, LeastNatural
    <2>3. ASSUME NEW j \in 1..(i - 1) PROVE s[j].lsn < lsn
      <3>1. j \in 1..Len(s) /\ j < i /\ i \in Nat
        BY <1>1, <2>2
      <3>2. j \notin T
        BY <2>2, <3>1
      <3>3. ~(s[j].lsn >= lsn) /\ s[j].lsn \in Nat
        BY <1>1, <3>1, <3>2
      <3> QED
        BY <3>3
    <2> QED
      BY <2>2, <2>3
  <1>3. /\ f \in 1..(Len(s) + 1)
        /\ \A j \in 1..(f - 1) : s[j].lsn < lsn
    BY <1>2
  <1> HIDE DEF f
  <1>4. \A j \in 1..Len(s) : s[j].lsn >= lsn => j >= f
    <2>1. SUFFICES ASSUME NEW j \in 1..Len(s), s[j].lsn >= lsn, j < f PROVE FALSE
      BY <1>1, <1>3
    <2>2. j \in 1..(f - 1)
      BY <1>1, <1>3, <2>1
    <2> QED
      BY <1>1, <1>3, <2>1, <2>2
  <1> HIDE DEF f, P
  <1>5. /\ t \in Seq(Records) /\ Len(t) = Len(s) - f + 1
        /\ \A i \in 1..Len(t) : f + i - 1 \in 1..Len(s) /\ t[i] = s[f + i - 1]
    <2>1. /\ f \in Int /\ Len(s) \in Int /\ f <= Len(s) + 1
          /\ \A i \in f..Len(s) : s[i] \in Records
      BY <1>1, <1>3
    <2>2. /\ t \in Seq(Records)
          /\ Len(t) = IF f <= Len(s) THEN Len(s) - f + 1 ELSE 0
          /\ \A i \in 1..(Len(s) - f + 1) : t[i] = s[f + i - 1]
      BY <2>1, SubSeqProperties
    <2>3. Len(t) = Len(s) - f + 1
      BY <2>1, <2>2
    <2> QED
      BY <1>1, <1>3, <2>2, <2>3
  <1> HIDE DEF t
  <1>6. AllGood(t)
    BY <1>1, <1>5 DEF AllGood
  <1>7. Covers(t, {r \in N : r.lsn >= lsn})
    <2>1. SUFFICES ASSUME NEW r \in N, r.lsn >= lsn
                   PROVE  \E i \in 1..Len(t) : t[i] = r
      BY DEF Covers
    <2>2. PICK j \in 1..Len(s) : s[j] = r
      BY DEF Covers
    <2>3. j >= f
      BY <1>4, <2>1, <2>2
    <2>4. j - f + 1 \in 1..Len(t) /\ t[j - f + 1] = s[j]
      <3>1. j - f + 1 \in 1..Len(t) /\ f + (j - f + 1) - 1 = j
        BY <1>1, <1>3, <1>5, <2>3
      <3> QED
        BY <1>5, <3>1
    <2> QED
      BY <2>2, <2>4
  <1>8. KeptFrom(s, lsn) = t
    BY DEF KeptFrom, t, f, P
  <1> QED
    BY <1>5, <1>6, <1>7, <1>8

-----------------------------------------------------------------------------
(* Acknowledged records are held: one lemma per call. *)

\* A fresh directory satisfies the invariant.
LEMMA InitHeld == Init => HeldInv
  <1>1. SUFFICES ASSUME Init PROVE HeldInv
    OBVIOUS
  <1>2. Held(<<>>) /\ AllGood(<<>>)
    BY <1>1 DEF Init, Held, Whole, Covers, AllGood
  <1>3. FaultsTypeOK
    <2>1. <<>> \in Seq(Cell) /\ <<>> \in Seq(Records) /\ {} \in SUBSET Seq(Cell)
      OBVIOUS
    <2>2. 0 \in Nat /\ FALSE \in BOOLEAN /\ {} \in SUBSET Records /\ "closed" \in Phases
      BY DEF Phases
    <2> QED
      BY <1>1, <2>1, <2>2 DEF Init, FaultsTypeOK
  <1> QED
    BY <1>1, <1>2, <1>3 DEF Init, HeldInv, Writing

\* open() only forgets a leftover rotation file.
LEMMA OpenHeld == HeldInv /\ Open => HeldInv'
  BY DEF HeldInv, FaultsTypeOK, Open, Held, Ahead, Writing, Phases

\* replay() keeps every good record, and with them the durable part.
LEMMA ReplayHeld == HeldInv /\ Replay => HeldInv'
  <1>1. SUFFICES ASSUME HeldInv, Replay PROVE HeldInv'
    OBVIOUS
  <1>2. /\ file \in Seq(Cell) /\ durable \in Seq(Cell) /\ needed \in SUBSET Records
        /\ Whole(file) /\ Covers(file, needed) /\ file' = GoodPart(file)
        /\ UNCHANGED <<durable, stale, temp, online, needed, lastAcked>>
        /\ Len(file) \in Nat /\ Len(durable) \in Nat
    BY <1>1 DEF Replay, HeldInv, FaultsTypeOK, Held
  <1>3. /\ file' \in Seq(Cell) /\ AllGood(file') /\ Whole(file') /\ Covers(file', needed)
        /\ Len(file') <= Len(file) /\ Len(file') \in Nat
        /\ \A i \in 1..Len(file') : file'[i] = file[i]
    BY <1>2, GoodPartHeld
  <1>4. current_lsn' \in Nat
    <2>1. GoodLen(file) \in 0..Len(file) /\ \A i \in 1..GoodLen(file) : file[i].kind = "good"
      BY <1>2, GoodLenIsEnd, EndIsGood
    <2>2. GoodLen(file) # 0 => GoodLen(file) \in 1..Len(file)
      BY <1>2, <2>1
    <2>3. LastLsn(file) \in Nat
      BY <1>2, <2>1, <2>2, CellKinds DEF LastLsn
    <2> QED
      BY <1>1, <2>3 DEF Replay
  <1>5. FaultsTypeOK'
    BY <1>1, <1>2, <1>3, <1>4 DEF HeldInv, FaultsTypeOK, Replay, Phases
  <1>6. Len(file') > Len(durable') => Ahead'
    BY <1>1, <1>2, <1>3 DEF HeldInv, Ahead
  <1>7. ~online' /\ wpc' = "replayed"
    BY <1>1 DEF HeldInv, Replay, Writing
  <1> QED
    BY <1>1, <1>2, <1>3, <1>5, <1>6, <1>7 DEF HeldInv, Held, Writing

\* An fsync of a file of good records.
LEMMA ReplaySyncHeld == HeldInv /\ ReplaySync => HeldInv'
  <1>1. SUFFICES ASSUME HeldInv, ReplaySync PROVE HeldInv'
    OBVIOUS
  <1>2. FaultsTypeOK' /\ Len(file) \in Nat
    BY <1>1 DEF HeldInv, FaultsTypeOK, ReplaySync, Phases
  <1>3. Ahead' /\ AllGood(file')
    BY <1>1, <1>2 DEF HeldInv, Ahead, ReplaySync
  <1> QED
    BY <1>1, <1>2, <1>3 DEF HeldInv, ReplaySync, Held, Writing

\* A record is added to a file of good ones.
LEMMA AppendedHeld ==
    ASSUME HeldInv, NEW p \in Payload, wpc = "ready",
           file' = Append(file, Record(current_lsn + 1, p)), UNCHANGED <<durable, needed>>
    PROVE  /\ file' \in Seq(Cell) /\ Len(file') = Len(file) + 1 /\ AllGood(file')
           /\ Held(file)' /\ Ahead' /\ Len(file') > Len(durable')
  <1>1. /\ file \in Seq(Cell) /\ AllGood(file) /\ Ahead /\ Covers(file, needed)
        /\ Len(file) \in Nat /\ current_lsn \in Nat
        /\ durable \in Seq(Cell) /\ Len(durable) \in Nat
    BY DEF HeldInv, FaultsTypeOK, Writing, Held
  <1> DEFINE c == Record(current_lsn + 1, p)
  <1>2. c \in Cell /\ c.kind = "good"
    BY <1>1 DEF Record, Cell, Records
  <1> HIDE DEF c
  <1>3. /\ file' \in Seq(Cell) /\ Len(file') = Len(file) + 1 /\ file'[Len(file) + 1] = c
        /\ \A i \in 1..Len(file) : file'[i] = file[i]
    BY <1>1, <1>2 DEF c
  <1>4. AllGood(file') /\ Whole(file')
    BY <1>1, <1>2, <1>3 DEF AllGood, Whole
  <1>5. Covers(file', needed)
    BY <1>1, <1>3 DEF Covers
  <1>6. Ahead' /\ Len(file') > Len(durable')
    BY <1>1, <1>3 DEF Ahead
  <1> QED
    BY <1>3, <1>4, <1>5, <1>6 DEF Held

\* _append, up to its fsync.
LEMMA AppendWriteHeld == HeldInv /\ (\E p \in Payload : AppendWrite(p)) => HeldInv'
  <1>1. SUFFICES ASSUME HeldInv, NEW p \in Payload, AppendWrite(p) PROVE HeldInv'
    OBVIOUS
  <1>2. /\ file' \in Seq(Cell) /\ AllGood(file') /\ Held(file)' /\ Ahead'
        /\ Len(file') > Len(durable')
    BY <1>1, AppendedHeld DEF AppendWrite
  <1>3. FaultsTypeOK'
    BY <1>1, <1>2 DEF HeldInv, FaultsTypeOK, AppendWrite, Phases
  <1> QED
    BY <1>1, <1>2, <1>3 DEF HeldInv, AppendWrite, Held, Writing

\* _append raises: the record is in the file, or nothing is.
LEMMA AppendFailsHeld == HeldInv /\ (\E p \in Payload : AppendFails(p)) => HeldInv'
  <1>1. SUFFICES ASSUME HeldInv, NEW p \in Payload, AppendFails(p) PROVE HeldInv'
    OBVIOUS
  <1>2. CASE file' = Append(file, Record(current_lsn + 1, p))
    <2>1. /\ file' \in Seq(Cell) /\ AllGood(file') /\ Held(file)' /\ Ahead'
      BY <1>1, <1>2, AppendedHeld DEF AppendFails
    <2>2. FaultsTypeOK'
      BY <1>1, <2>1 DEF HeldInv, FaultsTypeOK, AppendFails, Phases
    <2> QED
      BY <1>1, <2>1, <2>2 DEF HeldInv, AppendFails, Held, Writing
  <1>3. CASE file' = file
    <2>1. FaultsTypeOK'
      BY <1>1, <1>3 DEF HeldInv, FaultsTypeOK, AppendFails, Phases
    <2>2. Ahead' /\ AllGood(file')
      BY <1>1, <1>3 DEF HeldInv, AppendFails, Ahead, Writing
    <2> QED
      BY <1>1, <1>3, <2>1, <2>2 DEF HeldInv, AppendFails, Held, Writing
  <1> QED
    BY <1>1, <1>2, <1>3 DEF AppendFails

\* The fsync of _append: the record acknowledged is the last one of the file,
\* and whatever raised before it is synced with it.
LEMMA AppendSyncHeld == HeldInv /\ AppendSync => HeldInv'
  <1>1. SUFFICES ASSUME HeldInv, AppendSync PROVE HeldInv'
    OBVIOUS
  <1>2. /\ file \in Seq(Cell) /\ AllGood(file) /\ Len(file) \in Nat \ {0}
        /\ Whole(file) /\ Covers(file, needed) /\ (online => stale = {})
    BY <1>1 DEF HeldInv, FaultsTypeOK, AppendSync, Writing, Held
  <1>3. file[Len(file)] \in Records /\ Len(file) \in 1..Len(file)
    BY <1>2, CellKinds DEF AllGood
  <1>4. FaultsTypeOK'
    BY <1>1, <1>3 DEF HeldInv, FaultsTypeOK, AppendSync, Phases
  <1>5. Held(file)'
    BY <1>1, <1>2, <1>3 DEF AppendSync, Held, Covers
  <1>6. \A s \in stale' : Held(s)'
    BY <1>1, <1>2 DEF AppendSync, Held, HeldInv
  <1>7. Ahead' /\ AllGood(file') /\ ~(Len(file') > Len(durable'))
    BY <1>1, <1>2 DEF AppendSync, Ahead
  <1> QED
    BY <1>1, <1>2, <1>4, <1>5, <1>6, <1>7 DEF HeldInv, AppendSync, Held, Writing

\* The temp file of truncate_before holds every record that is still needed.
LEMMA RotateReadableHeld ==
    HeldInv /\ (\E lsn \in 1..current_lsn : RotateReadable(lsn)) => HeldInv'
  <1>1. SUFFICES ASSUME HeldInv, NEW lsn \in 1..current_lsn, RotateReadable(lsn)
                 PROVE  HeldInv'
    OBVIOUS
  <1>2. /\ AllGood(file) /\ file \in Seq(Cell) /\ Covers(file, needed)
        /\ needed \in SUBSET Records /\ lsn \in Nat
        /\ temp' = KeptFrom(file, lsn) /\ needed' = {r \in needed : r.lsn >= lsn}
        /\ UNCHANGED <<file, durable, stale, current_lsn, online, lastAcked>>
        /\ wpc = "ready" /\ wpc' = "rotating"
    BY <1>1 DEF HeldInv, FaultsTypeOK, RotateReadable, RotateWrite, Writing, Held
  <1>3. temp' \in Seq(Records) /\ AllGood(temp') /\ Covers(temp', needed')
    BY <1>2, KeptFromHeld
  <1>4. FaultsTypeOK'
    BY <1>1, <1>2, <1>3 DEF HeldInv, FaultsTypeOK, Phases
  <1>5. \A s : Held(s) => Held(s)'
    BY <1>2 DEF Held, Covers
  <1> QED
    BY <1>1, <1>2, <1>3, <1>4, <1>5 DEF HeldInv, Ahead, Writing, Held

\* Both the log that is replaced, however much of it was durable, and the one
\* that replaces it will do.
LEMMA RotateReplaceHeld == HeldInv /\ RotateReplace => HeldInv'
  <1>1. SUFFICES ASSUME HeldInv, RotateReplace PROVE HeldInv'
    OBVIOUS
  <1>2. /\ temp \in Seq(Cell) /\ AllGood(temp) /\ Covers(temp, needed) /\ Len(temp) \in Nat
    <2>1. Records \subseteq Cell
      BY DEF Cell
    <2> QED
      BY <1>1, <2>1 DEF HeldInv, FaultsTypeOK, RotateReplace
  <1>3. \A s \in stale' : s \in Seq(Cell) /\ Held(s)
    BY <1>1, FrontsHeld DEF RotateReplace, HeldInv, FaultsTypeOK
  <1>4. FaultsTypeOK'
    BY <1>1, <1>2, <1>3 DEF HeldInv, FaultsTypeOK, RotateReplace, Phases
  <1>5. Whole(temp)
    BY <1>2 DEF AllGood, Whole
  <1>6. Ahead' /\ AllGood(file') /\ Held(file)' /\ Held(durable)'
    BY <1>1, <1>2, <1>5 DEF RotateReplace, Ahead, Held
  <1> QED
    BY <1>1, <1>3, <1>4, <1>6 DEF HeldInv, RotateReplace, Writing, Held

\* A rotation that raises leaves both files as they are.
LEMMA RotateFailsHeld == HeldInv /\ RotateFails => HeldInv'
  BY DEF HeldInv, FaultsTypeOK, RotateFails, Held, Ahead, Writing, Phases

\* After the fsync of the directory only the new log can come back.
LEMMA RotateEndHeld ==
    ASSUME "undirected" \notin FailKinds PROVE HeldInv /\ RotateEnd => HeldInv'
  BY DEF HeldInv, FaultsTypeOK, RotateEnd, Held, Ahead, Writing, Phases

\* close() makes the file durable, or does nothing.
LEMMA CloseAnyHeld == HeldInv /\ CloseAny => HeldInv'
  <1>1. SUFFICES ASSUME HeldInv, CloseAny PROVE HeldInv'
    OBVIOUS
  <1>2. FaultsTypeOK' /\ Len(file') \in Nat
    <2>1. durable' \in {durable, file} /\ file \in Seq(Cell) /\ durable \in Seq(Cell)
      BY <1>1 DEF HeldInv, FaultsTypeOK, CloseAny
    <2>2. durable' \in Seq(Cell)
      BY <2>1
    <2>3. Len(file') \in Nat
      BY <1>1, <2>1 DEF CloseAny
    <2> QED
      BY <1>1, <2>2, <2>3 DEF HeldInv, FaultsTypeOK, CloseAny, Phases
  <1>3. Len(file') > Len(durable') => Ahead'
    BY <1>1, <1>2 DEF HeldInv, CloseAny, Ahead
  <1> QED
    BY <1>1, <1>2, <1>3 DEF HeldInv, CloseAny, Held, Writing

\* An open() over the old descriptor changes nothing in the files.
LEMMA ReopenUnclosedHeld == HeldInv /\ ReopenUnclosed => HeldInv'
  BY DEF HeldInv, FaultsTypeOK, ReopenUnclosed, Held, Ahead, Writing, Phases

\* A kill leaves at least the durable part.
LEMMA KillAnyHeld == HeldInv /\ KillAny => HeldInv'
  <1>1. SUFFICES ASSUME HeldInv, KillAny PROVE HeldInv'
    OBVIOUS
  <1>2. file' = file \/ file' \in Fronts(TornKinds)
    BY <1>1, FrontsGrow DEF KillAny
  <1>3. /\ file' \in Seq(Cell) /\ Held(file')
        /\ Len(file') > Len(durable') => Ahead'
    <2>1. CASE file' = file
      BY <1>1, <2>1 DEF HeldInv, FaultsTypeOK, KillAny, Ahead
    <2>2. CASE file' \in Fronts(TornKinds)
      BY <1>1, <2>2, FrontsHeld DEF KillAny, Ahead
    <2> QED
      BY <1>2, <2>1, <2>2
  <1>4. FaultsTypeOK'
    BY <1>1, <1>3 DEF HeldInv, FaultsTypeOK, KillAny, Phases
  <1> QED
    BY <1>1, <1>3, <1>4 DEF HeldInv, KillAny, Held, Writing

\* Whichever file a power loss leaves, it holds what is needed.
LEMMA PowerLossAnyHeld == HeldInv /\ PowerLossAny => HeldInv'
  <1>1. SUFFICES ASSUME HeldInv, PowerLossAny PROVE HeldInv'
    OBVIOUS
  <1>2. file' \in Seq(Cell) /\ Held(file') /\ Len(file') \in Nat
    BY <1>1, SurvivorsHeld DEF PowerLossAny
  <1>3. FaultsTypeOK'
    BY <1>1, <1>2 DEF HeldInv, FaultsTypeOK, PowerLossAny, Phases
  <1> QED
    BY <1>1, <1>2, <1>3 DEF HeldInv, PowerLossAny, Held, Writing

\* Every step preserves the invariant.
LEMMA NextHeld ==
    ASSUME "undirected" \notin FailKinds PROVE HeldInv /\ [FaultsNext]_walVars => HeldInv'
  <1>1. HeldInv /\ UNCHANGED walVars => HeldInv'
    BY DEF HeldInv, FaultsTypeOK, walVars, Held, Ahead
  <1> QED
    BY <1>1, OpenHeld, ReplayHeld, ReplaySyncHeld, AppendWriteHeld, AppendFailsHeld,
       AppendSyncHeld, RotateReadableHeld, RotateReplaceHeld, RotateFailsHeld, RotateEndHeld,
       CloseAnyHeld, ReopenUnclosedHeld, KillAnyHeld, PowerLossAnyHeld
       DEF FaultsNext

\* The invariant holds in every reachable state, unless fsync_directory returns
\* without having synced.
THEOREM FaultsHeld ==
    ASSUME "undirected" \notin FailKinds PROVE FaultsSpec => []HeldInv
  BY InitHeld, NextHeld, PTL DEF FaultsSpec

\* Whatever _append, truncate_before and close raise in, every record that was
\* acknowledged and not dropped is decoded from any file an interruption can
\* leave, as long as fsync_directory makes the rename of the rotation durable.
THEOREM AcknowledgedOutliveFaults ==
    ASSUME "undirected" \notin FailKinds PROVE FaultsSpec => []AckedOutliveFaults
  <1>1. HeldInv => AckedOutliveFaults
    <2>1. SUFFICES ASSUME HeldInv, NEW m \in Survivors, NEW r \in needed
                   PROVE  \E i \in 1..GoodLen(m) : m[i] = r
      BY DEF AckedOutliveFaults
    <2>2. m \in Seq(Cell) /\ Whole(m) /\ Covers(m, needed)
      BY <2>1, SurvivorsHeld DEF Held
    <2>3. r.kind = "good"
      BY <2>1 DEF HeldInv, FaultsTypeOK, Records
    <2>4. PICK i \in 1..Len(m) : m[i] = r
      BY <2>2 DEF Covers
    <2> QED
      BY <2>2, <2>3, <2>4, GoodLenIsEnd, EndIsGood
  <1> QED
    BY <1>1, FaultsHeld, PTL

-----------------------------------------------------------------------------
(* LSNs go on without a gap: one lemma per call that touches a file. *)

\* A chained file that begins with all the cells of a good one counts as far.
LEMMA LongerCounts ==
    ASSUME NEW s \in Seq(Cell), NEW t \in Seq(Cell), AllGood(s), Chained(s), Chained(t),
           Len(s) <= Len(t), \A i \in 1..Len(s) : t[i] = s[i]
    PROVE  /\ EndLsn(s) <= EndLsn(t) /\ EndLsn(s) \in Nat /\ EndLsn(t) \in Nat
           /\ AllGood(t) /\ Len(s) < Len(t) => EndLsn(s) < EndLsn(t)
  <1>1. /\ Len(s) \in Nat /\ Len(t) \in Nat /\ End(s) = Len(s)
        /\ EndLsn(s) \in Nat /\ EndLsn(t) \in Nat /\ End(t) \in 0..Len(t)
        /\ \A i \in 1..End(t) : t[i].kind = "good"
        /\ \A i \in 1..Len(t) : t[i].kind = "good" => i <= End(t)
        /\ AllGood(t) => End(t) = Len(t)
    BY EndIsGood DEF Chained
  <1>2. \A i \in 1..End(t) : i \in 1..Len(t)
    BY <1>1
  <1>3. CASE Len(s) = 0
    <2>1. EndLsn(s) = 0
      BY <1>1, <1>3 DEF EndLsn
    <2>2. End(t) # 0 => EndLsn(t) # 0
      BY <1>1, <1>2, ChainedLsns DEF EndLsn
    <2> QED
      BY <1>1, <1>3, <2>1, <2>2
  <1>4. CASE Len(s) # 0
    <2> DEFINE n == Len(s)
               e == End(t)
    <2>1. n \in 1..Len(s) /\ n \in 1..Len(t) /\ t[n] = s[n] /\ t[n].kind = "good"
      BY <1>1, <1>4 DEF AllGood
    <2>2. n <= e /\ e \in 1..Len(t) /\ t[e].kind = "good"
      BY <1>1, <1>4, <2>1
    <2>3. PICK b \in Nat : b = t[1].lsn /\ t[n].lsn = b + (n - 1) /\ t[e].lsn = b + (e - 1)
      <3> HIDE DEF n, e
      <3> QED
        BY <2>1, <2>2, ChainedLsns
    <2>4. EndLsn(s) = t[n].lsn /\ EndLsn(t) = t[e].lsn
      BY <1>1, <1>4, <2>1, <2>2 DEF EndLsn
    <2> HIDE DEF n, e
    <2>5. n \in Nat /\ e \in Nat
      BY <1>1, <2>1, <2>2 DEF n, e
    <2>6. EndLsn(s) <= EndLsn(t)
      BY <2>2, <2>3, <2>4, <2>5
    <2>7. AllGood(t) /\ Len(s) < Len(t) => n < e
      BY <1>1 DEF n, e
    <2> QED
      BY <1>1, <2>3, <2>4, <2>5, <2>6, <2>7
  <1> QED
    BY <1>3, <1>4

\* What is cut off or torn is unsynced, and so comes after what is counted.
LEMMA FrontsCount ==
    ASSUME HeldInv, CountInv, NEW m \in Fronts(TornKinds)
    PROVE  Counts(m)
  <1>1. /\ m \in Seq(Cell) /\ Whole(m) /\ Len(m) >= Len(durable)
        /\ AllGood(durable) /\ \A i \in 1..Len(durable) : m[i] = durable[i]
        /\ \A i \in 1..Len(m) : m[i].kind = "good" => i \in 1..Len(file) /\ m[i] = file[i]
    BY FrontsHeld DEF Held
  <1>2. /\ file \in Seq(Cell) /\ durable \in Seq(Cell) /\ lastAcked \in Nat
        /\ Chained(file) /\ Chained(durable) /\ lastAcked <= EndLsn(durable)
        /\ Len(m) \in Nat /\ Len(durable) \in Nat
    BY <1>1 DEF HeldInv, FaultsTypeOK, CountInv, Counts
  <1>3. Chained(m)
    <2>1. SUFFICES ASSUME NEW i \in 1..Len(m), m[i].kind = "good"
                   PROVE  m[i].lsn = m[1].lsn + (i - 1)
      BY <1>1 DEF Chained
    <2>2. m[1].kind = "good" /\ 1 \in 1..Len(m)
      BY <1>1, <1>2, <2>1 DEF Whole
    <2>3. m[1] = file[1] /\ m[i] = file[i] /\ i \in 1..Len(file) /\ file[i].kind = "good"
      BY <1>1, <2>1, <2>2
    <2> QED
      BY <1>2, <2>3, ChainedLsns
  <1>4. EndLsn(durable) <= EndLsn(m) /\ EndLsn(durable) \in Nat /\ EndLsn(m) \in Nat
    BY <1>1, <1>2, <1>3, LongerCounts
  <1> QED
    BY <1>2, <1>3, <1>4 DEF Counts

\* Every file an interruption can leave counts far enough.
LEMMA SurvivorsCount ==
    ASSUME HeldInv, CountInv, NEW m \in Survivors
    PROVE  Counts(m)
  BY FrontsCount DEF Survivors, CountInv

\* The file in use, in the terms of WAL_proofs.
LEMMA FileIsSound ==
    ASSUME HeldInv, CountInv
    PROVE  /\ file \in Seq(Cell) /\ needed \in SUBSET Records /\ lastAcked \in Nat
           /\ Sound(file, needed, lastAcked)
  BY DEF HeldInv, CountInv, FaultsTypeOK, Held, Counts, Sound

\* A fresh directory.
LEMMA InitCounts == Init => CountInv
  BY DEF Init, CountInv, Counts, Chained, Whole, EndLsn, End, Writing

\* Steps that leave the files, or make what is there durable.
LEMMA QuietCounts ==
    CountInv /\ (\/ Open \/ ReplaySync \/ RotateFails \/ RotateEnd \/ CloseAny \/ ReopenUnclosed)
    => CountInv'
  <1>1. CountInv /\ Open => CountInv'
    BY DEF CountInv, Open, Counts, Writing
  <1>2. CountInv /\ ReplaySync => CountInv'
    BY DEF CountInv, ReplaySync, Counts, Writing
  <1>3. CountInv /\ RotateFails => CountInv'
    BY DEF CountInv, RotateFails, Counts, Writing
  <1>4. CountInv /\ RotateEnd => CountInv'
    BY DEF CountInv, RotateEnd, Counts, Writing
  <1>5. CountInv /\ CloseAny => CountInv'
    BY DEF CountInv, CloseAny, Counts, Writing
  <1>6. CountInv /\ ReopenUnclosed => CountInv'
    BY DEF CountInv, ReopenUnclosed, Counts, Writing
  <1> QED
    BY <1>1, <1>2, <1>3, <1>4, <1>5, <1>6

\* replay() counts on from the last good record.
LEMMA ReplayCounts == HeldInv /\ CountInv /\ Replay => CountInv'
  <1>1. SUFFICES ASSUME HeldInv, CountInv, Replay PROVE CountInv'
    OBVIOUS
  <1>2. /\ file' = GoodPart(file) /\ current_lsn' = LastLsn(file)
        /\ UNCHANGED <<durable, stale, needed, lastAcked>> /\ wpc' = "replayed"
    BY <1>1 DEF Replay
  <1>3. /\ Sound(file', needed, lastAcked)
        /\ EndLsn(file') = EndLsn(file) /\ LastLsn(file) = EndLsn(file)
    BY <1>1, <1>2, FileIsSound, GoodPartKeeps
  <1> QED
    BY <1>1, <1>2, <1>3 DEF CountInv, Counts, Sound

\* The record _append writes has the next LSN, whether its fsync raises or not.
LEMMA AppendCounts ==
    ASSUME "lost" \notin FailKinds
    PROVE  HeldInv /\ CountInv /\ (\E p \in Payload : AppendWrite(p) \/ AppendFails(p))
           => CountInv'
  <1>1. SUFFICES ASSUME HeldInv, CountInv, NEW p \in Payload, AppendWrite(p) \/ AppendFails(p)
                 PROVE  CountInv'
    OBVIOUS
  <1>2. /\ file' = Append(file, Record(current_lsn + 1, p)) /\ current_lsn' = current_lsn + 1
        /\ UNCHANGED <<durable, stale, temp, needed, lastAcked>>
        /\ wpc = "ready" /\ wpc' # "rotating"
    BY <1>1 DEF AppendWrite, AppendFails
  <1>3. AllGood(file) /\ current_lsn = EndLsn(file)
    BY <1>1, <1>2 DEF HeldInv, CountInv, Writing
  <1>4. Sound(file', needed, lastAcked) /\ EndLsn(file') = current_lsn + 1
    BY <1>1, <1>2, <1>3, FileIsSound, AppendKeeps
  <1> QED
    BY <1>1, <1>2, <1>4 DEF CountInv, Counts, Sound

\* The LSN acknowledged is the last one of the file.
LEMMA AppendSyncCounts == HeldInv /\ CountInv /\ AppendSync => CountInv'
  <1>1. SUFFICES ASSUME HeldInv, CountInv, AppendSync PROVE CountInv'
    OBVIOUS
  <1>2. /\ current_lsn = EndLsn(file) /\ current_lsn \in Nat /\ Counts(file)
        /\ online => stale = {}
    BY <1>1 DEF HeldInv, CountInv, FaultsTypeOK, AppendSync, Writing
  <1> QED
    BY <1>1, <1>2 DEF CountInv, AppendSync, Counts

\* The temp file ends with the same record as the log.
LEMMA RotateReadableCounts ==
    HeldInv /\ CountInv /\ (\E lsn \in 1..current_lsn : RotateReadable(lsn)) => CountInv'
  <1>1. SUFFICES ASSUME HeldInv, CountInv, NEW lsn \in 1..current_lsn, RotateReadable(lsn)
                 PROVE  CountInv'
    OBVIOUS
  <1>2. /\ temp' = KeptFrom(file, lsn) /\ wpc = "ready" /\ wpc' = "rotating"
        /\ UNCHANGED <<file, durable, stale, current_lsn, lastAcked>>
    BY <1>1 DEF RotateReadable, RotateWrite
  <1>3. AllGood(file) /\ current_lsn = EndLsn(file)
    BY <1>1, <1>2 DEF HeldInv, CountInv, Writing
  <1>4. /\ Sound(temp', {r \in needed : r.lsn >= lsn}, lastAcked)
        /\ EndLsn(temp') = current_lsn
    BY <1>1, <1>2, <1>3, FileIsSound, KeptFromKeeps
  <1> QED
    BY <1>1, <1>2, <1>3, <1>4 DEF CountInv, Counts, Sound

\* The log that is replaced may come back with its unsynced records.
LEMMA RotateReplaceCounts == HeldInv /\ CountInv /\ RotateReplace => CountInv'
  <1>1. SUFFICES ASSUME HeldInv, CountInv, RotateReplace PROVE CountInv'
    OBVIOUS
  <1>2. \A s \in stale' : Counts(s)
    BY <1>1, FrontsCount DEF RotateReplace, CountInv
  <1> QED
    BY <1>1, <1>2 DEF CountInv, RotateReplace, Counts

\* A kill or a power loss.
LEMMA InterruptCounts == HeldInv /\ CountInv /\ (KillAny \/ PowerLossAny) => CountInv'
  <1>1. SUFFICES ASSUME HeldInv, CountInv, KillAny \/ PowerLossAny PROVE CountInv'
    OBVIOUS
  <1>2. Counts(file')
    <2>1. CASE KillAny
      BY <1>1, <2>1, FrontsGrow, FrontsCount DEF KillAny, CountInv
    <2>2. CASE PowerLossAny
      BY <1>1, <2>2, SurvivorsCount DEF PowerLossAny
    <2> QED
      BY <1>1, <2>1, <2>2
  <1> QED
    BY <1>1, <1>2 DEF CountInv, Counts, KillAny, PowerLossAny, Writing

\* Every step preserves the invariant.
LEMMA NextCounts ==
    ASSUME "lost" \notin FailKinds
    PROVE  HeldInv /\ CountInv /\ [FaultsNext]_walVars => CountInv'
  <1>1. CountInv /\ UNCHANGED walVars => CountInv'
    BY DEF CountInv, walVars, Counts
  <1> QED
    BY <1>1, QuietCounts, ReplayCounts, AppendCounts, AppendSyncCounts, RotateReadableCounts,
       RotateReplaceCounts, InterruptCounts
       DEF FaultsNext

\* In every reachable state the LSNs of every file are without a gap, unless an
\* append that raised can have taken an LSN without writing its record.
THEOREM FaultsCount ==
    ASSUME "lost" \notin FailKinds, "undirected" \notin FailKinds
    PROVE  FaultsSpec => []CountInv
  BY InitCounts, NextCounts, FaultsHeld, PTL DEF FaultsSpec

\* If an append that raises has written its record, and an interrupted write
\* never leaves a frame of zeros, _iter_records accepts every file an
\* interruption can leave, however many records were unsynced.
THEOREM LogStaysReadableDespiteFaults ==
    ASSUME "lost" \notin FailKinds, "undirected" \notin FailKinds, "zeros" \notin TornKinds
    PROVE  FaultsSpec => []LogOutlivesFaults
  <1>1. HeldInv /\ CountInv => LogOutlivesFaults
    BY SurvivorsHeld, SurvivorsCount, ChainedIsReadable DEF LogOutlivesFaults, Counts
  <1> QED
    BY <1>1, FaultsHeld, FaultsCount, PTL

\* An LSN that _append returned is not given out again, although other appends
\* raised after taking one.
THEOREM LsnsAreNotReusedDespiteFaults ==
    ASSUME "lost" \notin FailKinds, "undirected" \notin FailKinds
    PROVE  FaultsSpec => AckedLsnsIncrease
  <1>1. HeldInv /\ CountInv /\ [FaultsNext]_walVars
        => [\A r \in needed' \ needed : r.lsn > lastAcked]_walVars
    <2>1. SUFFICES ASSUME HeldInv, CountInv, FaultsNext, NEW r \in needed' \ needed
                   PROVE  r.lsn > lastAcked
      OBVIOUS
    <2>2. AppendSync /\ r = file[Len(file)]
      BY <2>1 DEF FaultsNext, Open, Replay, ReplaySync, AppendWrite, AppendFails, AppendSync,
                  RotateReadable, RotateWrite, RotateReplace, RotateFails, RotateEnd,
                  CloseAny, ReopenUnclosed, KillAny, PowerLossAny
    <2>3. /\ file \in Seq(Cell) /\ durable \in Seq(Cell) /\ AllGood(file)
          /\ Chained(file) /\ Chained(durable) /\ lastAcked <= EndLsn(durable)
          /\ Ahead /\ Len(file) > Len(durable) /\ lastAcked \in Nat
      BY <2>1, <2>2 DEF HeldInv, CountInv, FaultsTypeOK, AppendSync, Writing, Counts
    <2>4. Len(file) \in Nat /\ Len(durable) \in Nat
      BY <2>3
    <2>5. EndLsn(durable) < EndLsn(file) /\ EndLsn(durable) \in Nat /\ EndLsn(file) \in Nat
      BY <2>3, <2>4, LongerCounts DEF Ahead
    <2>6. EndLsn(file) = file[Len(file)].lsn
      BY <2>3, <2>4, EndIsGood DEF EndLsn, Chained
    <2> QED
      BY <2>2, <2>3, <2>5, <2>6
  <1> QED
    BY <1>1, FaultsHeld, FaultsCount, PTL DEF FaultsSpec, AckedLsnsIncrease

=============================================================================
