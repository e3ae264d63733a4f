------------------------------- MODULE MCTree -------------------------------
(***************************************************************************)
(* Instances of TreeSpec for TLC.                                          *)
(***************************************************************************)
EXTENDS TreeSpec

CONSTANTS v0, v3    \* a value of no bytes and one of three

\* 132-byte pages hold five 20-byte leaf slots and at least two, and one to
\* four internal slots: the smallest pages on which no leaf is healthy with a
\* single record.
SmallValues == {v0, v3}
SmallValueLen == (v0 :> 0) @@ (v3 :> 3)

Puts(keys) == [i \in DOMAIN keys |-> <<"put", keys[i], v3>>]
Deletes(keys) == [i \in DOMAIN keys |-> <<"delete", keys[i]>>]
Upto(n) == [i \in 1..n |-> i]
Flush == <<<<"checkpoint">>>>

SmallKeys == 1..19
OneByte == [k \in SmallKeys |-> 1]

\* One or two leaves, with values of two lengths; the last script has emptied
\* two pages into the freelist and filled the one leaf again.
Flat ==
    [script : {Puts(Upto(5)), Puts(Upto(6)) \o Flush,
               Puts(Upto(6)) \o Deletes(<<1, 2, 3>>) \o Flush \o Puts(<<1, 2>>)},
     puts : {((1..7) \X {v3}) \cup ({2, 4, 6} \X {v0})}, deletes : {1..7}, maxOps : {5}]

\* Three levels.  18 ascending puts make six leaves of three keys under two
\* internal pages; the deletes bring leaves, then internal pages, down to the
\* least they may hold.  17 puts are one short of the split of a full root.
Lean == Puts(Upto(18)) \o Deletes(<<1, 5, 8, 10, 14>>)
Deep ==
    [script : {Lean \o Flush,
               Lean \o Deletes(<<9, 6, 16, 13, 12>>) \o Flush,
               Puts(Upto(17)) \o Flush},
     puts : {{1, 8, 18, 19} \X {v3}}, deletes : {1..18}, maxOps : {3}]

FlatAndDeep == Flat \cup Deep

\* 512-byte pages with keys of 2 to 80 bytes; a value is its own length.
MixedKeys == 1..24
MixedKeyLen == <<80, 80, 80, 2, 2, 2, 21, 2, 80, 80, 80, 80, 80, 2, 80, 8, 2, 9, 2, 80, 2, 2, 2, 2>>
MixedValues == {0, 59, 71, 72, 78}
MixedValueLen == [v \in MixedValues |-> v]
MixedRecords ==
    <<<<14, 0>>, <<19, 78>>, <<9, 0>>, <<7, 59>>, <<2, 0>>, <<3, 0>>, <<23, 78>>, <<17, 78>>,
      <<8, 78>>, <<11, 0>>, <<10, 0>>, <<6, 78>>, <<15, 0>>, <<5, 78>>, <<24, 0>>, <<4, 0>>,
      <<18, 71>>, <<16, 72>>, <<1, 0>>, <<20, 0>>, <<12, 0>>, <<13, 0>>, <<22, 78>>>>
Mixed == [script : {[i \in DOMAIN MixedRecords |->
                        <<"put", MixedRecords[i][1], MixedRecords[i][2]>>]},
          puts : {{21} \X MixedValues}, deletes : {{}}, maxOps : {1}]

=============================================================================
