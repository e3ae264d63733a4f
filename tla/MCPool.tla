------------------------------- MODULE MCPool -------------------------------
(***************************************************************************)
(* Instances of PoolSpec for TLC: 132-byte pages with five 20-byte leaf    *)
(* slots, as in MCTree.                                                    *)
(***************************************************************************)
EXTENDS PoolSpec

CONSTANT v3    \* a value of three bytes

OneValue == {v3}
OneValueLen == v3 :> 3
PoolKeys == 1..19
OneByte == [k \in PoolKeys |-> 1]

Puts(keys) == [i \in DOMAIN keys |-> <<"put", keys[i], v3>>]
Deletes(keys) == [i \in DOMAIN keys |-> <<"delete", keys[i]>>]

\* Three levels, lean and full: one delete of the first tree cascades to its
\* root and one put into the second splits a leaf, and its root.
Lean == Puts([i \in 1..18 |-> i]) \o Deletes(<<1, 5, 8, 10, 14>>)
PoolScripts == {Lean, Lean \o Deletes(<<9, 6, 16, 13, 12>>), Puts([i \in 1..17 |-> i])}

PoolPutKeys == {1, 8, 18, 19}
PoolDeleteKeys == {2, 4, 7, 9, 11, 15, 18}
PoolGetKeys == {3, 17}

=============================================================================
