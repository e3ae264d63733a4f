------------------------------- MODULE MCScan -------------------------------
(***************************************************************************)
(* Instances of ScanSpec for TLC.  In one tree a full leaf is last, which  *)
(* the next put splits; in the other two leaves are as small as they may   *)
(* be, which the next delete merges.                                       *)
(***************************************************************************)
EXTENDS ScanSpec

CONSTANT v3

MCKeys == 1..9
MCKeyLen == [k \in MCKeys |-> 1]
MCValues == {v3}
MCValueLen == v3 :> 3

Puts(keys) == [i \in DOMAIN keys |-> <<"put", keys[i], v3>>]
Deletes(keys) == [i \in DOMAIN keys |-> <<"delete", keys[i]>>]
MCScenarios ==
    [script : {Puts(<<1, 2, 3, 4, 5, 6, 7, 8>>),
               Puts(<<1, 2, 4, 5, 6, 7>>) \o Deletes(<<1, 5>>)},
     puts : {{3, 4, 9} \X MCValues}, deletes : {{2, 5, 6}}, maxOps : {2}]
MCRanges == {<<1, 0>>, <<2, 6>>, <<9, 0>>}

=============================================================================
