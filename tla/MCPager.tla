------------------------------ MODULE MCPager ------------------------------
(***************************************************************************)
(* Instances of Pager for TLC.  Pages of 52 bytes, the least there can be, *)
(* hold two freed ids, so that freelist pages fill up and run empty soon.  *)
(***************************************************************************)
EXTENDS Pager

CONSTANT v

MCValues == {v}
MCKeyLen == [k \in Keys |-> 1]
MCValueLen == [x \in {v} |-> 1]

=============================================================================
