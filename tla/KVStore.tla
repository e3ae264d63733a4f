------------------------------ MODULE KVStore ------------------------------
(***************************************************************************)
(* What a client of bptreedb is promised: a map that one operation at a    *)
(* time changes, that a crash does not take back, and in which an          *)
(* operation that a crash interrupted has happened or has not.             *)
(***************************************************************************)
CONSTANTS Keys, Values

VARIABLES
    kv,       \* kv[k] = {v} if k has the value v, {} if it has none
    pending,  \* the operation under way, <<>> if none is
    up        \* the store is open

kvVars == <<kv, pending, up>>

Puts == {"put"} \X Keys \X Values
Deletes == {"delete"} \X Keys
Ops == Puts \cup Deletes

Apply(map, op) ==
    CASE op = <<>> -> map
      [] op \in Puts -> [map EXCEPT ![op[2]] = {op[3]}]
      [] op \in Deletes -> [map EXCEPT ![op[2]] = {}]

Init ==
    /\ kv = [k \in Keys |-> {}]
    /\ pending = <<>>
    /\ up = FALSE

Begin(op) ==
    /\ up /\ pending = <<>>
    /\ pending' = op
    /\ UNCHANGED <<kv, up>>

Commit ==
    /\ up /\ pending # <<>>
    /\ kv' = Apply(kv, pending)
    /\ pending' = <<>>
    /\ UNCHANGED up

\* A crash, or a close between two operations.
Stop ==
    /\ up
    /\ up' = FALSE
    /\ UNCHANGED <<kv, pending>>

Start ==
    /\ ~up
    /\ up' = TRUE
    /\ kv' \in {kv, Apply(kv, pending)}
    /\ pending' = <<>>

Next == (\E op \in Ops : Begin(op)) \/ Commit \/ Stop \/ Start

Spec == Init /\ [][Next]_kvVars

=============================================================================
