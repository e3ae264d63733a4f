-------------------------------- MODULE MCDB --------------------------------
(***************************************************************************)
(* Scenarios for DB and DBFaults, on 132-byte pages: five 20-byte slots to *)
(* a leaf, and never less than two.                                        *)
(***************************************************************************)
EXTENDS DB

CONSTANTS v1, v2

TwoValues == {v1, v2}
ThreeBytes == [v \in TwoValues |-> 3]
SixKeys == 1..6
OneByte == [k \in SixKeys |-> 1]

AllPoints == {"opening", "recovering", "replayed", "recovered", "idle", "logging",
              "returning", "flushing", "flushed", "marking", "marked", "stamping",
              "stamped", "rotating", "renamed", "closing"}

\* From the first page flushed until the CHECKPOINT record is durable, the
\* pages in the file are ahead of what the log says about them.
Window == {"flushing", "flushed", "marking"}

PutUpto(n) == [i \in 1..n |-> <<"put", i, v1>>]

\* A full root leaf, which the next new key splits; and two leaves of which
\* the next delete makes one.
Splitting(crashPoints, ends) ==
    [script : {PutUpto(5) \o <<<<"checkpoint">>>>,
               PutUpto(6) \o <<<<"delete", 6>>, <<"delete", 5>>, <<"checkpoint">>>>},
     calls  : {{<<"put", 6, v1>>, <<"delete", 1>>, <<"delete", 3>>, <<"checkpoint">>, <<"close">>}},
     points : {crashPoints},
     ends   : {ends}]

\* Two leaves of three, checkpointed, and calls that stay within a leaf's bounds.
InPlace(crashPoints) ==
    [script : {PutUpto(6) \o <<<<"checkpoint">>, <<"put", 4, v2>>>>},
     calls  : {{<<"put", 1, v2>>, <<"delete", 2>>, <<"checkpoint">>, <<"close">>}},
     points : {crashPoints},
     ends   : {TRUE}]

\* The process ends anywhere while pages split.
SplitAnywhere == Splitting(AllPoints, FALSE)

\* It ends outside the window while pages split, or anywhere while none does.
SafeScenarios == Splitting(AllPoints \ Window, FALSE) \cup InPlace(AllPoints)

\* It ends outside the window while pages split, and after a write that failed
\* another object or process may open the files.
SplitGivenUp == Splitting(AllPoints \ Window, TRUE)

=============================================================================
