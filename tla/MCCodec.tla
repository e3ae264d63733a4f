------------------------------- MODULE MCCodec -------------------------------
(***************************************************************************)
(* Instance of CodecSpec and LogFormat for TLC: a page is filled, or a log *)
(* is written, while the other one stays as it was in the beginning.       *)
(*                                                                         *)
(* On 96-byte pages 64 bytes are left for slots: a leaf slot takes 16      *)
(* bytes and its key and value, an internal slot 20 and its key, so that   *)
(* pages are full to the byte in several ways (three of 20 and four of 16, *)
(* two of 32, a slot of 64).  The length fields of the log are 22, 48, 256 *)
(* and 262: of one byte, of one byte with the longest payload but one, and *)
(* of two bytes with the lower one zero and not zero.                      *)
(***************************************************************************)
EXTENDS CodecSpec, LogFormat

CodecKeys == 1..3
CodecKeyLen == <<0, 1, 44>>
CodecValues == 200..204
CodecValueLen == (200 :> 0) @@ (201 :> 3) @@ (202 :> 16) @@ (203 :> 234) @@ (204 :> 240)

\* Ids of one and of two bytes.
CodecPageIds == {3, 300}

FormatOps == {<<"put", 2, 200>>, <<"put", 2, 203>>, <<"put", 2, 204>>, <<"delete", 2>>,
              <<"checkpoint", 1, 0, 300>>}

MCInit == CodecInit /\ FormatInit

MCNext ==
    \/ FormatInit /\ CodecNext /\ UNCHANGED formatVars
    \/ page = Leaf(0, <<>>) /\ FormatNext /\ UNCHANGED codecVars

MCSpec == MCInit /\ [][MCNext]_<<codecVars, formatVars>>

=============================================================================
