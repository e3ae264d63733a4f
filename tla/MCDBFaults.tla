----------------------------- MODULE MCDBFaults -----------------------------
(***************************************************************************)
(* DBFaults for TLC, in the scenarios of MCDB.                             *)
(***************************************************************************)
EXTENDS DBFaults, MCDB

=============================================================================
