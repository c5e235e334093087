----------------------------- MODULE MCRegistry -----------------------------
(***************************************************************************)
(* Registry for TLC.                                                       *)
(***************************************************************************)
EXTENDS Registry
==============================================================================
