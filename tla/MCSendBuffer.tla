---------------------------- MODULE MCSendBuffer ----------------------------
(***************************************************************************)
(* Instances of SendBuffer for TLC.                                        *)
(***************************************************************************)
EXTENDS SendBuffer
=============================================================================
