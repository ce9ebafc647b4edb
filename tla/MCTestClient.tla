---------------------------- MODULE MCTestClient ----------------------------
(***************************************************************************)
(* Instances of TestClient for TLC.                                        *)
(***************************************************************************)
EXTENDS TestClient
=============================================================================
