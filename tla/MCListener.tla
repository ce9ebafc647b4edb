----------------------------- MODULE MCListener -----------------------------
(***************************************************************************)
(* Instances of Listener for TLC.                                          *)
(***************************************************************************)
EXTENDS Listener, TLC

\* Sessions differ in nothing but their names, nor do workers.
MCSymmetry == Permutations(Sessions) \cup Permutations(Workers)
=============================================================================
