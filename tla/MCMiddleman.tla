---------------------------- MODULE MCMiddleman ----------------------------
(***************************************************************************)
(* Instances of Middleman for TLC.                                         *)
(***************************************************************************)
EXTENDS Middleman, TLC

CONSTANTS ClientPackets, LogicPackets

MCMaxPackets == [x \in Hosts |-> IF x \in Logics THEN LogicPackets ELSE ClientPackets]

\* Sessions of one kind differ in nothing but their names.
MCSymmetry == Permutations(Sessions) \cup Permutations(Logics)
=============================================================================
