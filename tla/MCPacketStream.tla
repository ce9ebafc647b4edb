--------------------------- MODULE MCPacketStream ---------------------------
(***************************************************************************)
(* Instances of PacketStream for TLC.                                      *)
(***************************************************************************)
EXTENDS PacketStream, FiniteSetsExt

\* The streams of the given packet sizes.
MCStreams ==
  {[k \in 0 .. Packets |-> MapThenSumSet(LAMBDA i : sizes[i], 1 .. k)] :
     sizes \in [1 .. Packets -> HeaderSize .. MaxPacket]}
=============================================================================
