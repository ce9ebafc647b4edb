--------------------------- MODULE OrderedChannel ---------------------------
(***************************************************************************)
(* What the send side of a session promises to the code that calls it,     *)
(* with no thread, flag, lock or completion in sight.  Buffers are         *)
(* numbered in the order the session accepted them.  They leave in that    *)
(* order, a batch at a time; a batch may be lost, and only a fault of the  *)
(* transport (a failed WSASend or a send that completed with zero bytes)   *)
(* loses one.                                                              *)
(***************************************************************************)
EXTENDS Integers, Sequences

VARIABLES
  accepted,  \* how many buffers the session has accepted
  pending,   \* the accepted buffers that are neither sent nor lost, oldest first
  sent,      \* the buffers the transport reported as sent, oldest first
  faulty     \* whether the transport has failed a send

vars == <<accepted, pending, sent, faulty>>

Init ==
  /\ accepted = 0
  /\ pending = <<>>
  /\ sent = <<>>
  /\ faulty = FALSE

Accept ==
  /\ accepted' = accepted + 1
  /\ pending' = Append(pending, accepted + 1)
  /\ UNCHANGED <<sent, faulty>>

\* The oldest batch of the pending buffers is sent.
Deliver ==
  \E k \in 0 .. Len(pending) :
    /\ sent' = sent \o SubSeq(pending, 1, k)
    /\ pending' = SubSeq(pending, k + 1, Len(pending))
    /\ UNCHANGED <<accepted, faulty>>

Fault ==
  /\ faulty' = TRUE
  /\ UNCHANGED <<accepted, pending, sent>>

\* The oldest batch of the pending buffers is lost.
Lose ==
  \E k \in 0 .. Len(pending) :
    /\ faulty
    /\ pending' = SubSeq(pending, k + 1, Len(pending))
    /\ UNCHANGED <<accepted, sent, faulty>>

Next == Accept \/ Deliver \/ Fault \/ Lose

Spec == Init /\ [][Next]_vars
=============================================================================
