------------------------------ MODULE Delivery ------------------------------
(***************************************************************************)
(* What reaches a host.  Middleman ends at the log of what Session::Send   *)
(* has accepted for the host; what becomes of it is what a session         *)
(* promises, an OrderedChannel.  Here the two run side by side for one     *)
(* host: the n-th packet of its log is the n-th buffer of its channel.     *)
(***************************************************************************)
EXTENDS Middleman

VARIABLES
  accepted,  \* how many packets the session of the host has accepted
  waiting,   \* those of them that are neither sent nor lost
  left,      \* those that have been sent
  faulty     \* whether the transport has failed a send

Wire == INSTANCE OrderedChannel WITH pending <- waiting, sent <- left

\* The relay, with a channel to x.
Connection(x) == Spec /\ Wire!Spec /\ [](accepted = Len(log[x]))

\* The packets that have left for x.
Delivered(x) == [i \in 1 .. Len(left) |-> log[x][left[i]]]

\* The packets of y in q are in the order in which y sent them.
Ascending(q, y) ==
  \A i, k \in 1 .. Len(q) :
    i < k /\ IsData(q[i], y) /\ IsData(q[k], y) => q[i].number < q[k].number

(***************************************************************************)
(* The packets of another host arrive in the order in which that host sent *)
(* them, none of them twice, and as long as the transport has not failed   *)
(* none between them is missing: from OnRecvPacket of the one session to   *)
(* the completed WSASend of the other.                                     *)
(***************************************************************************)
ArrivesInOrder(x) ==
  \A y \in Hosts :
    /\ Ascending(Delivered(x), y)
    /\ ~faulty => Gapless(Delivered(x), y)
=============================================================================
