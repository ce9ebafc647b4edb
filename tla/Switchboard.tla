---------------------------- MODULE Switchboard ----------------------------
(***************************************************************************)
(* What the relay promises to the hosts it connects, with no session id,   *)
(* no manager, no lock and no thread in sight.                             *)
(*                                                                         *)
(* A host opens its link once and closes it once.  In between it is        *)
(* enrolled and then told who it is; of a client the server is told that   *)
(* it has come, and, in its own time, that it has gone.  A client's        *)
(* packets go to the server, once each and in order; a server's go to all  *)
(* who are members when the packet is published, and nobody becomes or     *)
(* ceases to be one before all of them have been served.  What is meant    *)
(* for a host reaches it if and only if its link is open.                  *)
(***************************************************************************)
EXTENDS Naturals, Sequences

CONSTANTS
  Clients,
  Servers   \* one after the other

VARIABLES
  link,      \* of each host: not yet open, open or closed
  welcome,   \* how far each host has been welcomed
  members,   \* the clients that a published packet is meant for
  departed,  \* the clients of which the server has been told that they have gone
  passed,    \* number of packets passed on from each host
  due,       \* the clients that the last packet of each server has yet to reach
  inbox      \* what each host has been handed, oldest first

Hosts == Clients \cup Servers

vars == <<link, welcome, members, departed, passed, due, inbox>>

Init ==
  /\ link = [x \in Hosts |-> "none"]
  /\ welcome = [x \in Hosts |-> "new"]
  /\ members = {}
  /\ departed = {}
  /\ passed = [x \in Hosts |-> 0]
  /\ due = [l \in Servers |-> {}]
  /\ inbox = [x \in Hosts |-> <<>>]

Packet(type, host, number) == [type |-> type, of |-> host, number |-> number]

\* The server at work; there is one at most.
Serving == {l \in Servers : link[l] = "open" /\ welcome[l] # "new"}

\* Those of the hosts whose link is open get the packet.
Hand(hosts, packet) ==
  inbox' = [x \in Hosts |->
    IF x \in hosts /\ link[x] = "open" THEN Append(inbox[x], packet) ELSE inbox[x]]

\* x is welcomed one step further.
Welcome(x, from, to) == welcome[x] = from /\ welcome' = [welcome EXCEPT ![x] = to]

Quiet == \A l \in Servers : due[l] = {}

-----------------------------------------------------------------------------
Join(x) ==
  /\ link[x] = "none"
  /\ link' = [link EXCEPT ![x] = "open"]
  /\ UNCHANGED <<welcome, members, departed, passed, due, inbox>>

\* Nobody is shut out who has not been enrolled.
Leave(x) ==
  /\ link[x] = "open"
  /\ welcome[x] # "new"
  /\ link' = [link EXCEPT ![x] = "closed"]
  /\ UNCHANGED <<welcome, members, departed, passed, due, inbox>>

\* A server takes over from those that have gone ...
EnrollServer(l) ==
  /\ link[l] = "open"
  /\ Welcome(l, "new", "enrolled")
  /\ Serving = {}
  /\ UNCHANGED <<link, members, departed, passed, due, inbox>>

\* ... and clients come only after the first has.
Enroll(s) ==
  /\ link[s] = "open"
  /\ Welcome(s, "new", "enrolled")
  /\ \E l \in Servers : welcome[l] # "new"
  /\ Quiet
  /\ members' = members \cup {s}
  /\ UNCHANGED <<link, departed, passed, due, inbox>>

Introduce(x) ==
  /\ Welcome(x, "enrolled", "introduced")
  /\ Hand({x}, Packet("INFO", x, 0))
  /\ UNCHANGED <<link, members, departed, passed, due>>

Announce(s) ==
  /\ Welcome(s, "introduced", "announced")
  /\ Hand(Serving, Packet("CONNECTED", s, 0))
  /\ UNCHANGED <<link, members, departed, passed, due>>

\* What a client has sent may still be passed on when its link is closed.
Pass(s) ==
  /\ welcome[s] = "announced"
  /\ passed' = [passed EXCEPT ![s] = @ + 1]
  /\ Hand(Serving, Packet("DATA", s, passed[s] + 1))
  /\ UNCHANGED <<link, welcome, members, departed, due>>

Publish(l) ==
  /\ welcome[l] = "introduced"
  /\ due[l] = {}
  /\ passed' = [passed EXCEPT ![l] = @ + 1]
  /\ due' = [due EXCEPT ![l] = members]
  /\ UNCHANGED <<link, welcome, members, departed, inbox>>

Deliver(l, s) ==
  /\ s \in due[l]
  /\ due' = [due EXCEPT ![l] = @ \ {s}]
  /\ Hand({s}, Packet("DATA", l, passed[l]))
  /\ UNCHANGED <<link, welcome, members, departed, passed>>

Depart(s) ==
  /\ link[s] = "closed"
  /\ s \notin departed
  /\ departed' = departed \cup {s}
  /\ Hand(Serving, Packet("DISCONNECTED", s, 0))
  /\ UNCHANGED <<link, welcome, members, passed, due>>

Withdraw(s) ==
  /\ s \in departed \cap members
  /\ Quiet
  /\ members' = members \ {s}
  /\ UNCHANGED <<link, welcome, departed, passed, due, inbox>>

Next ==
  \/ \E x \in Hosts : Join(x) \/ Leave(x) \/ Introduce(x)
  \/ \E s \in Clients : Enroll(s) \/ Announce(s) \/ Pass(s) \/ Depart(s) \/ Withdraw(s)
  \/ \E l \in Servers : EnrollServer(l) \/ Publish(l)
  \/ \E l \in Servers, s \in Clients : Deliver(l, s)

Spec == Init /\ [][Next]_vars
=============================================================================
