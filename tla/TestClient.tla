----------------------------- MODULE TestClient -----------------------------
(***************************************************************************)
(* The test client (src/TestClient): a ClientService whose sessions all    *)
(* connect to the relay, their manager, and the main thread that has every *)
(* session send the same packet, again and again.                          *)
(*                                                                         *)
(* There is one SendBuffer.  Broadcast writes the sender's id into it and  *)
(* calls Send, session by session; what Session::Send accepts is a         *)
(* reference, and the bytes are read from the buffer when they leave, any  *)
(* time before the send completes.  (Module Session shows that they leave  *)
(* in order; module SendBuffer that the memory stays the packet's.)        *)
(***************************************************************************)
EXTENDS Service, Sequences

CONSTANTS
  NoSession,  \* no session is being sent to
  Rounds      \* bound of the model: number of broadcasts

\* All sessions are created and none is created twice.
ASSUME TestClientAssumption ==
  /\ NoSession \notin Sessions
  /\ IsFiniteSet(Sessions) /\ Cardinality(Sessions) = MaxSessionCount
  /\ Rounds \in Nat

VARIABLES
  main,       \* where the main thread stands
  life,       \* where each session is in its life
  connected,  \* Session::_connected
  manager,    \* GSessionManager._sessions
  todo,       \* whom the broadcast under way has yet to reach
  target,     \* the session about to be sent to
  written,    \* the sessions whose id has been written into the buffer, in order
  pending,    \* number of packets accepted by Send that have yet to leave
  left,       \* how many ids had been written when each packet left
  round       \* number of broadcasts begun

sessionVars == <<life, connected>>
bufferVars == <<written, pending, left>>
loopVars == <<main, todo, target, round>>
vars == <<serviceVars, sessionVars, manager, bufferVars, loopVars>>

Init ==
  /\ ServiceInit
  /\ main = "starting"
  /\ life = [s \in Sessions |-> "unused"]
  /\ connected = [s \in Sessions |-> FALSE]
  /\ manager = {}
  /\ todo = {}
  /\ target = NoSession
  /\ written = <<>>
  /\ pending = [s \in Sessions |-> 0]
  /\ left = [s \in Sessions |-> <<>>]
  /\ round = 0

Goto(s, from, to) == life[s] = from /\ life' = [life EXCEPT ![s] = to]

\* A writer gets the manager's lock while no broadcast is under way.
Unlocked == main # "broadcasting"

-----------------------------------------------------------------------------
(***************************************************************************)
(* Plausible mistakes in the code below, each the wrong twin of the action *)
(* whose name it bears.                                                    *)
(***************************************************************************)

\* The id is written once, for the first session.
MutantWriteSenderId(s) ==
  /\ main = "broadcasting"
  /\ target = NoSession
  /\ s \in todo
  /\ target' = s
  /\ todo' = todo \ {s}
  /\ written' = IF written = <<>> THEN <<s>> ELSE written
  /\ UNCHANGED <<serviceVars, sessionVars, manager, main, round, pending, left>>

\* A session that finds the manager locked does not wait for it.
MutantAdd(s) ==
  /\ Goto(s, "connecting", "open")
  /\ manager' = IF Unlocked THEN manager \cup {s} ELSE manager
  /\ UNCHANGED <<serviceVars, connected, bufferVars, loopVars>>

-----------------------------------------------------------------------------
(***************************************************************************)
(* ClientService::Start creates its sessions and tells each to connect.    *)
(* The workers are launched only afterwards.                               *)
(***************************************************************************)

StartSession(s) ==
  /\ main = "starting"
  /\ Goto(s, "unused", "posted")
  /\ CreateSession(s)
  /\ UNCHANGED <<connected, manager, bufferVars, loopVars>>

\* The port refuses the socket, and Start calls Connect of a null session, or
\* Connect fails, and main asserts that Start did not.
StartFails ==
  /\ main = "starting"
  /\ \E s \in Sessions : life[s] = "unused"
  /\ crashed' = TRUE
  /\ UNCHANGED <<sessions, sessionCount, idVars, sessionVars, manager, bufferVars, loopVars>>

Launch ==
  /\ main = "starting"
  /\ \A s \in Sessions : life[s] = "posted"
  /\ main' = "sleeping"
  /\ UNCHANGED <<serviceVars, sessionVars, manager, bufferVars, todo, target, round>>

-----------------------------------------------------------------------------
\* A worker takes the completion of ConnectEx, refused or not.
ProcessConnect(s) ==
  /\ main # "starting"
  /\ Goto(s, "posted", "connecting")
  /\ connected' = [connected EXCEPT ![s] = TRUE]
  /\ AddSession(s)
  /\ UNCHANGED <<manager, bufferVars, loopVars>>

\* OnConnected
Add(s) ==
  /\ Unlocked
  /\ Goto(s, "connecting", "open")
  /\ manager' = manager \cup {s}
  /\ UNCHANGED <<serviceVars, connected, bufferVars, loopVars>>

\* The connection ends; DisconnectEx is under way, or fails.
Disconnect(s) ==
  /\ Goto(s, "open", "closing") \/ Goto(s, "open", "stuck")
  /\ connected' = [connected EXCEPT ![s] = FALSE]
  /\ UNCHANGED <<serviceVars, manager, bufferVars, loopVars>>

\* OnDisconnected
Remove(s) ==
  /\ Unlocked
  /\ Goto(s, "closing", "removed")
  /\ manager' = manager \ {s}
  /\ UNCHANGED <<serviceVars, connected, bufferVars, loopVars>>

Release(s) ==
  /\ Goto(s, "removed", "released")
  /\ ReleaseSession(s)
  /\ UNCHANGED <<connected, manager, bufferVars, loopVars>>

-----------------------------------------------------------------------------
\* The main thread wakes up and takes the manager's lock for the whole broadcast.
Broadcast ==
  /\ main = "sleeping"
  /\ round < Rounds
  /\ main' = "broadcasting"
  /\ round' = round + 1
  /\ todo' = manager
  /\ UNCHANGED <<serviceVars, sessionVars, manager, bufferVars, target>>

\* The id of the next session is written into the buffer ...
WriteSenderId(s) ==
  /\ main = "broadcasting"
  /\ target = NoSession
  /\ s \in todo
  /\ target' = s
  /\ todo' = todo \ {s}
  /\ written' = Append(written, s)
  /\ UNCHANGED <<serviceVars, sessionVars, manager, main, round, pending, left>>

\* ... and the session sends it, unless it is not connected any more.
Send ==
  /\ target # NoSession
  /\ target' = NoSession
  /\ pending' = [pending EXCEPT ![target] = IF connected[target] THEN @ + 1 ELSE @]
  /\ UNCHANGED <<serviceVars, sessionVars, manager, main, todo, round, written, left>>

BroadcastEnd ==
  /\ main = "broadcasting"
  /\ todo = {} /\ target = NoSession
  /\ main' = "sleeping"
  /\ UNCHANGED <<serviceVars, sessionVars, manager, bufferVars, todo, target, round>>

\* The first packet of s that is still to leave is read from the buffer.
Leave(s) ==
  /\ pending[s] > 0
  /\ pending' = [pending EXCEPT ![s] = @ - 1]
  /\ left' = [left EXCEPT ![s] = Append(@, Len(written))]
  /\ UNCHANGED <<serviceVars, sessionVars, manager, written, loopVars>>

-----------------------------------------------------------------------------
MainStep ==
  \/ \E s \in Sessions : StartSession(s)
  \/ StartFails \/ Launch \/ Send \/ BroadcastEnd
  \/ \E s \in Sessions : WriteSenderId(s)

WorkerStep(s) == ProcessConnect(s) \/ Add(s) \/ Remove(s) \/ Release(s)

\* A crash is the end of the program.
Next ==
  /\ ~crashed
  /\ \/ MainStep \/ Broadcast
     \/ \E s \in Sessions : WorkerStep(s) \/ Disconnect(s) \/ Leave(s)

Spec == Init /\ [][Next]_vars

(***************************************************************************)
(* Threads run on, and completions are taken.  A writer that waits for the *)
(* manager's lock gets it in the end, since the main thread sleeps between *)
(* two broadcasts.                                                         *)
(***************************************************************************)
Fairness ==
  /\ WF_vars(~crashed /\ MainStep)
  /\ \A s \in Sessions : SF_vars(~crashed /\ WorkerStep(s))

FairSpec == Spec /\ Fairness

-----------------------------------------------------------------------------
\* Every variable has its type.
TypeOK ==
  /\ ServiceTypeOK
  /\ main \in {"starting", "sleeping", "broadcasting"}
  /\ life \in [Sessions -> {"unused", "posted", "connecting", "open", "closing", "stuck",
                            "removed", "released"}]
  /\ connected \in [Sessions -> BOOLEAN]
  /\ manager \subseteq Sessions
  /\ todo \subseteq Sessions
  /\ target \in Sessions \cup {NoSession}
  /\ written \in Seq(Sessions)
  /\ pending \in [Sessions -> Nat]
  /\ left \in [Sessions -> Seq(Nat)]
  /\ round \in Nat

(***************************************************************************)
(* All sessions send the same packet, with the sender's id in it: the      *)
(* comment on the call of Broadcast in TestClient.cpp.                     *)
(***************************************************************************)
OwnSenderId ==
  \A s \in Sessions : \A i \in 1 .. Len(left[s]) :
    sessionId[written[left[s][i]]] = sessionId[s]

WritesFor(s, n) == Cardinality({i \in 1 .. n : written[i] = s})

(***************************************************************************)
(* A packet never leaves with an id older than its own: when the i-th      *)
(* packet of a session leaves, Broadcast has written the session's id for  *)
(* it, so that what it carries is that id or one that was written since.   *)
(***************************************************************************)
SenderIdCurrent ==
  \A s \in Sessions : \A i \in 1 .. Len(left[s]) : WritesFor(s, left[s][i]) >= i

(***************************************************************************)
(* Every session whose connection comes about, or is refused, takes part   *)
(* in the broadcasts in the end, and does so until it has disconnected.    *)
(***************************************************************************)
JoinsBroadcasts == \A s \in Sessions : life[s] = "posted" ~> crashed \/ s \in manager
=============================================================================
