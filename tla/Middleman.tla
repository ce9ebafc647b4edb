----------------------------- MODULE Middleman -----------------------------
(***************************************************************************)
(* The relay (MainServer): the client sessions (SToCSession), the sessions *)
(* of the logic server (SToLSession), one after the other, and the two     *)
(* session managers through which they send to each other.                 *)
(*                                                                         *)
(* A client's packet goes to the logic server; a packet of the logic       *)
(* server goes to every client.  The relay adds packets of its own: it     *)
(* tells each host its session id (INFO), and tells the logic server who   *)
(* comes and goes (CONNECTED, DISCONNECTED).                               *)
(*                                                                         *)
(* Each call of a manager runs under the manager's lock and is one step,   *)
(* but for Broadcast, which sends to one client per step with the lock     *)
(* held for reading.  What Session::Send accepts is recorded in the        *)
(* session's log; module Session shows that it leaves in this order.  A    *)
(* session is one connection: its receive chain (OnConnected, then one     *)
(* handler after the other) and its disconnect run on any two workers.     *)
(***************************************************************************)
EXTENDS Service, Sequences

CONSTANTS
  Logics,     \* the sessions of the logic server
  NoSession,  \* nullptr
  MaxPackets  \* bound of the model: number of packets received from each host

\* The last of these holds for MAX_CLIENT_COUNT.  It leaves an id for the session
\* that waits to be connected.
ASSUME MiddlemanAssumption ==
  /\ Sessions \cap Logics = {}
  /\ NoSession \notin Sessions \cup Logics
  /\ MaxPackets \in [Sessions \cup Logics -> Nat]
  /\ MaxSessionCount < SYSTEM_MAXIMUM_SESSION_COUNT

Hosts == Sessions \cup Logics

VARIABLES
  serverStarted,   \* _serverService has been started
  logicConnected,  \* LogicServerService::_isConnected
  logicSession,    \* GSToLSessionManager._session
  clientSessions,  \* GSToCSessionManager._sessions
  connected,       \* Session::_connected
  chain,           \* where the receive chain of each session stands
  closing,         \* where the disconnect of each session stands
  targets,         \* whom the broadcast of a logic session has yet to reach
  received,        \* number of packets received from each host
  log,             \* what Session::Send has accepted for each host
  logicLost        \* history: a logic session has been disconnected

managerVars == <<serverStarted, logicConnected, logicSession, clientSessions>>
linkVars == <<connected, closing, logicLost>>
vars == <<serviceVars, managerVars, linkVars, chain, targets, received, log>>

Init ==
  /\ ServiceInit
  /\ serverStarted = FALSE
  /\ logicConnected = FALSE
  /\ logicSession = NoSession
  /\ clientSessions = [id \in Ids |-> NoSession]
  /\ connected = [x \in Hosts |-> FALSE]
  /\ chain = [x \in Hosts |-> "unused"]
  /\ closing = [x \in Hosts |-> "open"]
  /\ targets = [l \in Logics |-> {}]
  /\ received = [x \in Hosts |-> 0]
  /\ log = [x \in Hosts |-> <<>>]
  /\ logicLost = FALSE

Packet(type, host, number) == [type |-> type, of |-> host, number |-> number]

\* The chain of x goes on to another place; its disconnect does.
Goto(x, from, to) == chain[x] = from /\ chain' = [chain EXCEPT ![x] = to]
Close(x, from, to) == closing[x] = from /\ closing' = [closing EXCEPT ![x] = to]

\* Session::Send: a session that is not connected ignores the packet.
Send(x, packet) ==
  log' = [log EXCEPT ![x] = IF connected[x] THEN Append(@, packet) ELSE @]

\* GSToLSessionManager.Send dereferences whatever session it has.
SendToLogic(packet) ==
  \/ logicSession # NoSession /\ Send(logicSession, packet) /\ UNCHANGED crashed
  \/ logicSession = NoSession /\ crashed' = TRUE /\ UNCHANGED log

\* GSToCSessionManager.Send drops a packet for an id it does not know.
SendToClient(id, packet) ==
  \/ clientSessions[id] # NoSession /\ Send(clientSessions[id], packet)
  \/ clientSessions[id] = NoSession /\ UNCHANGED log

\* A mistaken lock, which the broadcast of a logic session holds only until the next
\* is set.
MutantClientsUnlocked == logicSession # NoSession => chain[logicSession] # "broadcasting"

\* A writer gets the lock of GSToCSessionManager when no broadcast is under way.
ClientsUnlocked == \A l \in Logics : chain[l] # "broadcasting"

\* Session::Disconnect; DisconnectEx is under way, or fails.
Disconnect(x) ==
  \/ ~connected[x] /\ UNCHANGED linkVars
  \/ /\ connected[x]
     /\ connected' = [connected EXCEPT ![x] = FALSE]
     /\ Close(x, "open", "pending") \/ Close(x, "open", "stuck")
     /\ logicLost' = (logicLost \/ x \in Logics)

\* RegisterRecv gives up on a session that is not connected, and may fail.
RegisterRecv(x) ==
  \/ connected[x] /\ chain' = [chain EXCEPT ![x] = "receiving"]
  \/ chain' = [chain EXCEPT ![x] = "ended"]

-----------------------------------------------------------------------------
(***************************************************************************)
(* Plausible mistakes in the code below, each the wrong twin of the action *)
(* whose name it bears.                                                    *)
(***************************************************************************)

\* The listener registers the next accept before it connects the session.
MutantMayAccept == \A s \in Sessions : chain[s] # "created"

\* The relay does not wait for the logic server.
MutantStart ==
  /\ ~serverStarted
  /\ serverStarted' = TRUE
  /\ UNCHANGED <<serviceVars, logicConnected, logicSession, clientSessions, linkVars,
                 chain, targets, received, log>>

\* The flag is not raised.
MutantSetConnectedTo(l) ==
  /\ Goto(l, "flag", "info")
  /\ UNCHANGED <<serviceVars, managerVars, linkVars, targets, received, log>>

\* The logic server is not told of the client.
MutantSendInfo(s) ==
  /\ ClientsUnlocked
  /\ Goto(s, "info", "receiving")
  /\ SendToClient(sessionId[s], Packet("INFO", s, 0))
  /\ UNCHANGED <<serviceVars, managerVars, linkVars, targets, received>>

\* The session leaves its service before its manager.
MutantNotify(s) ==
  /\ s \in Sessions
  /\ Close(s, "pending", "remove")
  /\ logicSession # NoSession
  /\ Send(logicSession, Packet("DISCONNECTED", s, 0))
  /\ ReleaseSession(s)
  /\ UNCHANGED <<managerVars, connected, logicLost, chain, targets, received>>

\* A client may be sent the packet again.
MutantBroadcastTo(l, s) ==
  /\ chain[l] = "broadcasting"
  /\ s \in targets[l]
  /\ \/ targets' = [targets EXCEPT ![l] = @ \ {s}]
     \/ UNCHANGED targets
  /\ Send(s, Packet("DATA", l, received[l]))
  /\ UNCHANGED <<serviceVars, managerVars, linkVars, chain, received>>

\* The lock is not given back if the logic server has gone.
MutantBroadcastEnd(l) ==
  /\ chain[l] = "broadcasting"
  /\ targets[l] = {}
  /\ connected[l]
  /\ \/ RegisterRecv(l)
     \/ received[l] < MaxPackets[l] /\ chain' = [chain EXCEPT ![l] = "relaying"]
  /\ UNCHANGED <<serviceVars, managerVars, linkVars, targets, received, log>>

-----------------------------------------------------------------------------
(***************************************************************************)
(* The logic server connects: its service has room for one session, so the *)
(* previous one has been released.                                         *)
(***************************************************************************)

AcceptLogic(l) ==
  /\ \A k \in Logics \ {l} : chain[k] = "unused" \/ closing[k] = "released"
  /\ \A k \in Logics : chain[k] \notin {"set", "flag", "info"}
  /\ Goto(l, "unused", "set")
  /\ connected' = [connected EXCEPT ![l] = TRUE]
  /\ UNCHANGED <<serviceVars, managerVars, closing, logicLost, targets, received, log>>

\* OnConnected of SToLSession.
Set(l) ==
  /\ Goto(l, "set", "flag")
  /\ logicSession' = l
  /\ UNCHANGED <<serviceVars, serverStarted, logicConnected, clientSessions, linkVars,
                 targets, received, log>>

SetConnectedTo(l) ==
  /\ Goto(l, "flag", "info")
  /\ logicConnected' = TRUE
  /\ UNCHANGED <<serviceVars, serverStarted, logicSession, clientSessions, linkVars,
                 targets, received, log>>

SendLogicInfo(l) ==
  /\ chain[l] = "info"
  /\ SendToLogic(Packet("INFO", l, 0))
  /\ RegisterRecv(l)
  /\ UNCHANGED <<sessions, sessionCount, idVars, managerVars, linkVars, targets, received>>

\* The main thread has waited for the logic server and starts to accept clients.
Start ==
  /\ ~serverStarted
  /\ logicConnected
  /\ serverStarted' = TRUE
  /\ UNCHANGED <<serviceVars, logicConnected, logicSession, clientSessions, linkVars,
                 chain, targets, received, log>>

-----------------------------------------------------------------------------
(***************************************************************************)
(* A client connects.  One listener creates a session, waits for room,     *)
(* connects it, and runs its OnConnected, before it creates the next.      *)
(***************************************************************************)

MayAccept == \A s \in Sessions : chain[s] \notin {"created", "add", "info", "announce"}

Accept(s) ==
  /\ serverStarted
  /\ MayAccept
  /\ Goto(s, "unused", "created")
  /\ CreateSession(s)
  /\ UNCHANGED <<managerVars, linkVars, targets, received, log>>

ProcessConnect(s) ==
  /\ CanAddNewSession
  /\ Goto(s, "created", "add")
  /\ connected' = [connected EXCEPT ![s] = TRUE]
  /\ AddSession(s)
  /\ UNCHANGED <<managerVars, closing, logicLost, targets, received, log>>

\* OnConnected of SToCSession.  Inserting into a map does not overwrite.
Add(s) ==
  /\ ClientsUnlocked
  /\ Goto(s, "add", "info")
  /\ clientSessions' = [clientSessions EXCEPT ![sessionId[s]] =
                          IF @ = NoSession THEN s ELSE @]
  /\ UNCHANGED <<serviceVars, serverStarted, logicConnected, logicSession, linkVars,
                 targets, received, log>>

SendInfo(s) ==
  /\ ClientsUnlocked
  /\ Goto(s, "info", "announce")
  /\ SendToClient(sessionId[s], Packet("INFO", s, 0))
  /\ UNCHANGED <<serviceVars, managerVars, linkVars, targets, received>>

\* The end of OnConnected, and RegisterRecv.
Announce(s) ==
  /\ chain[s] = "announce"
  /\ SendToLogic(Packet("CONNECTED", s, 0))
  /\ RegisterRecv(s)
  /\ UNCHANGED <<sessions, sessionCount, idVars, managerVars, linkVars, targets, received>>

-----------------------------------------------------------------------------
(***************************************************************************)
(* Packets.  A completed receive may hold several, and may be handled      *)
(* after somebody else has disconnected the session.                       *)
(***************************************************************************)

Receive(x) ==
  /\ received[x] < MaxPackets[x]
  /\ Goto(x, "receiving", "relaying")
  /\ UNCHANGED <<serviceVars, managerVars, linkVars, targets, received, log>>

\* A receive of zero bytes: the peer has left, or the receive was aborted.
ReceiveZero(x) ==
  /\ Goto(x, "receiving", "ended")
  /\ Disconnect(x)
  /\ UNCHANGED <<serviceVars, managerVars, targets, received, log>>

\* OnRecvPacket of SToCSession.
Relay(s) ==
  /\ s \in Sessions
  /\ chain[s] = "relaying"
  /\ received' = [received EXCEPT ![s] = @ + 1]
  /\ SendToLogic(Packet("DATA", s, received[s] + 1))
  /\ \/ RegisterRecv(s)
     \/ received[s] + 1 < MaxPackets[s] /\ UNCHANGED chain
  /\ UNCHANGED <<sessions, sessionCount, idVars, managerVars, linkVars, targets>>

\* OnRecvPacket of SToLSession: the manager is locked for reading ...
Broadcast(l) ==
  /\ l \in Logics
  /\ Goto(l, "relaying", "broadcasting")
  /\ received' = [received EXCEPT ![l] = @ + 1]
  /\ targets' = [targets EXCEPT ![l] = {clientSessions[id] : id \in Ids} \ {NoSession}]
  /\ UNCHANGED <<serviceVars, managerVars, linkVars, log>>

\* ... while every session in it is sent the packet ...
BroadcastTo(l, s) ==
  /\ chain[l] = "broadcasting"
  /\ s \in targets[l]
  /\ targets' = [targets EXCEPT ![l] = @ \ {s}]
  /\ Send(s, Packet("DATA", l, received[l]))
  /\ UNCHANGED <<serviceVars, managerVars, linkVars, chain, received>>

\* ... and then unlocked.
BroadcastEnd(l) ==
  /\ chain[l] = "broadcasting"
  /\ targets[l] = {}
  /\ \/ RegisterRecv(l)
     \/ received[l] < MaxPackets[l] /\ chain' = [chain EXCEPT ![l] = "relaying"]
  /\ UNCHANGED <<serviceVars, managerVars, linkVars, targets, received, log>>

-----------------------------------------------------------------------------
\* A send fails, or completes with zero bytes, and disconnects the session.
SendFails(x) ==
  /\ log[x] # <<>>
  /\ connected[x]
  /\ Disconnect(x)
  /\ UNCHANGED <<serviceVars, managerVars, chain, targets, received, log>>

\* A worker takes the completion of DisconnectEx: OnDisconnected of SToCSession.
Notify(s) ==
  /\ s \in Sessions
  /\ Close(s, "pending", "remove")
  /\ SendToLogic(Packet("DISCONNECTED", s, 0))
  /\ UNCHANGED <<sessions, sessionCount, idVars, managerVars, connected, logicLost, chain,
                 targets, received>>

Remove(s) ==
  /\ s \in Sessions
  /\ ClientsUnlocked
  /\ Close(s, "remove", "release")
  /\ clientSessions' = [clientSessions EXCEPT ![sessionId[s]] = NoSession]
  /\ UNCHANGED <<serviceVars, serverStarted, logicConnected, logicSession, connected,
                 logicLost, chain, targets, received, log>>

\* The end of ProcessDisconnect.
Release(s) ==
  /\ s \in Sessions
  /\ Close(s, "release", "released")
  /\ ReleaseSession(s)
  /\ UNCHANGED <<managerVars, connected, logicLost, chain, targets, received, log>>

\* OnDisconnected of SToLSession; the flag _isConnected stays up.
RemoveLogic(l) ==
  /\ l \in Logics
  /\ Close(l, "pending", "release")
  /\ logicSession' = NoSession
  /\ UNCHANGED <<serviceVars, serverStarted, logicConnected, clientSessions, connected,
                 logicLost, chain, targets, received, log>>

ReleaseLogic(l) ==
  /\ l \in Logics
  /\ Close(l, "release", "released")
  /\ UNCHANGED <<serviceVars, managerVars, connected, logicLost, chain, targets, received,
                 log>>

-----------------------------------------------------------------------------
\* What a thread that has begun something goes on to do.
Step(x) ==
  \/ x \in Logics /\ (Set(x) \/ SetConnectedTo(x) \/ SendLogicInfo(x))
  \/ x \in Sessions /\ (Add(x) \/ SendInfo(x) \/ Announce(x))
  \/ Relay(x)
  \/ Broadcast(x) \/ BroadcastEnd(x) \/ \E s \in Sessions : BroadcastTo(x, s)

DisconnectStep(x) ==
  \/ Notify(x) \/ Remove(x) \/ Release(x)
  \/ RemoveLogic(x) \/ ReleaseLogic(x)

\* A crash is the end of the program.
Next ==
  /\ ~crashed
  /\ \/ Start
     \/ \E l \in Logics : AcceptLogic(l)
     \/ \E s \in Sessions : Accept(s) \/ ProcessConnect(s)
     \/ \E x \in Hosts :
          Receive(x) \/ ReceiveZero(x) \/ SendFails(x) \/ Step(x) \/ DisconnectStep(x)

Spec == Init /\ [][Next]_vars

(***************************************************************************)
(* Threads run on and completions are taken.  A writer that waits for the  *)
(* lock of GSToCSessionManager gets it if the broadcasts come to an end.   *)
(* Nothing makes a host connect, send or leave.                            *)
(***************************************************************************)
Fairness ==
  /\ WF_vars(~crashed /\ Start)
  /\ \A x \in Hosts : WF_vars(~crashed /\ Step(x)) /\ WF_vars(~crashed /\ DisconnectStep(x))

FairSpec == Spec /\ Fairness

-----------------------------------------------------------------------------
ChainStates == {"unused", "created", "add", "set", "flag", "info", "announce",
                "receiving", "relaying", "broadcasting", "ended"}
ClosingStates == {"open", "pending", "stuck", "remove", "release", "released"}
Packets == [type : {"INFO", "CONNECTED", "DISCONNECTED", "DATA"}, of : Hosts, number : Nat]

\* Every variable has its type.
TypeOK ==
  /\ ServiceTypeOK
  /\ serverStarted \in BOOLEAN
  /\ logicConnected \in BOOLEAN
  /\ logicSession \in Logics \cup {NoSession}
  /\ clientSessions \in [Ids -> Sessions \cup {NoSession}]
  /\ connected \in [Hosts -> BOOLEAN]
  /\ chain \in [Hosts -> ChainStates]
  /\ closing \in [Hosts -> ClosingStates]
  /\ targets \in [Logics -> SUBSET Sessions]
  /\ received \in [Hosts -> Nat]
  /\ log \in [Hosts -> Seq(Packets)]
  /\ logicLost \in BOOLEAN

\* OnConnected of s has registered it with the manager, OnDisconnected has not
\* removed it.
Listed(s) ==
  /\ chain[s] \notin {"unused", "created", "add"}
  /\ closing[s] \notin {"release", "released"}

(***************************************************************************)
(* GSToCSessionManager holds exactly the sessions that are registered with *)
(* it, each under its own id, though ids are used again: no session keeps  *)
(* another out, and none is erased by another's Remove.                    *)
(***************************************************************************)
ManagerExact ==
  /\ \A s \in Sessions : Listed(s) => clientSessions[sessionId[s]] = s
  /\ \A id \in Ids : clientSessions[id] # NoSession =>
       Listed(clientSessions[id]) /\ sessionId[clientSessions[id]] = id

(***************************************************************************)
(* The relay cannot be asked to send to a logic server that is not there   *)
(* before a first logic server has gone: clients are accepted only when    *)
(* the session has been set.                                               *)
(***************************************************************************)
NoCrashBeforeLogicLost == crashed => logicLost

\* p is a packet of y that has been passed on.
IsData(p, y) == p.type = "DATA" /\ p.of = y

\* Between two packets of y that follow each other in q none is missing.
Gapless(q, y) ==
  \A i, k \in 1 .. Len(q) :
    /\ i < k
    /\ IsData(q[i], y) /\ IsData(q[k], y)
    /\ \A j \in i + 1 .. k - 1 : ~IsData(q[j], y)
    => q[k].number = q[i].number + 1

(***************************************************************************)
(* What a host gets of another's packets is a run of them, in order and    *)
(* without a gap, however broadcasts, joins and disconnects interleave.    *)
(***************************************************************************)
RelayedInOrder == \A x, y \in Hosts : Gapless(log[x], y)

(***************************************************************************)
(* The logic server hears of a client before it hears from it.             *)
(***************************************************************************)
ConnectedBeforeData ==
  \A l \in Logics : \A i, j \in 1 .. Len(log[l]) :
    log[l][i].type = "CONNECTED" /\ log[l][j].type = "DATA" /\ log[l][i].of = log[l][j].of
      => i < j

(***************************************************************************)
(* Once the logic server has been told that an id has come, it is told     *)
(* nothing any more about an earlier client of that id: neither that it    *)
(* has come nor that it has gone.                                          *)
(***************************************************************************)
IdHandedOver ==
  \A l \in Logics : \A j \in 1 .. Len(log[l]) :
    LET new == log[l][j].of
        Named(places) == {log[l][i].of : i \in
          {i \in places : /\ log[l][i].type \in {"CONNECTED", "DISCONNECTED"}
                         /\ sessionId[log[l][i].of] = sessionId[new]}}
    IN  log[l][j].type = "CONNECTED" =>
          Named(1 .. j - 1) \cap Named(j + 1 .. Len(log[l])) \subseteq {new}

Told(type, s) ==
  \E l \in Logics : \E i \in 1 .. Len(log[l]) : log[l][i].type = type /\ log[l][i].of = s

(***************************************************************************)
(* As long as the logic server stays, it learns of every client that has   *)
(* begun to receive and of every one that the manager has forgotten.       *)
(***************************************************************************)
LogicServerInformed ==
  ~logicLost => \A s \in Sessions :
    /\ chain[s] \in {"receiving", "relaying", "ended"} => Told("CONNECTED", s)
    /\ closing[s] \in {"remove", "release", "released"} => Told("DISCONNECTED", s)

(***************************************************************************)
(* The first packet a client is sent is the one that tells it its session  *)
(* id: the comment in SToCSession::OnConnected.                            *)
(***************************************************************************)
ClientInfoFirst == \A s \in Sessions : log[s] # <<>> => log[s][1].type = "INFO"

(***************************************************************************)
(* What the hosts see of the relay.  Who is a member is what Broadcast     *)
(* finds in the manager.                                                   *)
(***************************************************************************)
Link(x) ==
  IF connected[x] THEN "open" ELSE IF closing[x] = "open" THEN "none" ELSE "closed"

Welcomed(x) ==
  IF chain[x] \in {"unused", "created", "add", "set"} THEN "new"
  ELSE IF chain[x] \in {"flag", "info"} THEN "enrolled"
  ELSE IF x \in Logics \/ chain[x] = "announce" THEN "introduced"
  ELSE "announced"

Links == [x \in Hosts |-> Link(x)]
Welcomes == [x \in Hosts |-> Welcomed(x)]
Members == {clientSessions[id] : id \in Ids} \ {NoSession}
Departed == {s \in Sessions : closing[s] \in {"remove", "release", "released"}}

Board == INSTANCE Switchboard WITH
  Clients <- Sessions, Servers <- Logics,
  link <- Links, welcome <- Welcomes, members <- Members, departed <- Departed,
  passed <- received, due <- targets, inbox <- log

(***************************************************************************)
(* The two managers, the id pool, the lock and the workers together do     *)
(* what the switchboard does: every packet goes exactly once to exactly    *)
(* those it is meant for, and a host gets nothing else.                    *)
(***************************************************************************)
ImplementsSwitchboard == Board!Spec

\* When the logic server connects the relay begins to accept clients.
StartsUp == (\E l \in Logics : chain[l] = "set") ~> serverStarted

(***************************************************************************)
(* A client whose disconnect is under way gives its place and its id back  *)
(* in the end, unless the loss of the logic server crashes the relay.      *)
(***************************************************************************)
LeaversReleased ==
  \A s \in Sessions : closing[s] = "pending" ~> closing[s] = "released" \/ crashed
=============================================================================
