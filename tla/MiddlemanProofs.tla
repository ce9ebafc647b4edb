-------------------------- MODULE MiddlemanProofs --------------------------
(***************************************************************************)
(* Theorems about Middleman, and Delivery on top of it, for every set of   *)
(* sessions, every number of packets, every size of pool and service.      *)
(***************************************************************************)
EXTENDS Delivery, ServiceProofs

\* Each action, and who takes it.
LEMMA NextCases ==
  [Next]_vars =>
    \/ Start
    \/ \E l \in Logics : AcceptLogic(l)
    \/ \E l \in Logics : Set(l)
    \/ \E l \in Logics : SetConnectedTo(l)
    \/ \E l \in Logics : SendLogicInfo(l)
    \/ \E s \in Sessions : Accept(s)
    \/ \E s \in Sessions : ProcessConnect(s)
    \/ \E s \in Sessions : Add(s)
    \/ \E s \in Sessions : SendInfo(s)
    \/ \E s \in Sessions : Announce(s)
    \/ \E x \in Hosts : Receive(x)
    \/ \E x \in Hosts : ReceiveZero(x)
    \/ \E s \in Sessions : Relay(s)
    \/ \E l \in Logics : Broadcast(l)
    \/ \E x \in Hosts, s \in Sessions : BroadcastTo(x, s)
    \/ \E x \in Hosts : BroadcastEnd(x)
    \/ \E x \in Hosts : SendFails(x)
    \/ \E s \in Sessions : Notify(s)
    \/ \E s \in Sessions : Remove(s)
    \/ \E s \in Sessions : Release(s)
    \/ \E l \in Logics : RemoveLogic(l)
    \/ \E l \in Logics : ReleaseLogic(l)
    \/ UNCHANGED vars
<1>1. ASSUME NEW x \in Hosts, Step(x)
      PROVE  \/ x \in Logics /\ (Set(x) \/ SetConnectedTo(x) \/ SendLogicInfo(x))
             \/ x \in Logics /\ Broadcast(x)
             \/ x \in Sessions /\ (Add(x) \/ SendInfo(x) \/ Announce(x) \/ Relay(x))
             \/ BroadcastEnd(x) \/ \E s \in Sessions : BroadcastTo(x, s)
  BY <1>1, Zenon DEF Step, Relay, Broadcast
<1>2. ASSUME NEW x \in Hosts, DisconnectStep(x)
      PROVE  \/ x \in Logics /\ (RemoveLogic(x) \/ ReleaseLogic(x))
             \/ x \in Sessions /\ (Notify(x) \/ Remove(x) \/ Release(x))
  BY <1>2, Zenon DEF DisconnectStep, Notify, Remove, Release, RemoveLogic, ReleaseLogic
<1> QED
  BY <1>1, <1>2, Zenon DEF Next

-----------------------------------------------------------------------------
(***************************************************************************)
(* Types, of those variables that the theorems are about, and which hosts  *)
(* are ever found in which places.                                         *)
(***************************************************************************)

ClientChain == {"unused", "created", "add", "info", "announce",
                "receiving", "relaying", "ended"}
LogicChain == {"unused", "set", "flag", "info",
               "receiving", "relaying", "broadcasting", "ended"}

Placed ==
  /\ chain \in [Hosts -> ChainStates]
  /\ \A s \in Sessions : chain[s] \in ClientChain
  /\ \A l \in Logics : chain[l] \in LogicChain
  /\ closing \in [Hosts -> ClosingStates]

Data ==
  /\ sessionId \in [Sessions -> Ids]
  /\ sessions \subseteq Sessions
  /\ sessionCount \in Int
  /\ lastUsedSessionId \in Ids
  /\ logicSession \in Logics \cup {NoSession}
  /\ clientSessions \in [Ids -> Sessions \cup {NoSession}]

Flags ==
  /\ sessionIdPool \in [Ids -> BOOLEAN]
  /\ exhausted \in BOOLEAN
  /\ crashed \in BOOLEAN
  /\ serverStarted \in BOOLEAN
  /\ logicConnected \in BOOLEAN
  /\ logicLost \in BOOLEAN
  /\ connected \in [Hosts -> BOOLEAN]

\* The hosts are where they should be at first.
LEMMA PlacesInit == Init => Placed
BY SMT DEF Init, Placed, Hosts, ClientChain, LogicChain, ChainStates, ClosingStates

\* Every step leaves them in such places.
LEMMA PlacesNext == Placed /\ [Next]_vars => Placed'
<1> SUFFICES ASSUME Placed, [Next]_vars PROVE Placed'
  OBVIOUS
<1> USE DEF Placed, Hosts, ClientChain, LogicChain, ChainStates, ClosingStates, serviceVars,
   idVars, managerVars, linkVars
<1>1. CASE Start
  BY <1>1, MiddlemanAssumption, SMT DEF Start
<1>2. ASSUME NEW l \in Logics, AcceptLogic(l) PROVE Placed'
  BY <1>2, MiddlemanAssumption, SMT DEF AcceptLogic, Goto
<1>3. ASSUME NEW l \in Logics, Set(l) PROVE Placed'
  BY <1>3, MiddlemanAssumption, SMT DEF Set, Goto
<1>4. ASSUME NEW l \in Logics, SetConnectedTo(l) PROVE Placed'
  BY <1>4, MiddlemanAssumption, SMT DEF SetConnectedTo, Goto
<1>5. ASSUME NEW l \in Logics, SendLogicInfo(l) PROVE Placed'
  BY <1>5, MiddlemanAssumption, SMT DEF SendLogicInfo, RegisterRecv
<1>6. ASSUME NEW s \in Sessions, Accept(s) PROVE Placed'
  BY <1>6, MiddlemanAssumption, SMT DEF Accept, MayAccept, Goto
<1>7. ASSUME NEW s \in Sessions, ProcessConnect(s) PROVE Placed'
  BY <1>7, MiddlemanAssumption, SMT DEF ProcessConnect, CanAddNewSession, Goto, AddSession
<1>8. ASSUME NEW s \in Sessions, Add(s) PROVE Placed'
  BY <1>8, MiddlemanAssumption, SMT DEF Add, ClientsUnlocked, Goto
<1>9. ASSUME NEW s \in Sessions, SendInfo(s) PROVE Placed'
  BY <1>9, MiddlemanAssumption, SMT DEF SendInfo, Goto
<1>10. ASSUME NEW s \in Sessions, Announce(s) PROVE Placed'
  BY <1>10, MiddlemanAssumption, SMT DEF Announce, RegisterRecv
<1>11. ASSUME NEW x \in Hosts, Receive(x) PROVE Placed'
  BY <1>11, MiddlemanAssumption, SMT DEF Receive, Goto
<1>12. ASSUME NEW x \in Hosts, ReceiveZero(x) PROVE Placed'
  BY <1>12, MiddlemanAssumption, SMT DEF ReceiveZero, Goto, Disconnect, Close
<1>13. ASSUME NEW s \in Sessions, Relay(s) PROVE Placed'
  BY <1>13, MiddlemanAssumption, SMT DEF Relay, RegisterRecv
<1>14. ASSUME NEW l \in Logics, Broadcast(l) PROVE Placed'
  BY <1>14, MiddlemanAssumption, SMT DEF Broadcast, Goto
<1>15. ASSUME NEW x \in Hosts, NEW s \in Sessions, BroadcastTo(x, s)
       PROVE  Placed'
  BY <1>15, MiddlemanAssumption, SMT DEF BroadcastTo
<1>16. ASSUME NEW x \in Hosts, BroadcastEnd(x) PROVE Placed'
  BY <1>16, MiddlemanAssumption, SMT DEF BroadcastEnd, RegisterRecv
<1>17. ASSUME NEW x \in Hosts, SendFails(x) PROVE Placed'
  BY <1>17, MiddlemanAssumption, SMT DEF SendFails, Disconnect, Close
<1>18. ASSUME NEW s \in Sessions, Notify(s) PROVE Placed'
  BY <1>18, MiddlemanAssumption, SMT DEF Notify, Close
<1>19. ASSUME NEW s \in Sessions, Remove(s) PROVE Placed'
  BY <1>19, MiddlemanAssumption, SMT DEF Remove, ClientsUnlocked, Close
<1>20. ASSUME NEW s \in Sessions, Release(s) PROVE Placed'
  BY <1>20, MiddlemanAssumption, SMT DEF Release, Close, ReleaseSession
<1>21. ASSUME NEW l \in Logics, RemoveLogic(l) PROVE Placed'
  BY <1>21, MiddlemanAssumption, SMT DEF RemoveLogic, Close
<1>22. ASSUME NEW l \in Logics, ReleaseLogic(l) PROVE Placed'
  BY <1>22, MiddlemanAssumption, SMT DEF ReleaseLogic, Close
<1>23. CASE UNCHANGED vars
  BY <1>23, MiddlemanAssumption, SMT DEF vars
<1> HIDE DEF Placed, Hosts, ClientChain, LogicChain, ChainStates, ClosingStates,
   serviceVars, idVars, managerVars, linkVars
<1> QED
  BY <1>1, <1>2, <1>3, <1>4, <1>5, <1>6, <1>7, <1>8, <1>9, <1>10, <1>11, <1>12, <1>13,
     <1>14, <1>15, <1>16, <1>17, <1>18, <1>19, <1>20, <1>21, <1>22, <1>23, NextCases, Zenon

\* The initial state has its types.
LEMMA TypeInit == Init => Data /\ Flags
<1>1. Init => Data
  BY ZeroIsId, SMT DEF Init, ServiceInit, Data
<1>2. Init => Flags
  <2>1. Init => sessionIdPool \in [Ids -> BOOLEAN]
    BY Zenon DEF Init, ServiceInit
  <2>2. Init => connected \in [Hosts -> BOOLEAN]
    BY Zenon DEF Init
  <2>3. Init => /\ exhausted = FALSE /\ crashed = FALSE
                /\ serverStarted = FALSE /\ logicConnected = FALSE /\ logicLost = FALSE
    BY Zenon DEF Init, ServiceInit
  <2> QED
    BY <2>1, <2>2, <2>3, Zenon DEF Flags
<1> QED
  BY <1>1, <1>2

\* Every step keeps the types.
LEMMA DataNext == Placed /\ Data /\ [Next]_vars => Data'
<1> SUFFICES ASSUME Placed, Data, [Next]_vars PROVE Data'
  OBVIOUS
<1> USE DEF Placed, Data, Hosts, serviceVars, idVars, managerVars, linkVars
<1>1. CASE Start
  BY <1>1, SMT DEF Start
<1>2. ASSUME NEW l \in Logics, AcceptLogic(l) PROVE Data'
  BY <1>2, SMT DEF AcceptLogic
<1>3. ASSUME NEW l \in Logics, Set(l) PROVE Data'
  BY <1>3, SMT DEF Set
<1>4. ASSUME NEW l \in Logics, SetConnectedTo(l) PROVE Data'
  BY <1>4, SMT DEF SetConnectedTo
<1>5. ASSUME NEW l \in Logics, SendLogicInfo(l) PROVE Data'
  BY <1>5, SMT DEF SendLogicInfo
<1>6. ASSUME NEW s \in Sessions, Accept(s) PROVE Data'
  <2>1. /\ CreateSession(s)
        /\ UNCHANGED <<logicSession, clientSessions>>
    BY <1>6, Zenon DEF Accept
  <2> QED
    BY <2>1, CreateSessionCases, ZeroIsId, Zenon DEF TakeId
<1>7. ASSUME NEW s \in Sessions, ProcessConnect(s) PROVE Data'
  BY <1>7, SMT DEF ProcessConnect, AddSession
<1>8. ASSUME NEW s \in Sessions, Add(s) PROVE Data'
  BY <1>8, SMT DEF Add
<1>9. ASSUME NEW s \in Sessions, SendInfo(s) PROVE Data'
  BY <1>9, SMT DEF SendInfo
<1>10. ASSUME NEW s \in Sessions, Announce(s) PROVE Data'
  BY <1>10, SMT DEF Announce
<1>11. ASSUME NEW x \in Hosts, Receive(x) PROVE Data'
  BY <1>11, SMT DEF Receive
<1>12. ASSUME NEW x \in Hosts, ReceiveZero(x) PROVE Data'
  BY <1>12, SMT DEF ReceiveZero
<1>13. ASSUME NEW s \in Sessions, Relay(s) PROVE Data'
  BY <1>13, SMT DEF Relay
<1>14. ASSUME NEW l \in Logics, Broadcast(l) PROVE Data'
  BY <1>14, SMT DEF Broadcast
<1>15. ASSUME NEW x \in Hosts, NEW s \in Sessions, BroadcastTo(x, s) PROVE Data'
  BY <1>15, SMT DEF BroadcastTo
<1>16. ASSUME NEW x \in Hosts, BroadcastEnd(x) PROVE Data'
  BY <1>16, SMT DEF BroadcastEnd
<1>17. ASSUME NEW x \in Hosts, SendFails(x) PROVE Data'
  BY <1>17, SMT DEF SendFails
<1>18. ASSUME NEW s \in Sessions, Notify(s) PROVE Data'
  BY <1>18, SMT DEF Notify
<1>19. ASSUME NEW s \in Sessions, Remove(s) PROVE Data'
  BY <1>19, SMT DEF Remove
<1>20. ASSUME NEW s \in Sessions, Release(s) PROVE Data'
  BY <1>20, SMT DEF Release, ReleaseSession
<1>21. ASSUME NEW l \in Logics, RemoveLogic(l) PROVE Data'
  BY <1>21, SMT DEF RemoveLogic
<1>22. ASSUME NEW l \in Logics, ReleaseLogic(l) PROVE Data'
  BY <1>22, SMT DEF ReleaseLogic
<1>23. CASE UNCHANGED vars
  BY <1>23, SMT DEF vars
<1> HIDE DEF Placed, Data, Hosts, serviceVars, idVars, managerVars, linkVars
<1> QED
  BY <1>1, <1>2, <1>3, <1>4, <1>5, <1>6, <1>7, <1>8, <1>9, <1>10, <1>11, <1>12, <1>13,
     <1>14, <1>15, <1>16, <1>17, <1>18, <1>19, <1>20, <1>21, <1>22, <1>23, NextCases, Zenon

\* Every step keeps the Boolean types.
LEMMA FlagsNext == Placed /\ Data /\ Flags /\ [Next]_vars => Flags'
<1> SUFFICES ASSUME Placed, Data, Flags, [Next]_vars PROVE Flags'
  OBVIOUS
<1> USE DEF Flags, Hosts, serviceVars, idVars, managerVars, linkVars
<1>1. CASE Start
  BY <1>1, Zenon DEF Start
<1>2. ASSUME NEW l \in Logics, AcceptLogic(l) PROVE Flags'
  BY <1>2, Zenon DEF AcceptLogic
<1>3. ASSUME NEW l \in Logics, Set(l) PROVE Flags'
  BY <1>3, Zenon DEF Set
<1>4. ASSUME NEW l \in Logics, SetConnectedTo(l) PROVE Flags'
  BY <1>4, Zenon DEF SetConnectedTo
<1>5. ASSUME NEW l \in Logics, SendLogicInfo(l) PROVE Flags'
  BY <1>5, Zenon DEF SendLogicInfo, SendToLogic
<1>6. ASSUME NEW s \in Sessions, Accept(s) PROVE Flags'
  <2>1. CreateSession(s)
    BY <1>6, Zenon DEF Accept
  <2>2. lastUsedSessionId \in Ids
    BY Zenon DEF Data
  <2> QED
    BY <1>6, <2>1, <2>2, CreateSessionCases, Zenon DEF TakeId, Accept
<1>7. ASSUME NEW s \in Sessions, ProcessConnect(s) PROVE Flags'
  BY <1>7, Zenon DEF ProcessConnect, AddSession
<1>8. ASSUME NEW s \in Sessions, Add(s) PROVE Flags'
  BY <1>8, Zenon DEF Add
<1>9. ASSUME NEW s \in Sessions, SendInfo(s) PROVE Flags'
  BY <1>9, Zenon DEF SendInfo, SendToClient
<1>10. ASSUME NEW s \in Sessions, Announce(s) PROVE Flags'
  BY <1>10, Zenon DEF Announce, SendToLogic
<1>11. ASSUME NEW x \in Hosts, Receive(x) PROVE Flags'
  BY <1>11, Zenon DEF Receive
<1>12. ASSUME NEW x \in Hosts, ReceiveZero(x) PROVE Flags'
  BY <1>12, Zenon DEF ReceiveZero, Disconnect
<1>13. ASSUME NEW s \in Sessions, Relay(s) PROVE Flags'
  BY <1>13, Zenon DEF Relay, SendToLogic
<1>14. ASSUME NEW l \in Logics, Broadcast(l) PROVE Flags'
  BY <1>14, Zenon DEF Broadcast
<1>15. ASSUME NEW x \in Hosts, NEW s \in Sessions, BroadcastTo(x, s)
       PROVE  Flags'
  BY <1>15, Zenon DEF BroadcastTo
<1>16. ASSUME NEW x \in Hosts, BroadcastEnd(x) PROVE Flags'
  BY <1>16, Zenon DEF BroadcastEnd
<1>17. ASSUME NEW x \in Hosts, SendFails(x) PROVE Flags'
  BY <1>17, Zenon DEF SendFails, Disconnect
<1>18. ASSUME NEW s \in Sessions, Notify(s) PROVE Flags'
  BY <1>18, Zenon DEF Notify, SendToLogic
<1>19. ASSUME NEW s \in Sessions, Remove(s) PROVE Flags'
  BY <1>19, Zenon DEF Remove
<1>20. ASSUME NEW s \in Sessions, Release(s) PROVE Flags'
  BY <1>20, Zenon DEF Release, ReleaseSession
<1>21. ASSUME NEW l \in Logics, RemoveLogic(l) PROVE Flags'
  BY <1>21, Zenon DEF RemoveLogic
<1>22. ASSUME NEW l \in Logics, ReleaseLogic(l) PROVE Flags'
  BY <1>22, Zenon DEF ReleaseLogic
<1>23. CASE UNCHANGED vars
  BY <1>23, Zenon DEF vars
<1> HIDE DEF Flags, Hosts, serviceVars, idVars, managerVars, linkVars
<1> QED
  BY <1>1, <1>2, <1>3, <1>4, <1>5, <1>6, <1>7, <1>8, <1>9, <1>10, <1>11, <1>12, <1>13,
     <1>14, <1>15, <1>16, <1>17, <1>18, <1>19, <1>20, <1>21, <1>22, <1>23, NextCases, Zenon

-----------------------------------------------------------------------------
\* What the relay receives, passes on, and has passed on.
Logs ==
  /\ received \in [Hosts -> Nat]
  /\ log \in [Hosts -> Seq(Packets)]
  /\ targets \in [Logics -> SUBSET Sessions]

\* Send appends a packet to one log, or does nothing.
LEMMA SendKeepsLogs ==
  ASSUME log \in [Hosts -> Seq(Packets)], NEW x \in Hosts, NEW packet \in Packets,
         Send(x, packet)
  PROVE  log' \in [Hosts -> Seq(Packets)]
BY SMT DEF Send

\* So does the manager of the logic server's session.
LEMMA SendToLogicKeepsLogs ==
  ASSUME Data, log \in [Hosts -> Seq(Packets)], NEW packet \in Packets, SendToLogic(packet)
  PROVE  log' \in [Hosts -> Seq(Packets)]
<1>1. CASE logicSession # NoSession /\ Send(logicSession, packet)
  <2>1. logicSession \in Hosts
    BY <1>1, Zenon DEF Data, Hosts
  <2> QED
    BY <1>1, <2>1, SendKeepsLogs
<1>2. CASE UNCHANGED log
  BY <1>2, Zenon
<1> QED
  BY <1>1, <1>2, Zenon DEF SendToLogic

\* And the manager of the clients.
LEMMA SendToClientKeepsLogs ==
  ASSUME Data, log \in [Hosts -> Seq(Packets)], NEW id \in Ids, NEW packet \in Packets,
         SendToClient(id, packet)
  PROVE  log' \in [Hosts -> Seq(Packets)]
<1>1. CASE clientSessions[id] # NoSession /\ Send(clientSessions[id], packet)
  <2>1. clientSessions[id] \in Hosts
    BY <1>1, Zenon DEF Data, Hosts
  <2> QED
    BY <1>1, <2>1, SendKeepsLogs
<1>2. CASE UNCHANGED log
  BY <1>2, Zenon
<1> QED
  BY <1>1, <1>2, Zenon DEF SendToClient

\* Only logic sessions broadcast.
LEMMA BroadcastersAreLogics ==
  Placed => \A x \in Hosts : chain[x] = "broadcasting" => x \in Logics
BY SMT DEF Placed, ClientChain, Hosts

\* What is sent is a packet.
LEMMA PacketType ==
  ASSUME NEW type \in {"INFO", "CONNECTED", "DISCONNECTED", "DATA"},
         NEW x \in Hosts, NEW n \in Nat
  PROVE  Packet(type, x, n) \in Packets
BY Zenon DEF Packet, Packets

\* There are no packets at first.
LEMMA LogsInit == Init => Logs
BY SMT DEF Init, Logs

\* Every step keeps the types of the packets.
LEMMA LogsNext == Placed /\ Data /\ Logs /\ [Next]_vars => Logs'
<1> SUFFICES ASSUME Placed, Data, Logs, [Next]_vars PROVE Logs'
  OBVIOUS
<1> USE DEF Logs, Hosts, serviceVars, idVars, managerVars, linkVars
<1>1. CASE Start
  BY <1>1, SMT DEF Start
<1>2. ASSUME NEW l \in Logics, AcceptLogic(l) PROVE Logs'
  BY <1>2, SMT DEF AcceptLogic
<1>3. ASSUME NEW l \in Logics, Set(l) PROVE Logs'
  BY <1>3, SMT DEF Set
<1>4. ASSUME NEW l \in Logics, SetConnectedTo(l) PROVE Logs'
  BY <1>4, SMT DEF SetConnectedTo
<1>5. ASSUME NEW l \in Logics, SendLogicInfo(l) PROVE Logs'
  <2>1. Packet("INFO", l, 0) \in Packets
    BY PacketType, SMT DEF Hosts
  <2>2. log' \in [Hosts -> Seq(Packets)]
    BY <1>5, <2>1, SendToLogicKeepsLogs, Zenon DEF SendLogicInfo
  <2> QED
    BY <1>5, <2>2, Zenon DEF SendLogicInfo
<1>6. ASSUME NEW s \in Sessions, Accept(s) PROVE Logs'
  BY <1>6, SMT DEF Accept
<1>7. ASSUME NEW s \in Sessions, ProcessConnect(s) PROVE Logs'
  BY <1>7, SMT DEF ProcessConnect
<1>8. ASSUME NEW s \in Sessions, Add(s) PROVE Logs'
  BY <1>8, SMT DEF Add
<1>9. ASSUME NEW s \in Sessions, SendInfo(s) PROVE Logs'
  <2>1. Packet("INFO", s, 0) \in Packets
    BY PacketType, SMT DEF Hosts
  <2>2. sessionId[s] \in Ids
    BY Zenon DEF Data
  <2>3. log' \in [Hosts -> Seq(Packets)]
    BY <1>9, <2>1, <2>2, SendToClientKeepsLogs, Zenon DEF SendInfo
  <2> QED
    BY <1>9, <2>3, Zenon DEF SendInfo
<1>10. ASSUME NEW s \in Sessions, Announce(s) PROVE Logs'
  <2>1. Packet("CONNECTED", s, 0) \in Packets
    BY PacketType, SMT DEF Hosts
  <2>2. log' \in [Hosts -> Seq(Packets)]
    BY <1>10, <2>1, SendToLogicKeepsLogs, Zenon DEF Announce
  <2> QED
    BY <1>10, <2>2, Zenon DEF Announce
<1>11. ASSUME NEW x \in Hosts, Receive(x) PROVE Logs'
  BY <1>11, SMT DEF Receive
<1>12. ASSUME NEW x \in Hosts, ReceiveZero(x) PROVE Logs'
  BY <1>12, SMT DEF ReceiveZero
<1>13. ASSUME NEW s \in Sessions, Relay(s) PROVE Logs'
  <2>1. Packet("DATA", s, received[s] + 1) \in Packets
    BY PacketType, SMT DEF Hosts
  <2>2. log' \in [Hosts -> Seq(Packets)]
    BY <1>13, <2>1, SendToLogicKeepsLogs, Zenon DEF Relay
  <2>3. received' = [received EXCEPT ![s] = @ + 1] /\ UNCHANGED targets
    BY <1>13, Zenon DEF Relay
  <2> QED
    BY <2>2, <2>3, SMT
<1>14. ASSUME NEW l \in Logics, Broadcast(l) PROVE Logs'
  <2>1. received' \in [Hosts -> Nat]
    <3>1. received' = [received EXCEPT ![l] = @ + 1]
      BY <1>14, Zenon DEF Broadcast
    <3> QED
      BY <3>1, SMT
  <2>2. {clientSessions[id] : id \in Ids} \ {NoSession} \subseteq Sessions
    BY Zenon DEF Data
  <2>3. targets' \in [Logics -> SUBSET Sessions]
    BY <1>14, <2>2, SMT DEF Broadcast
  <2> QED
    BY <1>14, <2>1, <2>3, Zenon DEF Broadcast
<1>15. ASSUME NEW x \in Hosts, NEW s \in Sessions, BroadcastTo(x, s) PROVE Logs'
  <2>1. x \in Logics
    <3>1. chain[x] = "broadcasting"
      BY <1>15, Zenon DEF BroadcastTo
    <3> QED
      BY <3>1, BroadcastersAreLogics, Zenon
  <2>2. Packet("DATA", x, received[x]) \in Packets
    BY PacketType, SMT
  <2>3. log' \in [Hosts -> Seq(Packets)]
    BY <1>15, <2>2, SendKeepsLogs, Zenon DEF BroadcastTo, Hosts
  <2>4. targets' \in [Logics -> SUBSET Sessions]
    BY <1>15, <2>1, SMT DEF BroadcastTo
  <2> QED
    BY <1>15, <2>3, <2>4, Zenon DEF BroadcastTo
<1>16. ASSUME NEW x \in Hosts, BroadcastEnd(x) PROVE Logs'
  BY <1>16, SMT DEF BroadcastEnd
<1>17. ASSUME NEW x \in Hosts, SendFails(x) PROVE Logs'
  BY <1>17, SMT DEF SendFails
<1>18. ASSUME NEW s \in Sessions, Notify(s) PROVE Logs'
  <2>1. Packet("DISCONNECTED", s, 0) \in Packets
    BY PacketType, SMT DEF Hosts
  <2>2. log' \in [Hosts -> Seq(Packets)]
    BY <1>18, <2>1, SendToLogicKeepsLogs, Zenon DEF Notify
  <2> QED
    BY <1>18, <2>2, Zenon DEF Notify
<1>19. ASSUME NEW s \in Sessions, Remove(s) PROVE Logs'
  BY <1>19, SMT DEF Remove
<1>20. ASSUME NEW s \in Sessions, Release(s) PROVE Logs'
  BY <1>20, SMT DEF Release
<1>21. ASSUME NEW l \in Logics, RemoveLogic(l) PROVE Logs'
  BY <1>21, SMT DEF RemoveLogic
<1>22. ASSUME NEW l \in Logics, ReleaseLogic(l) PROVE Logs'
  BY <1>22, SMT DEF ReleaseLogic
<1>23. CASE UNCHANGED vars
  BY <1>23, SMT DEF vars
<1> HIDE DEF Logs, Hosts, serviceVars, idVars, managerVars, linkVars
<1> QED
  BY <1>1, <1>2, <1>3, <1>4, <1>5, <1>6, <1>7, <1>8, <1>9, <1>10, <1>11, <1>12, <1>13,
     <1>14, <1>15, <1>16, <1>17, <1>18, <1>19, <1>20, <1>21, <1>22, <1>23, NextCases, Zenon

-----------------------------------------------------------------------------
(***************************************************************************)
(* Who is there.  The sessions of the service are those connected and not  *)
(* yet released; only a connected session begins to be disconnected; and   *)
(* as long as no logic session has been disconnected, the one that raised  *)
(* the flag _isConnected, for which everybody else waited, is still set.   *)
(***************************************************************************)

Served ==
  \A s \in Sessions :
    s \in sessions <=> chain[s] \notin {"unused", "created"} /\ closing[s] # "released"

Opened ==
  \A x \in Hosts :
    connected[x] \/ closing[x] # "open" => chain[x] \notin {"unused", "created"}

Waited ==
  /\ serverStarted => logicConnected
  /\ \A s \in Sessions : chain[s] # "unused" => serverStarted

LogicThere ==
  ~logicLost =>
    /\ \A l \in Logics : closing[l] = "open"
    /\ \A l \in Logics : chain[l] \notin {"unused", "set"} => logicSession # NoSession
    /\ logicConnected => logicSession # NoSession

ThereInv == Served /\ Opened /\ Waited /\ LogicThere /\ NoCrashBeforeLogicLost

\* Nobody is there at first.
LEMMA ThereInit == Init => ThereInv
BY SMT DEF Init, ServiceInit, ThereInv, Served, Opened, Waited, LogicThere,
   NoCrashBeforeLogicLost, Hosts

\* Every step leaves them there.
LEMMA ThereNext == Placed /\ Data /\ Flags /\ ThereInv /\ [Next]_vars => ThereInv'
<1> SUFFICES ASSUME Placed, Data, Flags, ThereInv, [Next]_vars PROVE ThereInv'
  OBVIOUS
<1> USE DEF Placed, ClientChain, LogicChain, ChainStates, ClosingStates, Data, Flags, Hosts,
   ThereInv, Served, Opened, Waited, LogicThere, NoCrashBeforeLogicLost, serviceVars, idVars,
   managerVars, linkVars
<1>1. CASE Start
  BY <1>1, MiddlemanAssumption, SMT DEF Start
<1>2. ASSUME NEW l \in Logics, AcceptLogic(l) PROVE ThereInv'
  BY <1>2, MiddlemanAssumption, SMT DEF AcceptLogic, Goto
<1>3. ASSUME NEW l \in Logics, Set(l) PROVE ThereInv'
  BY <1>3, MiddlemanAssumption, SMT DEF Set, Goto
<1>4. ASSUME NEW l \in Logics, SetConnectedTo(l) PROVE ThereInv'
  BY <1>4, MiddlemanAssumption, SMT DEF SetConnectedTo, Goto
<1>5. ASSUME NEW l \in Logics, SendLogicInfo(l) PROVE ThereInv'
  BY <1>5, MiddlemanAssumption, SMT DEF SendLogicInfo, SendToLogic, RegisterRecv
<1>6. ASSUME NEW s \in Sessions, Accept(s) PROVE ThereInv'
  <2>1. /\ serverStarted /\ chain[s] = "unused"
        /\ chain' = [chain EXCEPT ![s] = "created"]
        /\ UNCHANGED <<sessions, crashed, managerVars, linkVars>>
    BY <1>6, Zenon DEF Accept, Goto, CreateSession
  <2> QED
    BY <2>1, SMT
<1>7. ASSUME NEW s \in Sessions, ProcessConnect(s) PROVE ThereInv'
  BY <1>7, MiddlemanAssumption, SMT DEF ProcessConnect, Goto, AddSession
<1>8. ASSUME NEW s \in Sessions, Add(s) PROVE ThereInv'
  BY <1>8, MiddlemanAssumption, SMT DEF Add, Goto
<1>9. ASSUME NEW s \in Sessions, SendInfo(s) PROVE ThereInv'
  BY <1>9, MiddlemanAssumption, SMT DEF SendInfo, Goto, SendToClient
<1>10. ASSUME NEW s \in Sessions, Announce(s) PROVE ThereInv'
  BY <1>10, MiddlemanAssumption, SMT DEF Announce, SendToLogic, RegisterRecv
<1>11. ASSUME NEW x \in Hosts, Receive(x) PROVE ThereInv'
  BY <1>11, MiddlemanAssumption, SMT DEF Receive, Goto
<1>12. ASSUME NEW x \in Hosts, ReceiveZero(x) PROVE ThereInv'
  BY <1>12, MiddlemanAssumption, SMT DEF ReceiveZero, Goto, Disconnect, Close
<1>13. ASSUME NEW s \in Sessions, Relay(s) PROVE ThereInv'
  BY <1>13, MiddlemanAssumption, SMT DEF Relay, SendToLogic, RegisterRecv
<1>14. ASSUME NEW l \in Logics, Broadcast(l) PROVE ThereInv'
  BY <1>14, MiddlemanAssumption, SMT DEF Broadcast, Goto
<1>15. ASSUME NEW x \in Hosts, NEW s \in Sessions, BroadcastTo(x, s)
       PROVE  ThereInv'
  BY <1>15, MiddlemanAssumption, SMT DEF BroadcastTo
<1>16. ASSUME NEW x \in Hosts, BroadcastEnd(x) PROVE ThereInv'
  BY <1>16, MiddlemanAssumption, SMT DEF BroadcastEnd, RegisterRecv
<1>17. ASSUME NEW x \in Hosts, SendFails(x) PROVE ThereInv'
  BY <1>17, MiddlemanAssumption, SMTT(30) DEF SendFails, Disconnect, Close
<1>18. ASSUME NEW s \in Sessions, Notify(s) PROVE ThereInv'
  BY <1>18, MiddlemanAssumption, SMT DEF Notify, Close, SendToLogic
<1>19. ASSUME NEW s \in Sessions, Remove(s) PROVE ThereInv'
  BY <1>19, MiddlemanAssumption, SMT DEF Remove, Close
<1>20. ASSUME NEW s \in Sessions, Release(s) PROVE ThereInv'
  BY <1>20, MiddlemanAssumption, SMT DEF Release, Close, ReleaseSession
<1>21. ASSUME NEW l \in Logics, RemoveLogic(l) PROVE ThereInv'
  BY <1>21, MiddlemanAssumption, SMT DEF RemoveLogic, Close
<1>22. ASSUME NEW l \in Logics, ReleaseLogic(l) PROVE ThereInv'
  BY <1>22, MiddlemanAssumption, SMT DEF ReleaseLogic, Close
<1>23. CASE UNCHANGED vars
  BY <1>23, MiddlemanAssumption, SMT DEF vars
<1> HIDE DEF Placed, ClientChain, LogicChain, ChainStates, ClosingStates, Data, Flags,
   Hosts, ThereInv, Served, Opened, Waited, LogicThere, NoCrashBeforeLogicLost, serviceVars,
   idVars, managerVars, linkVars
<1> QED
  BY <1>1, <1>2, <1>3, <1>4, <1>5, <1>6, <1>7, <1>8, <1>9, <1>10, <1>11, <1>12, <1>13,
     <1>14, <1>15, <1>16, <1>17, <1>18, <1>19, <1>20, <1>21, <1>22, <1>23, NextCases, Zenon

\* Hence all of this always holds.
LEMMA ThereInvariant == Spec => [](Placed /\ Data /\ Flags /\ Logs /\ ThereInv)
BY PlacesInit, PlacesNext, TypeInit, DataNext, FlagsNext, LogsInit, LogsNext,
   ThereInit, ThereNext, PTL DEF Spec

\* Every variable always has its type.
THEOREM TypeCorrect == Spec => []TypeOK
<1>1. Placed /\ Data /\ Flags /\ Logs => TypeOK
  BY Zenon DEF Placed, Data, Flags, Logs, TypeOK, ServiceTypeOK
<1> QED
  BY <1>1, ThereInvariant, PTL

\* The relay has a logic server to send to until a first one has gone.
THEOREM RelayHasLogicServer == Spec => []NoCrashBeforeLogicLost
<1>1. ThereInv => NoCrashBeforeLogicLost
  BY Zenon DEF ThereInv
<1> QED
  BY <1>1, ThereInvariant, PTL

-----------------------------------------------------------------------------
(***************************************************************************)
(* The logic server hears of a client before it hears from it: its chain   *)
(* relays only after it has announced the client, and announces it once.   *)
(***************************************************************************)

Announced == {"receiving", "relaying", "ended"}

InOrder(q) ==
  \A i, j \in 1 .. Len(q) :
    q[i].type = "CONNECTED" /\ q[j].type = "DATA" /\ q[i].of = q[j].of => i < j

Heard(q) ==
  \A j \in 1 .. Len(q) :
    q[j].type = "DATA" => q[j].of \in Sessions /\ chain[q[j].of] \in Announced

HeardInv == \A l \in Logics : InOrder(log[l]) /\ Heard(log[l])

\* What the logic server is told by one step, if anything.
Telling(p) ==
  /\ p.type = "DATA" => p.of \in Sessions /\ chain[p.of] \in Announced
  /\ p.type = "CONNECTED" => p.of \in Sessions /\ chain[p.of] = "announce"
  /\ p.type = "DISCONNECTED" => p.of \in Sessions /\ closing[p.of] = "pending"

ToldOnce(l) ==
  \/ log'[l] = log[l]
  \/ \E p \in Packets : log'[l] = Append(log[l], p) /\ Telling(p)

\* Send appends its packet to the log of the session, or leaves the logs alone.
LEMMA SendAppends ==
  ASSUME log \in [Hosts -> Seq(Packets)], NEW x \in Hosts, NEW packet, Send(x, packet),
         NEW y \in Hosts
  PROVE  log'[y] = log[y] \/ (y = x /\ log'[y] = Append(log[y], packet))
BY SMT DEF Send

\* A packet to the logic server is appended to its session's log.
LEMMA SendToLogicAppends ==
  ASSUME Data, Logs, NEW packet \in Packets, Telling(packet), SendToLogic(packet),
         NEW l \in Logics
  PROVE  ToldOnce(l)
<1>1. CASE logicSession # NoSession /\ Send(logicSession, packet)
  <2>1. logicSession \in Hosts /\ l \in Hosts
    BY <1>1, Zenon DEF Data, Hosts
  <2> QED
    BY <1>1, <2>1, SendAppends, Zenon DEF ToldOnce, Logs
<1>2. CASE UNCHANGED log
  BY <1>2, Zenon DEF ToldOnce
<1> QED
  BY <1>1, <1>2, Zenon DEF SendToLogic

\* A step that sends nothing tells nothing.
LEMMA NothingSent == UNCHANGED log => \A l \in Logics : ToldOnce(l)
BY Zenon DEF ToldOnce

\* A packet to a client is none to the logic server.
LEMMA SendToOthers ==
  ASSUME Logs, NEW s \in Sessions, NEW packet, Send(s, packet), NEW l \in Logics
  PROVE  ToldOnce(l)
<1>1. s \in Hosts /\ l \in Hosts /\ l # s
  BY MiddlemanAssumption, Zenon DEF Hosts
<1> QED
  BY <1>1, SendAppends, Zenon DEF ToldOnce, Logs

AnnouncedStay ==
  \A s \in Sessions : chain[s] \in Announced => chain'[s] \in Announced

\* A client that has been announced remains so.
LEMMA AnnouncedNext == Placed /\ [Next]_vars => AnnouncedStay
<1> SUFFICES ASSUME Placed, [Next]_vars PROVE AnnouncedStay
  OBVIOUS
<1> USE DEF AnnouncedStay, Placed, Announced, Hosts
<1>1. CASE Start
  BY <1>1, MiddlemanAssumption, SMT DEF Start
<1>2. ASSUME NEW l \in Logics, AcceptLogic(l) PROVE AnnouncedStay
  BY <1>2, MiddlemanAssumption, SMT DEF AcceptLogic, Goto
<1>3. ASSUME NEW l \in Logics, Set(l) PROVE AnnouncedStay
  BY <1>3, MiddlemanAssumption, SMT DEF Set, Goto
<1>4. ASSUME NEW l \in Logics, SetConnectedTo(l) PROVE AnnouncedStay
  BY <1>4, MiddlemanAssumption, SMT DEF SetConnectedTo, Goto
<1>5. ASSUME NEW l \in Logics, SendLogicInfo(l) PROVE AnnouncedStay
  BY <1>5, MiddlemanAssumption, SMT DEF SendLogicInfo, RegisterRecv
<1>6. ASSUME NEW s \in Sessions, Accept(s) PROVE AnnouncedStay
  BY <1>6, MiddlemanAssumption, SMT DEF Accept, Goto
<1>7. ASSUME NEW s \in Sessions, ProcessConnect(s) PROVE AnnouncedStay
  BY <1>7, MiddlemanAssumption, SMT DEF ProcessConnect, Goto
<1>8. ASSUME NEW s \in Sessions, Add(s) PROVE AnnouncedStay
  BY <1>8, MiddlemanAssumption, SMT DEF Add, Goto
<1>9. ASSUME NEW s \in Sessions, SendInfo(s) PROVE AnnouncedStay
  BY <1>9, MiddlemanAssumption, SMT DEF SendInfo, Goto
<1>10. ASSUME NEW s \in Sessions, Announce(s) PROVE AnnouncedStay
  BY <1>10, MiddlemanAssumption, SMT DEF Announce, RegisterRecv
<1>11. ASSUME NEW x \in Hosts, Receive(x) PROVE AnnouncedStay
  BY <1>11, MiddlemanAssumption, SMT DEF Receive, Goto
<1>12. ASSUME NEW x \in Hosts, ReceiveZero(x) PROVE AnnouncedStay
  BY <1>12, MiddlemanAssumption, SMT DEF ReceiveZero, Goto
<1>13. ASSUME NEW s \in Sessions, Relay(s) PROVE AnnouncedStay
  BY <1>13, MiddlemanAssumption, SMT DEF Relay, RegisterRecv
<1>14. ASSUME NEW l \in Logics, Broadcast(l) PROVE AnnouncedStay
  BY <1>14, MiddlemanAssumption, SMT DEF Broadcast, Goto
<1>15. ASSUME NEW x \in Hosts, NEW s \in Sessions, BroadcastTo(x, s)
       PROVE  AnnouncedStay
  BY <1>15, MiddlemanAssumption, SMT DEF BroadcastTo
<1>16. ASSUME NEW x \in Hosts, BroadcastEnd(x) PROVE AnnouncedStay
  BY <1>16, MiddlemanAssumption, SMT DEF BroadcastEnd, RegisterRecv
<1>17. ASSUME NEW x \in Hosts, SendFails(x) PROVE AnnouncedStay
  BY <1>17, MiddlemanAssumption, SMT DEF SendFails
<1>18. ASSUME NEW s \in Sessions, Notify(s) PROVE AnnouncedStay
  BY <1>18, MiddlemanAssumption, SMT DEF Notify
<1>19. ASSUME NEW s \in Sessions, Remove(s) PROVE AnnouncedStay
  BY <1>19, MiddlemanAssumption, SMT DEF Remove
<1>20. ASSUME NEW s \in Sessions, Release(s) PROVE AnnouncedStay
  BY <1>20, MiddlemanAssumption, SMT DEF Release
<1>21. ASSUME NEW l \in Logics, RemoveLogic(l) PROVE AnnouncedStay
  BY <1>21, MiddlemanAssumption, SMT DEF RemoveLogic
<1>22. ASSUME NEW l \in Logics, ReleaseLogic(l) PROVE AnnouncedStay
  BY <1>22, MiddlemanAssumption, SMT DEF ReleaseLogic
<1>23. CASE UNCHANGED vars
  BY <1>23, MiddlemanAssumption, SMT DEF vars
<1> HIDE DEF AnnouncedStay, Placed, Announced, Hosts
<1> QED
  BY <1>1, <1>2, <1>3, <1>4, <1>5, <1>6, <1>7, <1>8, <1>9, <1>10, <1>11, <1>12, <1>13,
     <1>14, <1>15, <1>16, <1>17, <1>18, <1>19, <1>20, <1>21, <1>22, <1>23, NextCases, Zenon

\* What each step tells the logic server.
LEMMA ToldNext == Placed /\ Data /\ Logs /\ [Next]_vars => \A k \in Logics : ToldOnce(k)
<1> SUFFICES ASSUME Placed, Data, Logs, [Next]_vars
             PROVE  \A k \in Logics : ToldOnce(k)
  OBVIOUS
<1>1. CASE Start
  BY <1>1, NothingSent, Zenon DEF Start
<1>2. ASSUME NEW l \in Logics, AcceptLogic(l)
      PROVE  \A k \in Logics : ToldOnce(k)
  BY <1>2, NothingSent, Zenon DEF AcceptLogic
<1>3. ASSUME NEW l \in Logics, Set(l) PROVE \A k \in Logics : ToldOnce(k)
  BY <1>3, NothingSent, Zenon DEF Set
<1>4. ASSUME NEW l \in Logics, SetConnectedTo(l)
      PROVE  \A k \in Logics : ToldOnce(k)
  BY <1>4, NothingSent, Zenon DEF SetConnectedTo
<1>5. ASSUME NEW l \in Logics, SendLogicInfo(l)
      PROVE  \A k \in Logics : ToldOnce(k)
  <2>1. Packet("INFO", l, 0) \in Packets
    BY PacketType, SMT DEF Hosts, Logs
  <2>2. SendToLogic(Packet("INFO", l, 0))
    BY <1>5, Zenon DEF SendLogicInfo
  <2>3. Telling(Packet("INFO", l, 0))
    <3>1. chain[l] = "info"
      BY <1>5, Zenon DEF SendLogicInfo, Announced, Close
    <3> QED
      BY <3>1, SMT DEF Telling, Packet, Announced
  <2> QED
    BY <2>1, <2>2, <2>3, SendToLogicAppends, Zenon
<1>6. ASSUME NEW s \in Sessions, Accept(s) PROVE \A k \in Logics : ToldOnce(k)
  BY <1>6, NothingSent, Zenon DEF Accept
<1>7. ASSUME NEW s \in Sessions, ProcessConnect(s)
      PROVE  \A k \in Logics : ToldOnce(k)
  BY <1>7, NothingSent, Zenon DEF ProcessConnect
<1>8. ASSUME NEW s \in Sessions, Add(s) PROVE \A k \in Logics : ToldOnce(k)
  BY <1>8, NothingSent, Zenon DEF Add
<1>9. ASSUME NEW s \in Sessions, SendInfo(s) PROVE \A k \in Logics : ToldOnce(k)
  <2>1. ASSUME clientSessions[sessionId[s]] # NoSession,
               Send(clientSessions[sessionId[s]], Packet("INFO", s, 0))
        PROVE  \A k \in Logics : ToldOnce(k)
    <3>1. clientSessions[sessionId[s]] \in Sessions
      BY <2>1, Zenon DEF Data
    <3> QED
      BY <2>1, <3>1, SendToOthers, Zenon
  <2> QED
    BY <1>9, <2>1, Zenon DEF SendInfo, SendToClient, ToldOnce
<1>10. ASSUME NEW s \in Sessions, Announce(s)
       PROVE  \A k \in Logics : ToldOnce(k)
  <2>1. Packet("CONNECTED", s, 0) \in Packets
    BY PacketType, SMT DEF Hosts, Logs
  <2>2. SendToLogic(Packet("CONNECTED", s, 0))
    BY <1>10, Zenon DEF Announce
  <2>3. Telling(Packet("CONNECTED", s, 0))
    <3>1. chain[s] = "announce"
      BY <1>10, Zenon DEF Announce, Announced, Close
    <3> QED
      BY <3>1, SMT DEF Telling, Packet, Announced
  <2> QED
    BY <2>1, <2>2, <2>3, SendToLogicAppends, Zenon
<1>11. ASSUME NEW x \in Hosts, Receive(x) PROVE \A k \in Logics : ToldOnce(k)
  BY <1>11, NothingSent, Zenon DEF Receive
<1>12. ASSUME NEW x \in Hosts, ReceiveZero(x)
       PROVE  \A k \in Logics : ToldOnce(k)
  BY <1>12, NothingSent, Zenon DEF ReceiveZero
<1>13. ASSUME NEW s \in Sessions, Relay(s) PROVE \A k \in Logics : ToldOnce(k)
  <2>1. Packet("DATA", s, received[s] + 1) \in Packets
    BY PacketType, SMT DEF Hosts, Logs
  <2>2. SendToLogic(Packet("DATA", s, received[s] + 1))
    BY <1>13, Zenon DEF Relay
  <2>3. Telling(Packet("DATA", s, received[s] + 1))
    <3>1. chain[s] = "relaying"
      BY <1>13, Zenon DEF Relay, Announced, Close
    <3> QED
      BY <3>1, SMT DEF Telling, Packet, Announced
  <2> QED
    BY <2>1, <2>2, <2>3, SendToLogicAppends, Zenon
<1>14. ASSUME NEW l \in Logics, Broadcast(l) PROVE \A k \in Logics : ToldOnce(k)
  BY <1>14, NothingSent, Zenon DEF Broadcast
<1>15. ASSUME NEW x \in Hosts, NEW s \in Sessions, BroadcastTo(x, s)
       PROVE  \A k \in Logics : ToldOnce(k)
  BY <1>15, SendToOthers, Zenon DEF BroadcastTo
<1>16. ASSUME NEW x \in Hosts, BroadcastEnd(x)
       PROVE  \A k \in Logics : ToldOnce(k)
  BY <1>16, NothingSent, Zenon DEF BroadcastEnd
<1>17. ASSUME NEW x \in Hosts, SendFails(x) PROVE \A k \in Logics : ToldOnce(k)
  BY <1>17, NothingSent, Zenon DEF SendFails
<1>18. ASSUME NEW s \in Sessions, Notify(s) PROVE \A k \in Logics : ToldOnce(k)
  <2>1. Packet("DISCONNECTED", s, 0) \in Packets
    BY PacketType, SMT DEF Hosts, Logs
  <2>2. SendToLogic(Packet("DISCONNECTED", s, 0))
    BY <1>18, Zenon DEF Notify
  <2>3. Telling(Packet("DISCONNECTED", s, 0))
    <3>1. closing[s] = "pending"
      BY <1>18, Zenon DEF Notify, Announced, Close
    <3> QED
      BY <3>1, SMT DEF Telling, Packet, Announced
  <2> QED
    BY <2>1, <2>2, <2>3, SendToLogicAppends, Zenon
<1>19. ASSUME NEW s \in Sessions, Remove(s) PROVE \A k \in Logics : ToldOnce(k)
  BY <1>19, NothingSent, Zenon DEF Remove
<1>20. ASSUME NEW s \in Sessions, Release(s) PROVE \A k \in Logics : ToldOnce(k)
  BY <1>20, NothingSent, Zenon DEF Release
<1>21. ASSUME NEW l \in Logics, RemoveLogic(l)
       PROVE  \A k \in Logics : ToldOnce(k)
  BY <1>21, NothingSent, Zenon DEF RemoveLogic
<1>22. ASSUME NEW l \in Logics, ReleaseLogic(l)
       PROVE  \A k \in Logics : ToldOnce(k)
  BY <1>22, NothingSent, Zenon DEF ReleaseLogic
<1>23. CASE UNCHANGED vars
  BY <1>23, NothingSent, Zenon DEF vars
<1> QED
  BY <1>1, <1>2, <1>3, <1>4, <1>5, <1>6, <1>7, <1>8, <1>9, <1>10, <1>11, <1>12, <1>13,
     <1>14, <1>15, <1>16, <1>17, <1>18, <1>19, <1>20, <1>21, <1>22, <1>23, NextCases, Zenon

\* A log remains in order.
LEMMA AppendKeepsOrder ==
  ASSUME NEW q \in Seq(Packets), NEW p \in Packets, InOrder(q), Heard(q), Telling(p)
  PROVE  InOrder(Append(q, p)) /\ Heard(Append(q, p))
<1>1. /\ p.type = "DATA" => p.of \in Sessions /\ chain[p.of] \in Announced
      /\ p.type = "CONNECTED" => chain[p.of] \notin Announced
  BY SMT DEF Telling, Announced
<1> QED
  BY <1>1, SMT DEF InOrder, Heard, Packets

\* Every step keeps the logs in order.
LEMMA HeardNext ==
  Placed /\ Data /\ Logs /\ HeardInv /\ [Next]_vars => HeardInv'
<1> SUFFICES ASSUME Placed, Data, Logs, HeardInv, [Next]_vars, NEW l \in Logics
             PROVE  InOrder(log'[l]) /\ Heard(log[l])'
  BY Zenon DEF HeardInv, InOrder
<1>1. InOrder(log'[l]) /\ Heard(log'[l])
  <2>1. log[l] \in Seq(Packets)
    BY Zenon DEF Logs, Hosts
  <2> QED
    BY <2>1, ToldNext, AppendKeepsOrder, Zenon DEF ToldOnce, HeardInv
<1> QED
  BY <1>1, AnnouncedNext, Zenon DEF Heard, AnnouncedStay

\* The logic server hears of a client before it hears from it.
THEOREM AnnouncedFirst == Spec => []ConnectedBeforeData
<1>1. Init => HeardInv
  BY SMT DEF Init, HeardInv, InOrder, Heard, Hosts
<1>2. HeardInv => ConnectedBeforeData
  BY Zenon DEF HeardInv, InOrder, ConnectedBeforeData
<1> QED
  BY <1>1, <1>2, ThereInvariant, HeardNext, PTL DEF Spec

-----------------------------------------------------------------------------
(***************************************************************************)
(* What the logic server learns.  As long as none has gone, the session of *)
(* the one that is there is connected, so that what is sent to it is not   *)
(* ignored.                                                                *)
(***************************************************************************)
LogicOpen ==
  ~logicLost =>
    /\ \A l \in Logics : chain[l] # "unused" => connected[l]
    /\ logicSession # NoSession => chain[logicSession] # "unused"

Gone == {"remove", "release", "released"}

\* At first there is nothing to tell.
LEMMA InformedInit == Init => LogicOpen /\ LogicServerInformed
BY MiddlemanAssumption, SMT DEF Init, ServiceInit, LogicOpen, LogicServerInformed, Hosts

\* Every step leaves it connected.
LEMMA LogicOpenNext == Placed /\ Data /\ Flags /\ LogicOpen /\ [Next]_vars => LogicOpen'
<1> SUFFICES ASSUME Placed, Data, Flags, LogicOpen, [Next]_vars PROVE LogicOpen'
  OBVIOUS
<1> USE DEF LogicOpen, Placed, Data, Flags, Hosts, serviceVars, idVars, managerVars,
   linkVars
<1>1. CASE Start
  BY <1>1, MiddlemanAssumption, SMT DEF Start
<1>2. ASSUME NEW l \in Logics, AcceptLogic(l) PROVE LogicOpen'
  BY <1>2, MiddlemanAssumption, SMT DEF AcceptLogic, Goto
<1>3. ASSUME NEW l \in Logics, Set(l) PROVE LogicOpen'
  BY <1>3, MiddlemanAssumption, SMT DEF Set, Goto
<1>4. ASSUME NEW l \in Logics, SetConnectedTo(l) PROVE LogicOpen'
  BY <1>4, MiddlemanAssumption, SMT DEF SetConnectedTo, Goto
<1>5. ASSUME NEW l \in Logics, SendLogicInfo(l) PROVE LogicOpen'
  BY <1>5, MiddlemanAssumption, SMT DEF SendLogicInfo, RegisterRecv
<1>6. ASSUME NEW s \in Sessions, Accept(s) PROVE LogicOpen'
  <2>1. /\ chain' = [chain EXCEPT ![s] = "created"]
        /\ UNCHANGED <<managerVars, linkVars>>
    BY <1>6, Zenon DEF Accept, Goto
  <2> QED
    BY <2>1, MiddlemanAssumption, SMT
<1>7. ASSUME NEW s \in Sessions, ProcessConnect(s) PROVE LogicOpen'
  BY <1>7, MiddlemanAssumption, SMT DEF ProcessConnect, Goto
<1>8. ASSUME NEW s \in Sessions, Add(s) PROVE LogicOpen'
  BY <1>8, MiddlemanAssumption, SMT DEF Add, Goto
<1>9. ASSUME NEW s \in Sessions, SendInfo(s) PROVE LogicOpen'
  BY <1>9, MiddlemanAssumption, SMT DEF SendInfo, Goto
<1>10. ASSUME NEW s \in Sessions, Announce(s) PROVE LogicOpen'
  BY <1>10, MiddlemanAssumption, SMT DEF Announce, RegisterRecv
<1>11. ASSUME NEW x \in Hosts, Receive(x) PROVE LogicOpen'
  BY <1>11, MiddlemanAssumption, SMT DEF Receive, Goto
<1>12. ASSUME NEW x \in Hosts, ReceiveZero(x) PROVE LogicOpen'
  BY <1>12, MiddlemanAssumption, SMT DEF ReceiveZero, Goto, Disconnect, Close
<1>13. ASSUME NEW s \in Sessions, Relay(s) PROVE LogicOpen'
  BY <1>13, MiddlemanAssumption, SMT DEF Relay, RegisterRecv
<1>14. ASSUME NEW l \in Logics, Broadcast(l) PROVE LogicOpen'
  BY <1>14, MiddlemanAssumption, SMT DEF Broadcast, Goto
<1>15. ASSUME NEW x \in Hosts, NEW s \in Sessions, BroadcastTo(x, s)
       PROVE  LogicOpen'
  BY <1>15, MiddlemanAssumption, SMT DEF BroadcastTo
<1>16. ASSUME NEW x \in Hosts, BroadcastEnd(x) PROVE LogicOpen'
  BY <1>16, MiddlemanAssumption, SMT DEF BroadcastEnd, RegisterRecv
<1>17. ASSUME NEW x \in Hosts, SendFails(x) PROVE LogicOpen'
  BY <1>17, MiddlemanAssumption, SMT DEF SendFails, Disconnect, Close
<1>18. ASSUME NEW s \in Sessions, Notify(s) PROVE LogicOpen'
  BY <1>18, MiddlemanAssumption, SMT DEF Notify, Close
<1>19. ASSUME NEW s \in Sessions, Remove(s) PROVE LogicOpen'
  BY <1>19, MiddlemanAssumption, SMT DEF Remove, Close
<1>20. ASSUME NEW s \in Sessions, Release(s) PROVE LogicOpen'
  BY <1>20, MiddlemanAssumption, SMT DEF Release, Close
<1>21. ASSUME NEW l \in Logics, RemoveLogic(l) PROVE LogicOpen'
  BY <1>21, MiddlemanAssumption, SMT DEF RemoveLogic, Close
<1>22. ASSUME NEW l \in Logics, ReleaseLogic(l) PROVE LogicOpen'
  BY <1>22, MiddlemanAssumption, SMT DEF ReleaseLogic, Close
<1>23. CASE UNCHANGED vars
  BY <1>23, MiddlemanAssumption, SMT DEF vars
<1> HIDE DEF LogicOpen, Placed, Data, Flags, Hosts, serviceVars, idVars, managerVars,
   linkVars
<1> QED
  BY <1>1, <1>2, <1>3, <1>4, <1>5, <1>6, <1>7, <1>8, <1>9, <1>10, <1>11, <1>12, <1>13,
     <1>14, <1>15, <1>16, <1>17, <1>18, <1>19, <1>20, <1>21, <1>22, <1>23, NextCases, Zenon

\* Only Announce takes a client among those announced, only Notify among those gone,
\* and what is lost remains lost.
AnnouncedBy ==
  \A c \in Sessions : chain'[c] \in Announced => chain[c] \in Announced \/ Announce(c)
GoneBy == \A c \in Sessions : closing'[c] \in Gone => closing[c] \in Gone \/ Notify(c)
LostForGood == logicLost => logicLost'

\* Each step is one of these.
LEMMA OnlyAnnounce == Placed /\ [Next]_vars => AnnouncedBy
<1> SUFFICES ASSUME Placed, [Next]_vars PROVE AnnouncedBy
  OBVIOUS
<1> USE DEF Announced, Placed, ClientChain, Hosts, serviceVars, idVars, managerVars,
   linkVars
<1>1. CASE Start
  BY <1>1, MiddlemanAssumption, SMT DEF AnnouncedBy, Start
<1>2. ASSUME NEW l \in Logics, AcceptLogic(l) PROVE AnnouncedBy
  BY <1>2, MiddlemanAssumption, SMT DEF AnnouncedBy, AcceptLogic, Goto
<1>3. ASSUME NEW l \in Logics, Set(l) PROVE AnnouncedBy
  BY <1>3, MiddlemanAssumption, SMT DEF AnnouncedBy, Set, Goto
<1>4. ASSUME NEW l \in Logics, SetConnectedTo(l) PROVE AnnouncedBy
  BY <1>4, MiddlemanAssumption, SMT DEF AnnouncedBy, SetConnectedTo, Goto
<1>5. ASSUME NEW l \in Logics, SendLogicInfo(l) PROVE AnnouncedBy
  BY <1>5, MiddlemanAssumption, SMT DEF AnnouncedBy, SendLogicInfo, RegisterRecv
<1>6. ASSUME NEW s \in Sessions, Accept(s) PROVE AnnouncedBy
  BY <1>6, MiddlemanAssumption, SMT DEF AnnouncedBy, Accept, Goto
<1>7. ASSUME NEW s \in Sessions, ProcessConnect(s) PROVE AnnouncedBy
  BY <1>7, MiddlemanAssumption, SMT DEF AnnouncedBy, ProcessConnect, Goto
<1>8. ASSUME NEW s \in Sessions, Add(s) PROVE AnnouncedBy
  BY <1>8, MiddlemanAssumption, SMT DEF AnnouncedBy, Add, Goto
<1>9. ASSUME NEW s \in Sessions, SendInfo(s) PROVE AnnouncedBy
  BY <1>9, MiddlemanAssumption, SMT DEF AnnouncedBy, SendInfo, Goto
<1>10. ASSUME NEW s \in Sessions, Announce(s) PROVE AnnouncedBy
  <2>1. \A c \in Sessions : c # s => chain'[c] = chain[c]
    BY <1>10, SMT DEF AnnouncedBy, Announce, RegisterRecv
  <2> QED
    BY <1>10, <2>1, Zenon DEF AnnouncedBy
<1>11. ASSUME NEW x \in Hosts, Receive(x) PROVE AnnouncedBy
  BY <1>11, MiddlemanAssumption, SMT DEF AnnouncedBy, Receive, Goto
<1>12. ASSUME NEW x \in Hosts, ReceiveZero(x) PROVE AnnouncedBy
  BY <1>12, MiddlemanAssumption, SMT DEF AnnouncedBy, ReceiveZero, Goto
<1>13. ASSUME NEW s \in Sessions, Relay(s) PROVE AnnouncedBy
  BY <1>13, MiddlemanAssumption, SMT DEF AnnouncedBy, Relay, RegisterRecv
<1>14. ASSUME NEW l \in Logics, Broadcast(l) PROVE AnnouncedBy
  BY <1>14, MiddlemanAssumption, SMT DEF AnnouncedBy, Broadcast, Goto
<1>15. ASSUME NEW x \in Hosts, NEW s \in Sessions, BroadcastTo(x, s)
       PROVE  AnnouncedBy
  BY <1>15, MiddlemanAssumption, SMT DEF AnnouncedBy, BroadcastTo
<1>16. ASSUME NEW x \in Hosts, BroadcastEnd(x) PROVE AnnouncedBy
  BY <1>16, MiddlemanAssumption, SMT DEF AnnouncedBy, BroadcastEnd, RegisterRecv
<1>17. ASSUME NEW x \in Hosts, SendFails(x) PROVE AnnouncedBy
  BY <1>17, MiddlemanAssumption, SMT DEF AnnouncedBy, SendFails
<1>18. ASSUME NEW s \in Sessions, Notify(s) PROVE AnnouncedBy
  BY <1>18, MiddlemanAssumption, SMT DEF AnnouncedBy, Notify
<1>19. ASSUME NEW s \in Sessions, Remove(s) PROVE AnnouncedBy
  BY <1>19, MiddlemanAssumption, SMT DEF AnnouncedBy, Remove
<1>20. ASSUME NEW s \in Sessions, Release(s) PROVE AnnouncedBy
  BY <1>20, MiddlemanAssumption, SMT DEF AnnouncedBy, Release
<1>21. ASSUME NEW l \in Logics, RemoveLogic(l) PROVE AnnouncedBy
  BY <1>21, MiddlemanAssumption, SMT DEF AnnouncedBy, RemoveLogic
<1>22. ASSUME NEW l \in Logics, ReleaseLogic(l) PROVE AnnouncedBy
  BY <1>22, MiddlemanAssumption, SMT DEF AnnouncedBy, ReleaseLogic
<1>23. CASE UNCHANGED vars
  BY <1>23, MiddlemanAssumption, SMT DEF AnnouncedBy, vars
<1> HIDE DEF Announced, Placed, ClientChain, Hosts, serviceVars, idVars, managerVars,
   linkVars
<1> QED
  BY <1>1, <1>2, <1>3, <1>4, <1>5, <1>6, <1>7, <1>8, <1>9, <1>10, <1>11, <1>12, <1>13,
     <1>14, <1>15, <1>16, <1>17, <1>18, <1>19, <1>20, <1>21, <1>22, <1>23, NextCases, Zenon

\* Or one of these.
LEMMA OnlyNotify == Placed /\ [Next]_vars => GoneBy
<1> SUFFICES ASSUME Placed, [Next]_vars PROVE GoneBy
  OBVIOUS
<1> USE DEF Gone, Placed, Hosts, serviceVars, idVars, managerVars, linkVars
<1>1. CASE Start
  BY <1>1, MiddlemanAssumption, SMT DEF GoneBy, Start
<1>2. ASSUME NEW l \in Logics, AcceptLogic(l) PROVE GoneBy
  BY <1>2, MiddlemanAssumption, SMT DEF GoneBy, AcceptLogic
<1>3. ASSUME NEW l \in Logics, Set(l) PROVE GoneBy
  BY <1>3, MiddlemanAssumption, SMT DEF GoneBy, Set
<1>4. ASSUME NEW l \in Logics, SetConnectedTo(l) PROVE GoneBy
  BY <1>4, MiddlemanAssumption, SMT DEF GoneBy, SetConnectedTo
<1>5. ASSUME NEW l \in Logics, SendLogicInfo(l) PROVE GoneBy
  BY <1>5, MiddlemanAssumption, SMT DEF GoneBy, SendLogicInfo
<1>6. ASSUME NEW s \in Sessions, Accept(s) PROVE GoneBy
  BY <1>6, MiddlemanAssumption, SMT DEF GoneBy, Accept
<1>7. ASSUME NEW s \in Sessions, ProcessConnect(s) PROVE GoneBy
  BY <1>7, MiddlemanAssumption, SMT DEF GoneBy, ProcessConnect
<1>8. ASSUME NEW s \in Sessions, Add(s) PROVE GoneBy
  BY <1>8, MiddlemanAssumption, SMT DEF GoneBy, Add
<1>9. ASSUME NEW s \in Sessions, SendInfo(s) PROVE GoneBy
  BY <1>9, MiddlemanAssumption, SMT DEF GoneBy, SendInfo
<1>10. ASSUME NEW s \in Sessions, Announce(s) PROVE GoneBy
  BY <1>10, MiddlemanAssumption, SMT DEF GoneBy, Announce
<1>11. ASSUME NEW x \in Hosts, Receive(x) PROVE GoneBy
  BY <1>11, MiddlemanAssumption, SMT DEF GoneBy, Receive
<1>12. ASSUME NEW x \in Hosts, ReceiveZero(x) PROVE GoneBy
  BY <1>12, MiddlemanAssumption, SMT DEF GoneBy, ReceiveZero, Disconnect, Close
<1>13. ASSUME NEW s \in Sessions, Relay(s) PROVE GoneBy
  BY <1>13, MiddlemanAssumption, SMT DEF GoneBy, Relay
<1>14. ASSUME NEW l \in Logics, Broadcast(l) PROVE GoneBy
  BY <1>14, MiddlemanAssumption, SMT DEF GoneBy, Broadcast
<1>15. ASSUME NEW x \in Hosts, NEW s \in Sessions, BroadcastTo(x, s)
       PROVE  GoneBy
  BY <1>15, MiddlemanAssumption, SMT DEF GoneBy, BroadcastTo
<1>16. ASSUME NEW x \in Hosts, BroadcastEnd(x) PROVE GoneBy
  BY <1>16, MiddlemanAssumption, SMT DEF GoneBy, BroadcastEnd
<1>17. ASSUME NEW x \in Hosts, SendFails(x) PROVE GoneBy
  BY <1>17, MiddlemanAssumption, SMT DEF GoneBy, SendFails, Disconnect, Close
<1>18. ASSUME NEW s \in Sessions, Notify(s) PROVE GoneBy
  <2>1. \A c \in Sessions : c # s => closing'[c] = closing[c]
    BY <1>18, SMT DEF GoneBy, Notify, Close
  <2> QED
    BY <1>18, <2>1, Zenon DEF GoneBy
<1>19. ASSUME NEW s \in Sessions, Remove(s) PROVE GoneBy
  BY <1>19, MiddlemanAssumption, SMT DEF GoneBy, Remove, Close
<1>20. ASSUME NEW s \in Sessions, Release(s) PROVE GoneBy
  BY <1>20, MiddlemanAssumption, SMT DEF GoneBy, Release, Close
<1>21. ASSUME NEW l \in Logics, RemoveLogic(l) PROVE GoneBy
  BY <1>21, MiddlemanAssumption, SMT DEF GoneBy, RemoveLogic, Close
<1>22. ASSUME NEW l \in Logics, ReleaseLogic(l) PROVE GoneBy
  BY <1>22, MiddlemanAssumption, SMT DEF GoneBy, ReleaseLogic, Close
<1>23. CASE UNCHANGED vars
  BY <1>23, MiddlemanAssumption, SMT DEF GoneBy, vars
<1> HIDE DEF Gone, Placed, Hosts, serviceVars, idVars, managerVars, linkVars
<1> QED
  BY <1>1, <1>2, <1>3, <1>4, <1>5, <1>6, <1>7, <1>8, <1>9, <1>10, <1>11, <1>12, <1>13,
     <1>14, <1>15, <1>16, <1>17, <1>18, <1>19, <1>20, <1>21, <1>22, <1>23, NextCases, Zenon

\* The history is not forgotten.
LEMMA LostNext == Flags /\ [Next]_vars => LostForGood
<1> SUFFICES ASSUME Flags, [Next]_vars PROVE LostForGood
  OBVIOUS
<1> USE DEF LostForGood, serviceVars, idVars, managerVars, linkVars
<1>1. CASE Start
  BY <1>1, Zenon DEF Start
<1>2. ASSUME NEW l \in Logics, AcceptLogic(l) PROVE LostForGood
  BY <1>2, Zenon DEF AcceptLogic
<1>3. ASSUME NEW l \in Logics, Set(l) PROVE LostForGood
  BY <1>3, Zenon DEF Set
<1>4. ASSUME NEW l \in Logics, SetConnectedTo(l) PROVE LostForGood
  BY <1>4, Zenon DEF SetConnectedTo
<1>5. ASSUME NEW l \in Logics, SendLogicInfo(l) PROVE LostForGood
  BY <1>5, Zenon DEF SendLogicInfo
<1>6. ASSUME NEW s \in Sessions, Accept(s) PROVE LostForGood
  BY <1>6, Zenon DEF Accept
<1>7. ASSUME NEW s \in Sessions, ProcessConnect(s) PROVE LostForGood
  BY <1>7, Zenon DEF ProcessConnect
<1>8. ASSUME NEW s \in Sessions, Add(s) PROVE LostForGood
  BY <1>8, Zenon DEF Add
<1>9. ASSUME NEW s \in Sessions, SendInfo(s) PROVE LostForGood
  BY <1>9, Zenon DEF SendInfo
<1>10. ASSUME NEW s \in Sessions, Announce(s) PROVE LostForGood
  BY <1>10, Zenon DEF Announce
<1>11. ASSUME NEW x \in Hosts, Receive(x) PROVE LostForGood
  BY <1>11, Zenon DEF Receive
<1>12. ASSUME NEW x \in Hosts, ReceiveZero(x) PROVE LostForGood
  BY <1>12, Zenon DEF ReceiveZero, Disconnect
<1>13. ASSUME NEW s \in Sessions, Relay(s) PROVE LostForGood
  BY <1>13, Zenon DEF Relay
<1>14. ASSUME NEW l \in Logics, Broadcast(l) PROVE LostForGood
  BY <1>14, Zenon DEF Broadcast
<1>15. ASSUME NEW x \in Hosts, NEW s \in Sessions, BroadcastTo(x, s)
       PROVE  LostForGood
  BY <1>15, Zenon DEF BroadcastTo
<1>16. ASSUME NEW x \in Hosts, BroadcastEnd(x) PROVE LostForGood
  BY <1>16, Zenon DEF BroadcastEnd
<1>17. ASSUME NEW x \in Hosts, SendFails(x) PROVE LostForGood
  BY <1>17, Zenon DEF SendFails, Disconnect
<1>18. ASSUME NEW s \in Sessions, Notify(s) PROVE LostForGood
  BY <1>18, Zenon DEF Notify
<1>19. ASSUME NEW s \in Sessions, Remove(s) PROVE LostForGood
  BY <1>19, Zenon DEF Remove
<1>20. ASSUME NEW s \in Sessions, Release(s) PROVE LostForGood
  BY <1>20, Zenon DEF Release
<1>21. ASSUME NEW l \in Logics, RemoveLogic(l) PROVE LostForGood
  BY <1>21, Zenon DEF RemoveLogic
<1>22. ASSUME NEW l \in Logics, ReleaseLogic(l) PROVE LostForGood
  BY <1>22, Zenon DEF ReleaseLogic
<1>23. CASE UNCHANGED vars
  BY <1>23, Zenon DEF vars
<1> HIDE DEF LostForGood, serviceVars, idVars, managerVars, linkVars
<1> QED
  BY <1>1, <1>2, <1>3, <1>4, <1>5, <1>6, <1>7, <1>8, <1>9, <1>10, <1>11, <1>12, <1>13,
     <1>14, <1>15, <1>16, <1>17, <1>18, <1>19, <1>20, <1>21, <1>22, <1>23, NextCases, Zenon

\* What has been told has been told.
LEMMA ToldStays ==
  ASSUME Logs, NEW type, NEW s \in Sessions, Told(type, s), \A l \in Logics : ToldOnce(l)
  PROVE  Told(type, s)'
<1>0. PICK l \in Logics : \E i \in 1 .. Len(log[l]) : log[l][i].type = type /\ log[l][i].of = s
  BY Zenon DEF Told
<1>1. PICK i \in 1 .. Len(log[l]) : log[l][i].type = type /\ log[l][i].of = s
  BY <1>0
<1>2. log[l] \in Seq(Packets)
  BY Zenon DEF Logs, Hosts
<1>3. i \in 1 .. Len(log'[l]) /\ log'[l][i] = log[l][i]
  <2>1. CASE log'[l] = log[l]
    BY <2>1, Zenon
  <2>2. ASSUME NEW p \in Packets, log'[l] = Append(log[l], p)
        PROVE  i \in 1 .. Len(log'[l]) /\ log'[l][i] = log[l][i]
    BY <1>2, <2>2, SMT
  <2> QED
    BY <2>1, <2>2, Zenon DEF ToldOnce
<1> QED
  BY <1>1, <1>3, Zenon DEF Told

\* A packet to a logic server that is there is told.
LEMMA SendToLogicTells ==
  ASSUME Data, Logs, LogicOpen, LogicThere, logicConnected, ~logicLost,
         NEW packet \in Packets, SendToLogic(packet)
  PROVE  \E l \in Logics : \E i \in 1 .. Len(log'[l]) : log'[l][i] = packet
<1>1. logicSession \in Logics /\ connected[logicSession] /\ Send(logicSession, packet)
  BY Zenon DEF SendToLogic, Data, LogicOpen, LogicThere
<1>2. log[logicSession] \in Seq(Packets)
  BY <1>1, Zenon DEF Logs, Hosts
<1>3. log'[logicSession] = Append(log[logicSession], packet)
  BY <1>1, SMT DEF Send, Logs, Hosts
<1>4. /\ Len(log[logicSession]) + 1 \in 1 .. Len(log'[logicSession])
      /\ log'[logicSession][Len(log[logicSession]) + 1] = packet
  BY <1>2, <1>3, SMT
<1> QED
  BY <1>1, <1>4, Zenon

\* Every step tells the logic server what it has to know.
LEMMA InformedNext ==
  ASSUME Placed, Data, Flags, Logs, ThereInv, LogicOpen, LogicServerInformed, [Next]_vars
  PROVE  LogicServerInformed'
<1> SUFFICES ASSUME ~logicLost', NEW s \in Sessions
             PROVE  /\ chain'[s] \in Announced => Told("CONNECTED", s)'
                    /\ closing'[s] \in Gone => Told("DISCONNECTED", s)'
  BY Zenon DEF LogicServerInformed, Announced, Gone
<1>1. ~logicLost
  BY LostNext, Zenon DEF LostForGood
<1>2. \A l \in Logics : ToldOnce(l)
  BY ToldNext
<1>3. ASSUME chain[s] \notin {"unused", "created"}
      PROVE  logicConnected /\ LogicThere
  BY <1>3, Zenon DEF ThereInv, Waited
<1>4. ASSUME chain'[s] \in Announced
      PROVE  Told("CONNECTED", s)'
  <2>1. CASE chain[s] \in Announced
    <3>1. Told("CONNECTED", s)
      BY <1>1, <2>1, Zenon DEF LogicServerInformed, Announced
    <3> QED
      BY <1>2, <3>1, ToldStays
  <2>2. CASE Announce(s)
    <3>1. SendToLogic(Packet("CONNECTED", s, 0)) /\ chain[s] = "announce"
      BY <2>2, Zenon DEF Announce
    <3>2. logicConnected /\ LogicThere
      BY <1>3, <3>1, SMT
    <3>3. Packet("CONNECTED", s, 0) \in Packets
      BY PacketType, SMT DEF Hosts
    <3>4. \E l \in Logics : \E i \in 1 .. Len(log'[l]) :
            log'[l][i] = Packet("CONNECTED", s, 0)
      BY <1>1, <3>1, <3>2, <3>3, SendToLogicTells
    <3>5. /\ Packet("CONNECTED", s, 0).type = "CONNECTED"
          /\ Packet("CONNECTED", s, 0).of = s
      BY SMT DEF Packet
    <3> QED
      BY <3>4, <3>5, Zenon DEF Told
  <2> QED
    BY <1>4, <2>1, <2>2, OnlyAnnounce, Zenon DEF AnnouncedBy
<1>5. ASSUME closing'[s] \in Gone
      PROVE  Told("DISCONNECTED", s)'
  <2>1. CASE closing[s] \in Gone
    <3>1. Told("DISCONNECTED", s)
      BY <1>1, <2>1, Zenon DEF LogicServerInformed, Gone
    <3> QED
      BY <1>2, <3>1, ToldStays
  <2>2. CASE Notify(s)
    <3>1. SendToLogic(Packet("DISCONNECTED", s, 0)) /\ closing[s] = "pending"
      BY <2>2, Zenon DEF Notify, Close
    <3>2. logicConnected /\ LogicThere
      BY <1>3, <3>1, SMT DEF ThereInv, Opened, Hosts
    <3>3. Packet("DISCONNECTED", s, 0) \in Packets
      BY PacketType, SMT DEF Hosts
    <3>4. \E l \in Logics : \E i \in 1 .. Len(log'[l]) :
            log'[l][i] = Packet("DISCONNECTED", s, 0)
      BY <1>1, <3>1, <3>2, <3>3, SendToLogicTells
    <3>5. /\ Packet("DISCONNECTED", s, 0).type = "DISCONNECTED"
          /\ Packet("DISCONNECTED", s, 0).of = s
      BY SMT DEF Packet
    <3> QED
      BY <3>4, <3>5, Zenon DEF Told
  <2> QED
    BY <1>5, <2>1, <2>2, OnlyNotify, Zenon DEF GoneBy
<1> QED
  BY <1>4, <1>5

\* As long as it stays, the logic server learns who comes and who goes.
THEOREM LogicServerKnows == Spec => []LogicServerInformed
BY ThereInvariant, InformedInit, LogicOpenNext, InformedNext, PTL DEF Spec

-----------------------------------------------------------------------------
(***************************************************************************)
(* The manager of the clients.  It is exact because two sessions that are  *)
(* there never share an id, and that is so because the service has more    *)
(* ids than places: the pool never runs out, though GetFreeSessionId       *)
(* leaves out the place of the last id.                                    *)
(***************************************************************************)

\* Session s has an id of its own.
Here(s) == chain[s] # "unused" /\ closing[s] # "released"

Counted ==
  /\ IsFiniteSet(sessions)
  /\ sessionCount = Cardinality(sessions)
  /\ sessionCount <= MaxSessionCount

Named ==
  /\ ~exhausted
  /\ \A s \in Sessions : Here(s) => sessionIdPool[sessionId[s]]
  /\ \A s, u \in Sessions : Here(s) /\ Here(u) /\ sessionId[s] = sessionId[u] => s = u

\* Every id is free or that of a session.
Accounted ==
  \A id \in Ids : sessionIdPool[id] => \E s \in Sessions : Here(s) /\ sessionId[s] = id

\* The session waiting for its connection is the last that got an id; if there is none
\* the place of the last id is taken or the service is not full.
Latest ==
  /\ \A s \in Sessions : chain[s] = "created" => sessionId[s] = lastUsedSessionId
  /\ (\A s \in Sessions : chain[s] # "created") =>
       sessionIdPool[lastUsedSessionId] \/ sessionCount < MaxSessionCount

IdInv == Counted /\ Named /\ Accounted /\ Latest

\* At first all ids are free.
LEMMA IdInit == Init => IdInv
<1> SUFFICES ASSUME Init PROVE IdInv
  OBVIOUS
<1>1. /\ sessions = {} /\ sessionCount = 0 /\ exhausted = FALSE
      /\ \A s \in Sessions : chain[s] = "unused"
      /\ \A id \in Ids : ~sessionIdPool[id]
  BY SMT DEF Init, ServiceInit, Hosts
<1>2. Counted
  BY <1>1, FS_EmptySet, ServiceAssumption, SMT DEF Counted
<1>3. Latest
  BY <1>1, ServiceAssumption, SMT DEF Latest
<1> QED
  BY <1>1, <1>2, <1>3, Zenon DEF IdInv, Named, Accounted, Here

\* When the listener asks for a session there is an id left.
LEMMA ThereIsAFreeId ==
  ASSUME Placed, Data, Flags, ThereInv, IdInv, MayAccept
  PROVE  \E i \in Places : ~sessionIdPool[IdAfter(i)]
<1>1. \A s \in Sessions : Here(s) <=> s \in sessions
  BY SMT DEF MayAccept, Here, ThereInv, Served, Opened, Placed, ClientChain, Hosts
<1>2. /\ \A s \in sessions : sessionIdPool[sessionId[s]]
      /\ \A id \in Ids : sessionIdPool[id] => \E s \in sessions : sessionId[s] = id
  BY <1>1, Zenon DEF IdInv, Named, Accounted, Data
<1>3. sessionIdPool[lastUsedSessionId] \/ sessionCount < MaxSessionCount
  BY SMT DEF MayAccept, IdInv, Latest
<1> QED
  BY <1>2, <1>3, SomeIdIsFree, MiddlemanAssumption, Zenon DEF Data, IdInv, Counted

\* Every step keeps the ids apart and accounted for.
LEMMA IdNext == Placed /\ Data /\ Flags /\ ThereInv /\ IdInv /\ [Next]_vars => IdInv'
<1> SUFFICES ASSUME Placed, Data, Flags, ThereInv, IdInv, [Next]_vars
             PROVE  IdInv'
  OBVIOUS
<1> USE DEF Placed, ClientChain, LogicChain, ChainStates, ClosingStates, Data, Flags, Hosts,
   ThereInv, Served, Opened, IdInv, Counted, Named, Accounted, Latest, Here, serviceVars,
   idVars, managerVars, linkVars
<1>1. CASE Start
  BY <1>1, MiddlemanAssumption, SMT DEF Start
<1>2. ASSUME NEW l \in Logics, AcceptLogic(l) PROVE IdInv'
  BY <1>2, MiddlemanAssumption, SMT DEF AcceptLogic, Goto
<1>3. ASSUME NEW l \in Logics, Set(l) PROVE IdInv'
  BY <1>3, MiddlemanAssumption, SMT DEF Set, Goto
<1>4. ASSUME NEW l \in Logics, SetConnectedTo(l) PROVE IdInv'
  BY <1>4, MiddlemanAssumption, SMT DEF SetConnectedTo, Goto
<1>5. ASSUME NEW l \in Logics, SendLogicInfo(l) PROVE IdInv'
  BY <1>5, MiddlemanAssumption, SMT DEF SendLogicInfo, RegisterRecv
<1>6. ASSUME NEW s \in Sessions, Accept(s) PROVE IdInv'
  <2>1. /\ MayAccept /\ CreateSession(s) /\ chain[s] = "unused"
        /\ chain' = [chain EXCEPT ![s] = "created"] /\ UNCHANGED closing
    BY <1>6, Zenon DEF Accept, Goto
  <2>2. lastUsedSessionId \in Ids
    OBVIOUS
  <2>3. PICK id \in Ids : ~sessionIdPool[id] /\ TakeId(s, id)
    <3>1. \E i \in Places : ~sessionIdPool[IdAfter(i)]
      BY <2>1, ThereIsAFreeId
    <3> HIDE DEF Placed, Data, Flags, ThereInv, IdInv
    <3> QED
      BY <2>1, <2>2, <3>1, CreateSessionCases, Zenon
  <2>4. UNCHANGED <<sessions, sessionCount>>
    BY <2>1, Zenon DEF CreateSession
  <2>5. Counted'
    BY <2>4, Zenon
  <2>6. Named'
    BY <2>1, <2>3, SMTT(30) DEF TakeId
  <2>7. Accounted'
    BY <2>1, <2>3, SMTT(30) DEF TakeId
  <2>8. Latest'
    BY <2>1, <2>3, <2>4, SMTT(30) DEF TakeId, MayAccept
  <2> HIDE DEF Counted, Named, Accounted, Latest
  <2> QED
    BY <2>5, <2>6, <2>7, <2>8
<1>7. ASSUME NEW s \in Sessions, ProcessConnect(s) PROVE IdInv'
  <2>1. /\ chain[s] = "created" /\ chain' = [chain EXCEPT ![s] = "add"]
        /\ sessionCount < MaxSessionCount /\ sessionCount' = sessionCount + 1
        /\ sessions' = sessions \cup {s} /\ UNCHANGED <<closing, idVars>>
    BY <1>7, Zenon DEF ProcessConnect, Goto, CanAddNewSession, AddSession
  <2>2. Counted'
    <3>1. s \notin sessions
      BY <2>1, SMT
    <3>2. IsFiniteSet(sessions') /\ Cardinality(sessions') = Cardinality(sessions) + 1
      BY <2>1, <3>1, FS_AddElement, Zenon
    <3> QED
      BY <2>1, <3>2, ServiceAssumption, SMT
  <2>3. Named' /\ Accounted'
    BY <2>1, SMTT(30)
  <2>4. Latest'
    BY <2>1, SMT
  <2> HIDE DEF Counted, Named, Accounted, Latest
  <2> QED
    BY <2>2, <2>3, <2>4
<1>8. ASSUME NEW s \in Sessions, Add(s) PROVE IdInv'
  BY <1>8, MiddlemanAssumption, SMT DEF Add, Goto
<1>9. ASSUME NEW s \in Sessions, SendInfo(s) PROVE IdInv'
  BY <1>9, MiddlemanAssumption, SMT DEF SendInfo, Goto
<1>10. ASSUME NEW s \in Sessions, Announce(s) PROVE IdInv'
  BY <1>10, MiddlemanAssumption, SMT DEF Announce, RegisterRecv
<1>11. ASSUME NEW x \in Hosts, Receive(x) PROVE IdInv'
  BY <1>11, MiddlemanAssumption, SMT DEF Receive, Goto
<1>12. ASSUME NEW x \in Hosts, ReceiveZero(x) PROVE IdInv'
  BY <1>12, MiddlemanAssumption, SMT DEF ReceiveZero, Goto, Disconnect, Close
<1>13. ASSUME NEW s \in Sessions, Relay(s) PROVE IdInv'
  BY <1>13, MiddlemanAssumption, SMT DEF Relay, RegisterRecv
<1>14. ASSUME NEW l \in Logics, Broadcast(l) PROVE IdInv'
  BY <1>14, MiddlemanAssumption, SMT DEF Broadcast, Goto
<1>15. ASSUME NEW x \in Hosts, NEW s \in Sessions, BroadcastTo(x, s)
       PROVE  IdInv'
  BY <1>15, MiddlemanAssumption, SMT DEF BroadcastTo
<1>16. ASSUME NEW x \in Hosts, BroadcastEnd(x) PROVE IdInv'
  BY <1>16, MiddlemanAssumption, SMT DEF BroadcastEnd, RegisterRecv
<1>17. ASSUME NEW x \in Hosts, SendFails(x) PROVE IdInv'
  BY <1>17, MiddlemanAssumption, SMT DEF SendFails, Disconnect, Close
<1>18. ASSUME NEW s \in Sessions, Notify(s) PROVE IdInv'
  BY <1>18, MiddlemanAssumption, SMT DEF Notify, Close
<1>19. ASSUME NEW s \in Sessions, Remove(s) PROVE IdInv'
  BY <1>19, MiddlemanAssumption, SMT DEF Remove, Close
<1>20. ASSUME NEW s \in Sessions, Release(s) PROVE IdInv'
  <2>1. /\ closing[s] = "release" /\ closing' = [closing EXCEPT ![s] = "released"]
        /\ sessionCount' = sessionCount - 1 /\ sessions' = sessions \ {s}
        /\ sessionIdPool' = [sessionIdPool EXCEPT ![sessionId[s]] = FALSE]
        /\ UNCHANGED <<chain, sessionId, lastUsedSessionId, exhausted>>
    BY <1>20, Zenon DEF Release, Close, ReleaseSession
  <2>2. Here(s) /\ s \in sessions
    BY <2>1, SMT
  <2>3. Counted' /\ sessionCount' < MaxSessionCount
    <3>1. IsFiniteSet(sessions') /\ Cardinality(sessions') = Cardinality(sessions) - 1
      BY <2>1, <2>2, FS_RemoveElement, Zenon
    <3> QED
      BY <2>1, <3>1, ServiceAssumption, SMT
  <2>4. Named'
    BY <2>1, <2>2, SMTT(30)
  <2>5. Accounted'
    BY <2>1, <2>2, SMTT(30)
  <2>6. Latest'
    BY <2>1, <2>3, SMT
  <2> HIDE DEF Counted, Named, Accounted, Latest
  <2> QED
    BY <2>3, <2>4, <2>5, <2>6
<1>21. ASSUME NEW l \in Logics, RemoveLogic(l) PROVE IdInv'
  BY <1>21, MiddlemanAssumption, SMT DEF RemoveLogic, Close
<1>22. ASSUME NEW l \in Logics, ReleaseLogic(l) PROVE IdInv'
  BY <1>22, MiddlemanAssumption, SMT DEF ReleaseLogic, Close
<1>23. CASE UNCHANGED vars
  BY <1>23, MiddlemanAssumption, SMT DEF vars
<1> HIDE DEF Placed, ClientChain, LogicChain, ChainStates, ClosingStates, Data, Flags,
   Hosts, ThereInv, Served, Opened, IdInv, Counted, Named, Accounted, Latest, Here,
   serviceVars, idVars, managerVars, linkVars
<1> QED
  BY <1>1, <1>2, <1>3, <1>4, <1>5, <1>6, <1>7, <1>8, <1>9, <1>10, <1>11, <1>12, <1>13,
     <1>14, <1>15, <1>16, <1>17, <1>18, <1>19, <1>20, <1>21, <1>22, <1>23, NextCases, Zenon


\* Hence the ids are always apart.
LEMMA IdInvariant == Spec => [](Placed /\ Data /\ Flags /\ Logs /\ ThereInv /\ IdInv)
BY ThereInvariant, IdInit, IdNext, PTL DEF Spec

(***************************************************************************)
(* A client is sent to and disconnected only after it has been added.      *)
(***************************************************************************)
Added(s) == chain[s] \notin {"unused", "created", "add"}

Entered ==
  /\ \A s \in Sessions : log[s] # <<>> \/ closing[s] # "open" => Added(s)
  /\ \A l \in Logics : \A s \in targets[l] : Added(s)

\* The manager is empty at first.
LEMMA ManagerInit == Init => Entered /\ ManagerExact
BY SMT DEF Init, Entered, Added, ManagerExact, Listed, Hosts

SentToAdded == \A s \in Sessions : log'[s] = log[s] \/ Added(s)

\* A step that sends nothing sends nothing to a client.
LEMMA NothingSentToClients == UNCHANGED log => SentToAdded
BY Zenon DEF SentToAdded

\* Nor does one that sends to the logic server.
LEMMA SendToLogicSpares ==
  ASSUME Data, Logs, NEW packet, SendToLogic(packet)
  PROVE  SentToAdded
<1>1. CASE logicSession # NoSession /\ Send(logicSession, packet)
  <2>1. logicSession \in Hosts /\ logicSession \notin Sessions
    BY <1>1, MiddlemanAssumption, Zenon DEF Data, Hosts
  <2> QED
    BY <1>1, <2>1, SendAppends, Zenon DEF SentToAdded, Logs, Hosts
<1>2. CASE UNCHANGED log
  BY <1>2, Zenon DEF SentToAdded
<1> QED
  BY <1>1, <1>2, Zenon DEF SendToLogic

\* And what is sent to a client in the manager is sent to one that was added.
LEMMA SendToAdded ==
  ASSUME Logs, NEW s \in Sessions, Added(s), NEW packet, Send(s, packet)
  PROVE  SentToAdded
BY SendAppends, Zenon DEF SentToAdded, Logs, Hosts

\* Whom each step sends something.
LEMMA SentNext ==
  Placed /\ Data /\ Logs /\ Entered /\ ManagerExact /\ [Next]_vars => SentToAdded
<1> SUFFICES ASSUME Placed, Data, Logs, Entered, ManagerExact, [Next]_vars
             PROVE  SentToAdded
  OBVIOUS
<1>1. CASE Start
  BY <1>1, NothingSentToClients, Zenon DEF Start
<1>2. ASSUME NEW l \in Logics, AcceptLogic(l) PROVE SentToAdded
  BY <1>2, NothingSentToClients, Zenon DEF AcceptLogic
<1>3. ASSUME NEW l \in Logics, Set(l) PROVE SentToAdded
  BY <1>3, NothingSentToClients, Zenon DEF Set
<1>4. ASSUME NEW l \in Logics, SetConnectedTo(l) PROVE SentToAdded
  BY <1>4, NothingSentToClients, Zenon DEF SetConnectedTo
<1>5. ASSUME NEW l \in Logics, SendLogicInfo(l) PROVE SentToAdded
  BY <1>5, SendToLogicSpares, Zenon DEF SendLogicInfo
<1>6. ASSUME NEW s \in Sessions, Accept(s) PROVE SentToAdded
  BY <1>6, NothingSentToClients, Zenon DEF Accept
<1>7. ASSUME NEW s \in Sessions, ProcessConnect(s) PROVE SentToAdded
  BY <1>7, NothingSentToClients, Zenon DEF ProcessConnect
<1>8. ASSUME NEW s \in Sessions, Add(s) PROVE SentToAdded
  BY <1>8, NothingSentToClients, Zenon DEF Add
<1>9. ASSUME NEW s \in Sessions, SendInfo(s) PROVE SentToAdded
  <2>1. ASSUME clientSessions[sessionId[s]] # NoSession,
               Send(clientSessions[sessionId[s]], Packet("INFO", s, 0))
        PROVE  SentToAdded
    <3>1. sessionId[s] \in Ids
      BY Zenon DEF Data
    <3>2. clientSessions[sessionId[s]] \in Sessions
      BY <2>1, <3>1, Zenon DEF Data
    <3>3. Added(clientSessions[sessionId[s]])
      BY <2>1, <3>1, Zenon DEF ManagerExact, Listed, Added
    <3> QED
      BY <2>1, <3>2, <3>3, SendToAdded, Zenon
  <2> QED
    BY <1>9, <2>1, NothingSentToClients, Zenon DEF SendInfo, SendToClient
<1>10. ASSUME NEW s \in Sessions, Announce(s) PROVE SentToAdded
  BY <1>10, SendToLogicSpares, Zenon DEF Announce
<1>11. ASSUME NEW x \in Hosts, Receive(x) PROVE SentToAdded
  BY <1>11, NothingSentToClients, Zenon DEF Receive
<1>12. ASSUME NEW x \in Hosts, ReceiveZero(x) PROVE SentToAdded
  BY <1>12, NothingSentToClients, Zenon DEF ReceiveZero
<1>13. ASSUME NEW s \in Sessions, Relay(s) PROVE SentToAdded
  BY <1>13, SendToLogicSpares, Zenon DEF Relay
<1>14. ASSUME NEW l \in Logics, Broadcast(l) PROVE SentToAdded
  BY <1>14, NothingSentToClients, Zenon DEF Broadcast
<1>15. ASSUME NEW x \in Hosts, NEW s \in Sessions, BroadcastTo(x, s)
       PROVE  SentToAdded
  <2>1. x \in Logics
    <3>1. chain[x] = "broadcasting"
      BY <1>15, Zenon DEF BroadcastTo
    <3> QED
      BY <3>1, BroadcastersAreLogics, Zenon
  <2>2. Added(s)
    BY <1>15, <2>1, Zenon DEF BroadcastTo, Entered
  <2> QED
    BY <1>15, <2>2, SendToAdded, Zenon DEF BroadcastTo
<1>16. ASSUME NEW x \in Hosts, BroadcastEnd(x) PROVE SentToAdded
  BY <1>16, NothingSentToClients, Zenon DEF BroadcastEnd
<1>17. ASSUME NEW x \in Hosts, SendFails(x) PROVE SentToAdded
  BY <1>17, NothingSentToClients, Zenon DEF SendFails
<1>18. ASSUME NEW s \in Sessions, Notify(s) PROVE SentToAdded
  BY <1>18, SendToLogicSpares, Zenon DEF Notify
<1>19. ASSUME NEW s \in Sessions, Remove(s) PROVE SentToAdded
  BY <1>19, NothingSentToClients, Zenon DEF Remove
<1>20. ASSUME NEW s \in Sessions, Release(s) PROVE SentToAdded
  BY <1>20, NothingSentToClients, Zenon DEF Release
<1>21. ASSUME NEW l \in Logics, RemoveLogic(l) PROVE SentToAdded
  BY <1>21, NothingSentToClients, Zenon DEF RemoveLogic
<1>22. ASSUME NEW l \in Logics, ReleaseLogic(l) PROVE SentToAdded
  BY <1>22, NothingSentToClients, Zenon DEF ReleaseLogic
<1>23. CASE UNCHANGED vars
  BY <1>23, NothingSentToClients, Zenon DEF vars
<1> QED
  BY <1>1, <1>2, <1>3, <1>4, <1>5, <1>6, <1>7, <1>8, <1>9, <1>10, <1>11, <1>12, <1>13,
     <1>14, <1>15, <1>16, <1>17, <1>18, <1>19, <1>20, <1>21, <1>22, <1>23, NextCases, Zenon

AddedStay == \A s \in Sessions : Added(s) => Added(s)'
ClosedWereAdded == \A s \in Sessions : closing'[s] # "open" => Added(s)
TargetsWereAdded == \A l \in Logics : \A s \in targets'[l] : Added(s)

\* A client that was added remains so.
LEMMA AddedNext == Placed /\ [Next]_vars => AddedStay
<1> SUFFICES ASSUME Placed, [Next]_vars PROVE AddedStay
  OBVIOUS
<1> USE DEF AddedStay, Placed, Added, Hosts
<1>1. CASE Start
  BY <1>1, MiddlemanAssumption, SMT DEF Start
<1>2. ASSUME NEW l \in Logics, AcceptLogic(l) PROVE AddedStay
  BY <1>2, MiddlemanAssumption, SMT DEF AcceptLogic, Goto
<1>3. ASSUME NEW l \in Logics, Set(l) PROVE AddedStay
  BY <1>3, MiddlemanAssumption, SMT DEF Set, Goto
<1>4. ASSUME NEW l \in Logics, SetConnectedTo(l) PROVE AddedStay
  BY <1>4, MiddlemanAssumption, SMT DEF SetConnectedTo, Goto
<1>5. ASSUME NEW l \in Logics, SendLogicInfo(l) PROVE AddedStay
  BY <1>5, MiddlemanAssumption, SMT DEF SendLogicInfo, RegisterRecv
<1>6. ASSUME NEW s \in Sessions, Accept(s) PROVE AddedStay
  BY <1>6, MiddlemanAssumption, SMT DEF Accept, Goto
<1>7. ASSUME NEW s \in Sessions, ProcessConnect(s) PROVE AddedStay
  BY <1>7, MiddlemanAssumption, SMT DEF ProcessConnect, Goto
<1>8. ASSUME NEW s \in Sessions, Add(s) PROVE AddedStay
  BY <1>8, MiddlemanAssumption, SMT DEF Add, Goto
<1>9. ASSUME NEW s \in Sessions, SendInfo(s) PROVE AddedStay
  BY <1>9, MiddlemanAssumption, SMT DEF SendInfo, Goto
<1>10. ASSUME NEW s \in Sessions, Announce(s) PROVE AddedStay
  BY <1>10, MiddlemanAssumption, SMT DEF Announce, RegisterRecv
<1>11. ASSUME NEW x \in Hosts, Receive(x) PROVE AddedStay
  BY <1>11, MiddlemanAssumption, SMT DEF Receive, Goto
<1>12. ASSUME NEW x \in Hosts, ReceiveZero(x) PROVE AddedStay
  BY <1>12, MiddlemanAssumption, SMT DEF ReceiveZero, Goto
<1>13. ASSUME NEW s \in Sessions, Relay(s) PROVE AddedStay
  BY <1>13, MiddlemanAssumption, SMT DEF Relay, RegisterRecv
<1>14. ASSUME NEW l \in Logics, Broadcast(l) PROVE AddedStay
  BY <1>14, MiddlemanAssumption, SMT DEF Broadcast, Goto
<1>15. ASSUME NEW x \in Hosts, NEW s \in Sessions, BroadcastTo(x, s)
       PROVE  AddedStay
  BY <1>15, MiddlemanAssumption, SMT DEF BroadcastTo
<1>16. ASSUME NEW x \in Hosts, BroadcastEnd(x) PROVE AddedStay
  BY <1>16, MiddlemanAssumption, SMT DEF BroadcastEnd, RegisterRecv
<1>17. ASSUME NEW x \in Hosts, SendFails(x) PROVE AddedStay
  BY <1>17, MiddlemanAssumption, SMT DEF SendFails
<1>18. ASSUME NEW s \in Sessions, Notify(s) PROVE AddedStay
  BY <1>18, MiddlemanAssumption, SMT DEF Notify
<1>19. ASSUME NEW s \in Sessions, Remove(s) PROVE AddedStay
  BY <1>19, MiddlemanAssumption, SMT DEF Remove
<1>20. ASSUME NEW s \in Sessions, Release(s) PROVE AddedStay
  BY <1>20, MiddlemanAssumption, SMT DEF Release
<1>21. ASSUME NEW l \in Logics, RemoveLogic(l) PROVE AddedStay
  BY <1>21, MiddlemanAssumption, SMT DEF RemoveLogic
<1>22. ASSUME NEW l \in Logics, ReleaseLogic(l) PROVE AddedStay
  BY <1>22, MiddlemanAssumption, SMT DEF ReleaseLogic
<1>23. CASE UNCHANGED vars
  BY <1>23, MiddlemanAssumption, SMT DEF vars
<1> HIDE DEF AddedStay, Placed, Added, Hosts
<1> QED
  BY <1>1, <1>2, <1>3, <1>4, <1>5, <1>6, <1>7, <1>8, <1>9, <1>10, <1>11, <1>12, <1>13,
     <1>14, <1>15, <1>16, <1>17, <1>18, <1>19, <1>20, <1>21, <1>22, <1>23, NextCases, Zenon

\* Only such a client is disconnected.
LEMMA ClosersAdded == Placed /\ Entered /\ [Next]_vars => ClosedWereAdded
<1> SUFFICES ASSUME Placed, Entered, [Next]_vars PROVE ClosedWereAdded
  OBVIOUS
<1> USE DEF ClosedWereAdded, Placed, Hosts, Entered, Added, serviceVars, idVars,
   managerVars, linkVars
<1>1. CASE Start
  BY <1>1, MiddlemanAssumption, SMT DEF Start
<1>2. ASSUME NEW l \in Logics, AcceptLogic(l) PROVE ClosedWereAdded
  BY <1>2, MiddlemanAssumption, SMT DEF AcceptLogic, Goto
<1>3. ASSUME NEW l \in Logics, Set(l) PROVE ClosedWereAdded
  BY <1>3, MiddlemanAssumption, SMT DEF Set, Goto
<1>4. ASSUME NEW l \in Logics, SetConnectedTo(l) PROVE ClosedWereAdded
  BY <1>4, MiddlemanAssumption, SMT DEF SetConnectedTo, Goto
<1>5. ASSUME NEW l \in Logics, SendLogicInfo(l) PROVE ClosedWereAdded
  BY <1>5, MiddlemanAssumption, SMT DEF SendLogicInfo
<1>6. ASSUME NEW s \in Sessions, Accept(s) PROVE ClosedWereAdded
  BY <1>6, MiddlemanAssumption, SMT DEF Accept, Goto
<1>7. ASSUME NEW s \in Sessions, ProcessConnect(s) PROVE ClosedWereAdded
  BY <1>7, MiddlemanAssumption, SMT DEF ProcessConnect, Goto
<1>8. ASSUME NEW s \in Sessions, Add(s) PROVE ClosedWereAdded
  BY <1>8, MiddlemanAssumption, SMT DEF Add, Goto
<1>9. ASSUME NEW s \in Sessions, SendInfo(s) PROVE ClosedWereAdded
  BY <1>9, MiddlemanAssumption, SMT DEF SendInfo, Goto
<1>10. ASSUME NEW s \in Sessions, Announce(s) PROVE ClosedWereAdded
  BY <1>10, MiddlemanAssumption, SMT DEF Announce
<1>11. ASSUME NEW x \in Hosts, Receive(x) PROVE ClosedWereAdded
  BY <1>11, MiddlemanAssumption, SMT DEF Receive, Goto
<1>12. ASSUME NEW x \in Hosts, ReceiveZero(x) PROVE ClosedWereAdded
  BY <1>12, MiddlemanAssumption, SMT DEF ReceiveZero, Goto, Disconnect, Close
<1>13. ASSUME NEW s \in Sessions, Relay(s) PROVE ClosedWereAdded
  BY <1>13, MiddlemanAssumption, SMT DEF Relay
<1>14. ASSUME NEW l \in Logics, Broadcast(l) PROVE ClosedWereAdded
  BY <1>14, MiddlemanAssumption, SMT DEF Broadcast, Goto
<1>15. ASSUME NEW x \in Hosts, NEW s \in Sessions, BroadcastTo(x, s)
       PROVE  ClosedWereAdded
  BY <1>15, MiddlemanAssumption, SMT DEF BroadcastTo
<1>16. ASSUME NEW x \in Hosts, BroadcastEnd(x) PROVE ClosedWereAdded
  BY <1>16, MiddlemanAssumption, SMT DEF BroadcastEnd
<1>17. ASSUME NEW x \in Hosts, SendFails(x) PROVE ClosedWereAdded
  BY <1>17, MiddlemanAssumption, SMT DEF SendFails, Disconnect, Close
<1>18. ASSUME NEW s \in Sessions, Notify(s) PROVE ClosedWereAdded
  BY <1>18, MiddlemanAssumption, SMT DEF Notify, Close
<1>19. ASSUME NEW s \in Sessions, Remove(s) PROVE ClosedWereAdded
  BY <1>19, MiddlemanAssumption, SMT DEF Remove, Close
<1>20. ASSUME NEW s \in Sessions, Release(s) PROVE ClosedWereAdded
  BY <1>20, MiddlemanAssumption, SMT DEF Release, Close
<1>21. ASSUME NEW l \in Logics, RemoveLogic(l) PROVE ClosedWereAdded
  BY <1>21, MiddlemanAssumption, SMT DEF RemoveLogic, Close
<1>22. ASSUME NEW l \in Logics, ReleaseLogic(l) PROVE ClosedWereAdded
  BY <1>22, MiddlemanAssumption, SMT DEF ReleaseLogic, Close
<1>23. CASE UNCHANGED vars
  BY <1>23, MiddlemanAssumption, SMT DEF vars
<1> HIDE DEF ClosedWereAdded, Placed, Hosts, Entered, Added, serviceVars, idVars,
   managerVars, linkVars
<1> QED
  BY <1>1, <1>2, <1>3, <1>4, <1>5, <1>6, <1>7, <1>8, <1>9, <1>10, <1>11, <1>12, <1>13,
     <1>14, <1>15, <1>16, <1>17, <1>18, <1>19, <1>20, <1>21, <1>22, <1>23, NextCases, Zenon

\* Or is sent a broadcast.
LEMMA TargetsAdded ==
  Placed /\ Data /\ Logs /\ Entered /\ ManagerExact /\ [Next]_vars => TargetsWereAdded
<1> SUFFICES ASSUME Placed, Data, Logs, Entered, ManagerExact, [Next]_vars
             PROVE  TargetsWereAdded
  OBVIOUS
<1> USE DEF Entered, TargetsWereAdded
<1>1. CASE Start
  BY <1>1, Zenon DEF Start
<1>2. ASSUME NEW l \in Logics, AcceptLogic(l) PROVE TargetsWereAdded
  BY <1>2, Zenon DEF AcceptLogic
<1>3. ASSUME NEW l \in Logics, Set(l) PROVE TargetsWereAdded
  BY <1>3, Zenon DEF Set
<1>4. ASSUME NEW l \in Logics, SetConnectedTo(l) PROVE TargetsWereAdded
  BY <1>4, Zenon DEF SetConnectedTo
<1>5. ASSUME NEW l \in Logics, SendLogicInfo(l) PROVE TargetsWereAdded
  BY <1>5, Zenon DEF SendLogicInfo
<1>6. ASSUME NEW s \in Sessions, Accept(s) PROVE TargetsWereAdded
  BY <1>6, Zenon DEF Accept
<1>7. ASSUME NEW s \in Sessions, ProcessConnect(s) PROVE TargetsWereAdded
  BY <1>7, Zenon DEF ProcessConnect
<1>8. ASSUME NEW s \in Sessions, Add(s) PROVE TargetsWereAdded
  BY <1>8, Zenon DEF Add
<1>9. ASSUME NEW s \in Sessions, SendInfo(s) PROVE TargetsWereAdded
  BY <1>9, Zenon DEF SendInfo
<1>10. ASSUME NEW s \in Sessions, Announce(s) PROVE TargetsWereAdded
  BY <1>10, Zenon DEF Announce
<1>11. ASSUME NEW x \in Hosts, Receive(x) PROVE TargetsWereAdded
  BY <1>11, Zenon DEF Receive
<1>12. ASSUME NEW x \in Hosts, ReceiveZero(x) PROVE TargetsWereAdded
  BY <1>12, Zenon DEF ReceiveZero
<1>13. ASSUME NEW s \in Sessions, Relay(s) PROVE TargetsWereAdded
  BY <1>13, Zenon DEF Relay
<1>14. ASSUME NEW l \in Logics, Broadcast(l) PROVE TargetsWereAdded
  <2>1. \A id \in Ids : clientSessions[id] # NoSession => Added(clientSessions[id])
    BY Zenon DEF ManagerExact, Listed, Added
  <2>2. targets' = [targets EXCEPT ![l] = {clientSessions[id] : id \in Ids} \ {NoSession}]
    BY <1>14, Zenon DEF Broadcast
  <2>3. targets'[l] = {clientSessions[id] : id \in Ids} \ {NoSession}
    BY <2>2, Zenon DEF Logs
  <2>4. \A k \in Logics : k # l => targets'[k] = targets[k]
    BY <2>2, Zenon DEF Logs
  <2>5. \A c \in targets'[l] : Added(c)
    BY <2>1, <2>3, Zenon
  <2> QED
    BY <2>4, <2>5, Zenon
<1>15. ASSUME NEW x \in Hosts, NEW s \in Sessions, BroadcastTo(x, s)
       PROVE  TargetsWereAdded
  BY <1>15, SMT DEF BroadcastTo, Logs
<1>16. ASSUME NEW x \in Hosts, BroadcastEnd(x) PROVE TargetsWereAdded
  BY <1>16, Zenon DEF BroadcastEnd
<1>17. ASSUME NEW x \in Hosts, SendFails(x) PROVE TargetsWereAdded
  BY <1>17, Zenon DEF SendFails
<1>18. ASSUME NEW s \in Sessions, Notify(s) PROVE TargetsWereAdded
  BY <1>18, Zenon DEF Notify
<1>19. ASSUME NEW s \in Sessions, Remove(s) PROVE TargetsWereAdded
  BY <1>19, Zenon DEF Remove
<1>20. ASSUME NEW s \in Sessions, Release(s) PROVE TargetsWereAdded
  BY <1>20, Zenon DEF Release
<1>21. ASSUME NEW l \in Logics, RemoveLogic(l) PROVE TargetsWereAdded
  BY <1>21, Zenon DEF RemoveLogic
<1>22. ASSUME NEW l \in Logics, ReleaseLogic(l) PROVE TargetsWereAdded
  BY <1>22, Zenon DEF ReleaseLogic
<1>23. CASE UNCHANGED vars
  BY <1>23, Zenon DEF vars
<1> HIDE DEF Entered, TargetsWereAdded
<1> QED
  BY <1>1, <1>2, <1>3, <1>4, <1>5, <1>6, <1>7, <1>8, <1>9, <1>10, <1>11, <1>12, <1>13,
     <1>14, <1>15, <1>16, <1>17, <1>18, <1>19, <1>20, <1>21, <1>22, <1>23, NextCases, Zenon

\* Hence every step leaves this true.
LEMMA EnteredNext ==
  Placed /\ Data /\ Logs /\ Entered /\ ManagerExact /\ [Next]_vars => Entered'
<1> SUFFICES ASSUME Placed, Data, Logs, Entered, ManagerExact, [Next]_vars
             PROVE  Entered'
  OBVIOUS
<1>1. \A s \in Sessions : Added(s) => Added(s)'
  BY AddedNext DEF AddedStay
<1>2. \A s \in Sessions : log'[s] # <<>> => Added(s)
  BY SentNext, Zenon DEF SentToAdded, Entered
<1>3. \A s \in Sessions : closing'[s] # "open" => Added(s)
  BY ClosersAdded DEF ClosedWereAdded
<1>4. \A l \in Logics : \A s \in targets'[l] : Added(s) /\ s \in Sessions
  BY TargetsAdded, LogsNext, Zenon DEF Logs, TargetsWereAdded
<1> QED
  BY <1>1, <1>2, <1>3, <1>4, Zenon DEF Entered

\* The manager remains exact if the sessions it lists, and their ids, remain the same.
LEMMA SameList ==
  ASSUME Data, ManagerExact, UNCHANGED clientSessions,
         \A s \in Sessions : Listed(s)' <=> Listed(s),
         \A s \in Sessions : Listed(s) => sessionId'[s] = sessionId[s]
  PROVE  ManagerExact'
<1>1. ASSUME NEW s \in Sessions, Listed(s)'
      PROVE  clientSessions'[sessionId'[s]] = s
  <2>1. Listed(s) /\ sessionId'[s] = sessionId[s]
    BY <1>1, Zenon
  <2>2. clientSessions[sessionId[s]] = s
    BY <2>1, Zenon DEF ManagerExact
  <2> QED
    BY <2>1, <2>2, Zenon
<1>2. ASSUME NEW id \in Ids, clientSessions[id] # NoSession
      PROVE  Listed(clientSessions[id])' /\ sessionId'[clientSessions'[id]] = id
  <2>1. PICK s \in Sessions : s = clientSessions[id]
    BY <1>2, Zenon DEF Data
  <2>2. Listed(s) /\ sessionId[s] = id
    BY <1>2, <2>1, Zenon DEF ManagerExact
  <2>3. Listed(s)' /\ sessionId'[s] = id
    BY <2>2, Zenon
  <2>4. s = clientSessions'[id]
    BY <2>1, Zenon
  <2> QED
    BY <2>3, <2>4, Zenon DEF Listed
<1> QED
  BY <1>1, <1>2, Zenon DEF ManagerExact

\* Every step keeps the manager exact.
LEMMA ManagerNext ==
  Placed /\ Data /\ IdInv /\ Entered /\ ManagerExact /\ [Next]_vars => ManagerExact'
<1> SUFFICES ASSUME Placed, Data, IdInv, Entered, ManagerExact, [Next]_vars
             PROVE  ManagerExact'
  OBVIOUS
<1>1. CASE Start
  <2>1. UNCHANGED <<clientSessions, sessionId>>
    BY <1>1, Zenon DEF Start, serviceVars, idVars, managerVars, linkVars
  <2>2. \A c \in Sessions : Listed(c)' <=> Listed(c)
    BY <1>1, MiddlemanAssumption, SMT DEF Start, Listed, Placed, Hosts, managerVars, linkVars
  <2> QED
    BY <2>1, <2>2, SameList, Zenon
<1>2. ASSUME NEW l \in Logics, AcceptLogic(l) PROVE ManagerExact'
  <2>1. UNCHANGED <<clientSessions, sessionId>>
    BY <1>2, Zenon DEF AcceptLogic, serviceVars, idVars, managerVars, linkVars
  <2>2. \A c \in Sessions : Listed(c)' <=> Listed(c)
    BY <1>2, MiddlemanAssumption, SMT DEF AcceptLogic, Goto, Listed, Placed, Hosts,
       managerVars, linkVars
  <2> QED
    BY <2>1, <2>2, SameList, Zenon
<1>3. ASSUME NEW l \in Logics, Set(l) PROVE ManagerExact'
  <2>1. UNCHANGED <<clientSessions, sessionId>>
    BY <1>3, Zenon DEF Set, serviceVars, idVars, managerVars, linkVars
  <2>2. \A c \in Sessions : Listed(c)' <=> Listed(c)
    BY <1>3, MiddlemanAssumption, SMT DEF Set, Goto, Listed, Placed, Hosts, managerVars,
       linkVars
  <2> QED
    BY <2>1, <2>2, SameList, Zenon
<1>4. ASSUME NEW l \in Logics, SetConnectedTo(l) PROVE ManagerExact'
  <2>1. UNCHANGED <<clientSessions, sessionId>>
    BY <1>4, Zenon DEF SetConnectedTo, serviceVars, idVars, managerVars, linkVars
  <2>2. \A c \in Sessions : Listed(c)' <=> Listed(c)
    BY <1>4, MiddlemanAssumption, SMT DEF SetConnectedTo, Goto, Listed, Placed, Hosts,
       managerVars, linkVars
  <2> QED
    BY <2>1, <2>2, SameList, Zenon
<1>5. ASSUME NEW l \in Logics, SendLogicInfo(l) PROVE ManagerExact'
  <2>1. UNCHANGED <<clientSessions, sessionId>>
    BY <1>5, Zenon DEF SendLogicInfo, serviceVars, idVars, managerVars, linkVars
  <2>2. \A c \in Sessions : Listed(c)' <=> Listed(c)
    BY <1>5, MiddlemanAssumption, SMT DEF SendLogicInfo, RegisterRecv, Listed, Placed,
       Hosts, managerVars, linkVars
  <2> QED
    BY <2>1, <2>2, SameList, Zenon
<1>6. ASSUME NEW s \in Sessions, Accept(s) PROVE ManagerExact'
  <2>1. /\ chain[s] = "unused" /\ chain' = [chain EXCEPT ![s] = "created"]
        /\ UNCHANGED <<clientSessions, closing>> /\ CreateSession(s)
    BY <1>6, Zenon DEF Accept, Goto, managerVars, linkVars
  <2>2. \A c \in Sessions : Listed(c)' <=> Listed(c)
    BY <2>1, SMT DEF Listed, Placed, Hosts
  <2>3. \A c \in Sessions : c # s => sessionId'[c] = sessionId[c]
    <3>1. lastUsedSessionId \in Ids
      BY Zenon DEF Data
    <3>2. \/ \E id \in Ids : TakeId(s, id)
          \/ sessionId' = [sessionId EXCEPT ![s] = 0]
      BY <2>1, <3>1, CreateSessionCases, Zenon
    <3> QED
      BY <3>2, SMT DEF TakeId, Data
  <2>4. ~Listed(s)
    BY <2>1, Zenon DEF Listed
  <2> QED
    BY <2>1, <2>2, <2>3, <2>4, SameList, Zenon
<1>7. ASSUME NEW s \in Sessions, ProcessConnect(s) PROVE ManagerExact'
  <2>1. UNCHANGED <<clientSessions, sessionId>>
    BY <1>7, Zenon DEF ProcessConnect, AddSession, serviceVars, idVars, managerVars, linkVars
  <2>2. \A c \in Sessions : Listed(c)' <=> Listed(c)
    BY <1>7, MiddlemanAssumption, SMT DEF ProcessConnect, AddSession, Goto, Listed, Placed,
       Hosts, managerVars, linkVars
  <2> QED
    BY <2>1, <2>2, SameList, Zenon
<1>8. ASSUME NEW s \in Sessions, Add(s) PROVE ManagerExact'
  <2>1. /\ chain[s] = "add" /\ chain' = [chain EXCEPT ![s] = "info"]
        /\ clientSessions' = [clientSessions EXCEPT ![sessionId[s]] =
                                IF @ = NoSession THEN s ELSE @]
        /\ UNCHANGED <<closing, sessionId>>
    BY <1>8, Zenon DEF Add, Goto, serviceVars, idVars, linkVars
  <2>2. closing[s] = "open" /\ Here(s) /\ ~Listed(s)
    BY <2>1, SMT DEF Entered, Added, Here, Listed
  <2>3. \A c \in Sessions : Listed(c) => Here(c)
    BY Zenon DEF Listed, Here
  <2>4. \A c \in Sessions : Listed(c)' <=> Listed(c) \/ c = s
    BY <2>1, <2>2, SMT DEF Listed, Placed, Hosts
  <2>5. clientSessions[sessionId[s]] = NoSession
    <3>1. sessionId[s] \in Ids
      BY Zenon DEF Data
    <3>2. CASE clientSessions[sessionId[s]] # NoSession
      <4>1. PICK c \in Sessions : c = clientSessions[sessionId[s]]
        BY <3>1, <3>2, Zenon DEF Data
      <4>2. Listed(c) /\ sessionId[c] = sessionId[s]
        BY <3>1, <3>2, <4>1, Zenon DEF ManagerExact
      <4>3. c = s
        BY <2>2, <2>3, <4>2, Zenon DEF IdInv, Named
      <4> QED
        BY <2>2, <4>2, <4>3, Zenon
    <3> QED
      BY <3>2, Zenon
  <2> QED
    BY <2>1, <2>2, <2>3, <2>4, <2>5, MiddlemanAssumption, SMT DEF Data, ManagerExact, IdInv,
       Named
<1>9. ASSUME NEW s \in Sessions, SendInfo(s) PROVE ManagerExact'
  <2>1. UNCHANGED <<clientSessions, sessionId>>
    BY <1>9, Zenon DEF SendInfo, serviceVars, idVars, managerVars, linkVars
  <2>2. \A c \in Sessions : Listed(c)' <=> Listed(c)
    BY <1>9, MiddlemanAssumption, SMT DEF SendInfo, Goto, Listed, Placed, Hosts,
       managerVars, linkVars
  <2> QED
    BY <2>1, <2>2, SameList, Zenon
<1>10. ASSUME NEW s \in Sessions, Announce(s) PROVE ManagerExact'
  <2>1. UNCHANGED <<clientSessions, sessionId>>
    BY <1>10, Zenon DEF Announce, serviceVars, idVars, managerVars, linkVars
  <2>2. \A c \in Sessions : Listed(c)' <=> Listed(c)
    BY <1>10, MiddlemanAssumption, SMT DEF Announce, RegisterRecv, Listed, Placed, Hosts,
       managerVars, linkVars
  <2> QED
    BY <2>1, <2>2, SameList, Zenon
<1>11. ASSUME NEW x \in Hosts, Receive(x) PROVE ManagerExact'
  <2>1. UNCHANGED <<clientSessions, sessionId>>
    BY <1>11, Zenon DEF Receive, serviceVars, idVars, managerVars, linkVars
  <2>2. \A c \in Sessions : Listed(c)' <=> Listed(c)
    BY <1>11, MiddlemanAssumption, SMT DEF Receive, Goto, Listed, Placed, Hosts,
       managerVars, linkVars
  <2> QED
    BY <2>1, <2>2, SameList, Zenon
<1>12. ASSUME NEW x \in Hosts, ReceiveZero(x) PROVE ManagerExact'
  <2>1. UNCHANGED <<clientSessions, sessionId>>
    BY <1>12, Zenon DEF ReceiveZero, serviceVars, idVars, managerVars, linkVars
  <2>2. \A c \in Sessions : Listed(c)' <=> Listed(c)
    BY <1>12, MiddlemanAssumption, SMT DEF ReceiveZero, Goto, Disconnect, Close, Listed,
       Placed, Hosts, managerVars, linkVars, Entered, Added
  <2> QED
    BY <2>1, <2>2, SameList, Zenon
<1>13. ASSUME NEW s \in Sessions, Relay(s) PROVE ManagerExact'
  <2>1. UNCHANGED <<clientSessions, sessionId>>
    BY <1>13, Zenon DEF Relay, serviceVars, idVars, managerVars, linkVars
  <2>2. \A c \in Sessions : Listed(c)' <=> Listed(c)
    BY <1>13, MiddlemanAssumption, SMT DEF Relay, RegisterRecv, Listed, Placed, Hosts,
       managerVars, linkVars
  <2> QED
    BY <2>1, <2>2, SameList, Zenon
<1>14. ASSUME NEW l \in Logics, Broadcast(l) PROVE ManagerExact'
  <2>1. UNCHANGED <<clientSessions, sessionId>>
    BY <1>14, Zenon DEF Broadcast, serviceVars, idVars, managerVars, linkVars
  <2>2. \A c \in Sessions : Listed(c)' <=> Listed(c)
    BY <1>14, MiddlemanAssumption, SMT DEF Broadcast, Goto, Listed, Placed, Hosts,
       managerVars, linkVars
  <2> QED
    BY <2>1, <2>2, SameList, Zenon
<1>15. ASSUME NEW x \in Hosts, NEW s \in Sessions, BroadcastTo(x, s)
       PROVE  ManagerExact'
  <2>1. UNCHANGED <<clientSessions, sessionId>>
    BY <1>15, Zenon DEF BroadcastTo, serviceVars, idVars, managerVars, linkVars
  <2>2. \A c \in Sessions : Listed(c)' <=> Listed(c)
    BY <1>15, MiddlemanAssumption, SMT DEF BroadcastTo, Listed, Placed, Hosts, managerVars,
       linkVars
  <2> QED
    BY <2>1, <2>2, SameList, Zenon
<1>16. ASSUME NEW x \in Hosts, BroadcastEnd(x) PROVE ManagerExact'
  <2>1. UNCHANGED <<clientSessions, sessionId>>
    BY <1>16, Zenon DEF BroadcastEnd, serviceVars, idVars, managerVars, linkVars
  <2>2. \A c \in Sessions : Listed(c)' <=> Listed(c)
    BY <1>16, MiddlemanAssumption, SMT DEF BroadcastEnd, RegisterRecv, Listed, Placed,
       Hosts, managerVars, linkVars
  <2> QED
    BY <2>1, <2>2, SameList, Zenon
<1>17. ASSUME NEW x \in Hosts, SendFails(x) PROVE ManagerExact'
  <2>1. UNCHANGED <<clientSessions, sessionId>>
    BY <1>17, Zenon DEF SendFails, serviceVars, idVars, managerVars, linkVars
  <2>2. \A c \in Sessions : Listed(c)' <=> Listed(c)
    BY <1>17, MiddlemanAssumption, SMT DEF SendFails, Disconnect, Close, Listed, Placed,
       Hosts, managerVars, linkVars, Entered, Added
  <2> QED
    BY <2>1, <2>2, SameList, Zenon
<1>18. ASSUME NEW s \in Sessions, Notify(s) PROVE ManagerExact'
  <2>1. UNCHANGED <<clientSessions, sessionId>>
    BY <1>18, Zenon DEF Notify, serviceVars, idVars, managerVars, linkVars
  <2>2. \A c \in Sessions : Listed(c)' <=> Listed(c)
    BY <1>18, MiddlemanAssumption, SMT DEF Notify, Close, Listed, Placed, Hosts,
       managerVars, linkVars
  <2> QED
    BY <2>1, <2>2, SameList, Zenon
<1>19. ASSUME NEW s \in Sessions, Remove(s) PROVE ManagerExact'
  <2>1. /\ closing[s] = "remove" /\ closing' = [closing EXCEPT ![s] = "release"]
        /\ clientSessions' = [clientSessions EXCEPT ![sessionId[s]] = NoSession]
        /\ UNCHANGED <<chain, sessionId>>
    BY <1>19, Zenon DEF Remove, Close, serviceVars, idVars
  <2>2. Listed(s)
    BY <2>1, SMT DEF Entered, Added, Listed
  <2>3. \A c \in Sessions : Listed(c)' <=> Listed(c) /\ c # s
    BY <2>1, SMT DEF Listed, Placed, Hosts
  <2> QED
    BY <2>1, <2>2, <2>3, MiddlemanAssumption, SMT DEF Data, ManagerExact
<1>20. ASSUME NEW s \in Sessions, Release(s) PROVE ManagerExact'
  <2>1. UNCHANGED <<clientSessions, sessionId>>
    BY <1>20, Zenon DEF Release, ReleaseSession, serviceVars, idVars, managerVars, linkVars
  <2>2. \A c \in Sessions : Listed(c)' <=> Listed(c)
    BY <1>20, MiddlemanAssumption, SMT DEF Release, ReleaseSession, Close, Listed, Placed,
       Hosts, managerVars, linkVars
  <2> QED
    BY <2>1, <2>2, SameList, Zenon
<1>21. ASSUME NEW l \in Logics, RemoveLogic(l) PROVE ManagerExact'
  <2>1. UNCHANGED <<clientSessions, sessionId>>
    BY <1>21, Zenon DEF RemoveLogic, serviceVars, idVars, managerVars, linkVars
  <2>2. \A c \in Sessions : Listed(c)' <=> Listed(c)
    BY <1>21, MiddlemanAssumption, SMT DEF RemoveLogic, Close, Listed, Placed, Hosts,
       managerVars, linkVars
  <2> QED
    BY <2>1, <2>2, SameList, Zenon
<1>22. ASSUME NEW l \in Logics, ReleaseLogic(l) PROVE ManagerExact'
  <2>1. UNCHANGED <<clientSessions, sessionId>>
    BY <1>22, Zenon DEF ReleaseLogic, serviceVars, idVars, managerVars, linkVars
  <2>2. \A c \in Sessions : Listed(c)' <=> Listed(c)
    BY <1>22, MiddlemanAssumption, SMT DEF ReleaseLogic, Close, Listed, Placed, Hosts,
       managerVars, linkVars
  <2> QED
    BY <2>1, <2>2, SameList, Zenon
<1>23. CASE UNCHANGED vars
  BY <1>23, Zenon DEF vars, ManagerExact, Listed, idVars, serviceVars, managerVars, linkVars
<1> QED
  BY <1>1, <1>2, <1>3, <1>4, <1>5, <1>6, <1>7, <1>8, <1>9, <1>10, <1>11, <1>12, <1>13,
     <1>14, <1>15, <1>16, <1>17, <1>18, <1>19, <1>20, <1>21, <1>22, <1>23, NextCases, Zenon

(***************************************************************************)
(* GSToCSessionManager holds exactly the sessions registered with it, each *)
(* under its id, though ids are used again and again.                      *)
(***************************************************************************)
THEOREM ManagerIsExact == Spec => []ManagerExact
BY IdInvariant, ManagerInit, EnteredNext, ManagerNext, PTL DEF Spec

-----------------------------------------------------------------------------
(***************************************************************************)
(* The handing over of ids.  When a session gets the id of another, that   *)
(* one has been released and its OnConnected is over (IdHeir), since the   *)
(* id was free and the listener waits for OnConnected: such a session is   *)
(* retired, and the logic server is told no more of it.                    *)
(***************************************************************************)
Entering(s) == chain[s] \in {"created", "add", "info", "announce"}
Retired(s) == chain[s] \in Announced /\ closing[s] = "released"

OneEnters == \A s, u \in Sessions : Entering(s) /\ Entering(u) => s = u

IdHeir ==
  \A s, c \in Sessions :
    Entering(s) /\ c # s /\ chain[c] # "unused" /\ sessionId[c] = sessionId[s] => Retired(c)

HeirInv == OneEnters /\ IdHeir

\* A step other than Accept lets nobody in.
NobodyEnters ==
  \A c \in Sessions :
    /\ chain[c] = "unused" => chain'[c] = "unused"
    /\ Entering(c)' => Entering(c)

\* A session remains what it is, and who is retired remains so.
Steady ==
  \A c \in Sessions : chain[c] # "unused" =>
    /\ chain'[c] # "unused"
    /\ sessionId'[c] = sessionId[c]
    /\ Retired(c) => Retired(c)'

\* Who enters.
LEMMA EntersNext == Placed /\ [Next]_vars => NobodyEnters \/ \E s \in Sessions : Accept(s)
<1> SUFFICES ASSUME Placed, [Next]_vars
             PROVE  NobodyEnters \/ \E u \in Sessions : Accept(u)
  OBVIOUS
<1> USE DEF NobodyEnters, Entering, Placed, Hosts, serviceVars, idVars, managerVars,
   linkVars
<1>1. CASE Start
  BY <1>1, MiddlemanAssumption, SMT DEF Start
<1>2. ASSUME NEW l \in Logics, AcceptLogic(l)
      PROVE  NobodyEnters \/ \E u \in Sessions : Accept(u)
  BY <1>2, MiddlemanAssumption, SMT DEF AcceptLogic, Goto
<1>3. ASSUME NEW l \in Logics, Set(l)
      PROVE  NobodyEnters \/ \E u \in Sessions : Accept(u)
  BY <1>3, MiddlemanAssumption, SMT DEF Set, Goto
<1>4. ASSUME NEW l \in Logics, SetConnectedTo(l)
      PROVE  NobodyEnters \/ \E u \in Sessions : Accept(u)
  BY <1>4, MiddlemanAssumption, SMT DEF SetConnectedTo, Goto
<1>5. ASSUME NEW l \in Logics, SendLogicInfo(l)
      PROVE  NobodyEnters \/ \E u \in Sessions : Accept(u)
  BY <1>5, MiddlemanAssumption, SMT DEF SendLogicInfo, RegisterRecv
<1>6. ASSUME NEW s \in Sessions, Accept(s)
      PROVE  NobodyEnters \/ \E u \in Sessions : Accept(u)
  BY <1>6, Zenon
<1>7. ASSUME NEW s \in Sessions, ProcessConnect(s)
      PROVE  NobodyEnters \/ \E u \in Sessions : Accept(u)
  BY <1>7, MiddlemanAssumption, SMT DEF ProcessConnect, Goto
<1>8. ASSUME NEW s \in Sessions, Add(s)
      PROVE  NobodyEnters \/ \E u \in Sessions : Accept(u)
  BY <1>8, MiddlemanAssumption, SMT DEF Add, Goto
<1>9. ASSUME NEW s \in Sessions, SendInfo(s)
      PROVE  NobodyEnters \/ \E u \in Sessions : Accept(u)
  BY <1>9, MiddlemanAssumption, SMT DEF SendInfo, Goto
<1>10. ASSUME NEW s \in Sessions, Announce(s)
       PROVE  NobodyEnters \/ \E u \in Sessions : Accept(u)
  BY <1>10, MiddlemanAssumption, SMT DEF Announce, RegisterRecv
<1>11. ASSUME NEW x \in Hosts, Receive(x)
       PROVE  NobodyEnters \/ \E u \in Sessions : Accept(u)
  BY <1>11, MiddlemanAssumption, SMT DEF Receive, Goto
<1>12. ASSUME NEW x \in Hosts, ReceiveZero(x)
       PROVE  NobodyEnters \/ \E u \in Sessions : Accept(u)
  BY <1>12, MiddlemanAssumption, SMT DEF ReceiveZero, Goto
<1>13. ASSUME NEW s \in Sessions, Relay(s)
       PROVE  NobodyEnters \/ \E u \in Sessions : Accept(u)
  BY <1>13, MiddlemanAssumption, SMT DEF Relay, RegisterRecv
<1>14. ASSUME NEW l \in Logics, Broadcast(l)
       PROVE  NobodyEnters \/ \E u \in Sessions : Accept(u)
  BY <1>14, MiddlemanAssumption, SMT DEF Broadcast, Goto
<1>15. ASSUME NEW x \in Hosts, NEW s \in Sessions, BroadcastTo(x, s)
       PROVE  NobodyEnters \/ \E u \in Sessions : Accept(u)
  BY <1>15, MiddlemanAssumption, SMT DEF BroadcastTo
<1>16. ASSUME NEW x \in Hosts, BroadcastEnd(x)
       PROVE  NobodyEnters \/ \E u \in Sessions : Accept(u)
  BY <1>16, MiddlemanAssumption, SMT DEF BroadcastEnd, RegisterRecv
<1>17. ASSUME NEW x \in Hosts, SendFails(x)
       PROVE  NobodyEnters \/ \E u \in Sessions : Accept(u)
  BY <1>17, MiddlemanAssumption, SMT DEF SendFails
<1>18. ASSUME NEW s \in Sessions, Notify(s)
       PROVE  NobodyEnters \/ \E u \in Sessions : Accept(u)
  BY <1>18, MiddlemanAssumption, SMT DEF Notify
<1>19. ASSUME NEW s \in Sessions, Remove(s)
       PROVE  NobodyEnters \/ \E u \in Sessions : Accept(u)
  BY <1>19, MiddlemanAssumption, SMT DEF Remove
<1>20. ASSUME NEW s \in Sessions, Release(s)
       PROVE  NobodyEnters \/ \E u \in Sessions : Accept(u)
  BY <1>20, MiddlemanAssumption, SMT DEF Release
<1>21. ASSUME NEW l \in Logics, RemoveLogic(l)
       PROVE  NobodyEnters \/ \E u \in Sessions : Accept(u)
  BY <1>21, MiddlemanAssumption, SMT DEF RemoveLogic
<1>22. ASSUME NEW l \in Logics, ReleaseLogic(l)
       PROVE  NobodyEnters \/ \E u \in Sessions : Accept(u)
  BY <1>22, MiddlemanAssumption, SMT DEF ReleaseLogic
<1>23. CASE UNCHANGED vars
  BY <1>23, MiddlemanAssumption, SMT DEF vars
<1> HIDE DEF NobodyEnters, Entering, Placed, Hosts, serviceVars, idVars, managerVars,
   linkVars
<1> QED
  BY <1>1, <1>2, <1>3, <1>4, <1>5, <1>6, <1>7, <1>8, <1>9, <1>10, <1>11, <1>12, <1>13,
     <1>14, <1>15, <1>16, <1>17, <1>18, <1>19, <1>20, <1>21, <1>22, <1>23, NextCases, Zenon

\* Every step leaves it so.
LEMMA SteadyNext == Placed /\ Data /\ [Next]_vars => Steady
<1> SUFFICES ASSUME Placed, Data, [Next]_vars PROVE Steady
  OBVIOUS
<1> USE DEF Steady, Retired, Announced, Placed, ClientChain, Hosts, managerVars, linkVars
<1>1. CASE Start
  <2>1. UNCHANGED sessionId
    BY <1>1, Zenon DEF Start, serviceVars, idVars
  <2> QED
    BY <1>1, <2>1, MiddlemanAssumption, SMT DEF Start
<1>2. ASSUME NEW l \in Logics, AcceptLogic(l) PROVE Steady
  <2>1. UNCHANGED sessionId
    BY <1>2, Zenon DEF AcceptLogic, serviceVars, idVars
  <2> QED
    BY <1>2, <2>1, MiddlemanAssumption, SMT DEF AcceptLogic, Goto
<1>3. ASSUME NEW l \in Logics, Set(l) PROVE Steady
  <2>1. UNCHANGED sessionId
    BY <1>3, Zenon DEF Set, serviceVars, idVars
  <2> QED
    BY <1>3, <2>1, MiddlemanAssumption, SMT DEF Set, Goto
<1>4. ASSUME NEW l \in Logics, SetConnectedTo(l) PROVE Steady
  <2>1. UNCHANGED sessionId
    BY <1>4, Zenon DEF SetConnectedTo, serviceVars, idVars
  <2> QED
    BY <1>4, <2>1, MiddlemanAssumption, SMT DEF SetConnectedTo, Goto
<1>5. ASSUME NEW l \in Logics, SendLogicInfo(l) PROVE Steady
  <2>1. UNCHANGED sessionId
    BY <1>5, Zenon DEF SendLogicInfo, serviceVars, idVars
  <2> QED
    BY <1>5, <2>1, MiddlemanAssumption, SMT DEF SendLogicInfo, RegisterRecv
<1>6. ASSUME NEW s \in Sessions, Accept(s) PROVE Steady
  <2>1. /\ chain[s] = "unused" /\ chain' = [chain EXCEPT ![s] = "created"]
        /\ UNCHANGED closing /\ CreateSession(s)
    BY <1>6, Zenon DEF Accept, Goto, linkVars
  <2>2. \A c \in Sessions : c # s => sessionId'[c] = sessionId[c]
    <3>1. \/ \E id \in Ids : TakeId(s, id)
          \/ sessionId' = [sessionId EXCEPT ![s] = 0]
      BY <2>1, CreateSessionCases, Zenon DEF Data
    <3> QED
      BY <3>1, SMT DEF TakeId, Data
  <2> QED
    BY <2>1, <2>2, SMT
<1>7. ASSUME NEW s \in Sessions, ProcessConnect(s) PROVE Steady
  <2>1. UNCHANGED sessionId
    BY <1>7, Zenon DEF ProcessConnect, AddSession, serviceVars, idVars
  <2> QED
    BY <1>7, <2>1, MiddlemanAssumption, SMT DEF ProcessConnect, Goto
<1>8. ASSUME NEW s \in Sessions, Add(s) PROVE Steady
  <2>1. UNCHANGED sessionId
    BY <1>8, Zenon DEF Add, serviceVars, idVars
  <2> QED
    BY <1>8, <2>1, MiddlemanAssumption, SMT DEF Add, Goto
<1>9. ASSUME NEW s \in Sessions, SendInfo(s) PROVE Steady
  <2>1. UNCHANGED sessionId
    BY <1>9, Zenon DEF SendInfo, serviceVars, idVars
  <2> QED
    BY <1>9, <2>1, MiddlemanAssumption, SMT DEF SendInfo, Goto
<1>10. ASSUME NEW s \in Sessions, Announce(s) PROVE Steady
  <2>1. UNCHANGED sessionId
    BY <1>10, Zenon DEF Announce, serviceVars, idVars
  <2> QED
    BY <1>10, <2>1, MiddlemanAssumption, SMT DEF Announce, RegisterRecv
<1>11. ASSUME NEW x \in Hosts, Receive(x) PROVE Steady
  <2>1. UNCHANGED sessionId
    BY <1>11, Zenon DEF Receive, serviceVars, idVars
  <2> QED
    BY <1>11, <2>1, MiddlemanAssumption, SMT DEF Receive, Goto
<1>12. ASSUME NEW x \in Hosts, ReceiveZero(x) PROVE Steady
  <2>1. UNCHANGED sessionId
    BY <1>12, Zenon DEF ReceiveZero, serviceVars, idVars
  <2> QED
    BY <1>12, <2>1, MiddlemanAssumption, SMT DEF ReceiveZero, Goto, Disconnect, Close
<1>13. ASSUME NEW s \in Sessions, Relay(s) PROVE Steady
  <2>1. UNCHANGED sessionId
    BY <1>13, Zenon DEF Relay, serviceVars, idVars
  <2> QED
    BY <1>13, <2>1, MiddlemanAssumption, SMT DEF Relay, RegisterRecv
<1>14. ASSUME NEW l \in Logics, Broadcast(l) PROVE Steady
  <2>1. UNCHANGED sessionId
    BY <1>14, Zenon DEF Broadcast, serviceVars, idVars
  <2> QED
    BY <1>14, <2>1, MiddlemanAssumption, SMT DEF Broadcast, Goto
<1>15. ASSUME NEW x \in Hosts, NEW s \in Sessions, BroadcastTo(x, s)
       PROVE  Steady
  <2>1. UNCHANGED sessionId
    BY <1>15, Zenon DEF BroadcastTo, serviceVars, idVars
  <2> QED
    BY <1>15, <2>1, MiddlemanAssumption, SMT DEF BroadcastTo
<1>16. ASSUME NEW x \in Hosts, BroadcastEnd(x) PROVE Steady
  <2>1. UNCHANGED sessionId
    BY <1>16, Zenon DEF BroadcastEnd, serviceVars, idVars
  <2> QED
    BY <1>16, <2>1, MiddlemanAssumption, SMT DEF BroadcastEnd, RegisterRecv
<1>17. ASSUME NEW x \in Hosts, SendFails(x) PROVE Steady
  <2>1. UNCHANGED sessionId
    BY <1>17, Zenon DEF SendFails, serviceVars, idVars
  <2> QED
    BY <1>17, <2>1, MiddlemanAssumption, SMT DEF SendFails, Disconnect, Close
<1>18. ASSUME NEW s \in Sessions, Notify(s) PROVE Steady
  <2>1. UNCHANGED sessionId
    BY <1>18, Zenon DEF Notify, serviceVars, idVars
  <2> QED
    BY <1>18, <2>1, MiddlemanAssumption, SMT DEF Notify, Close
<1>19. ASSUME NEW s \in Sessions, Remove(s) PROVE Steady
  <2>1. UNCHANGED sessionId
    BY <1>19, Zenon DEF Remove, serviceVars, idVars
  <2> QED
    BY <1>19, <2>1, MiddlemanAssumption, SMT DEF Remove, Close
<1>20. ASSUME NEW s \in Sessions, Release(s) PROVE Steady
  <2>1. UNCHANGED sessionId
    BY <1>20, Zenon DEF Release, ReleaseSession, serviceVars, idVars
  <2> QED
    BY <1>20, <2>1, MiddlemanAssumption, SMT DEF Release, Close
<1>21. ASSUME NEW l \in Logics, RemoveLogic(l) PROVE Steady
  <2>1. UNCHANGED sessionId
    BY <1>21, Zenon DEF RemoveLogic, serviceVars, idVars
  <2> QED
    BY <1>21, <2>1, MiddlemanAssumption, SMT DEF RemoveLogic, Close
<1>22. ASSUME NEW l \in Logics, ReleaseLogic(l) PROVE Steady
  <2>1. UNCHANGED sessionId
    BY <1>22, Zenon DEF ReleaseLogic, serviceVars, idVars
  <2> QED
    BY <1>22, <2>1, MiddlemanAssumption, SMT DEF ReleaseLogic, Close
<1>23. CASE UNCHANGED vars
  BY <1>23, SMT DEF vars, serviceVars, idVars
<1> HIDE DEF Steady, Retired, Announced, Placed, ClientChain, Hosts, managerVars, linkVars
<1> QED
  BY <1>1, <1>2, <1>3, <1>4, <1>5, <1>6, <1>7, <1>8, <1>9, <1>10, <1>11, <1>12, <1>13,
     <1>14, <1>15, <1>16, <1>17, <1>18, <1>19, <1>20, <1>21, <1>22, <1>23, NextCases, Zenon

\* Nobody gets the id of a session that is not retired.
LEMMA HeirNext ==
  ASSUME Placed, Data, Flags, ThereInv, IdInv, HeirInv, [Next]_vars
  PROVE  HeirInv'
<1>1. Steady
  BY SteadyNext
<1>2. CASE NobodyEnters
  <2>1. OneEnters'
    BY <1>2, Zenon DEF NobodyEnters, HeirInv, OneEnters
  <2>2. ASSUME NEW s \in Sessions, NEW c \in Sessions, Entering(s)', c # s,
               chain'[c] # "unused", sessionId'[c] = sessionId'[s]
        PROVE  Retired(c)'
    <3>1. Entering(s) /\ chain[c] # "unused"
      BY <1>2, <2>2, Zenon DEF NobodyEnters
    <3>2. chain[s] # "unused"
      BY <3>1, SMT DEF Entering
    <3>3. sessionId[c] = sessionId[s]
      BY <1>1, <2>2, <3>1, <3>2, Zenon DEF Steady
    <3> QED
      BY <1>1, <2>2, <3>1, <3>3, Zenon DEF Steady, HeirInv, IdHeir
  <2> QED
    BY <2>1, <2>2, Zenon DEF HeirInv, IdHeir
<1>3. ASSUME NEW a \in Sessions, Accept(a)
      PROVE  HeirInv'
  <2>1. /\ MayAccept /\ CreateSession(a) /\ chain[a] = "unused"
        /\ chain' = [chain EXCEPT ![a] = "created"] /\ UNCHANGED closing
    BY <1>3, Zenon DEF Accept, Goto, linkVars
  <2>2. PICK id \in Ids : ~sessionIdPool[id] /\ TakeId(a, id)
    <3>1. \E i \in Places : ~sessionIdPool[IdAfter(i)]
      BY <2>1, ThereIsAFreeId
    <3> QED
      BY <2>1, <3>1, CreateSessionCases, Zenon DEF Data
  <2>3. \A s \in Sessions : Entering(s)' => s = a
    BY <2>1, SMT DEF Entering, MayAccept, Placed, Hosts
  <2>4. sessionId'[a] = id /\ \A c \in Sessions : c # a => sessionId'[c] = sessionId[c]
    BY <2>2, SMT DEF TakeId, Data
  <2>5. ASSUME NEW c \in Sessions, c # a, chain'[c] # "unused", sessionId'[c] = id
        PROVE  Retired(c)'
    <3>1. chain'[c] = chain[c] /\ chain[c] # "unused" /\ sessionId[c] = id
      BY <2>1, <2>4, <2>5, SMT DEF Placed, Hosts
    <3>2. closing[c] = "released"
      BY <2>2, <3>1, Zenon DEF IdInv, Named, Here
    <3>3. chain[c] \in Announced
      BY <2>1, <3>1, SMT DEF MayAccept, Announced, Placed, ClientChain
    <3> QED
      BY <2>1, <3>1, <3>2, <3>3, Zenon DEF Retired
  <2> QED
    BY <2>3, <2>4, <2>5, Zenon DEF HeirInv, OneEnters, IdHeir
<1> QED
  BY <1>2, <1>3, EntersNext, Zenon

\* What the logic server is told of ids; q stands for a log.
Mention(p) == p.type \in {"CONNECTED", "DISCONNECTED"}

Mentions(q) ==
  \A i \in 1 .. Len(q) : Mention(q[i]) => q[i].of \in Sessions /\ chain[q[i].of] # "unused"

\* The id of q[i] has come again with q[j].
Inherits(q, i, j) ==
  /\ i < j /\ q[j].type = "CONNECTED" /\ Mention(q[i])
  /\ sessionId[q[i].of] = sessionId[q[j].of] /\ q[i].of # q[j].of

Heirs(q) == \A i, j \in 1 .. Len(q) : Inherits(q, i, j) => Retired(q[i].of)

HandedOver(q) ==
  \A i, j, k \in 1 .. Len(q) :
    Inherits(q, i, j) /\ j < k /\ Mention(q[k]) => q[k].of # q[i].of

LogInv(q) == Mentions(q) /\ Heirs(q) /\ HandedOver(q)

\* One more packet leaves the log in order ...
LEMMA AppendHandsOver ==
  ASSUME ThereInv, HeirInv, NEW q \in Seq(Packets), NEW p \in Packets, Telling(p), LogInv(q)
  PROVE  LogInv(Append(q, p))
<1> DEFINE r == Append(q, p)
<1>1. /\ Len(r) = Len(q) + 1 /\ Len(q) \in Nat
      /\ r[Len(q) + 1] = p
      /\ \A i \in 1 .. Len(q) : r[i] = q[i]
  BY SMT
<1>2. Mention(p) => /\ p.of \in Sessions /\ chain[p.of] # "unused" /\ ~Retired(p.of)
                    /\ p.type = "CONNECTED" => Entering(p.of)
  BY SMT DEF Telling, Mention, Retired, Announced, Entering, ThereInv, Opened, Hosts
<1> HIDE DEF r
<1>3. Mentions(r)
  BY <1>1, <1>2, SMT DEF LogInv, Mentions
<1>4. ASSUME NEW i \in 1 .. Len(r), NEW j \in 1 .. Len(r), Inherits(r, i, j)
      PROVE  Retired(r[i].of)
  <2>1. i \in 1 .. Len(q) /\ i < j
    BY <1>1, <1>4, SMT DEF Inherits
  <2>2. CASE j \in 1 .. Len(q)
    <3>1. Inherits(q, i, j)
      BY <1>1, <1>4, <2>1, <2>2, Zenon DEF Inherits
    <3> QED
      BY <1>1, <2>1, <2>2, <3>1, Zenon DEF LogInv, Heirs
  <2>3. CASE j = Len(q) + 1
    <3>1. r[j] = p /\ r[i] = q[i]
      BY <1>1, <2>1, <2>3, Zenon
    <3>2. p.type = "CONNECTED" /\ Mention(p) /\ Mention(q[i])
      BY <1>4, <3>1, SMT DEF Inherits, Mention
    <3>3. sessionId[q[i].of] = sessionId[p.of] /\ q[i].of # p.of
      BY <1>4, <3>1, Zenon DEF Inherits
    <3>4. q[i].of \in Sessions /\ chain[q[i].of] # "unused"
      BY <2>1, <3>2, Zenon DEF LogInv, Mentions
    <3> QED
      BY <1>2, <3>1, <3>2, <3>3, <3>4, Zenon DEF HeirInv, IdHeir
  <2> QED
    BY <1>1, <2>2, <2>3, SMT
<1>5. ASSUME NEW i \in 1 .. Len(r), NEW j \in 1 .. Len(r), NEW k \in 1 .. Len(r),
             Inherits(r, i, j), j < k, Mention(r[k])
      PROVE  r[k].of # r[i].of
  <2>1. /\ i \in 1 .. Len(q) /\ j \in 1 .. Len(q)
        /\ r[i] = q[i] /\ r[j] = q[j]
    BY <1>1, <1>5, SMT DEF Inherits
  <2>2. Inherits(q, i, j)
    BY <1>5, <2>1, Zenon DEF Inherits
  <2>3. CASE k \in 1 .. Len(q)
    BY <1>1, <1>5, <2>1, <2>2, <2>3, Zenon DEF LogInv, HandedOver
  <2>4. CASE k = Len(q) + 1
    <3>1. Retired(q[i].of)
      BY <2>1, <2>2, Zenon DEF LogInv, Heirs
    <3>2. r[k] = p
      BY <1>1, <2>4, Zenon
    <3> QED
      BY <1>2, <1>5, <2>1, <3>1, <3>2, Zenon
  <2> QED
    BY <1>1, <2>3, <2>4, SMT
<1> QED
  BY <1>3, <1>4, <1>5, Zenon DEF LogInv, Heirs, HandedOver, r

\* ... and so does every step.
LEMMA SteadyHandsOver ==
  ASSUME NEW q, LogInv(q), Steady
  PROVE  /\ \A i \in 1 .. Len(q) :
              Mention(q[i]) => q[i].of \in Sessions /\ chain'[q[i].of] # "unused"
         /\ \A i, j \in 1 .. Len(q) :
              Mention(q[i]) /\ Mention(q[j]) /\ sessionId'[q[i].of] = sessionId'[q[j].of]
                => sessionId[q[i].of] = sessionId[q[j].of]
         /\ \A c \in Sessions : chain[c] # "unused" /\ Retired(c) => Retired(c)'
BY Zenon DEF LogInv, Mentions, Steady

\* Hence every step keeps the logs of the logic sessions in order.
LEMMA HandsNext ==
  ASSUME Placed, Data, Flags, Logs, ThereInv, IdInv, HeirInv,
         \A l \in Logics : LogInv(log[l]), [Next]_vars
  PROVE  \A l \in Logics : LogInv(log[l])'
<1> SUFFICES ASSUME NEW l \in Logics PROVE LogInv(log[l])'
  OBVIOUS
<1>0. PICK q : q = log'[l]
  BY Zenon
<1>1. LogInv(q)
  <2>1. log[l] \in Seq(Packets) /\ LogInv(log[l])
    BY Zenon DEF Logs, Hosts
  <2>2. ToldOnce(l)
    BY ToldNext
  <2>3. CASE log'[l] = log[l]
    BY <1>0, <2>1, <2>3, Zenon
  <2>4. ASSUME NEW p \in Packets, log'[l] = Append(log[l], p), Telling(p)
        PROVE  LogInv(q)
    BY <1>0, <2>1, <2>4, AppendHandsOver, Zenon
  <2> QED
    BY <2>2, <2>3, <2>4, Zenon DEF ToldOnce
<1>2. Steady
  BY SteadyNext
<1>3. \A i \in 1 .. Len(q) :
        Mention(q[i]) => q[i].of \in Sessions /\ chain'[q[i].of] # "unused"
  BY <1>1, <1>2, SteadyHandsOver
<1>4. ASSUME NEW i \in 1 .. Len(q), NEW j \in 1 .. Len(q), Inherits(q, i, j)'
      PROVE  Inherits(q, i, j) /\ (Retired(q[i].of) => Retired(q[i].of)')
  <2>2. Mention(q[i]) /\ Mention(q[j]) /\ sessionId'[q[i].of] = sessionId'[q[j].of]
    BY <1>4, SMT DEF Inherits, Mention
  <2>3. q[i].of \in Sessions /\ chain[q[i].of] # "unused"
    BY <1>1, <2>2, Zenon DEF LogInv, Mentions
  <2> QED
    BY <1>1, <1>2, <1>4, <2>2, <2>3, SteadyHandsOver, Zenon DEF Inherits
<1> QED
  BY <1>0, <1>1, <1>3, <1>4, Zenon DEF LogInv, Mentions, Heirs, HandedOver

HandsInv == HeirInv /\ \A l \in Logics : LogInv(log[l])

(***************************************************************************)
(* When an id is used again the logic server has heard the last of the     *)
(* client that had it before.                                              *)
(***************************************************************************)
THEOREM IdsAreHandedOver == Spec => []IdHandedOver
<1>1. Init => HandsInv
  BY SMT DEF Init, HandsInv, HeirInv, OneEnters, IdHeir, Entering, LogInv, Mentions, Heirs,
     HandedOver, Hosts
<1>2. /\ Placed /\ Data /\ Flags /\ Logs /\ ThereInv /\ IdInv
      /\ HandsInv /\ [Next]_vars
      => HandsInv'
  <2> SUFFICES ASSUME Placed, Data, Flags, Logs, ThereInv, IdInv, HandsInv, [Next]_vars
               PROVE  HandsInv'
    OBVIOUS
  <2>1. HeirInv'
    BY HeirNext, Zenon DEF HandsInv
  <2>2. \A l \in Logics : LogInv(log[l])'
    BY HandsNext, Zenon DEF HandsInv
  <2> QED
    BY <2>1, <2>2, Zenon DEF HandsInv
<1>3. HandsInv => IdHandedOver
  <2> SUFFICES ASSUME HandsInv, NEW l \in Logics, NEW j \in 1 .. Len(log[l]),
                      log[l][j].type = "CONNECTED"
               PROVE  LET new == log[l][j].of
                          Names(places) == {log[l][i].of : i \in
                            {i \in places : /\ log[l][i].type \in {"CONNECTED", "DISCONNECTED"}
                                           /\ sessionId[log[l][i].of] = sessionId[new]}}
                      IN  Names(1 .. j - 1) \cap Names(j + 1 .. Len(log[l])) \subseteq {new}
    BY Zenon DEF IdHandedOver
  <2> SUFFICES ASSUME NEW i \in 1 .. j - 1, NEW k \in j + 1 .. Len(log[l]),
                      Mention(log[l][i]), Mention(log[l][k]),
                      sessionId[log[l][i].of] = sessionId[log[l][j].of],
                      log[l][k].of = log[l][i].of
               PROVE  log[l][i].of = log[l][j].of
    BY Zenon DEF Mention
  <2>1. i \in 1 .. Len(log[l]) /\ k \in 1 .. Len(log[l]) /\ i < j /\ j < k
    BY SMT
  <2> QED
    BY <2>1, Zenon DEF HandsInv, LogInv, HandedOver, Inherits
<1> QED
  BY <1>1, <1>2, <1>3, IdInvariant, PTL DEF Spec

-----------------------------------------------------------------------------
(***************************************************************************)
(* The order of what is relayed.  Two things keep it: the session that the *)
(* logic server's manager holds is the one that is connected, as there is  *)
(* one at a time (Turn), and a broadcast is over before the next begins,   *)
(* having reached everyone it meant to (Wired).                            *)
(***************************************************************************)
OpenIfConnected == \A x \in Hosts : connected[x] => closing[x] = "open"
Idle == \A l \in Logics : chain[l] # "broadcasting" => targets[l] = {}
Wired == OpenIfConnected /\ Idle

Unset(l) == chain[l] \in {"unused", "set"}

Turn ==
  /\ \A l \in Logics : Unset(l) => log[l] = <<>> /\ closing[l] = "open"
  /\ \A k, l \in Logics : k # l /\ chain[k] # "unused" /\ chain[l] # "unused" =>
       closing[k] = "released" \/ closing[l] = "released"
  /\ \A l \in Logics : ~Unset(l) /\ closing[l] = "open" => logicSession = l
  /\ logicSession # NoSession => ~Unset(logicSession)

ToldCurrent == \A l \in Logics : log'[l] = log[l] \/ logicSession = l

\* A step that sends nothing sends nothing to another logic session.
LEMMA NothingSentToLogics == UNCHANGED log => ToldCurrent
BY Zenon DEF ToldCurrent

\* A packet to the logic server goes to the session that is set.
LEMMA SendToCurrent ==
  ASSUME Data, Logs, NEW packet, SendToLogic(packet)
  PROVE  ToldCurrent
<1>1. CASE logicSession # NoSession /\ Send(logicSession, packet)
  <2>1. logicSession \in Hosts
    BY <1>1, Zenon DEF Data, Hosts
  <2> QED
    BY <1>1, <2>1, SendAppends, Zenon DEF ToldCurrent, Logs, Hosts
<1>2. CASE UNCHANGED log
  BY <1>2, Zenon DEF ToldCurrent
<1> QED
  BY <1>1, <1>2, Zenon DEF SendToLogic

\* A packet to a client goes to no logic session.
LEMMA SendToClientOnly ==
  ASSUME Logs, NEW s \in Sessions, NEW packet, Send(s, packet)
  PROVE  ToldCurrent
<1>1. \A l \in Logics : l # s
  BY MiddlemanAssumption, Zenon
<1> QED
  BY <1>1, SendAppends, Zenon DEF ToldCurrent, Logs, Hosts

\* Only the logic session that is set is sent anything.
LEMMA CurrentNext == Placed /\ Data /\ Logs /\ [Next]_vars => ToldCurrent
<1> SUFFICES ASSUME Placed, Data, Logs, [Next]_vars PROVE ToldCurrent
  OBVIOUS
<1>1. CASE Start
  BY <1>1, NothingSentToLogics, Zenon DEF Start
<1>2. ASSUME NEW l \in Logics, AcceptLogic(l) PROVE ToldCurrent
  BY <1>2, NothingSentToLogics, Zenon DEF AcceptLogic
<1>3. ASSUME NEW l \in Logics, Set(l) PROVE ToldCurrent
  BY <1>3, NothingSentToLogics, Zenon DEF Set
<1>4. ASSUME NEW l \in Logics, SetConnectedTo(l) PROVE ToldCurrent
  BY <1>4, NothingSentToLogics, Zenon DEF SetConnectedTo
<1>5. ASSUME NEW l \in Logics, SendLogicInfo(l) PROVE ToldCurrent
  BY <1>5, SendToCurrent, Zenon DEF SendLogicInfo
<1>6. ASSUME NEW s \in Sessions, Accept(s) PROVE ToldCurrent
  BY <1>6, NothingSentToLogics, Zenon DEF Accept
<1>7. ASSUME NEW s \in Sessions, ProcessConnect(s) PROVE ToldCurrent
  BY <1>7, NothingSentToLogics, Zenon DEF ProcessConnect
<1>8. ASSUME NEW s \in Sessions, Add(s) PROVE ToldCurrent
  BY <1>8, NothingSentToLogics, Zenon DEF Add
<1>9. ASSUME NEW s \in Sessions, SendInfo(s) PROVE ToldCurrent
  <2>1. ASSUME clientSessions[sessionId[s]] # NoSession,
               Send(clientSessions[sessionId[s]], Packet("INFO", s, 0))
        PROVE  ToldCurrent
    <3>1. clientSessions[sessionId[s]] \in Sessions
      BY <2>1, Zenon DEF Data
    <3> QED
      BY <2>1, <3>1, SendToClientOnly, Zenon
  <2> QED
    BY <1>9, <2>1, NothingSentToLogics, Zenon DEF SendInfo, SendToClient
<1>10. ASSUME NEW s \in Sessions, Announce(s) PROVE ToldCurrent
  BY <1>10, SendToCurrent, Zenon DEF Announce
<1>11. ASSUME NEW x \in Hosts, Receive(x) PROVE ToldCurrent
  BY <1>11, NothingSentToLogics, Zenon DEF Receive
<1>12. ASSUME NEW x \in Hosts, ReceiveZero(x) PROVE ToldCurrent
  BY <1>12, NothingSentToLogics, Zenon DEF ReceiveZero
<1>13. ASSUME NEW s \in Sessions, Relay(s) PROVE ToldCurrent
  BY <1>13, SendToCurrent, Zenon DEF Relay
<1>14. ASSUME NEW l \in Logics, Broadcast(l) PROVE ToldCurrent
  BY <1>14, NothingSentToLogics, Zenon DEF Broadcast
<1>15. ASSUME NEW x \in Hosts, NEW s \in Sessions, BroadcastTo(x, s)
       PROVE  ToldCurrent
  BY <1>15, SendToClientOnly, Zenon DEF BroadcastTo
<1>16. ASSUME NEW x \in Hosts, BroadcastEnd(x) PROVE ToldCurrent
  BY <1>16, NothingSentToLogics, Zenon DEF BroadcastEnd
<1>17. ASSUME NEW x \in Hosts, SendFails(x) PROVE ToldCurrent
  BY <1>17, NothingSentToLogics, Zenon DEF SendFails
<1>18. ASSUME NEW s \in Sessions, Notify(s) PROVE ToldCurrent
  BY <1>18, SendToCurrent, Zenon DEF Notify
<1>19. ASSUME NEW s \in Sessions, Remove(s) PROVE ToldCurrent
  BY <1>19, NothingSentToLogics, Zenon DEF Remove
<1>20. ASSUME NEW s \in Sessions, Release(s) PROVE ToldCurrent
  BY <1>20, NothingSentToLogics, Zenon DEF Release
<1>21. ASSUME NEW l \in Logics, RemoveLogic(l) PROVE ToldCurrent
  BY <1>21, NothingSentToLogics, Zenon DEF RemoveLogic
<1>22. ASSUME NEW l \in Logics, ReleaseLogic(l) PROVE ToldCurrent
  BY <1>22, NothingSentToLogics, Zenon DEF ReleaseLogic
<1>23. CASE UNCHANGED vars
  BY <1>23, NothingSentToLogics, Zenon DEF vars
<1> QED
  BY <1>1, <1>2, <1>3, <1>4, <1>5, <1>6, <1>7, <1>8, <1>9, <1>10, <1>11, <1>12, <1>13,
     <1>14, <1>15, <1>16, <1>17, <1>18, <1>19, <1>20, <1>21, <1>22, <1>23, NextCases, Zenon

\* What RegisterRecv does to the chain.
LEMMA RegisterRecvGoes ==
  ASSUME NEW x, RegisterRecv(x)
  PROVE  \E c \in {"receiving", "ended"} : chain' = [chain EXCEPT ![x] = c]
BY Zenon DEF RegisterRecv

\* What Disconnect does to the session.
LEMMA DisconnectCloses ==
  ASSUME NEW x, Disconnect(x)
  PROVE  \/ UNCHANGED <<connected, closing>>
         \/ \E c \in {"pending", "stuck"} :
              /\ closing[x] = "open"
              /\ closing' = [closing EXCEPT ![x] = c]
              /\ connected' = [connected EXCEPT ![x] = FALSE]
BY Zenon DEF Disconnect, Close, linkVars

\* A connected session stays open.
LEMMA OpenNext ==
  Placed /\ Flags /\ ThereInv /\ OpenIfConnected /\ [Next]_vars => OpenIfConnected'
<1> SUFFICES ASSUME Placed, Flags, ThereInv, OpenIfConnected, [Next]_vars
             PROVE  OpenIfConnected'
  OBVIOUS
<1> USE DEF OpenIfConnected, Placed, Flags, ThereInv, Opened, Hosts, linkVars
<1>1. CASE Start
  BY <1>1, SMT DEF Start
<1>2. ASSUME NEW l \in Logics, AcceptLogic(l) PROVE OpenIfConnected'
  BY <1>2, SMT DEF AcceptLogic, Goto
<1>3. ASSUME NEW l \in Logics, Set(l) PROVE OpenIfConnected'
  BY <1>3, SMT DEF Set, Goto
<1>4. ASSUME NEW l \in Logics, SetConnectedTo(l) PROVE OpenIfConnected'
  BY <1>4, SMT DEF SetConnectedTo, Goto
<1>5. ASSUME NEW l \in Logics, SendLogicInfo(l) PROVE OpenIfConnected'
  BY <1>5, SMT DEF SendLogicInfo
<1>6. ASSUME NEW s \in Sessions, Accept(s) PROVE OpenIfConnected'
  BY <1>6, SMT DEF Accept, Goto
<1>7. ASSUME NEW s \in Sessions, ProcessConnect(s) PROVE OpenIfConnected'
  BY <1>7, SMT DEF ProcessConnect, Goto
<1>8. ASSUME NEW s \in Sessions, Add(s) PROVE OpenIfConnected'
  BY <1>8, SMT DEF Add, Goto
<1>9. ASSUME NEW s \in Sessions, SendInfo(s) PROVE OpenIfConnected'
  BY <1>9, SMT DEF SendInfo, Goto
<1>10. ASSUME NEW s \in Sessions, Announce(s) PROVE OpenIfConnected'
  BY <1>10, SMT DEF Announce
<1>11. ASSUME NEW x \in Hosts, Receive(x) PROVE OpenIfConnected'
  BY <1>11, SMT DEF Receive, Goto
<1>12. ASSUME NEW x \in Hosts, ReceiveZero(x) PROVE OpenIfConnected'
  <2>1. Disconnect(x)
    BY <1>12, Zenon DEF ReceiveZero
  <2> QED
    BY <2>1, DisconnectCloses, SMT
<1>13. ASSUME NEW s \in Sessions, Relay(s) PROVE OpenIfConnected'
  BY <1>13, SMT DEF Relay
<1>14. ASSUME NEW l \in Logics, Broadcast(l) PROVE OpenIfConnected'
  BY <1>14, SMT DEF Broadcast, Goto
<1>15. ASSUME NEW x \in Hosts, NEW s \in Sessions, BroadcastTo(x, s)
       PROVE  OpenIfConnected'
  BY <1>15, SMT DEF BroadcastTo
<1>16. ASSUME NEW x \in Hosts, BroadcastEnd(x) PROVE OpenIfConnected'
  BY <1>16, SMT DEF BroadcastEnd
<1>17. ASSUME NEW x \in Hosts, SendFails(x) PROVE OpenIfConnected'
  <2>1. Disconnect(x)
    BY <1>17, Zenon DEF SendFails
  <2> QED
    BY <2>1, DisconnectCloses, SMT
<1>18. ASSUME NEW s \in Sessions, Notify(s) PROVE OpenIfConnected'
  BY <1>18, SMT DEF Notify, Close
<1>19. ASSUME NEW s \in Sessions, Remove(s) PROVE OpenIfConnected'
  BY <1>19, SMT DEF Remove, Close
<1>20. ASSUME NEW s \in Sessions, Release(s) PROVE OpenIfConnected'
  BY <1>20, SMT DEF Release, Close
<1>21. ASSUME NEW l \in Logics, RemoveLogic(l) PROVE OpenIfConnected'
  BY <1>21, SMT DEF RemoveLogic, Close
<1>22. ASSUME NEW l \in Logics, ReleaseLogic(l) PROVE OpenIfConnected'
  BY <1>22, SMT DEF ReleaseLogic, Close
<1>23. CASE UNCHANGED vars
  BY <1>23, SMT DEF vars
<1> HIDE DEF OpenIfConnected, Placed, Flags, ThereInv, Opened, Hosts, linkVars
<1> QED
  BY <1>1, <1>2, <1>3, <1>4, <1>5, <1>6, <1>7, <1>8, <1>9, <1>10, <1>11, <1>12, <1>13,
     <1>14, <1>15, <1>16, <1>17, <1>18, <1>19, <1>20, <1>21, <1>22, <1>23, NextCases, Zenon

\* Only a broadcast has targets.
LEMMA IdleNext == Placed /\ Logs /\ Idle /\ [Next]_vars => Idle'
<1> SUFFICES ASSUME Placed, Logs, Idle, [Next]_vars PROVE Idle'
  OBVIOUS
<1> USE DEF Idle, Placed, ClientChain, Logs, Hosts
<1>1. CASE Start
  BY <1>1, MiddlemanAssumption, SMT DEF Start
<1>2. ASSUME NEW l \in Logics, AcceptLogic(l) PROVE Idle'
  BY <1>2, MiddlemanAssumption, SMT DEF AcceptLogic, Goto
<1>3. ASSUME NEW l \in Logics, Set(l) PROVE Idle'
  BY <1>3, MiddlemanAssumption, SMT DEF Set, Goto
<1>4. ASSUME NEW l \in Logics, SetConnectedTo(l) PROVE Idle'
  BY <1>4, MiddlemanAssumption, SMT DEF SetConnectedTo, Goto
<1>5. ASSUME NEW l \in Logics, SendLogicInfo(l) PROVE Idle'
  <2>1. chain[l] = "info" /\ UNCHANGED targets
    BY <1>5, Zenon DEF SendLogicInfo
  <2>2. PICK c \in {"receiving", "ended"} : chain' = [chain EXCEPT ![l] = c]
    BY <1>5, RegisterRecvGoes, Zenon DEF SendLogicInfo
  <2> QED
    BY <2>1, <2>2, MiddlemanAssumption, SMT
<1>6. ASSUME NEW s \in Sessions, Accept(s) PROVE Idle'
  BY <1>6, MiddlemanAssumption, SMT DEF Accept, Goto
<1>7. ASSUME NEW s \in Sessions, ProcessConnect(s) PROVE Idle'
  BY <1>7, MiddlemanAssumption, SMT DEF ProcessConnect, Goto
<1>8. ASSUME NEW s \in Sessions, Add(s) PROVE Idle'
  BY <1>8, MiddlemanAssumption, SMT DEF Add, Goto
<1>9. ASSUME NEW s \in Sessions, SendInfo(s) PROVE Idle'
  BY <1>9, MiddlemanAssumption, SMT DEF SendInfo, Goto
<1>10. ASSUME NEW s \in Sessions, Announce(s) PROVE Idle'
  <2>1. chain[s] = "announce" /\ UNCHANGED targets
    BY <1>10, Zenon DEF Announce
  <2>2. PICK c \in {"receiving", "ended"} : chain' = [chain EXCEPT ![s] = c]
    BY <1>10, RegisterRecvGoes, Zenon DEF Announce
  <2> QED
    BY <2>1, <2>2, MiddlemanAssumption, SMT
<1>11. ASSUME NEW x \in Hosts, Receive(x) PROVE Idle'
  BY <1>11, MiddlemanAssumption, SMT DEF Receive, Goto
<1>12. ASSUME NEW x \in Hosts, ReceiveZero(x) PROVE Idle'
  BY <1>12, MiddlemanAssumption, SMT DEF ReceiveZero, Goto, Close
<1>13. ASSUME NEW s \in Sessions, Relay(s) PROVE Idle'
  <2>1. chain[s] = "relaying" /\ UNCHANGED targets
    BY <1>13, Zenon DEF Relay
  <2>2. CASE UNCHANGED chain
    BY <2>1, <2>2, MiddlemanAssumption, SMT
  <2>3. CASE RegisterRecv(s)
    <3>1. PICK c \in {"receiving", "ended"} : chain' = [chain EXCEPT ![s] = c]
      BY <2>3, RegisterRecvGoes, Zenon
    <3> QED
      BY <2>1, <3>1, MiddlemanAssumption, SMT
  <2> QED
    BY <1>13, <2>2, <2>3, Zenon DEF Relay
<1>14. ASSUME NEW l \in Logics, Broadcast(l) PROVE Idle'
  BY <1>14, MiddlemanAssumption, SMT DEF Broadcast, Goto
<1>15. ASSUME NEW x \in Hosts, NEW s \in Sessions, BroadcastTo(x, s) PROVE Idle'
  BY <1>15, MiddlemanAssumption, SMT DEF BroadcastTo
<1>16. ASSUME NEW x \in Hosts, BroadcastEnd(x) PROVE Idle'
  <2>1. targets[x] = {} /\ UNCHANGED targets
    BY <1>16, Zenon DEF BroadcastEnd
  <2>2. CASE chain' = [chain EXCEPT ![x] = "relaying"]
    BY <2>1, <2>2, MiddlemanAssumption, SMT
  <2>3. CASE RegisterRecv(x)
    <3>1. PICK c \in {"receiving", "ended"} : chain' = [chain EXCEPT ![x] = c]
      BY <2>3, RegisterRecvGoes, Zenon
    <3> QED
      BY <2>1, <3>1, MiddlemanAssumption, SMT
  <2> QED
    BY <1>16, <2>2, <2>3, Zenon DEF BroadcastEnd
<1>17. ASSUME NEW x \in Hosts, SendFails(x) PROVE Idle'
  BY <1>17, MiddlemanAssumption, SMT DEF SendFails, Close
<1>18. ASSUME NEW s \in Sessions, Notify(s) PROVE Idle'
  BY <1>18, MiddlemanAssumption, SMT DEF Notify, Close
<1>19. ASSUME NEW s \in Sessions, Remove(s) PROVE Idle'
  BY <1>19, MiddlemanAssumption, SMT DEF Remove, Close
<1>20. ASSUME NEW s \in Sessions, Release(s) PROVE Idle'
  BY <1>20, MiddlemanAssumption, SMT DEF Release, Close
<1>21. ASSUME NEW l \in Logics, RemoveLogic(l) PROVE Idle'
  BY <1>21, MiddlemanAssumption, SMT DEF RemoveLogic, Close
<1>22. ASSUME NEW l \in Logics, ReleaseLogic(l) PROVE Idle'
  BY <1>22, MiddlemanAssumption, SMT DEF ReleaseLogic, Close
<1>23. CASE UNCHANGED vars
  BY <1>23, MiddlemanAssumption, SMT DEF vars
<1> HIDE DEF Idle, Placed, ClientChain, Logs, Hosts
<1> QED
  BY <1>1, <1>2, <1>3, <1>4, <1>5, <1>6, <1>7, <1>8, <1>9, <1>10, <1>11, <1>12, <1>13,
     <1>14, <1>15, <1>16, <1>17, <1>18, <1>19, <1>20, <1>21, <1>22, <1>23, NextCases, Zenon

SameUnset ==
  \A l \in Logics :
    /\ Unset(l)' <=> Unset(l)
    /\ chain'[l] = "unused" <=> chain[l] = "unused"

\* A step that only sends, or goes on with what a session does, leaves the turns alone.
LEMMA SameTurn ==
  ASSUME Turn, ToldCurrent, UNCHANGED <<closing, logicSession>>, SameUnset, Data
  PROVE  Turn'
<1>1. \A l \in Logics : Unset(l)' => log'[l] = <<>> /\ closing'[l] = "open"
  <2>1. \A l \in Logics : Unset(l) => logicSession # l
    BY MiddlemanAssumption, Zenon DEF Turn
  <2> QED
    BY <2>1, Zenon DEF Turn, ToldCurrent, SameUnset
<1>2. \A k, l \in Logics : k # l /\ chain'[k] # "unused" /\ chain'[l] # "unused" =>
        closing'[k] = "released" \/ closing'[l] = "released"
  BY Zenon DEF Turn, SameUnset
<1>3. /\ \A l \in Logics : ~Unset(l)' /\ closing'[l] = "open" => logicSession' = l
      /\ logicSession' # NoSession => ~Unset(logicSession)'
  <2>1. logicSession # NoSession => logicSession \in Logics
    BY Zenon DEF Data
  <2> QED
    BY <2>1, SMT DEF Turn, SameUnset, Unset
<1> QED
  BY <1>1, <1>2, <1>3, Zenon DEF Turn

\* One logic session comes after the other.
LEMMA TurnNext ==
  Placed /\ Data /\ Flags /\ Logs /\ ThereInv /\ Turn /\ [Next]_vars => Turn'
<1> SUFFICES ASSUME Placed, Data, Flags, Logs, ThereInv, Turn, [Next]_vars
             PROVE  Turn'
  OBVIOUS
<1>0. ToldCurrent
  BY CurrentNext
<1> USE DEF Turn, Unset, ToldCurrent, Placed, LogicChain, ClientChain, Data, Hosts,
   ThereInv, Opened, managerVars, linkVars
<1>1. CASE Start
  BY <1>1, <1>0, MiddlemanAssumption, SMT DEF Start
<1>2. ASSUME NEW l \in Logics, AcceptLogic(l) PROVE Turn'
  BY <1>2, <1>0, MiddlemanAssumption, SMT DEF AcceptLogic, Goto
<1>3. ASSUME NEW l \in Logics, Set(l) PROVE Turn'
  <2>1. /\ chain[l] = "set" /\ chain' = [chain EXCEPT ![l] = "flag"]
        /\ logicSession' = l /\ UNCHANGED <<log, closing>>
    BY <1>3, Zenon DEF Set, Goto, linkVars
  <2>2. closing[l] = "open"
    BY <2>1, SMT
  <2>3. \A k \in Logics : k # l /\ chain[k] # "unused" => closing[k] = "released"
    BY <2>1, <2>2, SMT
  <2>4. \A k \in Logics : ~Unset(k)' /\ closing'[k] = "open" => k = l
    BY <2>1, <2>3, SMT
  <2> QED
    BY <2>1, <2>4, SMT
<1>4. ASSUME NEW l \in Logics, SetConnectedTo(l) PROVE Turn'
  BY <1>4, <1>0, MiddlemanAssumption, SMT DEF SetConnectedTo, Goto
<1>5. ASSUME NEW l \in Logics, SendLogicInfo(l) PROVE Turn'
  <2>1. chain[l] = "info" /\ UNCHANGED <<closing, logicSession>>
    BY <1>5, Zenon DEF SendLogicInfo
  <2>2. PICK c \in {"receiving", "ended"} : chain' = [chain EXCEPT ![l] = c]
    BY <1>5, RegisterRecvGoes, Zenon DEF SendLogicInfo
  <2> QED
    <3>1. SameUnset
      BY <2>1, <2>2, MiddlemanAssumption, SMT DEF SameUnset
    <3> QED
      BY <1>0, <2>1, <3>1, SameTurn, Zenon
<1>6. ASSUME NEW s \in Sessions, Accept(s) PROVE Turn'
  BY <1>6, <1>0, MiddlemanAssumption, SMT DEF Accept, Goto
<1>7. ASSUME NEW s \in Sessions, ProcessConnect(s) PROVE Turn'
  BY <1>7, <1>0, MiddlemanAssumption, SMT DEF ProcessConnect, Goto
<1>8. ASSUME NEW s \in Sessions, Add(s) PROVE Turn'
  BY <1>8, <1>0, MiddlemanAssumption, SMT DEF Add, Goto
<1>9. ASSUME NEW s \in Sessions, SendInfo(s) PROVE Turn'
  <2>1. /\ chain[s] = "info" /\ chain' = [chain EXCEPT ![s] = "announce"]
        /\ UNCHANGED <<closing, logicSession>>
    BY <1>9, Zenon DEF SendInfo, Goto
  <2> QED
    BY <1>0, <2>1, MiddlemanAssumption, SMT
<1>10. ASSUME NEW s \in Sessions, Announce(s) PROVE Turn'
  <2>1. chain[s] = "announce" /\ UNCHANGED <<closing, logicSession>>
    BY <1>10, Zenon DEF Announce
  <2>2. PICK c \in {"receiving", "ended"} : chain' = [chain EXCEPT ![s] = c]
    BY <1>10, RegisterRecvGoes, Zenon DEF Announce
  <2> QED
    <3>1. SameUnset
      BY <2>1, <2>2, MiddlemanAssumption, SMT DEF SameUnset
    <3> QED
      BY <1>0, <2>1, <3>1, SameTurn, Zenon
<1>11. ASSUME NEW x \in Hosts, Receive(x) PROVE Turn'
  BY <1>11, <1>0, MiddlemanAssumption, SMT DEF Receive, Goto
<1>12. ASSUME NEW x \in Hosts, ReceiveZero(x) PROVE Turn'
  <2>1. /\ Disconnect(x)
        /\ chain[x] = "receiving" /\ chain' = [chain EXCEPT ![x] = "ended"]
        /\ UNCHANGED <<log, logicSession>>
    BY <1>12, Zenon DEF ReceiveZero, Goto
  <2> QED
    BY <2>1, DisconnectCloses, MiddlemanAssumption, SMT
<1>13. ASSUME NEW s \in Sessions, Relay(s) PROVE Turn'
  <2>1. chain[s] = "relaying" /\ UNCHANGED <<closing, logicSession>>
    BY <1>13, Zenon DEF Relay
  <2>2. CASE UNCHANGED chain
    <3>1. SameUnset
      BY <2>1, <2>2, MiddlemanAssumption, SMT DEF SameUnset
    <3> QED
      BY <1>0, <2>1, <3>1, SameTurn, Zenon
  <2>3. CASE RegisterRecv(s)
    <3>1. PICK c \in {"receiving", "ended"} : chain' = [chain EXCEPT ![s] = c]
      BY <2>3, RegisterRecvGoes, Zenon
    <3> QED
      <4>1. SameUnset
        BY <2>1, <3>1, MiddlemanAssumption, SMT DEF SameUnset
      <4> QED
        BY <1>0, <2>1, <4>1, SameTurn, Zenon
  <2> QED
    BY <1>13, <2>2, <2>3, Zenon DEF Relay
<1>14. ASSUME NEW l \in Logics, Broadcast(l) PROVE Turn'
  BY <1>14, <1>0, MiddlemanAssumption, SMT DEF Broadcast, Goto
<1>15. ASSUME NEW x \in Hosts, NEW s \in Sessions, BroadcastTo(x, s) PROVE Turn'
  BY <1>15, <1>0, MiddlemanAssumption, SMT DEF BroadcastTo
<1>16. ASSUME NEW x \in Hosts, BroadcastEnd(x) PROVE Turn'
  <2>1. chain[x] = "broadcasting" /\ UNCHANGED <<closing, logicSession>>
    BY <1>16, Zenon DEF BroadcastEnd
  <2>2. CASE chain' = [chain EXCEPT ![x] = "relaying"]
    <3>1. SameUnset
      BY <2>1, <2>2, MiddlemanAssumption, SMT DEF SameUnset
    <3> QED
      BY <1>0, <2>1, <3>1, SameTurn, Zenon
  <2>3. CASE RegisterRecv(x)
    <3>1. PICK c \in {"receiving", "ended"} : chain' = [chain EXCEPT ![x] = c]
      BY <2>3, RegisterRecvGoes, Zenon
    <3> QED
      <4>1. SameUnset
        BY <2>1, <3>1, MiddlemanAssumption, SMT DEF SameUnset
      <4> QED
        BY <1>0, <2>1, <4>1, SameTurn, Zenon
  <2> QED
    BY <1>16, <2>2, <2>3, Zenon DEF BroadcastEnd
<1>17. ASSUME NEW x \in Hosts, SendFails(x) PROVE Turn'
  <2>1. /\ Disconnect(x) /\ log[x] # <<>>
        /\ UNCHANGED <<log, chain, logicSession>>
    BY <1>17, Zenon DEF SendFails
  <2>2. CASE UNCHANGED closing
    BY <2>1, <2>2, Zenon
  <2>3. ASSUME NEW c \in {"pending", "stuck"}, closing[x] = "open",
               closing' = [closing EXCEPT ![x] = c]
        PROVE  Turn'
    <3>1. \A k \in Hosts : closing'[k] = IF k = x THEN c ELSE closing[k]
      BY <2>3, SMT
    <3> QED
      BY <2>1, <2>3, <3>1, MiddlemanAssumption, SMT
  <2> HIDE DEF Turn
  <2> QED
    BY <2>1, <2>2, <2>3, DisconnectCloses, Zenon
<1>18. ASSUME NEW s \in Sessions, Notify(s) PROVE Turn'
  BY <1>18, <1>0, MiddlemanAssumption, SMT DEF Notify, Close
<1>19. ASSUME NEW s \in Sessions, Remove(s) PROVE Turn'
  BY <1>19, <1>0, MiddlemanAssumption, SMT DEF Remove, Close
<1>20. ASSUME NEW s \in Sessions, Release(s) PROVE Turn'
  BY <1>20, <1>0, MiddlemanAssumption, SMT DEF Release, Close
<1>21. ASSUME NEW l \in Logics, RemoveLogic(l) PROVE Turn'
  <2>1. /\ closing[l] = "pending" /\ closing' = [closing EXCEPT ![l] = "release"]
        /\ logicSession' = NoSession /\ UNCHANGED <<log, chain>>
    BY <1>21, Zenon DEF RemoveLogic, Close
  <2>2. \A k \in Logics : k # l /\ chain[k] # "unused" => closing[k] = "released"
    BY <2>1, SMT
  <2>3. \A k \in Logics : closing'[k] = "open" => closing[k] = "open" /\ k # l
    BY <2>1, SMT
  <2>4. \A k \in Logics : ~Unset(k) => closing'[k] # "open"
    BY <2>2, <2>3, SMT
  <2> QED
    BY <2>1, <2>3, <2>4, SMT
<1>22. ASSUME NEW l \in Logics, ReleaseLogic(l) PROVE Turn'
  BY <1>22, <1>0, MiddlemanAssumption, SMT DEF ReleaseLogic, Close
<1>23. CASE UNCHANGED vars
  BY <1>23, <1>0, MiddlemanAssumption, SMT DEF vars
<1> HIDE DEF Turn, Unset, ToldCurrent, Placed, LogicChain, ClientChain, Data, Hosts,
   ThereInv, Opened, managerVars, linkVars
<1> QED
  BY <1>1, <1>2, <1>3, <1>4, <1>5, <1>6, <1>7, <1>8, <1>9, <1>10, <1>11, <1>12, <1>13,
     <1>14, <1>15, <1>16, <1>17, <1>18, <1>19, <1>20, <1>21, <1>22, <1>23, NextCases, Zenon

(***************************************************************************)
(* What the logs get of data.                                              *)
(***************************************************************************)
NoDataSent ==
  /\ received' = received /\ targets' = targets
  /\ \A x \in Hosts :
       \/ log'[x] = log[x]
       \/ \E p \in Packets : p.type # "DATA" /\ log'[x] = Append(log[x], p)

\* A packet of the relay's own is not data.
LEMMA OwnPackets ==
  ASSUME Logs, received' = received, targets' = targets, NEW z \in Hosts,
         NEW p \in Packets, p.type # "DATA", Send(z, p)
  PROVE  NoDataSent
BY SendAppends, Zenon DEF NoDataSent, Logs

\* Neither is one to the logic server.
LEMMA OwnPacketsToLogic ==
  ASSUME Data, Logs, received' = received, targets' = targets,
         NEW p \in Packets, p.type # "DATA", SendToLogic(p)
  PROVE  NoDataSent
<1>1. CASE logicSession # NoSession /\ Send(logicSession, p)
  <2>1. logicSession \in Hosts
    BY <1>1, Zenon DEF Data, Hosts
  <2> QED
    BY <1>1, <2>1, OwnPackets, Zenon
<1>2. CASE UNCHANGED log
  BY <1>2, Zenon DEF NoDataSent
<1> QED
  BY <1>1, <1>2, Zenon DEF SendToLogic

Relays ==
  \/ NoDataSent
  \/ \E s \in Sessions : Relay(s)
  \/ \E l \in Logics : Broadcast(l)
  \/ \E l \in Logics, s \in Sessions : BroadcastTo(l, s)

\* Data is passed on by Relay and by a broadcast.
LEMMA RelaysNext == Placed /\ Data /\ Logs /\ [Next]_vars => Relays
<1> SUFFICES ASSUME Placed, Data, Logs, [Next]_vars PROVE Relays
  OBVIOUS
<1>1. CASE Start
  BY <1>1, Zenon DEF Start, Relays, NoDataSent
<1>2. ASSUME NEW l \in Logics, AcceptLogic(l) PROVE Relays
  BY <1>2, Zenon DEF AcceptLogic, Relays, NoDataSent
<1>3. ASSUME NEW l \in Logics, Set(l) PROVE Relays
  BY <1>3, Zenon DEF Set, Relays, NoDataSent
<1>4. ASSUME NEW l \in Logics, SetConnectedTo(l) PROVE Relays
  BY <1>4, Zenon DEF SetConnectedTo, Relays, NoDataSent
<1>5. ASSUME NEW l \in Logics, SendLogicInfo(l) PROVE Relays
  <2>1. Packet("INFO", l, 0) \in Packets /\ Packet("INFO", l, 0).type # "DATA"
    <3>1. Packet("INFO", l, 0) \in Packets
      BY PacketType, SMT DEF Hosts
    <3> QED
      BY <3>1, SMT DEF Packet
  <2> QED
    BY <1>5, <2>1, OwnPacketsToLogic, Zenon DEF SendLogicInfo, Relays
<1>6. ASSUME NEW s \in Sessions, Accept(s) PROVE Relays
  BY <1>6, Zenon DEF Accept, Relays, NoDataSent
<1>7. ASSUME NEW s \in Sessions, ProcessConnect(s) PROVE Relays
  BY <1>7, Zenon DEF ProcessConnect, Relays, NoDataSent
<1>8. ASSUME NEW s \in Sessions, Add(s) PROVE Relays
  BY <1>8, Zenon DEF Add, Relays, NoDataSent
<1>9. ASSUME NEW s \in Sessions, SendInfo(s) PROVE Relays
  <2>1. Packet("INFO", s, 0) \in Packets /\ Packet("INFO", s, 0).type # "DATA"
    <3>1. Packet("INFO", s, 0) \in Packets
      BY PacketType, SMT DEF Hosts
    <3> QED
      BY <3>1, SMT DEF Packet
  <2>2. received' = received /\ targets' = targets
    BY <1>9, Zenon DEF SendInfo
  <2>3. ASSUME clientSessions[sessionId[s]] # NoSession,
               Send(clientSessions[sessionId[s]], Packet("INFO", s, 0))
        PROVE  NoDataSent
    <3>1. clientSessions[sessionId[s]] \in Hosts
      BY <2>3, Zenon DEF Data, Hosts
    <3> QED
      BY <2>1, <2>2, <2>3, <3>1, OwnPackets, Zenon
  <2> QED
    BY <1>9, <2>2, <2>3, Zenon DEF SendInfo, SendToClient, Relays, NoDataSent
<1>10. ASSUME NEW s \in Sessions, Announce(s) PROVE Relays
  <2>1. Packet("CONNECTED", s, 0) \in Packets /\ Packet("CONNECTED", s, 0).type # "DATA"
    <3>1. Packet("CONNECTED", s, 0) \in Packets
      BY PacketType, SMT DEF Hosts
    <3> QED
      BY <3>1, SMT DEF Packet
  <2> QED
    BY <1>10, <2>1, OwnPacketsToLogic, Zenon DEF Announce, Relays
<1>11. ASSUME NEW x \in Hosts, Receive(x) PROVE Relays
  BY <1>11, Zenon DEF Receive, Relays, NoDataSent
<1>12. ASSUME NEW x \in Hosts, ReceiveZero(x) PROVE Relays
  BY <1>12, Zenon DEF ReceiveZero, Relays, NoDataSent
<1>13. ASSUME NEW s \in Sessions, Relay(s) PROVE Relays
  BY <1>13, Zenon DEF Relays
<1>14. ASSUME NEW l \in Logics, Broadcast(l) PROVE Relays
  BY <1>14, Zenon DEF Relays
<1>15. ASSUME NEW x \in Hosts, NEW s \in Sessions, BroadcastTo(x, s)
       PROVE  Relays
  <2>1. chain[x] = "broadcasting"
    BY <1>15, Zenon DEF BroadcastTo
  <2> QED
    BY <1>15, <2>1, BroadcastersAreLogics, Zenon DEF Relays
<1>16. ASSUME NEW x \in Hosts, BroadcastEnd(x) PROVE Relays
  BY <1>16, Zenon DEF BroadcastEnd, Relays, NoDataSent
<1>17. ASSUME NEW x \in Hosts, SendFails(x) PROVE Relays
  BY <1>17, Zenon DEF SendFails, Relays, NoDataSent
<1>18. ASSUME NEW s \in Sessions, Notify(s) PROVE Relays
  <2>1. Packet("DISCONNECTED", s, 0) \in Packets /\ Packet("DISCONNECTED", s, 0).type # "DATA"
    <3>1. Packet("DISCONNECTED", s, 0) \in Packets
      BY PacketType, SMT DEF Hosts
    <3> QED
      BY <3>1, SMT DEF Packet
  <2> QED
    BY <1>18, <2>1, OwnPacketsToLogic, Zenon DEF Notify, Relays
<1>19. ASSUME NEW s \in Sessions, Remove(s) PROVE Relays
  BY <1>19, Zenon DEF Remove, Relays, NoDataSent
<1>20. ASSUME NEW s \in Sessions, Release(s) PROVE Relays
  BY <1>20, Zenon DEF Release, Relays, NoDataSent
<1>21. ASSUME NEW l \in Logics, RemoveLogic(l) PROVE Relays
  BY <1>21, Zenon DEF RemoveLogic, Relays, NoDataSent
<1>22. ASSUME NEW l \in Logics, ReleaseLogic(l) PROVE Relays
  BY <1>22, Zenon DEF ReleaseLogic, Relays, NoDataSent
<1>23. CASE UNCHANGED vars
  BY <1>23, Zenon DEF vars, Relays, NoDataSent
<1> QED
  BY <1>1, <1>2, <1>3, <1>4, <1>5, <1>6, <1>7, <1>8, <1>9, <1>10, <1>11, <1>12, <1>13,
     <1>14, <1>15, <1>16, <1>17, <1>18, <1>19, <1>20, <1>21, <1>22, <1>23, NextCases, Zenon

ConnectsNew == \A x \in Hosts : connected'[x] => connected[x] \/ log[x] = <<>>

\* Nothing has been sent to a session that is connected anew.
LEMMA ConnectsNext ==
  Placed /\ Data /\ Flags /\ Entered /\ Turn /\ [Next]_vars => ConnectsNew
<1> SUFFICES ASSUME Placed, Data, Flags, Entered, Turn, [Next]_vars
             PROVE  ConnectsNew
  OBVIOUS
<1> USE DEF ConnectsNew, Flags, Hosts, linkVars
<1>1. CASE Start
  BY <1>1, SMT DEF Start
<1>2. ASSUME NEW l \in Logics, AcceptLogic(l) PROVE ConnectsNew
  <2>1. log[l] = <<>>
    BY <1>2, SMT DEF AcceptLogic, Goto, Turn, Unset
  <2> QED
    BY <1>2, <2>1, SMT DEF AcceptLogic
<1>3. ASSUME NEW l \in Logics, Set(l) PROVE ConnectsNew
  BY <1>3, SMT DEF Set
<1>4. ASSUME NEW l \in Logics, SetConnectedTo(l) PROVE ConnectsNew
  BY <1>4, SMT DEF SetConnectedTo
<1>5. ASSUME NEW l \in Logics, SendLogicInfo(l) PROVE ConnectsNew
  BY <1>5, SMT DEF SendLogicInfo
<1>6. ASSUME NEW s \in Sessions, Accept(s) PROVE ConnectsNew
  BY <1>6, SMT DEF Accept
<1>7. ASSUME NEW s \in Sessions, ProcessConnect(s) PROVE ConnectsNew
  <2>1. log[s] = <<>>
    <3>1. ~Added(s)
      BY <1>7, SMT DEF ProcessConnect, Goto, Added
    <3> QED
      BY <3>1, Zenon DEF Entered
  <2> QED
    BY <1>7, <2>1, SMT DEF ProcessConnect
<1>8. ASSUME NEW s \in Sessions, Add(s) PROVE ConnectsNew
  BY <1>8, SMT DEF Add
<1>9. ASSUME NEW s \in Sessions, SendInfo(s) PROVE ConnectsNew
  BY <1>9, SMT DEF SendInfo
<1>10. ASSUME NEW s \in Sessions, Announce(s) PROVE ConnectsNew
  BY <1>10, SMT DEF Announce
<1>11. ASSUME NEW x \in Hosts, Receive(x) PROVE ConnectsNew
  BY <1>11, SMT DEF Receive
<1>12. ASSUME NEW x \in Hosts, ReceiveZero(x) PROVE ConnectsNew
  BY <1>12, SMT DEF ReceiveZero, Disconnect
<1>13. ASSUME NEW s \in Sessions, Relay(s) PROVE ConnectsNew
  BY <1>13, SMT DEF Relay
<1>14. ASSUME NEW l \in Logics, Broadcast(l) PROVE ConnectsNew
  BY <1>14, SMT DEF Broadcast
<1>15. ASSUME NEW x \in Hosts, NEW s \in Sessions, BroadcastTo(x, s)
       PROVE  ConnectsNew
  BY <1>15, SMT DEF BroadcastTo
<1>16. ASSUME NEW x \in Hosts, BroadcastEnd(x) PROVE ConnectsNew
  BY <1>16, SMT DEF BroadcastEnd
<1>17. ASSUME NEW x \in Hosts, SendFails(x) PROVE ConnectsNew
  BY <1>17, SMT DEF SendFails, Disconnect
<1>18. ASSUME NEW s \in Sessions, Notify(s) PROVE ConnectsNew
  BY <1>18, SMT DEF Notify
<1>19. ASSUME NEW s \in Sessions, Remove(s) PROVE ConnectsNew
  BY <1>19, SMT DEF Remove
<1>20. ASSUME NEW s \in Sessions, Release(s) PROVE ConnectsNew
  BY <1>20, SMT DEF Release
<1>21. ASSUME NEW l \in Logics, RemoveLogic(l) PROVE ConnectsNew
  BY <1>21, SMT DEF RemoveLogic
<1>22. ASSUME NEW l \in Logics, ReleaseLogic(l) PROVE ConnectsNew
  BY <1>22, SMT DEF ReleaseLogic
<1>23. CASE UNCHANGED vars
  BY <1>23, SMT DEF vars
<1> HIDE DEF ConnectsNew, Flags, Hosts, linkVars
<1> QED
  BY <1>1, <1>2, <1>3, <1>4, <1>5, <1>6, <1>7, <1>8, <1>9, <1>10, <1>11, <1>12, <1>13,
     <1>14, <1>15, <1>16, <1>17, <1>18, <1>19, <1>20, <1>21, <1>22, <1>23, NextCases, Zenon

(***************************************************************************)
(* The number of packets of y that x has been sent, or would have been if  *)
(* it had been connected all along.                                        *)
(***************************************************************************)
Sent(x, y) == IF y \in Logics /\ x \in targets[y] THEN received[y] - 1 ELSE received[y]

\* The last packet of y in q has number n.
LastNumber(q, y, n) ==
  \A i \in 1 .. Len(q) :
    IsData(q[i], y) /\ (\A j \in i + 1 .. Len(q) : ~IsData(q[j], y)) => q[i].number = n

NoData(q, y) == \A i \in 1 .. Len(q) : ~IsData(q[i], y)

\* Clients are sent packets of logic sessions only, and the other way round.
SameKind(x, y) == x \in Sessions <=> y \in Sessions

InLine(x, y) ==
  Gapless(log[x], y) /\ (connected[x] => LastNumber(log[x], y, Sent(x, y)))

RelayInv ==
  \A x, y \in Hosts : (SameKind(x, y) => NoData(log[x], y)) /\ InLine(x, y)

\* A packet that is none of y's changes nothing.
LEMMA AppendOther ==
  ASSUME NEW q \in Seq(Packets), NEW p \in Packets, NEW y, ~IsData(p, y)
  PROVE  /\ NoData(q, y) => NoData(Append(q, p), y)
         /\ Gapless(q, y) => Gapless(Append(q, p), y)
         /\ \A n : LastNumber(q, y, n) => LastNumber(Append(q, p), y, n)
<1> DEFINE r == Append(q, p)
<1>1. /\ Len(r) = Len(q) + 1 /\ Len(q) \in Nat
      /\ r[Len(q) + 1] = p
      /\ \A i \in 1 .. Len(q) : r[i] = q[i]
  BY SMT
<1> HIDE DEF r
<1>2. \A i \in 1 .. Len(r) : IsData(r[i], y) => i \in 1 .. Len(q) /\ IsData(q[i], y)
  BY <1>1, SMT
<1>3. NoData(q, y) => NoData(r, y)
  BY <1>2, Zenon DEF NoData
<1>4. ASSUME Gapless(q, y), NEW i \in 1 .. Len(r), NEW k \in 1 .. Len(r), i < k,
             IsData(r[i], y), IsData(r[k], y), \A j \in i + 1 .. k - 1 : ~IsData(r[j], y)
      PROVE  r[k].number = r[i].number + 1
  <2>1. /\ i \in 1 .. Len(q) /\ IsData(q[i], y) /\ r[i] = q[i]
        /\ k \in 1 .. Len(q) /\ IsData(q[k], y) /\ r[k] = q[k]
    BY <1>1, <1>2, <1>4, Zenon
  <2>2. \A j \in i + 1 .. k - 1 : j \in 1 .. Len(q)
    BY <2>1, SMT
  <2>3. \A j \in i + 1 .. k - 1 : ~IsData(q[j], y)
    BY <1>1, <1>4, <2>2, Zenon
  <2> QED
    BY <1>4, <2>1, <2>3, Zenon DEF Gapless
<1>5. ASSUME NEW n, LastNumber(q, y, n), NEW i \in 1 .. Len(r), IsData(r[i], y),
             \A j \in i + 1 .. Len(r) : ~IsData(r[j], y)
      PROVE  r[i].number = n
  <2>1. i \in 1 .. Len(q) /\ IsData(q[i], y) /\ r[i] = q[i]
    BY <1>1, <1>2, <1>5, Zenon
  <2>2. \A j \in i + 1 .. Len(q) : j \in 1 .. Len(q) /\ j \in i + 1 .. Len(r)
    BY <1>1, <2>1, SMT
  <2>3. \A j \in i + 1 .. Len(q) : ~IsData(q[j], y)
    BY <1>1, <1>5, <2>2, Zenon
  <2> QED
    BY <1>5, <2>1, <2>3, Zenon DEF LastNumber
<1> QED
  BY <1>3, <1>4, <1>5, Zenon DEF Gapless, LastNumber, r

\* The next packet of y leaves no gap.
LEMMA AppendNext ==
  ASSUME NEW q \in Seq(Packets), NEW p \in Packets, NEW y, NEW n \in Int,
         Gapless(q, y), LastNumber(q, y, n), IsData(p, y), p.number = n + 1
  PROVE  Gapless(Append(q, p), y) /\ LastNumber(Append(q, p), y, n + 1)
<1> DEFINE r == Append(q, p)
<1>1. /\ Len(r) = Len(q) + 1 /\ Len(q) \in Nat
      /\ r[Len(q) + 1] = p
      /\ \A i \in 1 .. Len(q) : r[i] = q[i]
  BY SMT
<1> HIDE DEF r
<1>2. ASSUME NEW i \in 1 .. Len(r), NEW k \in 1 .. Len(r), i < k,
             IsData(r[i], y), IsData(r[k], y), \A j \in i + 1 .. k - 1 : ~IsData(r[j], y)
      PROVE  r[k].number = r[i].number + 1
  <2>1. i \in 1 .. Len(q) /\ r[i] = q[i] /\ IsData(q[i], y)
    <3>1. i \in 1 .. Len(q)
      BY <1>1, <1>2, SMT
    <3> QED
      BY <1>1, <1>2, <3>1, Zenon
  <2>2. \A j \in i + 1 .. k - 1 : j \in 1 .. Len(q)
    BY <1>1, <2>1, SMT
  <2>3. \A j \in i + 1 .. k - 1 : ~IsData(q[j], y)
    BY <1>1, <1>2, <2>2, Zenon
  <2>4. CASE k \in 1 .. Len(q)
    <3>1. r[k] = q[k] /\ IsData(q[k], y)
      BY <1>1, <1>2, <2>4, Zenon
    <3> QED
      BY <1>2, <2>1, <2>3, <2>4, <3>1, Zenon DEF Gapless
  <2>5. CASE k = Len(q) + 1
    <3>1. k - 1 = Len(q) /\ r[k] = p
      BY <1>1, <2>5, SMT
    <3>2. q[i].number = n
      BY <2>1, <2>3, <3>1, Zenon DEF LastNumber
    <3> QED
      BY <2>1, <3>1, <3>2, Zenon
  <2> QED
    BY <1>1, <2>4, <2>5, SMT
<1>3. ASSUME NEW i \in 1 .. Len(r), IsData(r[i], y),
             \A j \in i + 1 .. Len(r) : ~IsData(r[j], y)
      PROVE  r[i].number = n + 1
  <2>1. IsData(r[Len(r)], y) /\ r[Len(r)] = p
    BY <1>1, Zenon
  <2>2. i # Len(r) => Len(r) \in i + 1 .. Len(r)
    BY <1>1, SMT
  <2> QED
    BY <1>3, <2>1, <2>2, Zenon
<1> QED
  BY <1>2, <1>3, Zenon DEF Gapless, LastNumber, r

\* Without data nothing is out of line.
LEMMA NoDataInLine ==
  ASSUME NEW q, NEW y, NoData(q, y)
  PROVE  Gapless(q, y) /\ \A n : LastNumber(q, y, n)
BY Zenon DEF NoData, Gapless, LastNumber

\* An empty log has no data.
LEMMA EmptyNoData == \A y : NoData(<<>>, y)
BY SMT DEF NoData

\* A step that sends no data leaves what was sent in line.
LEMMA InLineNoData ==
  ASSUME Logs, RelayInv, ConnectsNew, NoDataSent
  PROVE  RelayInv'
<1> SUFFICES ASSUME NEW x \in Hosts, NEW y \in Hosts
             PROVE  /\ NoData(log[x], y) => NoData(log[x], y)'
                    /\ InLine(x, y)'
  BY Zenon DEF RelayInv, SameKind, NoData
<1>1. Sent(x, y)' = Sent(x, y)
  BY Zenon DEF NoDataSent, Sent
<1>2. PICK q : q = log'[x]
  BY Zenon
<1>3. log[x] \in Seq(Packets) /\ InLine(x, y)
  BY Zenon DEF Logs, RelayInv
<1>4. /\ NoData(log[x], y) => NoData(q, y)
      /\ Gapless(log[x], y) => Gapless(q, y)
      /\ \A n : LastNumber(log[x], y, n) => LastNumber(q, y, n)
  <2>1. CASE log'[x] = log[x]
    BY <1>2, <2>1, Zenon
  <2>2. ASSUME NEW p \in Packets, p.type # "DATA", log'[x] = Append(log[x], p)
        PROVE  <1>4!:
    <3>1. ~IsData(p, y)
      BY <2>2, Zenon DEF IsData
    <3> QED
      BY <1>2, <1>3, <2>2, <3>1, AppendOther, Zenon
  <2> QED
    BY <2>1, <2>2, Zenon DEF NoDataSent
<1>5. connected'[x] => LastNumber(log[x], y, Sent(x, y))
  <2>1. CASE log[x] = <<>>
    BY <2>1, EmptyNoData, NoDataInLine, Zenon
  <2> QED
    BY <1>3, <2>1, Zenon DEF ConnectsNew, InLine
<1> QED
  BY <1>1, <1>2, <1>3, <1>4, <1>5, Zenon DEF InLine, NoData

\* A client's packet is the next of that client's for the logic server.
LEMMA InLineRelay ==
  ASSUME Placed, Data, Flags, Logs, Wired, Turn, RelayInv, NEW s \in Sessions, Relay(s)
  PROVE  RelayInv'
<1> DEFINE p == Packet("DATA", s, received[s] + 1)
<1>1. /\ p \in Packets /\ p.number = received[s] + 1
      /\ \A y : IsData(p, y) <=> y = s
  <2>1. p \in Packets
    BY PacketType, SMT DEF Logs, Hosts
  <2> QED
    BY <2>1, SMT DEF Packet, IsData
<1>2. /\ received' = [received EXCEPT ![s] = @ + 1] /\ SendToLogic(p)
      /\ UNCHANGED <<connected, targets>>
  BY Zenon DEF Relay, linkVars
<1> HIDE DEF p
<1>3. \A x, y \in Hosts : y # s => Sent(x, y)' = Sent(x, y)
  BY <1>2, SMT DEF Sent, Logs
<1>4. \A x \in Hosts : Sent(x, s) = received[s] /\ Sent(x, s)' = received[s] + 1
  BY <1>2, MiddlemanAssumption, SMT DEF Sent, Logs, Hosts
<1>5. \A x \in Hosts :
        \/ log'[x] = log[x]
        \/ x = logicSession /\ connected[x] /\ log'[x] = Append(log[x], p)
  BY <1>2, SMT DEF SendToLogic, Send, Logs, Data, Hosts
<1>6. \A x \in Logics : connected[x] =>
        log[x] = <<>> \/ (x = logicSession /\ log'[x] = Append(log[x], p))
  <2> SUFFICES ASSUME NEW x \in Logics, connected[x], log[x] # <<>>
               PROVE  x = logicSession /\ log'[x] = Append(log[x], p)
    OBVIOUS
  <2>1. x = logicSession /\ x # NoSession
    BY MiddlemanAssumption, SMT DEF Wired, OpenIfConnected, Turn, Unset, Hosts
  <2> QED
    BY <1>2, <2>1, SMT DEF SendToLogic, Send, Logs, Data, Hosts
<1> SUFFICES ASSUME NEW x \in Hosts, NEW y \in Hosts
             PROVE  (SameKind(x, y) => NoData(log[x], y)') /\ InLine(x, y)'
  BY Zenon DEF RelayInv, SameKind, NoData
<1>7. PICK q : q = log'[x]
  BY Zenon
<1>8. /\ log[x] \in Seq(Packets) /\ InLine(x, y)
      /\ SameKind(x, y) => NoData(log[x], y)
  BY Zenon DEF Logs, RelayInv
<1>9. x \in Sessions => q = log[x]
  BY <1>5, <1>7, MiddlemanAssumption, Zenon DEF Data
<1>10. CASE x \in Sessions /\ y \in Sessions
  <2>1. NoData(q, y)
    BY <1>8, <1>9, <1>10, Zenon DEF SameKind
  <2>2. Gapless(q, y) /\ \A n : LastNumber(q, y, n)
    BY <2>1, NoDataInLine
  <2> QED
    BY <1>7, <2>1, <2>2, Zenon DEF InLine, NoData
<1>11. CASE y # s
  <2>1. ~IsData(p, y)
    BY <1>1, <1>11, Zenon
  <2>2. /\ NoData(log[x], y) => NoData(q, y)
        /\ Gapless(log[x], y) => Gapless(q, y)
        /\ \A n : LastNumber(log[x], y, n) => LastNumber(q, y, n)
    <3>1. q = log[x] \/ q = Append(log[x], p)
      BY <1>5, <1>7, Zenon
    <3>2. CASE q = log[x]
      BY <3>2, Zenon
    <3>3. CASE q = Append(log[x], p)
      BY <1>1, <1>8, <2>1, <3>3, AppendOther, Zenon
    <3> QED
      BY <3>1, <3>2, <3>3, Zenon
  <2> QED
    BY <1>2, <1>3, <1>7, <1>8, <1>11, <2>2, Zenon DEF InLine, NoData
<1>12. CASE x \in Logics /\ y = s
  <2>0. ~SameKind(x, y)
    BY <1>12, MiddlemanAssumption, Zenon DEF SameKind
  <2>1. y \notin Logics
    BY <1>12, MiddlemanAssumption, Zenon
  <2>2. CASE ~connected[x]
    <3>1. q = log[x]
      BY <1>5, <1>7, <2>2, Zenon
    <3> QED
      BY <1>2, <1>7, <1>8, <1>12, <2>0, <2>2, <3>1, Zenon DEF InLine
  <2>3. CASE connected[x] /\ log'[x] = log[x] /\ log[x] = <<>>
    <3>1. Gapless(q, y) /\ \A n : LastNumber(q, y, n)
      BY <1>7, <2>3, EmptyNoData, NoDataInLine, Zenon
    <3> QED
      BY <1>7, <2>0, <3>1, Zenon DEF InLine
  <2>4. CASE connected[x] /\ log'[x] = Append(log[x], p)
    <3>1. LastNumber(log[x], s, received[s]) /\ Gapless(log[x], s)
      BY <1>4, <1>8, <1>12, <2>4, Zenon DEF InLine
    <3>2. received[s] \in Int
      BY SMT DEF Logs, Hosts
    <3>3. Gapless(q, s) /\ LastNumber(q, s, received[s] + 1)
      BY <1>1, <1>7, <1>8, <2>4, <3>1, <3>2, AppendNext, Zenon
    <3> QED
      BY <1>4, <1>7, <1>12, <2>0, <3>3, Zenon DEF InLine
  <2> QED
    BY <1>5, <1>6, <1>12, <2>2, <2>3, <2>4, Zenon
<1> QED
  BY <1>10, <1>11, <1>12, Zenon DEF Hosts

\* A broadcast adds a packet that all who are there have yet to be sent.
LEMMA InLineBroadcast ==
  ASSUME Placed, Data, Flags, Logs, Entered, ManagerExact, Wired, RelayInv,
         NEW l \in Logics, Broadcast(l)
  PROVE  RelayInv'
<1>1. /\ chain[l] = "relaying" /\ received' = [received EXCEPT ![l] = @ + 1]
      /\ targets' = [targets EXCEPT ![l] = {clientSessions[id] : id \in Ids} \ {NoSession}]
      /\ UNCHANGED <<log, connected>>
  BY Zenon DEF Broadcast, Goto, linkVars
<1>2. \A x, y \in Hosts : y # l => Sent(x, y)' = Sent(x, y)
  BY <1>1, SMT DEF Sent, Logs
<1>3. \A x \in Hosts :
        x \in {clientSessions[id] : id \in Ids} \ {NoSession} => Sent(x, l)' = Sent(x, l)
  <2>1. targets[l] = {}
    BY <1>1, SMT DEF Wired, Idle
  <2> QED
    BY <1>1, <2>1, SMT DEF Sent, Logs, Hosts
<1>4. \A s \in Sessions : connected[s] =>
        log[s] = <<>> \/ s \in {clientSessions[id] : id \in Ids} \ {NoSession}
  <2> SUFFICES ASSUME NEW s \in Sessions, connected[s], log[s] # <<>>
               PROVE  s \in {clientSessions[id] : id \in Ids} \ {NoSession}
    OBVIOUS
  <2>1. Listed(s)
    BY SMT DEF Entered, Added, Listed, Wired, OpenIfConnected, Hosts
  <2>2. clientSessions[sessionId[s]] = s /\ sessionId[s] \in Ids /\ s # NoSession
    BY <2>1, MiddlemanAssumption, Zenon DEF ManagerExact, Data
  <2> QED
    BY <2>2, Zenon
<1> SUFFICES ASSUME NEW x \in Hosts, NEW y \in Hosts
             PROVE  InLine(x, y)'
  BY <1>1, Zenon DEF RelayInv, SameKind, NoData
<1>5. InLine(x, y) /\ log' = log /\ connected' = connected
  BY <1>1, Zenon DEF RelayInv
<1>6. CASE Sent(x, y)' = Sent(x, y)
  BY <1>1, <1>5, <1>6, Zenon DEF InLine, Gapless, LastNumber
<1>7. CASE NoData(log[x], y) \/ ~connected[x]
  <2>1. Gapless(log[x], y) /\ (connected[x] => LastNumber(log[x], y, Sent(x, y)'))
    BY <1>5, <1>7, NoDataInLine, Zenon DEF InLine
  <2> QED
    BY <1>5, <2>1, Zenon DEF InLine, Gapless, LastNumber
<1>8. CASE y = l /\ x \in Logics
  <2>1. SameKind(x, y)
    BY <1>8, MiddlemanAssumption, Zenon DEF SameKind
  <2> QED
    BY <1>7, <2>1, Zenon DEF RelayInv
<1>9. CASE y = l /\ x \in Sessions
  <2>1. CASE log[x] = <<>>
    BY <1>7, <2>1, EmptyNoData, Zenon
  <2> QED
    BY <1>3, <1>4, <1>6, <1>7, <1>9, <2>1, Zenon
<1> QED
  BY <1>2, <1>6, <1>8, <1>9, Zenon DEF Hosts

\* Each is sent it once.
LEMMA InLineBroadcastTo ==
  ASSUME Placed, Data, Flags, Logs, RelayInv, NEW l \in Logics, NEW s \in Sessions,
         BroadcastTo(l, s)
  PROVE  RelayInv'
<1> DEFINE p == Packet("DATA", l, received[l])
<1>1. /\ p \in Packets /\ p.number = received[l]
      /\ \A y : IsData(p, y) <=> y = l
  <2>1. p \in Packets
    BY PacketType, SMT DEF Logs, Hosts
  <2> QED
    BY <2>1, SMT DEF Packet, IsData
<1>2. /\ targets' = [targets EXCEPT ![l] = @ \ {s}] /\ s \in targets[l] /\ Send(s, p)
      /\ UNCHANGED <<connected, received>>
  BY Zenon DEF BroadcastTo, linkVars
<1> HIDE DEF p
<1>3. \A x, y \in Hosts : y # l \/ x # s => Sent(x, y)' = Sent(x, y)
  BY <1>2, SMT DEF Sent, Logs
<1>4. Sent(s, l) = received[l] - 1 /\ Sent(s, l)' = received[l] /\ received[l] \in Nat
  BY <1>2, SMT DEF Sent, Logs, Hosts
<1>5. /\ \A x \in Hosts : x # s => log'[x] = log[x]
      /\ connected[s] => log'[s] = Append(log[s], p)
      /\ ~connected[s] => log'[s] = log[s]
  BY <1>2, SMT DEF Send, Logs, Hosts
<1> SUFFICES ASSUME NEW x \in Hosts, NEW y \in Hosts
             PROVE  (SameKind(x, y) => NoData(log[x], y)') /\ InLine(x, y)'
  BY Zenon DEF RelayInv, SameKind, NoData
<1>6. PICK q : q = log'[x]
  BY Zenon
<1>7. /\ log[x] \in Seq(Packets) /\ InLine(x, y)
      /\ SameKind(x, y) => NoData(log[x], y)
  BY Zenon DEF Logs, RelayInv
<1>8. ~SameKind(s, l)
  BY MiddlemanAssumption, Zenon DEF SameKind
<1>9. CASE x # s
  <2>1. q = log[x]
    BY <1>5, <1>6, <1>9, Zenon
  <2> QED
    BY <1>2, <1>3, <1>6, <1>7, <1>9, <2>1, Zenon DEF InLine, NoData
<1>10. CASE x = s /\ y # l
  <2>1. ~IsData(p, y)
    BY <1>1, <1>10, Zenon
  <2>2. /\ NoData(log[x], y) => NoData(q, y)
        /\ Gapless(log[x], y) => Gapless(q, y)
        /\ \A n : LastNumber(log[x], y, n) => LastNumber(q, y, n)
    BY <1>1, <1>5, <1>6, <1>7, <1>10, <2>1, AppendOther, Zenon
  <2> QED
    BY <1>2, <1>3, <1>6, <1>7, <1>10, <2>2, Zenon DEF InLine, NoData
<1>11. CASE x = s /\ y = l /\ ~connected[s]
  <2>1. q = log[x]
    BY <1>5, <1>6, <1>11, Zenon
  <2> QED
    BY <1>2, <1>6, <1>7, <1>8, <1>11, <2>1, Zenon DEF InLine
<1>12. CASE x = s /\ y = l /\ connected[s]
  <2>1. LastNumber(log[s], l, received[l] - 1) /\ Gapless(log[s], l)
    BY <1>4, <1>7, <1>12, Zenon DEF InLine
  <2>2. PICK n \in Int : n = received[l] - 1 /\ n + 1 = received[l]
    BY <1>4, SMT
  <2>3. Gapless(q, l) /\ LastNumber(q, l, received[l])
    BY <1>1, <1>5, <1>6, <1>7, <1>12, <2>1, <2>2, AppendNext, Zenon
  <2> QED
    BY <1>4, <1>6, <1>8, <1>12, <2>3, Zenon DEF InLine
<1> QED
  BY <1>9, <1>10, <1>11, <1>12, Zenon

LineInv == Wired /\ Turn /\ RelayInv

\* Nothing is out of line at first.
LEMMA LineInit == Init => LineInv
<1>1. Init => Wired /\ Turn
  BY SMT DEF Init, Wired, OpenIfConnected, Idle, Turn, Unset, Hosts
<1>2. Init => RelayInv
  <2> SUFFICES ASSUME Init PROVE RelayInv
    OBVIOUS
  <2>1. \A x \in Hosts : log[x] = <<>>
    BY SMT DEF Init
  <2> QED
    BY <2>1, EmptyNoData, NoDataInLine, Zenon DEF RelayInv, InLine
<1> QED
  BY <1>1, <1>2, Zenon DEF LineInv

\* Every step leaves all in line.
LEMMA LineNext ==
  /\ Placed /\ Data /\ Flags /\ Logs /\ ThereInv /\ Entered /\ ManagerExact
  /\ LineInv /\ [Next]_vars
  => LineInv'
<1> SUFFICES ASSUME Placed, Data, Flags, Logs, ThereInv, Entered, ManagerExact,
                    LineInv, [Next]_vars
             PROVE  LineInv'
  OBVIOUS
<1>1. Wired /\ Turn /\ RelayInv
  BY Zenon DEF LineInv
<1>2. Wired' /\ Turn' /\ ConnectsNew /\ Relays
  BY <1>1, OpenNext, IdleNext, TurnNext, ConnectsNext, RelaysNext, Zenon DEF Wired
<1>3. RelayInv'
  BY <1>1, <1>2, InLineNoData, InLineRelay, InLineBroadcast, InLineBroadcastTo, Zenon DEF
     Relays
<1> QED
  BY <1>2, <1>3, Zenon DEF LineInv

(***************************************************************************)
(* What a host gets of another's packets is a run of them, in order and    *)
(* without a gap.                                                          *)
(***************************************************************************)
THEOREM PacketsAreRelayedInOrder == Spec => []RelayedInOrder
<1>1. LineInv => RelayedInOrder
  BY Zenon DEF LineInv, RelayInv, InLine, RelayedInOrder
<1> QED
  BY <1>1, IdInvariant, ManagerInit, EnteredNext, ManagerNext, LineInit, LineNext,
     PTL DEF Spec

-----------------------------------------------------------------------------
(***************************************************************************)
(* The relay implements the switchboard.  Three more facts are needed: a   *)
(* session that has been connected is so until it is closed (Linked), the  *)
(* logic server's flag stands for a session that has been set (Installed), *)
(* and while one is being set there is no other (Lone).                    *)
(***************************************************************************)
Linked ==
  \A x \in Hosts :
    chain[x] \notin {"unused", "created"} /\ closing[x] = "open" => connected[x]

Installed == logicConnected => \E l \in Logics : ~Unset(l)

Lone ==
  \A k, l \in Logics :
    chain[l] \in {"set", "flag", "info"} /\ k # l =>
      chain[k] = "unused" \/ closing[k] = "released"

BoardInv == Linked /\ Installed /\ Lone

\* A session that has been connected and not closed stays connected.
LEMMA LinkedNext ==
  ASSUME Placed, Flags, ThereInv, Linked, [Next]_vars
  PROVE  Linked'
<1> USE DEF Linked, Placed, Flags, ThereInv, Opened, Hosts, managerVars, linkVars
<1>1. CASE Start
  BY <1>1, MiddlemanAssumption, SMT DEF Start, Goto, Close
<1>2. ASSUME NEW l \in Logics, AcceptLogic(l) PROVE Linked'
  BY <1>2, MiddlemanAssumption, SMT DEF AcceptLogic, Goto, Close
<1>3. ASSUME NEW l \in Logics, Set(l) PROVE Linked'
  BY <1>3, MiddlemanAssumption, SMT DEF Set, Goto, Close
<1>4. ASSUME NEW l \in Logics, SetConnectedTo(l) PROVE Linked'
  BY <1>4, MiddlemanAssumption, SMT DEF SetConnectedTo, Goto, Close
<1>5. ASSUME NEW l \in Logics, SendLogicInfo(l) PROVE Linked'
  <2>1. PICK c \in {"receiving", "ended"} : chain' = [chain EXCEPT ![l] = c]
    BY <1>5, RegisterRecvGoes, Zenon DEF SendLogicInfo
  <2> QED
    BY <1>5, <2>1, MiddlemanAssumption, SMT DEF SendLogicInfo
<1>6. ASSUME NEW s \in Sessions, Accept(s) PROVE Linked'
  BY <1>6, MiddlemanAssumption, SMT DEF Accept, Goto, Close
<1>7. ASSUME NEW s \in Sessions, ProcessConnect(s) PROVE Linked'
  BY <1>7, MiddlemanAssumption, SMT DEF ProcessConnect, Goto, Close
<1>8. ASSUME NEW s \in Sessions, Add(s) PROVE Linked'
  BY <1>8, MiddlemanAssumption, SMT DEF Add, Goto, Close
<1>9. ASSUME NEW s \in Sessions, SendInfo(s) PROVE Linked'
  BY <1>9, MiddlemanAssumption, SMT DEF SendInfo, Goto, Close
<1>10. ASSUME NEW s \in Sessions, Announce(s) PROVE Linked'
  <2>1. PICK c \in {"receiving", "ended"} : chain' = [chain EXCEPT ![s] = c]
    BY <1>10, RegisterRecvGoes, Zenon DEF Announce
  <2> QED
    BY <1>10, <2>1, MiddlemanAssumption, SMT DEF Announce
<1>11. ASSUME NEW x \in Hosts, Receive(x) PROVE Linked'
  BY <1>11, MiddlemanAssumption, SMT DEF Receive, Goto, Close
<1>12. ASSUME NEW x \in Hosts, ReceiveZero(x) PROVE Linked'
  <2>1. Disconnect(x)
    BY <1>12, Zenon DEF ReceiveZero
  <2> QED
    BY <1>12, <2>1, DisconnectCloses, MiddlemanAssumption, SMT DEF ReceiveZero, Goto
<1>13. ASSUME NEW s \in Sessions, Relay(s) PROVE Linked'
  <2>1. PICK c \in {"receiving", "relaying", "ended"} :
          chain' = chain \/ chain' = [chain EXCEPT ![s] = c]
    BY <1>13, RegisterRecvGoes, Zenon DEF Relay
  <2> QED
    BY <1>13, <2>1, MiddlemanAssumption, SMT DEF Relay
<1>14. ASSUME NEW l \in Logics, Broadcast(l) PROVE Linked'
  BY <1>14, MiddlemanAssumption, SMT DEF Broadcast, Goto, Close
<1>15. ASSUME NEW x \in Hosts, NEW s \in Sessions, BroadcastTo(x, s) PROVE Linked'
  BY <1>15, MiddlemanAssumption, SMT DEF BroadcastTo, Goto, Close
<1>16. ASSUME NEW x \in Hosts, BroadcastEnd(x) PROVE Linked'
  <2>1. PICK c \in {"receiving", "relaying", "ended"} :
          chain' = chain \/ chain' = [chain EXCEPT ![x] = c]
    BY <1>16, RegisterRecvGoes, Zenon DEF BroadcastEnd
  <2> QED
    BY <1>16, <2>1, MiddlemanAssumption, SMT DEF BroadcastEnd
<1>17. ASSUME NEW x \in Hosts, SendFails(x) PROVE Linked'
  <2>1. Disconnect(x)
    BY <1>17, Zenon DEF SendFails
  <2> QED
    BY <1>17, <2>1, DisconnectCloses, MiddlemanAssumption, SMT DEF SendFails, Goto
<1>18. ASSUME NEW s \in Sessions, Notify(s) PROVE Linked'
  BY <1>18, MiddlemanAssumption, SMT DEF Notify, Goto, Close
<1>19. ASSUME NEW s \in Sessions, Remove(s) PROVE Linked'
  BY <1>19, MiddlemanAssumption, SMT DEF Remove, Goto, Close
<1>20. ASSUME NEW s \in Sessions, Release(s) PROVE Linked'
  BY <1>20, MiddlemanAssumption, SMT DEF Release, Goto, Close
<1>21. ASSUME NEW l \in Logics, RemoveLogic(l) PROVE Linked'
  BY <1>21, MiddlemanAssumption, SMT DEF RemoveLogic, Goto, Close
<1>22. ASSUME NEW l \in Logics, ReleaseLogic(l) PROVE Linked'
  BY <1>22, MiddlemanAssumption, SMT DEF ReleaseLogic, Goto, Close
<1>23. CASE UNCHANGED vars
  BY <1>23, MiddlemanAssumption, SMT DEF vars, serviceVars, idVars, Goto, Close
<1> HIDE DEF Linked, Placed, Flags, ThereInv, Opened, Hosts, managerVars, linkVars
<1> QED
  BY <1>1, <1>2, <1>3, <1>4, <1>5, <1>6, <1>7, <1>8, <1>9, <1>10, <1>11, <1>12, <1>13,
     <1>14, <1>15, <1>16, <1>17, <1>18, <1>19, <1>20, <1>21, <1>22, <1>23, NextCases, Zenon

\* No other logic session is accepted before the last one has been set.
LEMMA LoneNext ==
  ASSUME Placed, Lone, [Next]_vars
  PROVE  Lone'
<1> USE DEF Lone, Placed, LogicChain, ClientChain, Hosts, managerVars, linkVars
<1>1. CASE Start
  BY <1>1, MiddlemanAssumption, SMT DEF Start, Goto, Close
<1>2. ASSUME NEW l \in Logics, AcceptLogic(l) PROVE Lone'
  BY <1>2, MiddlemanAssumption, SMT DEF AcceptLogic, Goto, Close
<1>3. ASSUME NEW l \in Logics, Set(l) PROVE Lone'
  BY <1>3, MiddlemanAssumption, SMT DEF Set, Goto, Close
<1>4. ASSUME NEW l \in Logics, SetConnectedTo(l) PROVE Lone'
  BY <1>4, MiddlemanAssumption, SMT DEF SetConnectedTo, Goto, Close
<1>5. ASSUME NEW l \in Logics, SendLogicInfo(l) PROVE Lone'
  <2>1. PICK c \in {"receiving", "ended"} : chain' = [chain EXCEPT ![l] = c]
    BY <1>5, RegisterRecvGoes, Zenon DEF SendLogicInfo
  <2> QED
    BY <1>5, <2>1, MiddlemanAssumption, SMT DEF SendLogicInfo
<1>6. ASSUME NEW s \in Sessions, Accept(s) PROVE Lone'
  BY <1>6, MiddlemanAssumption, SMT DEF Accept, Goto, Close
<1>7. ASSUME NEW s \in Sessions, ProcessConnect(s) PROVE Lone'
  BY <1>7, MiddlemanAssumption, SMT DEF ProcessConnect, Goto, Close
<1>8. ASSUME NEW s \in Sessions, Add(s) PROVE Lone'
  BY <1>8, MiddlemanAssumption, SMT DEF Add, Goto, Close
<1>9. ASSUME NEW s \in Sessions, SendInfo(s) PROVE Lone'
  BY <1>9, MiddlemanAssumption, SMT DEF SendInfo, Goto, Close
<1>10. ASSUME NEW s \in Sessions, Announce(s) PROVE Lone'
  <2>1. PICK c \in {"receiving", "ended"} : chain' = [chain EXCEPT ![s] = c]
    BY <1>10, RegisterRecvGoes, Zenon DEF Announce
  <2> QED
    BY <1>10, <2>1, MiddlemanAssumption, SMT DEF Announce
<1>11. ASSUME NEW x \in Hosts, Receive(x) PROVE Lone'
  BY <1>11, MiddlemanAssumption, SMT DEF Receive, Goto, Close
<1>12. ASSUME NEW x \in Hosts, ReceiveZero(x) PROVE Lone'
  <2>1. Disconnect(x)
    BY <1>12, Zenon DEF ReceiveZero
  <2> QED
    BY <1>12, <2>1, DisconnectCloses, MiddlemanAssumption, SMT DEF ReceiveZero, Goto
<1>13. ASSUME NEW s \in Sessions, Relay(s) PROVE Lone'
  <2>1. PICK c \in {"receiving", "relaying", "ended"} :
          chain' = chain \/ chain' = [chain EXCEPT ![s] = c]
    BY <1>13, RegisterRecvGoes, Zenon DEF Relay
  <2> QED
    BY <1>13, <2>1, MiddlemanAssumption, SMT DEF Relay
<1>14. ASSUME NEW l \in Logics, Broadcast(l) PROVE Lone'
  BY <1>14, MiddlemanAssumption, SMT DEF Broadcast, Goto, Close
<1>15. ASSUME NEW x \in Hosts, NEW s \in Sessions, BroadcastTo(x, s) PROVE Lone'
  BY <1>15, MiddlemanAssumption, SMT DEF BroadcastTo, Goto, Close
<1>16. ASSUME NEW x \in Hosts, BroadcastEnd(x) PROVE Lone'
  <2>1. PICK c \in {"receiving", "relaying", "ended"} :
          chain' = chain \/ chain' = [chain EXCEPT ![x] = c]
    BY <1>16, RegisterRecvGoes, Zenon DEF BroadcastEnd
  <2> QED
    BY <1>16, <2>1, MiddlemanAssumption, SMT DEF BroadcastEnd
<1>17. ASSUME NEW x \in Hosts, SendFails(x) PROVE Lone'
  <2>1. Disconnect(x)
    BY <1>17, Zenon DEF SendFails
  <2> QED
    BY <1>17, <2>1, DisconnectCloses, MiddlemanAssumption, SMT DEF SendFails, Goto
<1>18. ASSUME NEW s \in Sessions, Notify(s) PROVE Lone'
  BY <1>18, MiddlemanAssumption, SMT DEF Notify, Goto, Close
<1>19. ASSUME NEW s \in Sessions, Remove(s) PROVE Lone'
  BY <1>19, MiddlemanAssumption, SMT DEF Remove, Goto, Close
<1>20. ASSUME NEW s \in Sessions, Release(s) PROVE Lone'
  BY <1>20, MiddlemanAssumption, SMT DEF Release, Goto, Close
<1>21. ASSUME NEW l \in Logics, RemoveLogic(l) PROVE Lone'
  BY <1>21, MiddlemanAssumption, SMT DEF RemoveLogic, Goto, Close
<1>22. ASSUME NEW l \in Logics, ReleaseLogic(l) PROVE Lone'
  BY <1>22, MiddlemanAssumption, SMT DEF ReleaseLogic, Goto, Close
<1>23. CASE UNCHANGED vars
  BY <1>23, MiddlemanAssumption, SMT DEF vars, serviceVars, idVars, Goto, Close
<1> HIDE DEF Lone, Placed, LogicChain, ClientChain, Hosts, managerVars, linkVars
<1> QED
  BY <1>1, <1>2, <1>3, <1>4, <1>5, <1>6, <1>7, <1>8, <1>9, <1>10, <1>11, <1>12, <1>13,
     <1>14, <1>15, <1>16, <1>17, <1>18, <1>19, <1>20, <1>21, <1>22, <1>23, NextCases, Zenon

\* A logic session that has been set remains so.
LEMMA InstalledNext ==
  ASSUME Placed, Installed, [Next]_vars
  PROVE  Installed'
<1> USE DEF Installed, Unset, Placed, LogicChain, ClientChain, Hosts, managerVars, linkVars
<1>1. CASE Start
  BY <1>1, MiddlemanAssumption, SMT DEF Start, Goto, Close
<1>2. ASSUME NEW l \in Logics, AcceptLogic(l) PROVE Installed'
  BY <1>2, MiddlemanAssumption, SMT DEF AcceptLogic, Goto, Close
<1>3. ASSUME NEW l \in Logics, Set(l) PROVE Installed'
  BY <1>3, MiddlemanAssumption, SMT DEF Set, Goto, Close
<1>4. ASSUME NEW l \in Logics, SetConnectedTo(l) PROVE Installed'
  BY <1>4, MiddlemanAssumption, SMT DEF SetConnectedTo, Goto, Close
<1>5. ASSUME NEW l \in Logics, SendLogicInfo(l) PROVE Installed'
  <2>1. PICK c \in {"receiving", "ended"} : chain' = [chain EXCEPT ![l] = c]
    BY <1>5, RegisterRecvGoes, Zenon DEF SendLogicInfo
  <2> QED
    BY <1>5, <2>1, MiddlemanAssumption, SMT DEF SendLogicInfo
<1>6. ASSUME NEW s \in Sessions, Accept(s) PROVE Installed'
  BY <1>6, MiddlemanAssumption, SMT DEF Accept, Goto, Close
<1>7. ASSUME NEW s \in Sessions, ProcessConnect(s) PROVE Installed'
  BY <1>7, MiddlemanAssumption, SMT DEF ProcessConnect, Goto, Close
<1>8. ASSUME NEW s \in Sessions, Add(s) PROVE Installed'
  BY <1>8, MiddlemanAssumption, SMT DEF Add, Goto, Close
<1>9. ASSUME NEW s \in Sessions, SendInfo(s) PROVE Installed'
  BY <1>9, MiddlemanAssumption, SMT DEF SendInfo, Goto, Close
<1>10. ASSUME NEW s \in Sessions, Announce(s) PROVE Installed'
  <2>1. PICK c \in {"receiving", "ended"} : chain' = [chain EXCEPT ![s] = c]
    BY <1>10, RegisterRecvGoes, Zenon DEF Announce
  <2> QED
    BY <1>10, <2>1, MiddlemanAssumption, SMT DEF Announce
<1>11. ASSUME NEW x \in Hosts, Receive(x) PROVE Installed'
  BY <1>11, MiddlemanAssumption, SMT DEF Receive, Goto, Close
<1>12. ASSUME NEW x \in Hosts, ReceiveZero(x) PROVE Installed'
  <2>1. Disconnect(x)
    BY <1>12, Zenon DEF ReceiveZero
  <2> QED
    BY <1>12, <2>1, DisconnectCloses, MiddlemanAssumption, SMT DEF ReceiveZero, Goto
<1>13. ASSUME NEW s \in Sessions, Relay(s) PROVE Installed'
  <2>1. PICK c \in {"receiving", "relaying", "ended"} :
          chain' = chain \/ chain' = [chain EXCEPT ![s] = c]
    BY <1>13, RegisterRecvGoes, Zenon DEF Relay
  <2> QED
    BY <1>13, <2>1, MiddlemanAssumption, SMT DEF Relay
<1>14. ASSUME NEW l \in Logics, Broadcast(l) PROVE Installed'
  BY <1>14, MiddlemanAssumption, SMT DEF Broadcast, Goto, Close
<1>15. ASSUME NEW x \in Hosts, NEW s \in Sessions, BroadcastTo(x, s) PROVE Installed'
  BY <1>15, MiddlemanAssumption, SMT DEF BroadcastTo, Goto, Close
<1>16. ASSUME NEW x \in Hosts, BroadcastEnd(x) PROVE Installed'
  <2>1. PICK c \in {"receiving", "relaying", "ended"} :
          chain' = chain \/ chain' = [chain EXCEPT ![x] = c]
    BY <1>16, RegisterRecvGoes, Zenon DEF BroadcastEnd
  <2> QED
    BY <1>16, <2>1, MiddlemanAssumption, SMT DEF BroadcastEnd
<1>17. ASSUME NEW x \in Hosts, SendFails(x) PROVE Installed'
  <2>1. Disconnect(x)
    BY <1>17, Zenon DEF SendFails
  <2> QED
    BY <1>17, <2>1, DisconnectCloses, MiddlemanAssumption, SMT DEF SendFails, Goto
<1>18. ASSUME NEW s \in Sessions, Notify(s) PROVE Installed'
  BY <1>18, MiddlemanAssumption, SMT DEF Notify, Goto, Close
<1>19. ASSUME NEW s \in Sessions, Remove(s) PROVE Installed'
  BY <1>19, MiddlemanAssumption, SMT DEF Remove, Goto, Close
<1>20. ASSUME NEW s \in Sessions, Release(s) PROVE Installed'
  BY <1>20, MiddlemanAssumption, SMT DEF Release, Goto, Close
<1>21. ASSUME NEW l \in Logics, RemoveLogic(l) PROVE Installed'
  BY <1>21, MiddlemanAssumption, SMT DEF RemoveLogic, Goto, Close
<1>22. ASSUME NEW l \in Logics, ReleaseLogic(l) PROVE Installed'
  BY <1>22, MiddlemanAssumption, SMT DEF ReleaseLogic, Goto, Close
<1>23. CASE UNCHANGED vars
  BY <1>23, MiddlemanAssumption, SMT DEF vars, serviceVars, idVars, Goto, Close
<1> HIDE DEF Installed, Unset, Placed, LogicChain, ClientChain, Hosts, managerVars, linkVars
<1> QED
  BY <1>1, <1>2, <1>3, <1>4, <1>5, <1>6, <1>7, <1>8, <1>9, <1>10, <1>11, <1>12, <1>13,
     <1>14, <1>15, <1>16, <1>17, <1>18, <1>19, <1>20, <1>21, <1>22, <1>23, NextCases, Zenon

\* All three are kept.
LEMMA BoardNext ==
  Placed /\ Flags /\ ThereInv /\ BoardInv /\ [Next]_vars => BoardInv'
BY LinkedNext, LoneNext, InstalledNext, Zenon DEF BoardInv

\* What the proofs below may count on.
RelayFacts ==
  /\ Placed /\ Data /\ Flags /\ Logs /\ ThereInv /\ IdInv
  /\ Entered /\ ManagerExact /\ HeirInv /\ LineInv /\ BoardInv

\* A link is open if the session is connected, and only then.
LEMMA LinkValues ==
  ASSUME RelayFacts, NEW x \in Hosts
  PROVE  /\ Links[x] = Link(x)
         /\ Links[x] = "open" <=> connected[x]
         /\ connected[x] => closing[x] = "open"
<1>1. Links[x] = Link(x)
  BY Zenon DEF Links
<1>2. connected[x] => closing[x] = "open"
  BY Zenon DEF RelayFacts, LineInv, Wired, OpenIfConnected
<1>3. Link(x) = "open" <=> connected[x]
  BY SMT DEF Link
<1> QED
  BY <1>1, <1>2, <1>3, Zenon

\* The links do not change if nobody is connected or disconnected.
LEMMA SameLinks ==
  ASSUME UNCHANGED connected,
         \A x \in Hosts : closing'[x] = "open" <=> closing[x] = "open"
  PROVE  UNCHANGED Links
BY SMT DEF Links, Link

\* The welcome goes on as the chain does.
LEMMA WelcomeMoves ==
  ASSUME Placed, NEW x \in Hosts, NEW c, chain' = [chain EXCEPT ![x] = c]
  PROVE  /\ chain'[x] = c
         /\ Welcomes[x] = Welcomed(x)
         /\ Welcomes' = [Welcomes EXCEPT ![x] = Welcomed(x)']
<1>1. chain'[x] = c /\ \A y \in Hosts : y # x => chain'[y] = chain[y]
  BY SMT DEF Placed
<1>2. \A y \in Hosts : y # x => Welcomed(y)' = Welcomed(y)
  BY <1>1, Zenon DEF Welcomed
<1>3. /\ Welcomes = [y \in Hosts |-> Welcomed(y)]
      /\ Welcomes' = [y \in Hosts |-> Welcomed(y)']
  BY Zenon DEF Welcomes
<1>4. Welcomes' = [Welcomes EXCEPT ![x] = Welcomed(x)']
  BY <1>2, <1>3, Zenon
<1> QED
  BY <1>1, <1>3, <1>4, Zenon

\* Hence it does not if the chain goes on to a place of the same meaning.
LEMMA WelcomeStays ==
  ASSUME Placed, NEW x \in Hosts, NEW c, chain' = [chain EXCEPT ![x] = c],
         Welcomed(x)' = Welcomed(x)
  PROVE  UNCHANGED Welcomes
<1>1. \A y \in Hosts : y # x => chain'[y] = chain[y]
  BY SMT DEF Placed
<1>2. \A y \in Hosts : Welcomed(y)' = Welcomed(y)
  BY <1>1, Zenon DEF Welcomed
<1> QED
  BY <1>2, Zenon DEF Welcomes

\* Who is a member follows from the manager alone, and who has departed from the
\* disconnects.
LEMMA SameMembers == UNCHANGED clientSessions => UNCHANGED Members
BY Zenon DEF Members

\* A session whose disconnect does not pass "remove" does not depart.
LEMMA SameDeparted ==
  ASSUME \A s \in Sessions : closing'[s] \in Gone <=> closing[s] \in Gone
  PROVE  UNCHANGED Departed
BY Zenon DEF Departed, Gone

MembersExact == Members = {s \in Sessions : Listed(s)}

\* The members are the sessions that are registered.
LEMMA MembersAreListed == RelayFacts => MembersExact
<1> SUFFICES ASSUME Data, ManagerExact PROVE MembersExact
  BY Zenon DEF RelayFacts
<1>1. ASSUME NEW s \in Members
      PROVE  s \in Sessions /\ Listed(s)
  <2>1. PICK id \in Ids : s = clientSessions[id] /\ s # NoSession
    BY <1>1, Zenon DEF Members
  <2> QED
    BY <2>1, Zenon DEF Data, ManagerExact
<1>2. ASSUME NEW s \in Sessions, Listed(s)
      PROVE  s \in Members
  <2>1. clientSessions[sessionId[s]] = s /\ sessionId[s] \in Ids
    BY <1>2, Zenon DEF Data, ManagerExact
  <2> QED
    BY <2>1, MiddlemanAssumption, Zenon DEF Members
<1> QED
  BY <1>1, <1>2, Zenon DEF MembersExact

-----------------------------------------------------------------------------
\* What Send does, host by host.
LEMMA SendIsPointwise ==
  ASSUME log \in [Hosts -> Seq(Packets)], NEW x \in Hosts, NEW packet, Send(x, packet)
  PROVE  log' = [y \in Hosts |->
                  IF y = x /\ connected[y] THEN Append(log[y], packet) ELSE log[y]]
<1>1. DOMAIN log = Hosts
  BY Zenon
<1>2. log' = [log EXCEPT ![x] = IF connected[x] THEN Append(log[x], packet) ELSE log[x]]
  BY Zenon DEF Send
<1>3. \A y \in Hosts :
        log'[y] = IF y = x /\ connected[y] THEN Append(log[y], packet) ELSE log[y]
  BY <1>1, <1>2, Zenon
<1>4. log' = [y \in Hosts |-> log'[y]]
  BY <1>1, <1>2, Zenon
<1> QED
  BY <1>3, <1>4, Zenon

\* A packet that is sent to a session is handed to it if its link is open.
LEMMA SendHands ==
  ASSUME RelayFacts, NEW x \in Hosts, NEW packet, Send(x, packet)
  PROVE  Board!Hand({x}, packet)
<1>1. \A y \in Hosts : Links[y] = "open" <=> connected[y]
  BY LinkValues, Zenon
<1>2. log \in [Hosts -> Seq(Packets)]
  BY Zenon DEF RelayFacts, Logs
<1>3. log' = [y \in Hosts |->
               IF y \in {x} /\ Links[y] = "open" THEN Append(log[y], packet) ELSE log[y]]
  BY <1>1, <1>2, SendIsPointwise, Zenon
<1> QED
  BY <1>3, Zenon DEF Board!Hand, Board!Hosts, Hosts

\* If nobody's link is open nobody gets it.
LEMMA NobodyHands ==
  ASSUME RelayFacts, NEW hosts, NEW packet, UNCHANGED log,
         \A x \in Hosts : x \in hosts => ~connected[x]
  PROVE  Board!Hand(hosts, packet)
<1>1. \A y \in Hosts : y \in hosts => Links[y] # "open"
  BY LinkValues, Zenon
<1>2. log \in [Hosts -> Seq(Packets)]
  BY Zenon DEF RelayFacts, Logs
<1>3. log' = [y \in Hosts |->
               IF y \in hosts /\ Links[y] = "open" THEN Append(log[y], packet) ELSE log[y]]
  BY <1>1, <1>2, SMT
<1> QED
  BY <1>3, Zenon DEF Board!Hand, Board!Hosts, Hosts

\* A logic session has been set when it is no longer new.
LEMMA SetIsEnrolled ==
  ASSUME RelayFacts, NEW l \in Logics
  PROVE  l \in Hosts /\ Welcomes[l] = Welcomed(l) /\ (Welcomes[l] = "new" <=> Unset(l))
<1>1. chain[l] \in LogicChain /\ l \in Hosts
  BY Zenon DEF RelayFacts, Placed, Hosts
<1>2. Welcomed(l) = "new" <=> Unset(l)
  BY <1>1, SMT DEF Welcomed, Unset, LogicChain
<1> QED
  BY <1>1, <1>2, Zenon DEF Welcomes

\* The server at work is the connected session that is set, if it is.
LEMMA ServingIsSet ==
  ASSUME RelayFacts
  PROVE  \A l \in Hosts : l \in Board!Serving <=> l = logicSession /\ connected[l]
<1> SUFFICES ASSUME NEW l \in Hosts
             PROVE  l \in Board!Serving <=> l = logicSession /\ connected[l]
  OBVIOUS
<1>0. Turn /\ logicSession \in Logics \cup {NoSession} /\ NoSession \notin Hosts
  BY MiddlemanAssumption, Zenon DEF RelayFacts, LineInv, Data, Hosts
<1>1. ASSUME l \in Board!Serving
      PROVE  l = logicSession /\ connected[l]
  <2>1. l \in Logics /\ Links[l] = "open" /\ Welcomes[l] # "new"
    BY <1>1, Zenon DEF Board!Serving
  <2>2. connected[l] /\ closing[l] = "open" /\ ~Unset(l)
    BY <2>1, LinkValues, SetIsEnrolled, Zenon
  <2> QED
    BY <1>0, <2>1, <2>2, Zenon DEF Turn
<1>2. ASSUME l = logicSession, connected[l]
      PROVE  l \in Board!Serving
  <2>1. l \in Logics /\ ~Unset(l)
    BY <1>0, <1>2, Zenon DEF Turn
  <2>2. Links[l] = "open" /\ Welcomes[l] # "new"
    BY <1>2, <2>1, LinkValues, SetIsEnrolled, Zenon
  <2> QED
    BY <2>1, <2>2, Zenon DEF Board!Serving
<1> QED
  BY <1>1, <1>2, Zenon

\* What is meant for the logic server is handed to the server at work.
LEMMA SendToLogicHands ==
  ASSUME RelayFacts, NEW packet, SendToLogic(packet)
  PROVE  Board!Hand(Board!Serving, packet)
<1>0. \A y \in Hosts : Links[y] = "open" <=> connected[y]
  BY LinkValues, Zenon
<1>1. CASE logicSession # NoSession /\ Send(logicSession, packet)
  <2>1. log \in [Hosts -> Seq(Packets)]
    BY Zenon DEF RelayFacts, Logs
  <2>2. logicSession \in Hosts
    BY <1>1, Zenon DEF RelayFacts, Data, Hosts
  <2>3. log' = [y \in Hosts |->
                 IF y = logicSession /\ connected[y] THEN Append(log[y], packet) ELSE log[y]]
    BY <1>1, <2>1, <2>2, SendIsPointwise, Zenon
  <2>4. log' = [y \in Hosts |->
                 IF y \in Board!Serving /\ Links[y] = "open"
                 THEN Append(log[y], packet) ELSE log[y]]
    BY <1>0, <2>3, ServingIsSet, Zenon
  <2> QED
    BY <2>4, Zenon DEF Board!Hand, Board!Hosts, Hosts
<1>2. CASE logicSession = NoSession /\ UNCHANGED log
  <2>1. \A y \in Hosts : y \notin Board!Serving
    BY <1>2, ServingIsSet, MiddlemanAssumption, Zenon DEF Hosts
  <2> QED
    BY <1>2, <2>1, NobodyHands, Zenon
<1> QED
  BY <1>1, <1>2, Zenon DEF SendToLogic

-----------------------------------------------------------------------------
(***************************************************************************)
(* Each action takes a step of the switchboard, or none that a host sees.  *)
(***************************************************************************)
BoardSame == UNCHANGED <<Links, Welcomes, Members, Departed, received, targets, log>>

Implemented == Board!Next \/ BoardSame

\* A chain that moves on to a place of the same meaning is not seen.
LEMMA ChainStutters ==
  ASSUME RelayFacts, NEW x \in Hosts, NEW c, chain' = [chain EXCEPT ![x] = c],
         Welcomed(x)' = Welcomed(x),
         UNCHANGED <<connected, closing, clientSessions, received, targets, log>>
  PROVE  BoardSame
<1>1. Placed
  BY Zenon DEF RelayFacts
<1>2. UNCHANGED Links
  BY SameLinks, Zenon
<1> QED
  BY <1>1, <1>2, WelcomeStays, SameMembers, SameDeparted, Zenon DEF BoardSame

\* Nor is a disconnect that moves on between places of the same meaning.
LEMMA ClosingStutters ==
  ASSUME RelayFacts, NEW x \in Hosts, NEW c, closing' = [closing EXCEPT ![x] = c],
         closing[x] # "open", c # "open",
         x \in Sessions => (c \in Gone <=> closing[x] \in Gone),
         UNCHANGED <<connected, chain, received, targets, log>>,
         UNCHANGED Members
  PROVE  BoardSame
<1>1. \A y \in Hosts : closing'[y] = IF y = x THEN c ELSE closing[y]
  BY SMT DEF RelayFacts, Placed
<1>2. UNCHANGED Links
  BY <1>1, SameLinks, Zenon
<1>3. UNCHANGED Departed
  BY <1>1, SameDeparted, Zenon DEF Hosts
<1>4. UNCHANGED Welcomes
  BY Zenon DEF Welcomes, Welcomed
<1> QED
  BY <1>2, <1>3, <1>4, Zenon DEF BoardSame

\* A session that is connected joins.
LEMMA JoinStep ==
  ASSUME RelayFacts, NEW x \in Hosts, NEW from, NEW to, Goto(x, from, to),
         from \in {"unused", "created"}, to \in {"set", "add"},
         connected' = [connected EXCEPT ![x] = TRUE],
         UNCHANGED <<closing, clientSessions, received, targets, log>>
  PROVE  Board!Join(x)
<1>1. chain[x] = from /\ chain' = [chain EXCEPT ![x] = to]
  BY Zenon DEF Goto
<1>2. closing[x] = "open" /\ ~connected[x] /\ connected \in [Hosts -> BOOLEAN]
  BY <1>1, SMT DEF RelayFacts, ThereInv, Opened, Placed, Flags
<1>3. Links[x] = "none"
  BY <1>2, SMT DEF Links, Link
<1>4. /\ connected'[x]
      /\ \A y \in Hosts : y # x => connected'[y] = connected[y]
  BY <1>2, SMT
<1>5. Links' = [Links EXCEPT ![x] = "open"]
  <2>1. \A y \in Hosts : Link(y)' = IF y = x THEN "open" ELSE Link(y)
    BY <1>4, Zenon DEF Link
  <2>2. Links = [y \in Hosts |-> Link(y)] /\ Links' = [y \in Hosts |-> Link(y)']
    BY Zenon DEF Links
  <2> QED
    BY <2>1, <2>2, Zenon
<1>6. UNCHANGED Welcomes
  <2>1. chain'[x] = to
    BY <1>1, SMT DEF RelayFacts, Placed
  <2>2. Welcomed(x)' = Welcomed(x)
    BY <1>1, <2>1, SMT DEF Welcomed
  <2> QED
    BY <1>1, <2>2, WelcomeStays, Zenon DEF RelayFacts
<1> QED
  BY <1>3, <1>5, <1>6, SameMembers, SameDeparted, Zenon DEF Board!Join

\* A session that is disconnected leaves.
LEMMA LeaveStep ==
  ASSUME RelayFacts, NEW x \in Hosts, Disconnect(x), Welcomes[x] # "new",
         UNCHANGED <<clientSessions, received, targets, log>>, UNCHANGED Welcomes
  PROVE  Implemented
<1>1. CASE UNCHANGED <<connected, closing>>
  BY <1>1, SameLinks, SameMembers, SameDeparted, Zenon DEF Implemented, BoardSame
<1>2. ASSUME NEW c \in {"pending", "stuck"}, closing[x] = "open", connected[x],
             closing' = [closing EXCEPT ![x] = c],
             connected' = [connected EXCEPT ![x] = FALSE]
      PROVE  Board!Leave(x)
  <2>1. Links[x] = "open"
    BY <1>2, LinkValues, Zenon
  <2>2. /\ closing'[x] = c /\ ~connected'[x] /\ c # "open"
        /\ \A y \in Hosts : y # x => connected'[y] = connected[y] /\ closing'[y] = closing[y]
    BY <1>2, SMT DEF RelayFacts, Placed, Flags
  <2>3. Links' = [Links EXCEPT ![x] = "closed"]
    <3>1. \A y \in Hosts : Link(y)' = IF y = x THEN "closed" ELSE Link(y)
      BY <2>2, Zenon DEF Link
    <3>2. Links = [y \in Hosts |-> Link(y)] /\ Links' = [y \in Hosts |-> Link(y)']
      BY Zenon DEF Links
    <3> QED
      BY <3>1, <3>2, Zenon
  <2>4. UNCHANGED Departed
    <3>1. \A s \in Sessions : closing'[s] \in Gone <=> closing[s] \in Gone
      BY <1>2, <2>2, SMT DEF Gone, Hosts
    <3> QED
      BY <3>1, SameDeparted
  <2> QED
    BY <2>1, <2>3, <2>4, SameMembers, Zenon DEF Board!Leave
<1>3. CASE ~(UNCHANGED <<connected, closing>>)
  <2>1. connected[x]
    BY <1>3, Zenon DEF Disconnect, linkVars
  <2>2. \E c \in {"pending", "stuck"} :
          /\ closing[x] = "open"
          /\ closing' = [closing EXCEPT ![x] = c]
          /\ connected' = [connected EXCEPT ![x] = FALSE]
    BY <1>3, DisconnectCloses, Zenon
  <2>3. Board!Leave(x)
    BY <1>2, <2>1, <2>2, Zenon
  <2> QED
    BY <2>3, Zenon DEF Implemented, Board!Next, Board!Hosts, Hosts
<1> QED
  BY <1>1, <1>3, Zenon

\* OnConnected of a logic session enrolls it: the previous ones have been released.
LEMMA SetEnrolls ==
  ASSUME RelayFacts, NEW l \in Logics, Set(l)
  PROVE  Board!EnrollServer(l)
<1>1. /\ chain[l] = "set" /\ chain' = [chain EXCEPT ![l] = "flag"]
      /\ UNCHANGED <<connected, closing, clientSessions, received, targets, log>>
  BY Zenon DEF Set, Goto, linkVars
<1>2. l \in Hosts /\ Unset(l) /\ Welcomes[l] = "new"
  BY <1>1, SetIsEnrolled, SMT DEF Unset
<1>3. Links[l] = "open"
  <2>1. closing[l] = "open"
    BY <1>2, Zenon DEF RelayFacts, LineInv, Turn
  <2>2. connected[l]
    BY <1>1, <1>2, <2>1, SMT DEF RelayFacts, BoardInv, Linked
  <2> QED
    BY <1>2, <2>2, LinkValues, Zenon
<1>4. Welcomes' = [Welcomes EXCEPT ![l] = "enrolled"]
  <2>1. /\ chain'[l] = "flag"
        /\ Welcomes' = [Welcomes EXCEPT ![l] = Welcomed(l)']
    BY <1>1, <1>2, WelcomeMoves, Zenon DEF RelayFacts
  <2>2. Welcomed(l)' = "enrolled"
    BY <2>1, SMT DEF Welcomed
  <2> QED
    BY <2>1, <2>2, Zenon
<1>5. Board!Serving = {}
  <2>1. SUFFICES ASSUME NEW k \in Logics, Links[k] = "open", Welcomes[k] # "new"
                 PROVE  FALSE
    BY Zenon DEF Board!Serving
  <2>2. connected[k] /\ closing[k] = "open" /\ ~Unset(k)
    BY <2>1, LinkValues, SetIsEnrolled, Zenon
  <2>3. k # l /\ chain[k] # "unused"
    BY <1>2, <2>2, SMT DEF Unset
  <2>4. closing[k] = "released"
    BY <1>1, <2>3, Zenon DEF RelayFacts, BoardInv, Lone
  <2> QED
    BY <2>2, <2>4, Zenon
<1> QED
  BY <1>1, <1>2, <1>3, <1>4, <1>5, SameLinks, SameMembers, SameDeparted, Zenon
     DEF Board!EnrollServer, Board!Welcome

\* Who waits for the lock of the manager waits for the broadcasts.
LEMMA UnlockedIsQuiet == RelayFacts /\ ClientsUnlocked => Board!Quiet
BY Zenon DEF RelayFacts, LineInv, Wired, Idle, ClientsUnlocked, Board!Quiet

\* Add enrolls the session: a logic server has been set, no broadcast is under way and
\* nobody else is touched.
LEMMA AddEnrolls ==
  ASSUME RelayFacts, MembersExact', NEW s \in Sessions, Add(s)
  PROVE  Board!Enroll(s)
<1>1. /\ chain[s] = "add" /\ chain' = [chain EXCEPT ![s] = "info"]
      /\ ClientsUnlocked
      /\ UNCHANGED <<connected, closing, received, targets, log>>
  BY Zenon DEF Add, Goto, linkVars
<1>2. s \in Hosts
  BY Zenon DEF Hosts
<1>3. closing[s] = "open" /\ Links[s] = "open"
  <2>1. ~Added(s)
    BY <1>1, SMT DEF Added
  <2>2. closing[s] = "open"
    BY <2>1, Zenon DEF RelayFacts, Entered
  <2>3. connected[s]
    BY <1>1, <1>2, <2>2, SMT DEF RelayFacts, BoardInv, Linked
  <2> QED
    BY <1>2, <2>2, <2>3, LinkValues, Zenon
<1>4. chain'[s] = "info" /\ \A u \in Sessions : u # s => chain'[u] = chain[u]
  BY <1>1, <1>2, SMT DEF RelayFacts, Placed, Hosts
<1>5. Welcomes[s] = "new" /\ Welcomes' = [Welcomes EXCEPT ![s] = "enrolled"]
  <2>1. /\ Welcomes[s] = Welcomed(s)
        /\ Welcomes' = [Welcomes EXCEPT ![s] = Welcomed(s)']
    BY <1>1, <1>2, WelcomeMoves, Zenon DEF RelayFacts
  <2>2. Welcomed(s) = "new" /\ Welcomed(s)' = "enrolled"
    BY <1>1, <1>4, SMT DEF Welcomed
  <2> QED
    BY <2>1, <2>2, Zenon
<1>6. \E l \in Logics : Welcomes[l] # "new"
  <2>1. chain[s] # "unused"
    BY <1>1, SMT
  <2>2. \E l \in Logics : ~Unset(l)
    BY <2>1, Zenon DEF RelayFacts, ThereInv, Waited, BoardInv, Installed
  <2> QED
    BY <2>2, SetIsEnrolled, Zenon
<1>7. Members' = Members \cup {s}
  <2>1. Members = {u \in Sessions : Listed(u)}
    BY MembersAreListed, Zenon DEF MembersExact
  <2>2. Members' = {u \in Sessions : Listed(u)'}
    BY Zenon DEF MembersExact
  <2>3. \A u \in Sessions : Listed(u)' <=> u = s \/ Listed(u)
    <3>1. Listed(s)'
      BY <1>1, <1>3, <1>4, SMT DEF Listed
    <3>2. \A u \in Sessions : u # s => (Listed(u)' <=> Listed(u))
      BY <1>1, <1>4, Zenon DEF Listed
    <3> QED
      BY <3>1, <3>2, Zenon
  <2> QED
    BY <2>1, <2>2, <2>3, Zenon
<1> QED
  BY <1>1, <1>3, <1>5, <1>6, <1>7, UnlockedIsQuiet, SameLinks, SameDeparted, Zenon
     DEF Board!Enroll, Board!Welcome

\* The session info goes to its session and to no other, if it is still connected.
LEMMA SendInfoIntroduces ==
  ASSUME RelayFacts, NEW s \in Sessions, SendInfo(s)
  PROVE  Board!Introduce(s)
<1> DEFINE info == Packet("INFO", s, 0)
<1>1. /\ chain[s] = "info" /\ chain' = [chain EXCEPT ![s] = "announce"]
      /\ SendToClient(sessionId[s], info)
      /\ UNCHANGED <<connected, closing, clientSessions, received, targets>>
  BY Zenon DEF SendInfo, Goto, linkVars, managerVars
<1>2. s \in Hosts /\ sessionId[s] \in Ids
  BY Zenon DEF RelayFacts, Data, Hosts
<1>3. Board!Hand({s}, info)
  <2>1. CASE clientSessions[sessionId[s]] # NoSession /\ Send(clientSessions[sessionId[s]], info)
    <3>1. PICK u \in Sessions : u = clientSessions[sessionId[s]]
      BY <1>2, <2>1, Zenon DEF RelayFacts, Data
    <3>2. Listed(u) /\ sessionId[u] = sessionId[s]
      BY <1>2, <2>1, <3>1, Zenon DEF RelayFacts, ManagerExact
    <3>3. u = s
      <4>1. Entering(s)
        BY <1>1, SMT DEF Entering
      <4>2. chain[u] # "unused" /\ closing[u] # "released"
        BY <3>2, SMT DEF Listed
      <4> QED
        BY <3>2, <4>1, <4>2, Zenon DEF RelayFacts, HeirInv, IdHeir, Retired
    <3> QED
      BY <1>2, <2>1, <3>1, <3>3, SendHands, Zenon
  <2>2. CASE clientSessions[sessionId[s]] = NoSession /\ UNCHANGED log
    <3>1. ~connected[s]
      <4>1. ~Listed(s)
        BY <2>2, MiddlemanAssumption, Zenon DEF RelayFacts, ManagerExact
      <4>2. closing[s] # "open"
        BY <1>1, <4>1, SMT DEF Listed
      <4> QED
        BY <1>2, <4>2, LinkValues, Zenon
    <3>2. \A x \in Hosts : x \in {s} => ~connected[x]
      BY <3>1, Zenon
    <3> QED
      BY <2>2, <3>2, NobodyHands
  <2> QED
    BY <1>1, <2>1, <2>2, Zenon DEF SendToClient
<1>4. Welcomes[s] = "enrolled" /\ Welcomes' = [Welcomes EXCEPT ![s] = "introduced"]
  <2>1. /\ chain'[s] = "announce" /\ Welcomes[s] = Welcomed(s)
        /\ Welcomes' = [Welcomes EXCEPT ![s] = Welcomed(s)']
    BY <1>1, <1>2, WelcomeMoves, Zenon DEF RelayFacts
  <2>2. Welcomed(s) = "enrolled" /\ Welcomed(s)' = "introduced"
    BY <1>1, <2>1, SMT DEF Welcomed
  <2> QED
    BY <2>1, <2>2, Zenon
<1>5. info = Board!Packet("INFO", s, 0)
  BY Zenon DEF Packet, Board!Packet
<1> QED
  BY <1>1, <1>3, <1>4, <1>5, SameLinks, SameMembers, SameDeparted, Zenon
     DEF Board!Introduce, Board!Welcome

\* That of a logic session goes to it, or to nobody: while it is being set there is no
\* other.
LEMMA SendLogicInfoIntroduces ==
  ASSUME RelayFacts, NEW l \in Logics, SendLogicInfo(l)
  PROVE  Board!Introduce(l)
<1> DEFINE info == Packet("INFO", l, 0)
<1>1. /\ chain[l] = "info" /\ SendToLogic(info)
      /\ UNCHANGED <<connected, closing, clientSessions, received, targets>>
  BY Zenon DEF SendLogicInfo, linkVars, managerVars
<1>2. PICK c \in {"receiving", "ended"} : chain' = [chain EXCEPT ![l] = c]
  BY RegisterRecvGoes, Zenon DEF SendLogicInfo
<1>3. l \in Hosts /\ ~Unset(l)
  BY <1>1, SMT DEF Hosts, Unset
<1>4. connected[l] => logicSession = l
  BY <1>3, LinkValues, Zenon DEF RelayFacts, LineInv, Turn
<1>5. Board!Hand({l}, info)
  <2>1. CASE logicSession = NoSession /\ UNCHANGED log
    <3>1. ~connected[l]
      BY <1>3, <1>4, <2>1, MiddlemanAssumption, Zenon DEF Hosts
    <3>2. \A x \in Hosts : x \in {l} => ~connected[x]
      BY <3>1, Zenon
    <3> QED
      BY <2>1, <3>2, NobodyHands
  <2>2. CASE logicSession # NoSession /\ Send(logicSession, info)
    <3>1. CASE logicSession = l
      BY <1>3, <2>2, <3>1, SendHands, Zenon
    <3>2. CASE logicSession # l
      <4>1. logicSession \in Logics /\ logicSession \in Hosts
        BY <2>2, Zenon DEF RelayFacts, Data, Hosts
      <4>2. chain[logicSession] # "unused"
        BY <2>2, SMT DEF RelayFacts, LineInv, Turn, Unset
      <4>3. closing[logicSession] = "released"
        BY <1>1, <3>2, <4>1, <4>2, Zenon DEF RelayFacts, BoardInv, Lone
      <4>4. ~connected[logicSession]
        BY <4>1, <4>3, LinkValues, Zenon
      <4>5. UNCHANGED log
        <5>1. log \in [Hosts -> Seq(Packets)]
          BY Zenon DEF RelayFacts, Logs
        <5>2. log' = [y \in Hosts |-> log[y]]
          BY <2>2, <4>1, <4>4, <5>1, SendIsPointwise, Zenon
        <5> QED
          BY <5>1, <5>2, Zenon
      <4>6. \A x \in Hosts : x \in {l} => ~connected[x]
        BY <1>4, <3>2, Zenon
      <4> QED
        BY <4>5, <4>6, NobodyHands
    <3> QED
      BY <3>1, <3>2
  <2> QED
    BY <1>1, <2>1, <2>2, Zenon DEF SendToLogic
<1>6. Welcomes[l] = "enrolled" /\ Welcomes' = [Welcomes EXCEPT ![l] = "introduced"]
  <2>1. /\ chain'[l] = c /\ Welcomes[l] = Welcomed(l)
        /\ Welcomes' = [Welcomes EXCEPT ![l] = Welcomed(l)']
    BY <1>2, <1>3, WelcomeMoves, Zenon DEF RelayFacts
  <2>2. Welcomed(l) = "enrolled" /\ Welcomed(l)' = "introduced"
    BY <1>1, <2>1, SMT DEF Welcomed
  <2> QED
    BY <2>1, <2>2, Zenon
<1>7. info = Board!Packet("INFO", l, 0)
  BY Zenon DEF Packet, Board!Packet
<1> QED
  BY <1>1, <1>5, <1>6, <1>7, SameLinks, SameMembers, SameDeparted, Zenon
     DEF Board!Introduce, Board!Welcome

\* The end of OnConnected announces the client.
LEMMA AnnounceAnnounces ==
  ASSUME RelayFacts, NEW s \in Sessions, Announce(s)
  PROVE  Board!Announce(s)
<1>1. /\ chain[s] = "announce" /\ SendToLogic(Packet("CONNECTED", s, 0))
      /\ UNCHANGED <<connected, closing, clientSessions, received, targets>>
  BY Zenon DEF Announce, linkVars, managerVars
<1>2. PICK c \in {"receiving", "ended"} : chain' = [chain EXCEPT ![s] = c]
  BY RegisterRecvGoes, Zenon DEF Announce
<1>3. s \in Hosts /\ s \notin Logics
  BY MiddlemanAssumption, Zenon DEF Hosts
<1>4. Board!Hand(Board!Serving, Board!Packet("CONNECTED", s, 0))
  <2>1. Packet("CONNECTED", s, 0) = Board!Packet("CONNECTED", s, 0)
    BY Zenon DEF Packet, Board!Packet
  <2> QED
    BY <1>1, <2>1, SendToLogicHands
<1>5. Welcomes[s] = "introduced" /\ Welcomes' = [Welcomes EXCEPT ![s] = "announced"]
  <2>1. /\ chain'[s] = c /\ Welcomes[s] = Welcomed(s)
        /\ Welcomes' = [Welcomes EXCEPT ![s] = Welcomed(s)']
    BY <1>2, <1>3, WelcomeMoves, Zenon DEF RelayFacts
  <2>2. Welcomed(s) = "introduced"
    BY <1>1, SMT DEF Welcomed
  <2>3. Welcomed(s)' = "announced"
    BY <1>3, <2>1, SMT DEF Welcomed
  <2> QED
    BY <2>1, <2>2, <2>3, Zenon
<1> QED
  BY <1>1, <1>4, <1>5, SameLinks, SameMembers, SameDeparted, Zenon
     DEF Board!Announce, Board!Welcome

\* OnRecvPacket of a client passes its packet on.
LEMMA RelayPasses ==
  ASSUME RelayFacts, NEW s \in Sessions, Relay(s)
  PROVE  Board!Pass(s)
<1> DEFINE data == Packet("DATA", s, received[s] + 1)
<1>1. /\ chain[s] = "relaying" /\ SendToLogic(data)
      /\ received' = [received EXCEPT ![s] = @ + 1]
      /\ UNCHANGED <<connected, closing, clientSessions, targets>>
  BY Zenon DEF Relay, linkVars, managerVars
<1>2. s \in Hosts /\ s \notin Logics
  BY MiddlemanAssumption, Zenon DEF Hosts
<1>3. Welcomed(s) = "announced" /\ Welcomes[s] = "announced"
  <2>1. Welcomed(s) = "announced"
    BY <1>1, <1>2, SMT DEF Welcomed
  <2> QED
    BY <1>2, <2>1, Zenon DEF Welcomes
<1>4. UNCHANGED Welcomes
  <2>1. CASE UNCHANGED chain
    BY <2>1, Zenon DEF Welcomes, Welcomed
  <2>2. CASE RegisterRecv(s)
    <3>1. PICK c \in {"receiving", "ended"} : chain' = [chain EXCEPT ![s] = c]
      BY <2>2, RegisterRecvGoes, Zenon
    <3>2. chain'[s] = c
      BY <1>2, <3>1, SMT DEF RelayFacts, Placed
    <3>3. Welcomed(s)' = Welcomed(s)
      BY <1>2, <1>3, <3>2, SMT DEF Welcomed
    <3> QED
      BY <1>2, <3>1, <3>3, WelcomeStays, Zenon DEF RelayFacts
  <2> QED
    BY <2>1, <2>2, Zenon DEF Relay
<1>5. Board!Hand(Board!Serving, Board!Packet("DATA", s, received[s] + 1))
  <2>1. data = Board!Packet("DATA", s, received[s] + 1)
    BY Zenon DEF Packet, Board!Packet
  <2> QED
    BY <1>1, <2>1, SendToLogicHands
<1> QED
  BY <1>1, <1>3, <1>4, <1>5, SameLinks, SameMembers, SameDeparted, Zenon DEF Board!Pass

\* OnRecvPacket of a logic session publishes its packet to those in the manager.
LEMMA BroadcastPublishes ==
  ASSUME RelayFacts, NEW l \in Logics, Broadcast(l)
  PROVE  Board!Publish(l)
<1>1. /\ chain[l] = "relaying" /\ chain' = [chain EXCEPT ![l] = "broadcasting"]
      /\ received' = [received EXCEPT ![l] = @ + 1]
      /\ targets' = [targets EXCEPT ![l] = Members]
      /\ UNCHANGED <<connected, closing, clientSessions, log>>
  BY Zenon DEF Broadcast, Goto, Members, linkVars, managerVars
<1>2. l \in Hosts /\ chain'[l] = "broadcasting"
  BY <1>1, SMT DEF Hosts, RelayFacts, Placed
<1>3. Welcomed(l) = "introduced" /\ Welcomed(l)' = "introduced"
  BY <1>1, <1>2, SMT DEF Welcomed
<1>4. Welcomes[l] = "introduced" /\ UNCHANGED Welcomes
  <2>1. Welcomes[l] = Welcomed(l)
    BY <1>2, Zenon DEF Welcomes
  <2> QED
    BY <1>1, <1>2, <1>3, <2>1, WelcomeStays, Zenon DEF RelayFacts
<1>5. targets[l] = {}
  BY <1>1, SMT DEF RelayFacts, LineInv, Wired, Idle
<1> QED
  BY <1>1, <1>4, <1>5, SameLinks, SameMembers, SameDeparted, Zenon DEF Board!Publish

\* Each round of Broadcast delivers it to one of them.
LEMMA BroadcastToDelivers ==
  ASSUME RelayFacts, NEW x \in Hosts, NEW s \in Sessions, BroadcastTo(x, s)
  PROVE  x \in Logics /\ Board!Deliver(x, s)
<1>1. /\ chain[x] = "broadcasting" /\ s \in targets[x]
      /\ targets' = [targets EXCEPT ![x] = @ \ {s}]
      /\ Send(s, Packet("DATA", x, received[x]))
      /\ UNCHANGED <<connected, closing, clientSessions, chain, received>>
  BY Zenon DEF BroadcastTo, linkVars, managerVars
<1>2. x \in Logics /\ s \in Hosts
  BY <1>1, BroadcastersAreLogics, Zenon DEF RelayFacts, Hosts
<1>3. Board!Hand({s}, Board!Packet("DATA", x, received[x]))
  <2>1. Packet("DATA", x, received[x]) = Board!Packet("DATA", x, received[x])
    BY Zenon DEF Packet, Board!Packet
  <2> QED
    BY <1>1, <1>2, <2>1, SendHands, Zenon
<1>4. UNCHANGED Welcomes
  BY <1>1, Zenon DEF Welcomes, Welcomed
<1> QED
  BY <1>1, <1>2, <1>3, <1>4, SameLinks, SameMembers, SameDeparted, Zenon DEF Board!Deliver

\* OnDisconnected of a client begins with its departure.
LEMMA NotifyDeparts ==
  ASSUME RelayFacts, NEW s \in Sessions, Notify(s)
  PROVE  Board!Depart(s)
<1>1. /\ closing[s] = "pending" /\ closing' = [closing EXCEPT ![s] = "remove"]
      /\ SendToLogic(Packet("DISCONNECTED", s, 0))
      /\ UNCHANGED <<connected, clientSessions, chain, received, targets>>
  BY Zenon DEF Notify, Close, managerVars
<1>2. s \in Hosts /\ closing'[s] = "remove"
      /\ \A x \in Hosts : x # s => closing'[x] = closing[x]
  BY <1>1, SMT DEF RelayFacts, Placed, Hosts
<1>3. Links[s] = "closed" /\ s \notin Departed
  <2>1. ~connected[s]
    BY <1>1, <1>2, LinkValues, SMT
  <2> QED
    BY <1>1, <1>2, <2>1, SMT DEF Links, Link, Departed
<1>4. Departed' = Departed \cup {s}
  BY <1>1, <1>2, SMT DEF Departed, Hosts
<1>5. UNCHANGED <<Links, Welcomes, Members>>
  <2>1. UNCHANGED Links
    BY <1>1, <1>2, SameLinks, SMT
  <2>2. UNCHANGED Welcomes
    BY <1>1, Zenon DEF Welcomes, Welcomed
  <2> QED
    BY <1>1, <2>1, <2>2, SameMembers, Zenon
<1>6. Board!Hand(Board!Serving, Board!Packet("DISCONNECTED", s, 0))
  <2>1. Packet("DISCONNECTED", s, 0) = Board!Packet("DISCONNECTED", s, 0)
    BY Zenon DEF Packet, Board!Packet
  <2> QED
    BY <1>1, <2>1, SendToLogicHands
<1> QED
  BY <1>1, <1>3, <1>4, <1>5, <1>6, Zenon DEF Board!Depart

\* Remove withdraws the session and no other.
LEMMA RemoveWithdraws ==
  ASSUME RelayFacts, MembersExact', NEW s \in Sessions, Remove(s)
  PROVE  Board!Withdraw(s)
<1>1. /\ closing[s] = "remove" /\ closing' = [closing EXCEPT ![s] = "release"]
      /\ ClientsUnlocked
      /\ UNCHANGED <<connected, chain, received, targets, log>>
  BY Zenon DEF Remove, Close
<1>2. s \in Hosts /\ closing'[s] = "release"
      /\ \A x \in Hosts : x # s => closing'[x] = closing[x]
  BY <1>1, SMT DEF RelayFacts, Placed, Hosts
<1>3. s \in Departed \cap Members
  <2>1. Added(s)
    BY <1>1, SMT DEF RelayFacts, Entered
  <2>2. Listed(s)
    BY <1>1, <2>1, SMT DEF Listed, Added
  <2> QED
    BY <1>1, <2>2, MembersAreListed, Zenon DEF Departed, MembersExact
<1>4. Members' = Members \ {s}
  <2>1. Members = {u \in Sessions : Listed(u)} /\ Members' = {u \in Sessions : Listed(u)'}
    BY MembersAreListed, Zenon DEF MembersExact
  <2>2. ~Listed(s)'
    BY <1>2, SMT DEF Listed
  <2>3. \A u \in Sessions : u # s => (Listed(u)' <=> Listed(u))
    BY <1>1, <1>2, Zenon DEF Listed, Hosts
  <2> QED
    BY <2>1, <2>2, <2>3, Zenon
<1>5. UNCHANGED <<Links, Welcomes, Departed>>
  <2>1. UNCHANGED Links
    BY <1>1, <1>2, SameLinks, SMT
  <2>2. UNCHANGED Welcomes
    BY <1>1, Zenon DEF Welcomes, Welcomed
  <2>3. UNCHANGED Departed
    BY <1>1, <1>2, SameDeparted, Zenon DEF Gone, Hosts
  <2> QED
    BY <2>1, <2>2, <2>3, Zenon
<1> QED
  BY <1>1, <1>3, <1>4, <1>5, UnlockedIsQuiet, Zenon DEF Board!Withdraw

\* Only who has been enrolled is sent to.
LEMMA SentToEnrolled ==
  ASSUME RelayFacts, NEW x \in Hosts, log[x] # <<>>
  PROVE  Welcomes[x] # "new"
<1>1. CASE x \in Sessions
  <2>1. chain[x] \in ClientChain \ {"unused", "created", "add"}
    BY <1>1, Zenon DEF RelayFacts, Entered, Added, Placed
  <2>2. Welcomed(x) # "new"
    BY <2>1, SMT DEF Welcomed, ClientChain
  <2> QED
    BY <2>2, Zenon DEF Welcomes
<1>2. CASE x \in Logics
  BY <1>2, SetIsEnrolled, Zenon DEF RelayFacts, LineInv, Turn
<1> QED
  BY <1>1, <1>2, Zenon DEF Hosts

\* Every step of the relay is one of the switchboard's, or none.
LEMMA StepImplements ==
  ASSUME RelayFacts, MembersExact', [Next]_vars
  PROVE  Implemented
<1> USE DEF Implemented, Board!Next, Board!Hosts
<1>0. Placed /\ Sessions \subseteq Hosts /\ Logics \subseteq Hosts /\ Hosts = Sessions \cup Logics
  BY Zenon DEF RelayFacts, Hosts
<1>1. CASE Start
  BY <1>1, Zenon DEF Start, BoardSame, Links, Link, Welcomes, Welcomed, Members, Departed,
     linkVars
<1>2. ASSUME NEW l \in Logics, AcceptLogic(l) PROVE Implemented
  <2>1. Board!Join(l)
    BY <1>0, <1>2, JoinStep, Zenon DEF AcceptLogic, managerVars
  <2> QED
    BY <1>0, <2>1, Zenon
<1>3. ASSUME NEW l \in Logics, Set(l) PROVE Implemented
  BY <1>3, SetEnrolls, Zenon
<1>4. ASSUME NEW l \in Logics, SetConnectedTo(l) PROVE Implemented
  <2>1. /\ chain[l] = "flag" /\ chain' = [chain EXCEPT ![l] = "info"]
        /\ UNCHANGED <<connected, closing, clientSessions, received, targets, log>>
    BY <1>4, Zenon DEF SetConnectedTo, Goto, linkVars
  <2>2. chain'[l] = "info"
    BY <1>0, <2>1, SMT DEF Placed
  <2>3. Welcomed(l)' = Welcomed(l)
    BY <2>1, <2>2, SMT DEF Welcomed
  <2> QED
    BY <1>0, <2>1, <2>3, ChainStutters, Zenon
<1>5. ASSUME NEW l \in Logics, SendLogicInfo(l) PROVE Implemented
  <2>1. Board!Introduce(l)
    BY <1>5, SendLogicInfoIntroduces
  <2> QED
    BY <1>0, <2>1, Zenon
<1>6. ASSUME NEW s \in Sessions, Accept(s) PROVE Implemented
  <2>1. /\ chain[s] = "unused" /\ chain' = [chain EXCEPT ![s] = "created"]
        /\ UNCHANGED <<connected, closing, clientSessions, received, targets, log>>
    BY <1>6, Zenon DEF Accept, Goto, linkVars, managerVars
  <2>2. chain'[s] = "created"
    BY <1>0, <2>1, SMT DEF Placed
  <2>3. Welcomed(s)' = Welcomed(s)
    BY <2>1, <2>2, SMT DEF Welcomed
  <2> QED
    BY <1>0, <2>1, <2>3, ChainStutters, Zenon
<1>7. ASSUME NEW s \in Sessions, ProcessConnect(s) PROVE Implemented
  <2>1. Board!Join(s)
    BY <1>0, <1>7, JoinStep, Zenon DEF ProcessConnect, managerVars
  <2> QED
    BY <1>0, <2>1, Zenon
<1>8. ASSUME NEW s \in Sessions, Add(s) PROVE Implemented
  BY <1>8, AddEnrolls, Zenon
<1>9. ASSUME NEW s \in Sessions, SendInfo(s) PROVE Implemented
  <2>1. Board!Introduce(s)
    BY <1>9, SendInfoIntroduces
  <2> QED
    BY <1>0, <2>1, Zenon
<1>10. ASSUME NEW s \in Sessions, Announce(s) PROVE Implemented
  BY <1>10, AnnounceAnnounces, Zenon
<1>11. ASSUME NEW x \in Hosts, Receive(x) PROVE Implemented
  <2>1. /\ chain[x] = "receiving" /\ chain' = [chain EXCEPT ![x] = "relaying"]
        /\ UNCHANGED <<connected, closing, clientSessions, received, targets, log>>
    BY <1>11, Zenon DEF Receive, Goto, linkVars, managerVars
  <2>2. chain'[x] = "relaying"
    BY <2>1, SMT DEF RelayFacts, Placed
  <2>3. Welcomed(x)' = Welcomed(x)
    BY <2>1, <2>2, SMT DEF Welcomed
  <2> QED
    BY <2>1, <2>3, ChainStutters, Zenon
<1>12. ASSUME NEW x \in Hosts, ReceiveZero(x) PROVE Implemented
  <2>1. /\ chain[x] = "receiving" /\ chain' = [chain EXCEPT ![x] = "ended"]
        /\ Disconnect(x)
        /\ UNCHANGED <<clientSessions, received, targets, log>>
    BY <1>12, Zenon DEF ReceiveZero, Goto, managerVars
  <2>2. chain'[x] = "ended"
    BY <2>1, SMT DEF RelayFacts, Placed
  <2>3. Welcomed(x)' = Welcomed(x) /\ Welcomed(x) # "new"
    BY <2>1, <2>2, SMT DEF Welcomed
  <2>4. UNCHANGED Welcomes /\ Welcomes[x] # "new"
    BY <1>0, <2>1, <2>3, WelcomeStays, Zenon DEF Welcomes
  <2> QED
    BY <2>1, <2>4, LeaveStep, Zenon
<1>13. ASSUME NEW s \in Sessions, Relay(s) PROVE Implemented
  BY <1>13, RelayPasses, Zenon
<1>14. ASSUME NEW l \in Logics, Broadcast(l) PROVE Implemented
  BY <1>14, BroadcastPublishes, Zenon
<1>15. ASSUME NEW x \in Hosts, NEW s \in Sessions, BroadcastTo(x, s) PROVE Implemented
  BY <1>15, BroadcastToDelivers, Zenon
<1>16. ASSUME NEW x \in Hosts, BroadcastEnd(x) PROVE Implemented
  <2>1. /\ chain[x] = "broadcasting"
        /\ UNCHANGED <<connected, closing, clientSessions, received, targets, log>>
    BY <1>16, Zenon DEF BroadcastEnd, linkVars, managerVars
  <2>2. PICK c \in {"receiving", "relaying", "ended"} : chain' = [chain EXCEPT ![x] = c]
    BY <1>16, RegisterRecvGoes, Zenon DEF BroadcastEnd
  <2>3. chain'[x] = c /\ x \in Logics
    BY <2>1, <2>2, BroadcastersAreLogics, SMT DEF RelayFacts, Placed
  <2>4. Welcomed(x)' = Welcomed(x)
    BY <2>1, <2>3, SMT DEF Welcomed
  <2> QED
    BY <2>1, <2>2, <2>4, ChainStutters, Zenon
<1>17. ASSUME NEW x \in Hosts, SendFails(x) PROVE Implemented
  <2>1. /\ log[x] # <<>> /\ Disconnect(x)
        /\ UNCHANGED <<clientSessions, chain, received, targets, log>>
    BY <1>17, Zenon DEF SendFails, managerVars
  <2>2. UNCHANGED Welcomes
    BY <2>1, Zenon DEF Welcomes, Welcomed
  <2> QED
    BY <2>1, <2>2, SentToEnrolled, LeaveStep, Zenon
<1>18. ASSUME NEW s \in Sessions, Notify(s) PROVE Implemented
  BY <1>18, NotifyDeparts, Zenon
<1>19. ASSUME NEW s \in Sessions, Remove(s) PROVE Implemented
  BY <1>19, RemoveWithdraws, Zenon
<1>20. ASSUME NEW s \in Sessions, Release(s) PROVE Implemented
  <2>1. /\ closing[s] = "release" /\ closing' = [closing EXCEPT ![s] = "released"]
        /\ UNCHANGED <<connected, chain, clientSessions, received, targets, log>>
    BY <1>20, Zenon DEF Release, Close, managerVars
  <2>2. /\ closing[s] # "open" /\ "released" # "open"
        /\ "released" \in Gone <=> closing[s] \in Gone
    BY <2>1, SMT DEF Gone
  <2> QED
    BY <1>0, <2>1, <2>2, ClosingStutters, SameMembers, Zenon
<1>21. ASSUME NEW l \in Logics, RemoveLogic(l) PROVE Implemented
  <2>1. /\ closing[l] = "pending" /\ closing' = [closing EXCEPT ![l] = "release"]
        /\ UNCHANGED <<connected, chain, clientSessions, received, targets, log>>
    BY <1>21, Zenon DEF RemoveLogic, Close
  <2>2. l \notin Sessions /\ closing[l] # "open" /\ "release" # "open"
    BY <2>1, MiddlemanAssumption, SMT
  <2> QED
    BY <1>0, <2>1, <2>2, ClosingStutters, SameMembers, Zenon
<1>22. ASSUME NEW l \in Logics, ReleaseLogic(l) PROVE Implemented
  <2>1. /\ closing[l] = "release" /\ closing' = [closing EXCEPT ![l] = "released"]
        /\ UNCHANGED <<connected, chain, clientSessions, received, targets, log>>
    BY <1>22, Zenon DEF ReleaseLogic, Close, managerVars
  <2>2. l \notin Sessions /\ closing[l] # "open" /\ "released" # "open"
    BY <2>1, MiddlemanAssumption, SMT
  <2> QED
    BY <1>0, <2>1, <2>2, ClosingStutters, SameMembers, Zenon
<1>23. CASE UNCHANGED vars
  BY <1>23, Zenon DEF vars, BoardSame, Links, Link, Welcomes, Welcomed, Members, Departed,
     linkVars, managerVars
<1> QED
  BY <1>1, <1>2, <1>3, <1>4, <1>5, <1>6, <1>7, <1>8, <1>9, <1>10, <1>11, <1>12, <1>13,
     <1>14, <1>15, <1>16, <1>17, <1>18, <1>19, <1>20, <1>21, <1>22, <1>23, NextCases, Zenon

\* Nobody is connected at first.
LEMMA BoardInit == Init => Board!Init /\ BoardInv /\ HeirInv
<1> SUFFICES ASSUME Init PROVE Board!Init /\ BoardInv /\ HeirInv
  OBVIOUS
<1>1. BoardInv /\ HeirInv
  BY SMT DEF Init, BoardInv, Linked, Installed, Lone, HeirInv, OneEnters, IdHeir, Entering,
     Hosts
<1>2. Links = [x \in Hosts |-> "none"]
  BY SMT DEF Init, Links, Link
<1>3. Welcomes = [x \in Hosts |-> "new"]
  BY SMT DEF Init, Welcomes, Welcomed
<1>4. Members = {} /\ Departed = {}
  BY SMT DEF Init, Members, Departed, Hosts
<1>5. /\ received = [x \in Hosts |-> 0]
      /\ targets = [l \in Logics |-> {}]
      /\ log = [x \in Hosts |-> <<>>]
  BY Zenon DEF Init
<1> QED
  BY <1>1, <1>2, <1>3, <1>4, <1>5, Zenon DEF Board!Init, Board!Hosts, Hosts

(***************************************************************************)
(* The managers, the pool of ids, the lock and the workers together do     *)
(* what the switchboard does: what a host sends reaches exactly those it   *)
(* is meant for, once, as long as they are connected, and nobody is told   *)
(* anything else.                                                          *)
(***************************************************************************)
THEOREM RelayImplementsSwitchboard == Spec => ImplementsSwitchboard
<1>1. /\ Placed /\ Data /\ Flags /\ Logs /\ ThereInv /\ IdInv
      /\ HeirInv /\ [Next]_vars
      => HeirInv'
  BY HeirNext
<1>2. /\ Placed /\ Data /\ Flags /\ Logs /\ ThereInv /\ IdInv
      /\ Entered /\ ManagerExact /\ HeirInv /\ LineInv /\ BoardInv
      <=> RelayFacts
  BY Zenon DEF RelayFacts
<1>3. Spec => []RelayFacts
  BY <1>1, <1>2, IdInvariant, ManagerInit, EnteredNext, ManagerNext, LineInit, LineNext,
     BoardInit, BoardNext, PTL DEF Spec
<1>4. RelayFacts /\ MembersExact' /\ [Next]_vars => [Board!Next]_(Board!vars)
  BY StepImplements, Zenon DEF Implemented, BoardSame, Board!vars
<1> QED
  BY <1>3, <1>4, MembersAreListed, BoardInit,
     PTL DEF Spec, ImplementsSwitchboard, Board!Spec

-----------------------------------------------------------------------------
(***************************************************************************)
(* From one host to another.  In a log the numbers of a host's packets     *)
(* ascend, and are at most the number of packets sent (Ascends); a         *)
(* channel keeps the order of what it accepts (ChannelInv).                *)
(***************************************************************************)
UpTo(q, y, n) == \A i \in 1 .. Len(q) : IsData(q[i], y) => q[i].number <= n

Ascends ==
  \A x, y \in Hosts : Ascending(log[x], y) /\ UpTo(log[x], y, Sent(x, y))

\* What a step does to the log of x, as far as packets of y go.
Goes(x, y) ==
  /\ Sent(x, y) \in Int /\ Sent(x, y)' \in Int /\ Sent(x, y) <= Sent(x, y)'
  /\ \/ log'[x] = log[x]
     \/ \E p \in Packets :
          /\ log'[x] = Append(log[x], p)
          /\ IsData(p, y) => Sent(x, y) < p.number /\ p.number <= Sent(x, y)'

\* The next packet of a host has the greatest number.
LEMMA AppendAscends ==
  ASSUME NEW q \in Seq(Packets), NEW p \in Packets, NEW y, NEW m \in Int, NEW n \in Int,
         Ascending(q, y), UpTo(q, y, m), m <= n,
         IsData(p, y) => m < p.number /\ p.number <= n
  PROVE  Ascending(Append(q, p), y) /\ UpTo(Append(q, p), y, n)
<1> DEFINE r == Append(q, p)
<1>1. /\ Len(r) = Len(q) + 1 /\ Len(q) \in Nat
      /\ r[Len(q) + 1] = p
      /\ \A i \in 1 .. Len(q) : r[i] = q[i] /\ q[i] \in Packets
  BY SMT
<1> HIDE DEF r
<1>2. \A i \in 1 .. Len(q) : q[i].number \in Int
  BY <1>1, SMT DEF Packets
<1>3. p.number \in Int
  BY SMT DEF Packets
<1>4. ASSUME NEW i \in 1 .. Len(r), NEW k \in 1 .. Len(r), i < k,
             IsData(r[i], y), IsData(r[k], y)
      PROVE  r[i].number < r[k].number
  <2>1. i \in 1 .. Len(q) /\ r[i] = q[i] /\ IsData(q[i], y)
    <3>1. i \in 1 .. Len(q)
      BY <1>1, <1>4, SMT
    <3> QED
      BY <1>1, <1>4, <3>1, Zenon
  <2>2. CASE k \in 1 .. Len(q)
    BY <1>1, <1>4, <2>1, <2>2, Zenon DEF Ascending
  <2>3. CASE k = Len(q) + 1
    <3>1. q[i].number <= m /\ m < p.number
      BY <1>1, <1>4, <2>1, <2>3, Zenon DEF UpTo
    <3>2. q[i].number < p.number
      BY <1>2, <1>3, <2>1, <3>1, SMT
    <3> QED
      BY <1>1, <2>1, <2>3, <3>2, Zenon
  <2> QED
    BY <1>1, <2>2, <2>3, SMT
<1>5. ASSUME NEW i \in 1 .. Len(r), IsData(r[i], y) PROVE r[i].number <= n
  <2>1. CASE i \in 1 .. Len(q)
    <3>1. q[i].number <= m /\ r[i] = q[i]
      BY <1>1, <1>5, <2>1, Zenon DEF UpTo
    <3> QED
      BY <1>2, <2>1, <3>1, SMT
  <2>2. CASE i = Len(q) + 1
    BY <1>1, <1>5, <2>2, Zenon
  <2> QED
    BY <1>1, <2>1, <2>2, SMT
<1> QED
  BY <1>4, <1>5, Zenon DEF Ascending, UpTo, r

\* No step sends a packet behind one that was sent later.
LEMMA GoesNext ==
  ASSUME Placed, Data, Flags, Logs, Wired, Relays, NEW x \in Hosts, NEW y \in Hosts
  PROVE  Goes(x, y)
<1>0. /\ \A z \in Hosts : received[z] \in Nat
      /\ Sent(x, y) \in Int
  BY SMT DEF Logs, Sent
<1>1. CASE NoDataSent
  <2>1. Sent(x, y)' = Sent(x, y)
    BY <1>1, Zenon DEF NoDataSent, Sent
  <2>2. Sent(x, y) <= Sent(x, y)'
    BY <1>0, <2>1, SMT
  <2> QED
    BY <1>0, <1>1, <2>1, <2>2, Zenon DEF NoDataSent, Goes, IsData
<1>2. ASSUME NEW s \in Sessions, Relay(s) PROVE Goes(x, y)
  <2> DEFINE p == Packet("DATA", s, received[s] + 1)
  <2>1. /\ p \in Packets /\ p.number = received[s] + 1
        /\ IsData(p, y) <=> y = s
    <3>1. p \in Packets
      BY PacketType, <1>0, SMT DEF Hosts
    <3> QED
      BY <3>1, SMT DEF Packet, IsData
  <2>2. /\ received' = [received EXCEPT ![s] = @ + 1] /\ SendToLogic(p)
        /\ UNCHANGED <<connected, targets>>
    BY <1>2, Zenon DEF Relay, linkVars
  <2> HIDE DEF p
  <2>3. log'[x] = log[x] \/ log'[x] = Append(log[x], p)
    BY <2>2, SMT DEF SendToLogic, Send, Logs, Data, Hosts
  <2>4. /\ y # s => Sent(x, y)' = Sent(x, y)
        /\ y = s => Sent(x, y) = received[s] /\ Sent(x, y)' = received[s] + 1
    BY <2>2, MiddlemanAssumption, SMT DEF Sent, Logs, Hosts
  <2>5. /\ Sent(x, y)' \in Int /\ Sent(x, y) <= Sent(x, y)'
        /\ IsData(p, y) => Sent(x, y) < p.number /\ p.number <= Sent(x, y)'
    <3>1. s \in Hosts
      BY Zenon DEF Hosts
    <3> QED
      BY <1>0, <2>1, <2>4, <3>1, SMT
  <2> QED
    BY <1>0, <2>1, <2>3, <2>5, Zenon DEF Goes
<1>3. ASSUME NEW l \in Logics, Broadcast(l) PROVE Goes(x, y)
  <2>1. /\ chain[l] = "relaying" /\ received' = [received EXCEPT ![l] = @ + 1]
        /\ targets' = [targets EXCEPT ![l] = {clientSessions[id] : id \in Ids} \ {NoSession}]
        /\ log' = log
    BY <1>3, Zenon DEF Broadcast, Goto
  <2>2. targets[l] = {}
    BY <2>1, SMT DEF Wired, Idle
  <2>3. Sent(x, y)' \in Int /\ Sent(x, y) <= Sent(x, y)'
    <3>1. y # l => Sent(x, y)' = Sent(x, y)
      BY <2>1, SMT DEF Sent, Logs
    <3>2. y = l => Sent(x, y) = received[y]
      BY <2>2, Zenon DEF Sent
    <3>3. y = l => received'[y] = received[y] + 1
      BY <2>1, SMT DEF Logs
    <3>4. Sent(x, y)' = received'[y] - 1 \/ Sent(x, y)' = received'[y]
      BY Zenon DEF Sent
    <3> QED
      BY <1>0, <3>1, <3>2, <3>3, <3>4, SMT
  <2> QED
    BY <1>0, <2>1, <2>3, Zenon DEF Goes
<1>4. ASSUME NEW l \in Logics, NEW s \in Sessions, BroadcastTo(l, s) PROVE Goes(x, y)
  <2> DEFINE p == Packet("DATA", l, received[l])
  <2>1. /\ p \in Packets /\ p.number = received[l]
        /\ IsData(p, y) <=> y = l
    <3>1. p \in Packets
      BY PacketType, <1>0, SMT DEF Hosts
    <3> QED
      BY <3>1, SMT DEF Packet, IsData
  <2>2. /\ targets' = [targets EXCEPT ![l] = @ \ {s}] /\ s \in targets[l] /\ Send(s, p)
        /\ UNCHANGED <<connected, received>>
    BY <1>4, Zenon DEF BroadcastTo, linkVars
  <2> HIDE DEF p
  <2>3. log'[x] = log[x] \/ (x = s /\ log'[x] = Append(log[x], p))
    BY <2>2, SMT DEF Send, Logs, Hosts
  <2>4. /\ y # l \/ x # s => Sent(x, y)' = Sent(x, y)
        /\ y = l /\ x = s => Sent(x, y) = received[l] - 1 /\ Sent(x, y)' = received[l]
    BY <2>2, SMT DEF Sent, Logs
  <2>5. /\ Sent(x, y)' \in Int /\ Sent(x, y) <= Sent(x, y)'
        /\ IsData(p, y) /\ x = s => Sent(x, y) < p.number /\ p.number <= Sent(x, y)'
    <3>1. l \in Hosts
      BY Zenon DEF Hosts
    <3> QED
      BY <1>0, <2>1, <2>4, <3>1, SMT
  <2> QED
    BY <1>0, <2>1, <2>3, <2>5, Zenon DEF Goes
<1> QED
  BY <1>1, <1>2, <1>3, <1>4, Zenon DEF Relays

\* Nothing has been sent at first.
LEMMA AscendsInit == Init => Ascends
<1> SUFFICES ASSUME Init, NEW x \in Hosts PROVE log[x] = <<>>
  BY EmptyNoData, Zenon DEF Ascends, Ascending, UpTo, NoData
<1> QED
  BY SMT DEF Init

\* Every step keeps the order of the numbers.
LEMMA AscendsNext ==
  Placed /\ Data /\ Flags /\ Logs /\ LineInv /\ Ascends /\ [Next]_vars => Ascends'
<1> SUFFICES ASSUME Placed, Data, Flags, Logs, LineInv, Ascends, [Next]_vars,
                    NEW x \in Hosts, NEW y \in Hosts
             PROVE  (Ascending(log[x], y) /\ UpTo(log[x], y, Sent(x, y)))'
  BY Zenon DEF Ascends
<1>1. Goes(x, y)
  BY RelaysNext, GoesNext, Zenon DEF LineInv
<1>2. /\ log[x] \in Seq(Packets) /\ Ascending(log[x], y)
      /\ UpTo(log[x], y, Sent(x, y))
  BY Zenon DEF Logs, Ascends
<1>3. PICK q : q = log'[x]
  BY Zenon
<1>4. PICK m \in Int, n \in Int : m = Sent(x, y) /\ n = Sent(x, y)'
  BY <1>1, Zenon DEF Goes
<1>5. CASE q = log[x]
  <2>1. \A i \in 1 .. Len(q) : q[i].number \in Int
    <3>1. q \in Seq(Packets)
      BY <1>2, <1>5, Zenon
    <3>2. \A i \in 1 .. Len(q) : q[i] \in Packets
      BY <3>1, SMT
    <3> QED
      BY <3>2, SMT DEF Packets
  <2>2. m <= n /\ UpTo(q, y, m)
    BY <1>1, <1>2, <1>4, <1>5, Zenon DEF Goes
  <2>3. UpTo(q, y, n)
    BY <2>1, <2>2, SMT DEF UpTo
  <2> QED
    BY <1>2, <1>3, <1>4, <1>5, <2>3, Zenon DEF Ascending, UpTo
<1>6. ASSUME NEW p \in Packets, q = Append(log[x], p),
             IsData(p, y) => m < p.number /\ p.number <= n
      PROVE  (Ascending(log[x], y) /\ UpTo(log[x], y, Sent(x, y)))'
  <2>1. m <= n /\ UpTo(log[x], y, m)
    BY <1>1, <1>2, <1>4, Zenon DEF Goes
  <2>2. Ascending(q, y) /\ UpTo(q, y, n)
    BY <1>2, <1>6, <2>1, AppendAscends, Zenon
  <2> QED
    BY <1>3, <1>4, <2>2, Zenon DEF Ascending, UpTo
<1> QED
  BY <1>1, <1>3, <1>4, <1>5, <1>6, Zenon DEF Goes

\* The i-th of the buffers that have left or wait.
Buffer(i) == IF i <= Len(left) THEN left[i] ELSE waiting[i - Len(left)]
Buffers == Len(left) + Len(waiting)

ChannelTypes ==
  /\ accepted \in Nat /\ faulty \in BOOLEAN
  /\ left \in Seq(Nat) /\ waiting \in Seq(Nat)

ChannelOrder ==
  /\ \A i \in 1 .. Buffers : 1 <= Buffer(i) /\ Buffer(i) <= accepted
  /\ \A i, k \in 1 .. Buffers : i < k => Buffer(i) < Buffer(k)
  /\ ~faulty => Buffers = accepted /\ \A i \in 1 .. Buffers : Buffer(i) = i

ChannelInv == ChannelTypes /\ ChannelOrder

\* The channel is empty at first.
LEMMA ChannelInit == Wire!Init => ChannelInv
<1> SUFFICES ASSUME Wire!Init PROVE ChannelInv
  OBVIOUS
<1>1. accepted = 0 /\ waiting = <<>> /\ left = <<>> /\ faulty = FALSE
  BY Zenon DEF Wire!Init
<1>2. ChannelTypes
  <2>1. 0 \in Nat /\ <<>> \in Seq(Nat)
    BY SMT
  <2> QED
    BY <1>1, <2>1, Zenon DEF ChannelTypes
<1>3. Buffers = 0
  BY <1>1, SMT DEF Buffers
<1>4. ChannelOrder
  BY <1>1, <1>3, SMT DEF ChannelOrder
<1> QED
  BY <1>2, <1>4, Zenon DEF ChannelInv

\* A sequence is cut into what comes first and the rest.
LEMMA CutApart ==
  ASSUME NEW q \in Seq(Nat), NEW k \in 0 .. Len(q)
  PROVE  /\ SubSeq(q, 1, k) \in Seq(Nat) /\ Len(SubSeq(q, 1, k)) = k
         /\ \A i \in 1 .. k : SubSeq(q, 1, k)[i] = q[i]
         /\ SubSeq(q, k + 1, Len(q)) \in Seq(Nat)
         /\ Len(SubSeq(q, k + 1, Len(q))) = Len(q) - k
         /\ \A i \in 1 .. Len(q) - k : SubSeq(q, k + 1, Len(q))[i] = q[k + i]
BY SMT

\* The n-th packet accepted is the last in the channel.
LEMMA ChannelAccept == ChannelInv /\ Wire!Accept => ChannelInv'
<1> SUFFICES ASSUME ChannelTypes, ChannelOrder, Wire!Accept
             PROVE  (ChannelTypes /\ ChannelOrder)'
  BY Zenon DEF ChannelInv
<1>1. /\ accepted' = accepted + 1 /\ left' = left /\ faulty' = faulty
      /\ waiting' = Append(waiting, accepted + 1)
  BY Zenon DEF Wire!Accept
<1>2. /\ Len(left) \in Nat /\ Len(waiting) \in Nat /\ accepted \in Nat
      /\ waiting \in Seq(Nat) /\ left \in Seq(Nat)
  BY SMT DEF ChannelTypes
<1>3. /\ waiting' \in Seq(Nat) /\ Len(waiting') = Len(waiting) + 1
      /\ waiting'[Len(waiting) + 1] = accepted + 1
      /\ \A i \in 1 .. Len(waiting) : waiting'[i] = waiting[i]
  BY <1>1, <1>2, SMT
<1>4. PICK b \in Nat : b = Buffers /\ Buffers' = b + 1
  BY <1>1, <1>2, <1>3, SMT DEF Buffers
<1>5. Buffer(b + 1)' = accepted + 1
  <2>1. /\ ~(b + 1 <= Len(left)) /\ Len(left') = Len(left)
        /\ (b + 1) - Len(left) = Len(waiting) + 1
    BY <1>1, <1>2, <1>4, SMT DEF Buffers
  <2> QED
    BY <1>3, <2>1, Zenon DEF Buffer
<1>6. \A i \in 1 .. b : Buffer(i)' = Buffer(i) /\ Buffer(i) \in Nat
  <2> SUFFICES ASSUME NEW i \in 1 .. b PROVE Buffer(i)' = Buffer(i) /\ Buffer(i) \in Nat
    OBVIOUS
  <2>1. CASE i <= Len(left)
    BY <1>1, <1>2, <2>1, SMT DEF Buffer
  <2>2. CASE i > Len(left)
    <3>1. i - Len(left) \in 1 .. Len(waiting) /\ ~(i <= Len(left))
      BY <1>2, <1>4, <2>2, SMT DEF Buffers
    <3>2. waiting'[i - Len(left)] = waiting[i - Len(left)]
      BY <1>3, <3>1, Zenon
    <3>3. waiting[i - Len(left)] \in Nat
      BY <1>2, <3>1, SMT
    <3> QED
      BY <1>1, <3>1, <3>2, <3>3, Zenon DEF Buffer
  <2> QED
    BY <1>2, <2>1, <2>2, SMT
<1>7. \A i \in 1 .. b + 1 : i \in 1 .. b \/ i = b + 1
  BY SMT
<1>8. ChannelTypes'
  <2>1. accepted + 1 \in Nat
    BY <1>2, SMT
  <2> QED
    BY <1>1, <1>3, <2>1, Zenon DEF ChannelTypes
<1>9. \A i \in 1 .. b + 1 : 1 <= Buffer(i)' /\ Buffer(i)' <= accepted'
  <2> SUFFICES ASSUME NEW i \in 1 .. b + 1 PROVE 1 <= Buffer(i)' /\ Buffer(i)' <= accepted'
    OBVIOUS
  <2>1. CASE i \in 1 .. b
    <3>1. 1 <= Buffer(i) /\ Buffer(i) <= accepted
      BY <1>4, <2>1, Zenon DEF ChannelOrder
    <3> QED
      BY <1>1, <1>2, <1>6, <2>1, <3>1, SMT
  <2>2. CASE i = b + 1
    BY <1>1, <1>2, <1>5, <2>2, SMT
  <2> QED
    BY <1>7, <2>1, <2>2, Zenon
<1>10. \A i, k \in 1 .. b + 1 : i < k => Buffer(i)' < Buffer(k)'
  <2> SUFFICES ASSUME NEW i \in 1 .. b + 1, NEW k \in 1 .. b + 1, i < k
               PROVE  Buffer(i)' < Buffer(k)'
    OBVIOUS
  <2>1. i \in 1 .. b
    BY SMT
  <2>2. CASE k \in 1 .. b
    <3>1. Buffer(i) < Buffer(k)
      BY <1>4, <2>1, <2>2, Zenon DEF ChannelOrder
    <3> QED
      BY <1>6, <2>1, <2>2, <3>1, Zenon
  <2>3. CASE k = b + 1
    <3>1. Buffer(i) <= accepted /\ Buffer(i) \in Nat
      BY <1>4, <1>6, <2>1, Zenon DEF ChannelOrder
    <3>2. Buffer(i) < accepted + 1
      BY <1>2, <3>1, SMT
    <3> QED
      BY <1>5, <1>6, <2>1, <2>3, <3>2, Zenon
  <2> QED
    BY <1>7, <2>2, <2>3, Zenon
<1>11. ~faulty => b + 1 = accepted + 1 /\ \A i \in 1 .. b + 1 : Buffer(i)' = i
  <2> SUFFICES ASSUME ~faulty
               PROVE  b = accepted /\ \A i \in 1 .. b + 1 : Buffer(i)' = i
    BY <1>2, SMT
  <2>1. b = accepted /\ \A i \in 1 .. b : Buffer(i) = i
    BY <1>4, Zenon DEF ChannelOrder
  <2> QED
    BY <1>5, <1>6, <1>7, <2>1, Zenon
<1> QED
  BY <1>1, <1>4, <1>8, <1>9, <1>10, <1>11, Zenon DEF ChannelOrder

\* What has waited longest leaves first.
LEMMA ChannelDeliver == ChannelInv /\ Wire!Deliver => ChannelInv'
<1> SUFFICES ASSUME ChannelTypes, ChannelOrder, Wire!Deliver
             PROVE  (ChannelTypes /\ ChannelOrder)'
  BY Zenon DEF ChannelInv
<1>1. PICK k \in 0 .. Len(waiting) :
        /\ left' = left \o SubSeq(waiting, 1, k)
        /\ waiting' = SubSeq(waiting, k + 1, Len(waiting))
        /\ accepted' = accepted /\ faulty' = faulty
  BY Zenon DEF Wire!Deliver
<1>2. /\ Len(left) \in Nat /\ Len(waiting) \in Nat
      /\ waiting \in Seq(Nat) /\ left \in Seq(Nat)
  BY SMT DEF ChannelTypes
<1>3. PICK q \in Seq(Nat) :
        /\ q = SubSeq(waiting, 1, k) /\ Len(q) = k /\ \A i \in 1 .. k : q[i] = waiting[i]
  BY <1>2, CutApart, Zenon
<1>4. /\ waiting' \in Seq(Nat) /\ Len(waiting') = Len(waiting) - k
      /\ \A i \in 1 .. Len(waiting) - k : waiting'[i] = waiting[k + i]
  BY <1>1, <1>2, CutApart, Zenon
<1>5. left' = left \o q
  BY <1>1, <1>3, Zenon
<1>6. /\ left' \in Seq(Nat) /\ Len(left') = Len(left) + k
      /\ \A i \in 1 .. Len(left) + k :
           left'[i] = IF i <= Len(left) THEN left[i] ELSE q[i - Len(left)]
  BY <1>2, <1>3, <1>5, SMT
<1>7. Buffers' = Buffers
  BY <1>2, <1>4, <1>6, SMT DEF Buffers
<1>8. ASSUME NEW i \in 1 .. Buffers PROVE Buffer(i)' = Buffer(i)
  <2>1. CASE i <= Len(left)
    BY <1>2, <1>6, <2>1, SMT DEF Buffer
  <2>2. CASE i > Len(left) /\ i <= Len(left) + k
    <3>1. i - Len(left) \in 1 .. k
      BY <1>2, <2>2, SMT
    <3>2. left'[i] = q[i - Len(left)]
      BY <1>2, <1>6, <2>2, SMT
    <3>3. q[i - Len(left)] = waiting[i - Len(left)]
      BY <1>3, <3>1, Zenon
    <3> QED
      BY <1>2, <1>6, <2>2, <3>2, <3>3, SMT DEF Buffer
  <2>3. CASE i > Len(left) + k
    <3>1. /\ i - Len(left') \in 1 .. Len(waiting) - k
          /\ k + (i - Len(left')) = i - Len(left)
      BY <1>2, <1>6, <2>3, SMT DEF Buffers
    <3>2. waiting'[i - Len(left')] = waiting[i - Len(left)]
      BY <1>4, <3>1, Zenon
    <3> QED
      BY <1>2, <1>6, <2>3, <3>2, SMT DEF Buffer
  <2> QED
    BY <1>2, <2>1, <2>2, <2>3, SMT
<1>9. ChannelTypes'
  BY <1>1, <1>4, <1>6, Zenon DEF ChannelTypes
<1> QED
  BY <1>1, <1>7, <1>8, <1>9, Zenon DEF ChannelOrder

\* What is lost leaves the others in order.
LEMMA ChannelLose == ChannelInv /\ Wire!Lose => ChannelInv'
<1> SUFFICES ASSUME ChannelTypes, ChannelOrder, Wire!Lose
             PROVE  (ChannelTypes /\ ChannelOrder)'
  BY Zenon DEF ChannelInv
<1>1. PICK k \in 0 .. Len(waiting) :
        /\ faulty /\ waiting' = SubSeq(waiting, k + 1, Len(waiting))
        /\ accepted' = accepted /\ left' = left /\ faulty' = faulty
  BY Zenon DEF Wire!Lose
<1>2. /\ Len(left) \in Nat /\ Len(waiting) \in Nat
      /\ waiting \in Seq(Nat) /\ left \in Seq(Nat)
  BY SMT DEF ChannelTypes
<1>3. /\ waiting' \in Seq(Nat) /\ Len(waiting') = Len(waiting) - k
      /\ \A i \in 1 .. Len(waiting) - k : waiting'[i] = waiting[k + i]
  BY <1>1, <1>2, CutApart, Zenon
<1> DEFINE old(i) == IF i <= Len(left) THEN i ELSE i + k
<1>4. Buffers' = Buffers - k /\ Buffers \in Nat
  <2>1. Buffers' = Len(left) + (Len(waiting) - k)
    BY <1>1, <1>3, Zenon DEF Buffers
  <2> QED
    BY <1>2, <2>1, SMT DEF Buffers
<1>5. ASSUME NEW i \in 1 .. Buffers'
      PROVE  old(i) \in 1 .. Buffers /\ Buffer(i)' = Buffer(old(i))
  <2>1. CASE i <= Len(left)
    BY <1>1, <1>2, <1>3, <1>4, <2>1, SMT DEF Buffer, Buffers
  <2>2. CASE i > Len(left)
    <3>1. /\ i - Len(left) \in 1 .. Len(waiting) - k
          /\ k + (i - Len(left)) = (i + k) - Len(left)
          /\ i + k \in 1 .. Buffers /\ i + k > Len(left)
      BY <1>1, <1>2, <1>3, <1>4, <2>2, SMT DEF Buffers
    <3>2. waiting'[i - Len(left)] = waiting[(i + k) - Len(left)]
      BY <1>3, <3>1, Zenon
    <3> QED
      BY <1>1, <1>2, <2>2, <3>1, <3>2, SMT DEF Buffer
  <2> QED
    BY <1>2, <1>4, <2>1, <2>2, SMT
<1>6. \A i, j \in 1 .. Buffers' : i < j => old(i) < old(j)
  BY <1>2, <1>4, SMT
<1> HIDE DEF old
<1>7. \A i \in 1 .. Buffers' : 1 <= Buffer(i)' /\ Buffer(i)' <= accepted'
  BY <1>1, <1>5, Zenon DEF ChannelOrder
<1>8. \A i, j \in 1 .. Buffers' : i < j => Buffer(i)' < Buffer(j)'
  BY <1>5, <1>6, Zenon DEF ChannelOrder
<1>9. ChannelTypes'
  BY <1>1, <1>3, Zenon DEF ChannelTypes
<1> QED
  BY <1>1, <1>7, <1>8, <1>9, Zenon DEF ChannelOrder

\* Every step of the channel keeps the order.
LEMMA ChannelNext == ChannelInv /\ [Wire!Next]_(Wire!vars) => ChannelInv'
<1>1. ChannelInv /\ Wire!Fault => ChannelInv'
  BY Zenon DEF Wire!Fault, ChannelInv, ChannelTypes, ChannelOrder, Buffer, Buffers
<1>2. ASSUME ChannelInv, UNCHANGED Wire!vars PROVE ChannelInv'
  <2>1. accepted' = accepted /\ waiting' = waiting /\ left' = left /\ faulty' = faulty
    BY <1>2, SMT DEF Wire!vars
  <2> QED
    BY <1>2, <2>1, Zenon DEF ChannelInv, ChannelTypes, ChannelOrder, Buffer, Buffers
<1> QED
  BY <1>1, <1>2, ChannelAccept, ChannelDeliver, ChannelLose, Zenon DEF Wire!Next

\* What the channel lets go is in the order of the log.
LEMMA OrderArrives ==
  ASSUME Logs, RelayInv, Ascends, ChannelInv, NEW x \in Hosts, accepted = Len(log[x])
  PROVE  ArrivesInOrder(x)
<1> SUFFICES ASSUME NEW y \in Hosts
             PROVE  /\ Ascending(Delivered(x), y)
                    /\ ~faulty => Gapless(Delivered(x), y)
  BY Zenon DEF ArrivesInOrder
<1> DEFINE d == Delivered(x)
<1>1. /\ Len(d) = Len(left) /\ Len(left) \in Nat
      /\ \A i \in 1 .. Len(left) : d[i] = log[x][left[i]]
  BY SMT DEF ChannelInv, ChannelTypes, Delivered
<1>2. /\ \A i \in 1 .. Len(left) : left[i] \in 1 .. Len(log[x])
      /\ \A i, k \in 1 .. Len(left) : i < k => left[i] < left[k]
      /\ ~faulty => \A i \in 1 .. Len(left) : left[i] = i
  <2>1. \A i \in 1 .. Len(left) : i \in 1 .. Buffers /\ Buffer(i) = left[i] /\ left[i] \in Nat
    BY SMT DEF ChannelInv, ChannelTypes, Buffer, Buffers
  <2>2. \A i \in 1 .. Len(left) : 1 <= left[i] /\ left[i] <= accepted
    BY <2>1, Zenon DEF ChannelInv, ChannelOrder
  <2>3. \A i \in 1 .. Len(left) : left[i] \in 1 .. Len(log[x])
    BY <2>1, <2>2, SMT DEF ChannelInv, ChannelTypes
  <2> QED
    BY <2>1, <2>3, Zenon DEF ChannelInv, ChannelOrder
<1> HIDE DEF d
<1>3. Ascending(d, y)
  <2>1. Ascending(log[x], y)
    BY Zenon DEF Ascends
  <2> SUFFICES ASSUME NEW i \in 1 .. Len(d), NEW k \in 1 .. Len(d), i < k,
                      IsData(d[i], y), IsData(d[k], y)
               PROVE  d[i].number < d[k].number
    BY Zenon DEF Ascending
  <2>2. /\ d[i] = log[x][left[i]] /\ left[i] \in 1 .. Len(log[x])
        /\ d[k] = log[x][left[k]] /\ left[k] \in 1 .. Len(log[x])
        /\ left[i] < left[k]
    BY <1>1, <1>2, Zenon
  <2>3. IsData(log[x][left[i]], y) /\ IsData(log[x][left[k]], y)
    BY <2>2, Zenon
  <2>4. log[x][left[i]].number < log[x][left[k]].number
    BY <2>1, <2>2, <2>3, Zenon DEF Ascending
  <2> QED
    BY <2>2, <2>4, Zenon
<1>4. ASSUME ~faulty, NEW i \in 1 .. Len(d), NEW k \in 1 .. Len(d), i < k,
             IsData(d[i], y), IsData(d[k], y), \A j \in i + 1 .. k - 1 : ~IsData(d[j], y)
      PROVE  d[k].number = d[i].number + 1
  <2>1. \A j \in 1 .. Len(left) : d[j] = log[x][j] /\ j \in 1 .. Len(log[x])
    BY <1>1, <1>2, <1>4, Zenon
  <2>2. \A j \in i + 1 .. k - 1 : j \in 1 .. Len(left)
    BY <1>1, SMT
  <2>3. Gapless(log[x], y)
    BY Zenon DEF RelayInv, InLine
  <2>4. \A j \in i + 1 .. k - 1 : ~IsData(log[x][j], y)
    BY <1>4, <2>1, <2>2, Zenon
  <2> QED
    BY <1>1, <1>4, <2>1, <2>3, <2>4, Zenon DEF Gapless
<1> QED
  BY <1>3, <1>4, Zenon DEF Gapless, d

(***************************************************************************)
(* Whatever the session of a host does with its packets, as long as it is  *)
(* what a session promises, those of another host arrive in order.         *)
(***************************************************************************)
THEOREM PacketsArriveInOrder ==
  ASSUME NEW x \in Hosts
  PROVE  Connection(x) => []ArrivesInOrder(x)
<1> DEFINE Facts == /\ Placed /\ Data /\ Flags /\ Logs /\ ThereInv /\ IdInv
                    /\ Entered /\ ManagerExact /\ LineInv /\ Ascends
<1>1. Init => Entered /\ ManagerExact /\ LineInv /\ Ascends
  BY ManagerInit, LineInit, AscendsInit
<1>2. Spec => []Facts
  BY IdInvariant, <1>1, EnteredNext, ManagerNext, LineNext, AscendsNext, PTL DEF Spec
<1>3. Wire!Spec => []ChannelInv
  BY ChannelInit, ChannelNext, PTL DEF Wire!Spec
<1>4. Facts /\ ChannelInv /\ accepted = Len(log[x]) => ArrivesInOrder(x)
  BY OrderArrives, Zenon DEF LineInv
<1> QED
  BY <1>2, <1>3, <1>4, PTL DEF Connection
=============================================================================
