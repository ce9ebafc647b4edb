--------------------------- MODULE SessionProofs ---------------------------
(***************************************************************************)
(* Theorems about Session for every set of threads and every bound on the  *)
(* number of sends: its types, one worker at a time for each event, one    *)
(* release at the very end, a receive chain that neither breaks nor        *)
(* branches, nothing to send kept back, pending operations and owner       *)
(* references that go together, and the ordered channel it implements.     *)
(***************************************************************************)
EXTENDS Session, SequenceTheorems, TLAPS

-----------------------------------------------------------------------------
(***************************************************************************)
(* Types.  The Boolean variables are Zenon's, the others the SMT solver's. *)
(***************************************************************************)

Flags ==
  /\ connected \in BOOLEAN
  /\ sendRegistered \in BOOLEAN
  /\ connOwner \in BOOLEAN
  /\ recvOwner \in BOOLEAN
  /\ discOwner \in BOOLEAN
  /\ inService \in BOOLEAN
  /\ inManager \in BOOLEAN
  /\ crashed \in BOOLEAN
  /\ opened \in BOOLEAN
  /\ sendFailed \in BOOLEAN
  /\ recvFailed \in BOOLEAN

Data ==
  /\ sendQueue \in Seq(Nat)
  /\ sendEvent \in [owner : BOOLEAN, bufs : Seq(Nat)]
  /\ {lockOwner, greeter} \subseteq Threads \cup {NoThread}
  /\ io \in [EventTypes -> Nat]
  /\ pc \in [Threads -> States]
  /\ pushed \in Nat
  /\ sent \in Seq(Nat)

\* The two halves are the type invariant.
LEMMA TypeHalves == TypeOK <=> Flags /\ Data
  BY Zenon DEF TypeOK, Flags, Data

\* The initial state has its types.
LEMMA TypeInit == Init => Flags /\ Data
<1>1. Init => Flags
  BY Zenon DEF Init, Flags
<1>2. Init => Data
  BY SMT DEF Init, Data, States
<1> QED
  BY <1>1, <1>2

\* Every step keeps the Boolean variables Boolean.
LEMMA FlagsNext == Flags /\ [Next]_vars => Flags'
<1> SUFFICES ASSUME Flags, [Next]_vars PROVE Flags'
  OBVIOUS
<1> USE DEF Flags, sendVars, recvVars, linkVars, homeVars
<1>1. ASSUME NEW t \in Threads, ProcessConnect(t) PROVE Flags'
  BY <1>1, Zenon DEF ProcessConnect, Goto, Complete
<1>2. ASSUME NEW t \in Threads, AddSession(t) PROVE Flags'
  BY <1>2, Zenon DEF AddSession, Goto
<1>3. ASSUME NEW t \in Threads, OnConnected(t) PROVE Flags'
  BY <1>3, Zenon DEF OnConnected, Goto
<1>4. ASSUME NEW t \in Threads, Greet(t) PROVE Flags'
  BY <1>4, Zenon DEF Greet, Goto
<1>5. ASSUME NEW t \in Threads, Send(t) PROVE Flags'
  BY <1>5, Zenon DEF Send, Goto
<1>6. ASSUME NEW t \in Threads, SendPush(t) PROVE Flags'
  BY <1>6, Zenon DEF SendPush, Return
<1>7. ASSUME NEW t \in Threads, RegisterSendCheck(t) PROVE Flags'
  BY <1>7, Zenon DEF RegisterSendCheck, Goto, Return
<1>8. ASSUME NEW t \in Threads, RegisterSendDrain(t) PROVE Flags'
  BY <1>8, Zenon DEF RegisterSendDrain, Goto
<1>9. ASSUME NEW t \in Threads, WSASendPosted(t) PROVE Flags'
  BY <1>9, Zenon DEF WSASendPosted, Post, Return
<1>10. ASSUME NEW t \in Threads, WSASendFailed(t) PROVE Flags'
  BY <1>10, Zenon DEF WSASendFailed, Goto, HandleError, Disconnect, RegisterDisconnect,
     Post
<1>11. ASSUME NEW t \in Threads, RegisterSendClear(t) PROVE Flags'
  BY <1>11, Zenon DEF RegisterSendClear, Goto
<1>12. ASSUME NEW t \in Threads, RegisterSendUnflag(t) PROVE Flags'
  BY <1>12, Zenon DEF RegisterSendUnflag, Return
<1>13. ASSUME NEW t \in Threads, DispatchSend(t) PROVE Flags'
  BY <1>13, Zenon DEF DispatchSend, Goto, Complete
<1>14. ASSUME NEW t \in Threads, ProcessSend(t) PROVE Flags'
  BY <1>14, Zenon DEF ProcessSend, Goto
<1>15. ASSUME NEW t \in Threads, ProcessSendZero(t) PROVE Flags'
  BY <1>15, Zenon DEF ProcessSendZero, Goto, Disconnect, RegisterDisconnect, Post
<1>16. ASSUME NEW t \in Threads, ProcessSendNext(t) PROVE Flags'
  <2>1. sendRegistered' \in BOOLEAN
    BY <1>16, Zenon DEF ProcessSendNext
  <2> QED
    BY <1>16, <2>1, Zenon DEF ProcessSendNext
<1>17. ASSUME NEW t \in Threads, DispatchRecv(t) PROVE Flags'
  BY <1>17, Zenon DEF DispatchRecv, Goto, Complete
<1>18. ASSUME NEW t \in Threads, ProcessRecv(t) PROVE Flags'
  BY <1>18, Zenon DEF ProcessRecv, Goto
<1>19. ASSUME NEW t \in Threads, ProcessRecvZero(t) PROVE Flags'
  BY <1>19, Zenon DEF ProcessRecvZero, Goto, Disconnect, RegisterDisconnect, Post
<1>20. ASSUME NEW t \in Threads, RegisterRecv(t) PROVE Flags'
  BY <1>20, Zenon DEF RegisterRecv, Goto
<1>21. ASSUME NEW t \in Threads, WSARecvPosted(t) PROVE Flags'
  BY <1>21, Zenon DEF WSARecvPosted, Goto, Post
<1>22. ASSUME NEW t \in Threads, WSARecvFailed(t) PROVE Flags'
  BY <1>22, Zenon DEF WSARecvFailed, Goto, HandleError, Disconnect, RegisterDisconnect,
     Post
<1>23. ASSUME NEW t \in Threads, DispatchDisconnect(t) PROVE Flags'
  BY <1>23, Zenon DEF DispatchDisconnect, Goto, Complete
<1>24. ASSUME NEW t \in Threads, OnDisconnected(t) PROVE Flags'
  BY <1>24, Zenon DEF OnDisconnected, Goto
<1>25. ASSUME NEW t \in Threads, ReleaseSession(t) PROVE Flags'
  BY <1>25, Zenon DEF ReleaseSession, Goto
<1>26. ASSUME NEW t \in Threads, Connect(t) PROVE Flags'
  BY <1>26, Zenon DEF Connect, Post
<1>27. CASE UNCHANGED vars
  BY <1>27, Zenon DEF vars
<1> QED
  BY <1>1, <1>2, <1>3, <1>4, <1>5, <1>6, <1>7, <1>8, <1>9, <1>10, <1>11, <1>12, <1>13,
     <1>14, <1>15, <1>16, <1>17, <1>18, <1>19, <1>20, <1>21, <1>22, <1>23, <1>24, <1>25,
     <1>26, <1>27, Zenon DEF Next, Step

\* The states of a thread, by name.
LEMMA StateNames ==
  {"idle", "sendPush", "pdStart", "pdRelease", "rsCheck", "rsDrain", "wsaSend", "rsClear",
   "rsUnflag", "psOk", "psZero", "psLock", "addSession", "onConnected", "greet", "prOk",
   "prZero", "rrCheck", "wsaRecv"} \subseteq States
  BY SMT DEF States, SendEventStates, RegisterSendStates, RecvStates

\* A return from RegisterSend sets the thread's pc and gives up what it holds.
LEMMA ReturnData ==
  ASSUME Data, NEW t \in Threads, Return(t)
  PROVE  /\ pc' \in [Threads -> States]
         /\ {lockOwner', greeter'} \subseteq Threads \cup {NoThread}
  BY StateNames, SMT DEF Data, Return

\* Every step keeps the types of the other variables.
LEMMA DataNext == Data /\ [Next]_vars => Data'
<1> SUFFICES ASSUME Data, [Next]_vars PROVE Data'
  OBVIOUS
<1> USE StateNames DEF Data, sendVars, linkVars, holdVars, EventTypes
<1>1. ASSUME NEW t \in Threads, ProcessConnect(t) PROVE Data'
  <2>1. io' \in [EventTypes -> Nat]
    BY <1>1, SMT DEF ProcessConnect, Complete
  <2> QED
    BY <1>1, <2>1, SMT DEF ProcessConnect, Goto
<1>2. ASSUME NEW t \in Threads, AddSession(t) PROVE Data'
  BY <1>2, SMT DEF AddSession, Goto
<1>3. ASSUME NEW t \in Threads, OnConnected(t) PROVE Data'
  BY <1>3, SMT DEF OnConnected, Goto
<1>4. ASSUME NEW t \in Threads, Greet(t) PROVE Data'
  <2>1. CASE Goto(t, "greet", "sendPush")
    BY <1>4, <2>1, SMT DEF Greet, Goto
  <2>2. CASE Goto(t, "greet", "rrCheck")
    BY <1>4, <2>2, SMT DEF Greet, Goto
  <2> QED
    BY <1>4, <2>1, <2>2, Zenon DEF Greet
<1>5. ASSUME NEW t \in Threads, Send(t) PROVE Data'
  BY <1>5, SMT DEF Send, Goto
<1>6. ASSUME NEW t \in Threads, SendPush(t) PROVE Data'
  <2>1. CASE Return(t)
    BY <1>6, <2>1, ReturnData, SMT DEF SendPush
  <2>2. CASE pc' = [pc EXCEPT ![t] = "rsCheck"] /\ UNCHANGED holdVars
    BY <1>6, <2>2, SMT DEF SendPush, Goto
  <2> QED
    BY <1>6, <2>1, <2>2, Zenon DEF SendPush
<1>7. ASSUME NEW t \in Threads, RegisterSendCheck(t) PROVE Data'
  <2>1. CASE Return(t)
    BY <1>7, <2>1, ReturnData, SMT DEF RegisterSendCheck
  <2>2. CASE Goto(t, "rsCheck", "rsDrain") /\ UNCHANGED holdVars
    BY <1>7, <2>2, SMT DEF RegisterSendCheck, Goto
  <2> QED
    BY <1>7, <2>1, <2>2, Zenon DEF RegisterSendCheck
<1>8. ASSUME NEW t \in Threads, RegisterSendDrain(t) PROVE Data'
  BY <1>8, SMT DEF RegisterSendDrain, Goto
<1>9. ASSUME NEW t \in Threads, WSASendPosted(t) PROVE Data'
  BY <1>9, SMT DEF WSASendPosted, Post, Return
<1>10. ASSUME NEW t \in Threads, WSASendFailed(t) PROVE Data'
  BY <1>10, SMT DEF WSASendFailed, Goto, HandleError, Disconnect, RegisterDisconnect, Post
<1>11. ASSUME NEW t \in Threads, RegisterSendClear(t) PROVE Data'
  BY <1>11, SMT DEF RegisterSendClear, Goto
<1>12. ASSUME NEW t \in Threads, RegisterSendUnflag(t) PROVE Data'
  BY <1>12, SMT DEF RegisterSendUnflag, Return
<1>13. ASSUME NEW t \in Threads, DispatchSend(t) PROVE Data'
  <2>1. CASE Goto(t, "idle", "psOk")
    BY <1>13, <2>1, SMT DEF DispatchSend, Goto, Complete
  <2>2. CASE Goto(t, "idle", "psZero")
    BY <1>13, <2>2, SMT DEF DispatchSend, Goto, Complete
  <2> QED
    BY <1>13, <2>1, <2>2, Zenon DEF DispatchSend
<1>14. ASSUME NEW t \in Threads, ProcessSend(t) PROVE Data'
  BY <1>14, SMT DEF ProcessSend, Goto
<1>15. ASSUME NEW t \in Threads, ProcessSendZero(t) PROVE Data'
  BY <1>15, SMT DEF ProcessSendZero, Goto, Disconnect, RegisterDisconnect, Post
<1>16. ASSUME NEW t \in Threads, ProcessSendNext(t) PROVE Data'
  <2>1. UNCHANGED <<sendQueue, sendEvent, pushed, sent, io, greeter>>
    BY <1>16, Zenon DEF ProcessSendNext
  <2>2. CASE Goto(t, "psLock", "idle") /\ UNCHANGED lockOwner
    BY <2>1, <2>2, SMT DEF Goto
  <2>3. CASE Goto(t, "psLock", "rsCheck") /\ lockOwner' = t
    BY <2>1, <2>3, SMT DEF Goto
  <2> QED
    BY <1>16, <2>2, <2>3, Zenon DEF ProcessSendNext
<1>17. ASSUME NEW t \in Threads, DispatchRecv(t) PROVE Data'
  <2>1. CASE Goto(t, "idle", "prOk")
    BY <1>17, <2>1, SMT DEF DispatchRecv, Goto, Complete
  <2>2. CASE Goto(t, "idle", "prZero")
    BY <1>17, <2>2, SMT DEF DispatchRecv, Goto, Complete
  <2> QED
    BY <1>17, <2>1, <2>2, Zenon DEF DispatchRecv
<1>18. ASSUME NEW t \in Threads, ProcessRecv(t) PROVE Data'
  BY <1>18, SMT DEF ProcessRecv, Goto
<1>19. ASSUME NEW t \in Threads, ProcessRecvZero(t) PROVE Data'
  BY <1>19, SMT DEF ProcessRecvZero, Goto, Disconnect, RegisterDisconnect, Post
<1>20. ASSUME NEW t \in Threads, RegisterRecv(t) PROVE Data'
  <2>1. CASE Goto(t, "rrCheck", "wsaRecv")
    BY <1>20, <2>1, SMT DEF RegisterRecv, Goto
  <2>2. CASE Goto(t, "rrCheck", "idle")
    BY <1>20, <2>2, SMT DEF RegisterRecv, Goto
  <2> QED
    BY <1>20, <2>1, <2>2, Zenon DEF RegisterRecv
<1>21. ASSUME NEW t \in Threads, WSARecvPosted(t) PROVE Data'
  BY <1>21, SMT DEF WSARecvPosted, Goto, Post
<1>22. ASSUME NEW t \in Threads, WSARecvFailed(t) PROVE Data'
  BY <1>22, SMT DEF WSARecvFailed, Goto, HandleError, Disconnect, RegisterDisconnect, Post
<1>23. ASSUME NEW t \in Threads, DispatchDisconnect(t) PROVE Data'
  BY <1>23, SMT DEF DispatchDisconnect, Goto, Complete
<1>24. ASSUME NEW t \in Threads, OnDisconnected(t) PROVE Data'
  BY <1>24, SMT DEF OnDisconnected, Goto
<1>25. ASSUME NEW t \in Threads, ReleaseSession(t) PROVE Data'
  BY <1>25, SMT DEF ReleaseSession, Goto
<1>26. ASSUME NEW t \in Threads, Connect(t) PROVE Data'
  BY <1>26, SMT DEF Connect, Post
<1>27. CASE UNCHANGED vars
  BY <1>27, SMT DEF vars
<1> QED
  BY <1>1, <1>2, <1>3, <1>4, <1>5, <1>6, <1>7, <1>8, <1>9, <1>10, <1>11, <1>12, <1>13,
     <1>14, <1>15, <1>16, <1>17, <1>18, <1>19, <1>20, <1>21, <1>22, <1>23, <1>24, <1>25,
     <1>26, <1>27, Zenon DEF Next, Step

\* Whatever the interleaving, every variable keeps its type.
THEOREM TypeCorrect == Spec => []TypeOK
<1>1. Init => Flags /\ Data
  BY TypeInit
<1>2. Flags /\ [Next]_vars => Flags'
  BY FlagsNext
<1>3. Data /\ [Next]_vars => Data'
  BY DataNext
<1>4. Flags /\ Data => TypeOK
  BY TypeHalves
<1> QED
  BY <1>1, <1>2, <1>3, <1>4, PTL DEF Spec

-----------------------------------------------------------------------------
(***************************************************************************)
(* Exclusive use of _sendEvent.  Most steps leave it to those who have it. *)
(***************************************************************************)

\* Who works on _sendEvent, by name of the state.
LEMMA SendEventStateNames ==
  /\ {"rsCheck", "rsDrain", "wsaSend", "rsClear", "rsUnflag", "psOk", "psZero", "psLock"}
       = SendEventStates
  /\ {"idle", "sendPush", "pdStart", "pdRelease", "addSession", "onConnected", "greet", "prOk",
      "prZero", "rrCheck", "wsaRecv"} \cap SendEventStates = {}
  BY SMT DEF SendEventStates, RegisterSendStates

\* A step in which nobody takes _sendEvent up and the flag stays keeps it exclusive.
LEMMA KeepsSendEvent ==
  ASSUME Data, SendEventExclusive,
         \A t \in Threads : pc'[t] \in SendEventStates => pc[t] \in SendEventStates,
         io'["Send"] = io["Send"],
         sendRegistered' = sendRegistered
  PROVE  SendEventExclusive'
  BY SMT DEF SendEventExclusive, SendEventInUse

\* A call of Disconnect does not touch the sends in flight.
LEMMA DisconnectKeepsSend ==
  ASSUME Data, Disconnect
  PROVE  io'["Send"] = io["Send"]
  BY SMT DEF Data, Disconnect, RegisterDisconnect, Post, linkVars, EventTypes

\* Nor does the handling of an error.
LEMMA HandleErrorKeepsSend ==
  ASSUME Data, NEW err, HandleError(err)
  PROVE  io'["Send"] = io["Send"]
  BY DisconnectKeepsSend, SMT DEF HandleError, linkVars

\* Every step keeps _sendEvent exclusive.
LEMMA ExclusiveNext == Data /\ SendEventExclusive /\ [Next]_vars => SendEventExclusive'
<1> SUFFICES ASSUME Data, SendEventExclusive, [Next]_vars PROVE SendEventExclusive'
  OBVIOUS
<1> USE SendEventStateNames DEF Data, sendVars, linkVars, EventTypes
<1>1. ASSUME NEW t \in Threads, ProcessConnect(t) PROVE SendEventExclusive'
  <2>1. \A u \in Threads : pc'[u] \in SendEventStates => pc[u] \in SendEventStates
    BY <1>1, SMT DEF ProcessConnect, Goto
  <2>2. io'["Send"] = io["Send"]
    BY <1>1, SMT DEF ProcessConnect, Complete
  <2> QED
    BY <1>1, <2>1, <2>2, KeepsSendEvent, SMT DEF ProcessConnect
<1>2. ASSUME NEW t \in Threads, AddSession(t) PROVE SendEventExclusive'
  <2>1. \A u \in Threads : pc'[u] \in SendEventStates => pc[u] \in SendEventStates
    BY <1>2, SMT DEF AddSession, Goto
  <2>2. io'["Send"] = io["Send"]
    BY <1>2, SMT DEF AddSession
  <2> QED
    BY <1>2, <2>1, <2>2, KeepsSendEvent, SMT DEF AddSession
<1>3. ASSUME NEW t \in Threads, OnConnected(t) PROVE SendEventExclusive'
  <2>1. \A u \in Threads : pc'[u] \in SendEventStates => pc[u] \in SendEventStates
    BY <1>3, SMT DEF OnConnected, Goto
  <2>2. io'["Send"] = io["Send"]
    BY <1>3, SMT DEF OnConnected
  <2> QED
    BY <1>3, <2>1, <2>2, KeepsSendEvent, SMT DEF OnConnected
<1>4. ASSUME NEW t \in Threads, Greet(t) PROVE SendEventExclusive'
  <2>1. \A u \in Threads : pc'[u] \in SendEventStates => pc[u] \in SendEventStates
    <3>1. CASE Goto(t, "greet", "sendPush")
      BY <3>1, SMT DEF Goto
    <3>2. CASE Goto(t, "greet", "rrCheck")
      BY <3>2, SMT DEF Goto
    <3> QED
      BY <1>4, <3>1, <3>2, Zenon DEF Greet
  <2>2. io'["Send"] = io["Send"]
    BY <1>4, SMT DEF Greet
  <2> QED
    BY <1>4, <2>1, <2>2, KeepsSendEvent, SMT DEF Greet
<1>5. ASSUME NEW t \in Threads, Send(t) PROVE SendEventExclusive'
  <2>1. \A u \in Threads : pc'[u] \in SendEventStates => pc[u] \in SendEventStates
    BY <1>5, SMT DEF Send, Goto
  <2>2. io'["Send"] = io["Send"]
    BY <1>5, SMT DEF Send
  <2> QED
    BY <1>5, <2>1, <2>2, KeepsSendEvent, SMT DEF Send
<1>6. ASSUME NEW t \in Threads, SendPush(t) PROVE SendEventExclusive'
  <2>1. CASE sendRegistered
    <3>1. sendRegistered' /\ Return(t) /\ UNCHANGED io
      BY <1>6, <2>1, Zenon DEF SendPush
    <3>2. \A u \in Threads : pc'[u] \in SendEventStates => pc[u] \in SendEventStates
      BY <3>1, SMT DEF Return
    <3> QED
      BY <3>1, <3>2, SMT DEF SendEventExclusive, SendEventInUse
  <2>2. CASE ~sendRegistered
    <3>1. sendRegistered' /\ pc' = [pc EXCEPT ![t] = "rsCheck"] /\ UNCHANGED io
      BY <1>6, <2>2, Zenon DEF SendPush
    <3>2. io["Send"] = 0 /\ \A u \in Threads : pc[u] \notin SendEventStates
      BY <2>2, SMT DEF SendEventExclusive, SendEventInUse
    <3> QED
      BY <3>1, <3>2, SMT DEF SendEventExclusive, SendEventInUse
  <2> QED
    BY <2>1, <2>2
<1>7. ASSUME NEW t \in Threads, RegisterSendCheck(t) PROVE SendEventExclusive'
  <2>1. \A u \in Threads : pc'[u] \in SendEventStates => pc[u] \in SendEventStates
    <3>1. CASE Goto(t, "rsCheck", "rsDrain")
      BY <3>1, SMT DEF Goto
    <3>2. CASE pc[t] = "rsCheck" /\ Return(t)
      BY <3>2, SMT DEF Return
    <3> QED
      BY <1>7, <3>1, <3>2, Zenon DEF RegisterSendCheck
  <2>2. io'["Send"] = io["Send"]
    BY <1>7, SMT DEF RegisterSendCheck
  <2> QED
    BY <1>7, <2>1, <2>2, KeepsSendEvent, SMT DEF RegisterSendCheck
<1>8. ASSUME NEW t \in Threads, RegisterSendDrain(t) PROVE SendEventExclusive'
  <2>1. \A u \in Threads : pc'[u] \in SendEventStates => pc[u] \in SendEventStates
    BY <1>8, SMT DEF RegisterSendDrain, Goto
  <2>2. io'["Send"] = io["Send"]
    BY <1>8, SMT DEF RegisterSendDrain
  <2> QED
    BY <1>8, <2>1, <2>2, KeepsSendEvent, SMT DEF RegisterSendDrain
<1>9. ASSUME NEW t \in Threads, WSASendPosted(t) PROVE SendEventExclusive'
  <2>1. io["Send"] = 0 /\ \A u \in Threads : pc[u] \in SendEventStates => u = t
    BY <1>9, SMT DEF WSASendPosted, SendEventExclusive, SendEventInUse
  <2>2. io'["Send"] = 1
    BY <1>9, <2>1, SMT DEF WSASendPosted, Post
  <2>3. \A u \in Threads : pc'[u] \notin SendEventStates
    BY <1>9, <2>1, SMT DEF WSASendPosted, Return
  <2>4. sendRegistered'
    BY <1>9, SMT DEF WSASendPosted, SendEventExclusive, SendEventInUse
  <2> QED
    BY <2>2, <2>3, <2>4, SMT DEF SendEventExclusive, SendEventInUse
<1>10. ASSUME NEW t \in Threads, WSASendFailed(t) PROVE SendEventExclusive'
  <2>1. \A u \in Threads : pc'[u] \in SendEventStates => pc[u] \in SendEventStates
    BY <1>10, SMT DEF WSASendFailed, Goto
  <2>2. io'["Send"] = io["Send"]
    BY <1>10, HandleErrorKeepsSend, SMT DEF WSASendFailed, Post
  <2> QED
    BY <1>10, <2>1, <2>2, KeepsSendEvent, SMT DEF WSASendFailed
<1>11. ASSUME NEW t \in Threads, RegisterSendClear(t) PROVE SendEventExclusive'
  <2>1. \A u \in Threads : pc'[u] \in SendEventStates => pc[u] \in SendEventStates
    BY <1>11, SMT DEF RegisterSendClear, Goto
  <2>2. io'["Send"] = io["Send"]
    BY <1>11, SMT DEF RegisterSendClear
  <2> QED
    BY <1>11, <2>1, <2>2, KeepsSendEvent, SMT DEF RegisterSendClear
<1>12. ASSUME NEW t \in Threads, RegisterSendUnflag(t) PROVE SendEventExclusive'
  <2>1. io["Send"] = 0 /\ \A u \in Threads : pc[u] \in SendEventStates => u = t
    BY <1>12, SMT DEF RegisterSendUnflag, SendEventExclusive, SendEventInUse
  <2>2. io'["Send"] = 0
    BY <1>12, <2>1, SMT DEF RegisterSendUnflag
  <2>3. \A u \in Threads : pc'[u] \notin SendEventStates
    BY <1>12, <2>1, SMT DEF RegisterSendUnflag, Return
  <2> QED
    BY <2>2, <2>3, SMT DEF SendEventExclusive, SendEventInUse
<1>13. ASSUME NEW t \in Threads, DispatchSend(t) PROVE SendEventExclusive'
  <2>1. io["Send"] = 1 /\ sendRegistered /\ \A u \in Threads : pc[u] \notin SendEventStates
    BY <1>13, SMT DEF DispatchSend, Complete, SendEventExclusive, SendEventInUse
  <2>2. io'["Send"] = 0
    BY <1>13, <2>1, SMT DEF DispatchSend, Complete
  <2>3. \A u \in Threads : pc'[u] \in SendEventStates => u = t
    BY <1>13, <2>1, SMT DEF DispatchSend, Goto
  <2>4. sendRegistered'
    BY <1>13, <2>1, SMT DEF DispatchSend
  <2> QED
    BY <2>2, <2>3, <2>4, SMT DEF SendEventExclusive, SendEventInUse
<1>14. ASSUME NEW t \in Threads, ProcessSend(t) PROVE SendEventExclusive'
  <2>1. \A u \in Threads : pc'[u] \in SendEventStates => pc[u] \in SendEventStates
    BY <1>14, SMT DEF ProcessSend, Goto
  <2>2. io'["Send"] = io["Send"]
    BY <1>14, SMT DEF ProcessSend
  <2> QED
    BY <1>14, <2>1, <2>2, KeepsSendEvent, SMT DEF ProcessSend
<1>15. ASSUME NEW t \in Threads, ProcessSendZero(t) PROVE SendEventExclusive'
  <2>1. \A u \in Threads : pc'[u] \in SendEventStates => pc[u] \in SendEventStates
    BY <1>15, SMT DEF ProcessSendZero, Goto
  <2>2. io'["Send"] = io["Send"]
    BY <1>15, DisconnectKeepsSend, SMT DEF ProcessSendZero, Post
  <2> QED
    BY <1>15, <2>1, <2>2, KeepsSendEvent, SMT DEF ProcessSendZero
<1>16. ASSUME NEW t \in Threads, ProcessSendNext(t) PROVE SendEventExclusive'
  <2>1. io["Send"] = 0 /\ \A u \in Threads : pc[u] \in SendEventStates => u = t
    BY <1>16, SMT DEF ProcessSendNext, Goto, SendEventExclusive, SendEventInUse
  <2>2. UNCHANGED io
    BY <1>16, Zenon DEF ProcessSendNext
  <2>3. CASE sendQueue = <<>>
    <3>1. Goto(t, "psLock", "idle")
      BY <1>16, <2>3, Zenon DEF ProcessSendNext
    <3>2. \A u \in Threads : pc'[u] \notin SendEventStates
      BY <2>1, <3>1, SMT DEF Goto
    <3> QED
      BY <2>1, <2>2, <3>2, SMT DEF SendEventExclusive, SendEventInUse
  <2>4. CASE sendQueue # <<>>
    <3>1. Goto(t, "psLock", "rsCheck") /\ UNCHANGED sendRegistered
      BY <1>16, <2>4, Zenon DEF ProcessSendNext
    <3>2. \A u \in Threads : pc'[u] \in SendEventStates => pc[u] \in SendEventStates
      BY <3>1, SMT DEF Goto
    <3> QED
      BY <2>2, <3>1, <3>2, KeepsSendEvent, SMT
  <2> QED
    BY <2>3, <2>4
<1>17. ASSUME NEW t \in Threads, DispatchRecv(t) PROVE SendEventExclusive'
  <2>1. \A u \in Threads : pc'[u] \in SendEventStates => pc[u] \in SendEventStates
    <3>1. CASE Goto(t, "idle", "prOk")
      BY <3>1, SMT DEF Goto
    <3>2. CASE Goto(t, "idle", "prZero")
      BY <3>2, SMT DEF Goto
    <3> QED
      BY <1>17, <3>1, <3>2, Zenon DEF DispatchRecv
  <2>2. io'["Send"] = io["Send"]
    BY <1>17, SMT DEF DispatchRecv, Complete
  <2> QED
    BY <1>17, <2>1, <2>2, KeepsSendEvent, SMT DEF DispatchRecv
<1>18. ASSUME NEW t \in Threads, ProcessRecv(t) PROVE SendEventExclusive'
  <2>1. \A u \in Threads : pc'[u] \in SendEventStates => pc[u] \in SendEventStates
    BY <1>18, SMT DEF ProcessRecv, Goto
  <2>2. io'["Send"] = io["Send"]
    BY <1>18, SMT DEF ProcessRecv
  <2> QED
    BY <1>18, <2>1, <2>2, KeepsSendEvent, SMT DEF ProcessRecv
<1>19. ASSUME NEW t \in Threads, ProcessRecvZero(t) PROVE SendEventExclusive'
  <2>1. \A u \in Threads : pc'[u] \in SendEventStates => pc[u] \in SendEventStates
    BY <1>19, SMT DEF ProcessRecvZero, Goto
  <2>2. io'["Send"] = io["Send"]
    BY <1>19, DisconnectKeepsSend, SMT DEF ProcessRecvZero, Post
  <2> QED
    BY <1>19, <2>1, <2>2, KeepsSendEvent, SMT DEF ProcessRecvZero
<1>20. ASSUME NEW t \in Threads, RegisterRecv(t) PROVE SendEventExclusive'
  <2>1. \A u \in Threads : pc'[u] \in SendEventStates => pc[u] \in SendEventStates
    <3>1. CASE Goto(t, "rrCheck", "wsaRecv")
      BY <3>1, SMT DEF Goto
    <3>2. CASE Goto(t, "rrCheck", "idle")
      BY <3>2, SMT DEF Goto
    <3> QED
      BY <1>20, <3>1, <3>2, Zenon DEF RegisterRecv
  <2>2. io'["Send"] = io["Send"]
    BY <1>20, SMT DEF RegisterRecv
  <2> QED
    BY <1>20, <2>1, <2>2, KeepsSendEvent, SMT DEF RegisterRecv
<1>21. ASSUME NEW t \in Threads, WSARecvPosted(t) PROVE SendEventExclusive'
  <2>1. \A u \in Threads : pc'[u] \in SendEventStates => pc[u] \in SendEventStates
    BY <1>21, SMT DEF WSARecvPosted, Goto
  <2>2. io'["Send"] = io["Send"]
    BY <1>21, SMT DEF WSARecvPosted, Post
  <2> QED
    BY <1>21, <2>1, <2>2, KeepsSendEvent, SMT DEF WSARecvPosted
<1>22. ASSUME NEW t \in Threads, WSARecvFailed(t) PROVE SendEventExclusive'
  <2>1. \A u \in Threads : pc'[u] \in SendEventStates => pc[u] \in SendEventStates
    BY <1>22, SMT DEF WSARecvFailed, Goto
  <2>2. io'["Send"] = io["Send"]
    BY <1>22, HandleErrorKeepsSend, SMT DEF WSARecvFailed, Post
  <2> QED
    BY <1>22, <2>1, <2>2, KeepsSendEvent, SMT DEF WSARecvFailed
<1>23. ASSUME NEW t \in Threads, DispatchDisconnect(t) PROVE SendEventExclusive'
  <2>1. \A u \in Threads : pc'[u] \in SendEventStates => pc[u] \in SendEventStates
    BY <1>23, SMT DEF DispatchDisconnect, Goto
  <2>2. io'["Send"] = io["Send"]
    BY <1>23, SMT DEF DispatchDisconnect, Complete
  <2> QED
    BY <1>23, <2>1, <2>2, KeepsSendEvent, SMT DEF DispatchDisconnect
<1>24. ASSUME NEW t \in Threads, OnDisconnected(t) PROVE SendEventExclusive'
  <2>1. \A u \in Threads : pc'[u] \in SendEventStates => pc[u] \in SendEventStates
    BY <1>24, SMT DEF OnDisconnected, Goto
  <2>2. io'["Send"] = io["Send"]
    BY <1>24, SMT DEF OnDisconnected
  <2> QED
    BY <1>24, <2>1, <2>2, KeepsSendEvent, SMT DEF OnDisconnected
<1>25. ASSUME NEW t \in Threads, ReleaseSession(t) PROVE SendEventExclusive'
  <2>1. \A u \in Threads : pc'[u] \in SendEventStates => pc[u] \in SendEventStates
    BY <1>25, SMT DEF ReleaseSession, Goto
  <2>2. io'["Send"] = io["Send"]
    BY <1>25, SMT DEF ReleaseSession
  <2> QED
    BY <1>25, <2>1, <2>2, KeepsSendEvent, SMT DEF ReleaseSession
<1>26. ASSUME NEW t \in Threads, Connect(t) PROVE SendEventExclusive'
  <2>1. io'["Send"] = io["Send"]
    BY <1>26, SMT DEF Connect, Post
  <2> QED
    BY <1>26, <2>1, KeepsSendEvent, SMT DEF Connect
<1>27. CASE UNCHANGED vars
  BY <1>27, KeepsSendEvent, SMT DEF vars
<1> QED
  BY <1>1, <1>2, <1>3, <1>4, <1>5, <1>6, <1>7, <1>8, <1>9, <1>10, <1>11, <1>12, <1>13,
     <1>14, <1>15, <1>16, <1>17, <1>18, <1>19, <1>20, <1>21, <1>22, <1>23, <1>24, <1>25,
     <1>26, <1>27, Zenon DEF Next, Step

\* _sendEvent is never used twice at a time, however many threads send.
THEOREM SendEventIsExclusive == Spec => []SendEventExclusive
<1>1. Init => Data /\ SendEventExclusive
  BY TypeInit, SMT DEF Init, SendEventExclusive, SendEventInUse, SendEventStates,
     RegisterSendStates, EventTypes
<1>2. Data /\ [Next]_vars => Data'
  BY DataNext
<1>3. Data /\ SendEventExclusive /\ [Next]_vars => SendEventExclusive'
  BY ExclusiveNext
<1> QED
  BY <1>1, <1>2, <1>3, PTL DEF Spec

-----------------------------------------------------------------------------
(***************************************************************************)
(* The life of a session.  That it is released once is not inductive by    *)
(* itself: a session is opened once (ConnectOnce); until the worker that   *)
(* opens it has put it into its manager nobody else knows it (Fresh,       *)
(* EnteringAlone); _connected is lowered once, and lowering it is what     *)
(* entitles to the one DisconnectEx and its completion (OneDisconnect),    *)
(* which stands for the session's being in the service                     *)
(* (ServedUntilReleased).                                                  *)
(***************************************************************************)
Entering(t) == pc[t] \in {"addSession", "onConnected"}
Disconnecting(t) == pc[t] \in {"pdStart", "pdRelease"}

\* Nobody but the thread that opens it has anything to do with the session.
Quiet ==
  /\ ~inManager
  /\ greeter = NoThread
  /\ io["Recv"] = 0 /\ io["Send"] = 0 /\ io["Disconnect"] = 0

ConnectOnce ==
  /\ connOwner <=> io["Connect"] = 1
  /\ io["Connect"] <= 1
  /\ connOwner => ~opened

Fresh ==
  ~opened => Quiet /\ ~connected /\ \A t \in Threads : pc[t] = "idle"

EnteringAlone ==
  \A t \in Threads : Entering(t) =>
    /\ Quiet /\ connected
    /\ \A u \in Threads \ {t} : pc[u] = "idle"
    /\ pc[t] = "onConnected" => inService

OneDisconnect ==
  /\ io["Disconnect"] <= 1
  /\ \A t, u \in Threads : Disconnecting(t) /\ Disconnecting(u) => t = u
  /\ \A t \in Threads : Disconnecting(t) => io["Disconnect"] = 0 /\ ~connected
  /\ connected => io["Disconnect"] = 0

ServedUntilReleased ==
  /\ connected => inService \/ \E t \in Threads : pc[t] = "addSession"
  /\ io["Disconnect"] = 1 => inService
  /\ \A t \in Threads : Disconnecting(t) => inService

\* A thread sends on a session only as long as that is in its manager.
SendersInManager ==
  /\ \A t \in Threads : InSend(t) => inManager
  /\ \A t \in Threads : pc[t] = "pdRelease" => ~inManager

LifeInv ==
  /\ ConnectOnce /\ Fresh /\ EnteringAlone
  /\ OneDisconnect /\ ServedUntilReleased /\ SendersInManager
  /\ NoCrash

\* A session that nobody has opened is in no danger.
LEMMA LifeInit == Init => LifeInv
BY SMT DEF Init, LifeInv, ConnectOnce, Fresh, Quiet, EnteringAlone, Entering, OneDisconnect,
   Disconnecting, ServedUntilReleased, SendersInManager, InSend, RegisterSendStates, NoCrash,
   EventTypes

\* The completion of the last send lowers the flag or keeps the lock.
LEMMA ProcessSendNextKeepsSenders ==
  ASSUME Data, SendersInManager, NEW t \in Threads, ProcessSendNext(t)
  PROVE  SendersInManager'
<1>1. UNCHANGED inManager /\ lockOwner = NoThread
  BY Zenon DEF ProcessSendNext, homeVars
<1>2. CASE Goto(t, "psLock", "idle") /\ UNCHANGED lockOwner
  BY <1>1, <1>2, SMT DEF SendersInManager, InSend, RegisterSendStates, Goto, Data
<1>3. CASE Goto(t, "psLock", "rsCheck") /\ lockOwner' = t
  BY <1>1, <1>3, SessionAssumption, SMT DEF SendersInManager, InSend, RegisterSendStates, Goto,
     Data
<1> QED
  BY <1>2, <1>3, Zenon DEF ProcessSendNext

\* Every step keeps the life of the session in order.
LEMMA LifeNext == Flags /\ Data /\ LifeInv /\ [Next]_vars => LifeInv'
<1> SUFFICES ASSUME Flags, Data, LifeInv, [Next]_vars PROVE LifeInv'
  OBVIOUS
<1> USE DEF Flags, Data, LifeInv, Quiet, ConnectOnce, Fresh, EnteringAlone,
   OneDisconnect, ServedUntilReleased, SendersInManager, NoCrash, Entering,
   Disconnecting, InSend, RegisterSendStates, sendVars, recvVars, linkVars, homeVars,
   holdVars, EventTypes
<1>1. ASSUME NEW t \in Threads, ProcessConnect(t) PROVE LifeInv'
  BY <1>1, SMT DEF ProcessConnect, Goto, Complete
<1>2. ASSUME NEW t \in Threads, AddSession(t) PROVE LifeInv'
  BY <1>2, SMT DEF AddSession, Goto
<1>3. ASSUME NEW t \in Threads, OnConnected(t) PROVE LifeInv'
  BY <1>3, SMT DEF OnConnected, Goto
<1>4. ASSUME NEW t \in Threads, Greet(t) PROVE LifeInv'
  BY <1>4, SMT DEF Greet, Goto
<1>5. ASSUME NEW t \in Threads, Send(t) PROVE LifeInv'
  BY <1>5, SMT DEF Send, Goto
<1>6. ASSUME NEW t \in Threads, SendPush(t) PROVE LifeInv'
  BY <1>6, SMT DEF SendPush, Return, LockIsFreeFor
<1>7. ASSUME NEW t \in Threads, RegisterSendCheck(t) PROVE LifeInv'
  <2>1. ConnectOnce'
    BY <1>7, SMT DEF RegisterSendCheck, Goto, Return
  <2>2. Fresh'
    BY <1>7, SMT DEF RegisterSendCheck, Goto, Return
  <2>3. EnteringAlone'
    BY <1>7, SMT DEF RegisterSendCheck, Goto, Return
  <2>4. OneDisconnect'
    BY <1>7, SMT DEF RegisterSendCheck, Goto, Return
  <2>5. ServedUntilReleased'
    BY <1>7, SMT DEF RegisterSendCheck, Goto, Return
  <2>6. SendersInManager'
    BY <1>7, SMT DEF RegisterSendCheck, Goto, Return
  <2>7. NoCrash'
    BY <1>7, SMT DEF RegisterSendCheck, Goto, Return
  <2> QED
    BY <2>1, <2>2, <2>3, <2>4, <2>5, <2>6, <2>7, Zenon DEF LifeInv
<1>8. ASSUME NEW t \in Threads, RegisterSendDrain(t) PROVE LifeInv'
  BY <1>8, SMT DEF RegisterSendDrain, Goto
<1>9. ASSUME NEW t \in Threads, WSASendPosted(t) PROVE LifeInv'
  BY <1>9, SMT DEF WSASendPosted, Post, Return
<1>10. ASSUME NEW t \in Threads, WSASendFailed(t) PROVE LifeInv'
  <2>1. ConnectOnce'
    BY <1>10, SMT DEF WSASendFailed, Goto, HandleError, Disconnect, RegisterDisconnect,
       Post
  <2>2. Fresh'
    BY <1>10, SMT DEF WSASendFailed, Goto, HandleError, Disconnect, RegisterDisconnect,
       Post
  <2>3. EnteringAlone'
    BY <1>10, SMT DEF WSASendFailed, Goto, HandleError, Disconnect, RegisterDisconnect,
       Post
  <2>4. OneDisconnect'
    BY <1>10, SMT DEF WSASendFailed, Goto, HandleError, Disconnect, RegisterDisconnect,
       Post
  <2>5. ServedUntilReleased'
    BY <1>10, SMT DEF WSASendFailed, Goto, HandleError, Disconnect, RegisterDisconnect,
       Post
  <2>6. SendersInManager'
    BY <1>10, SMT DEF WSASendFailed, Goto, HandleError, Disconnect, RegisterDisconnect,
       Post
  <2>7. NoCrash'
    BY <1>10, SMT DEF WSASendFailed, Goto, HandleError, Disconnect, RegisterDisconnect,
       Post
  <2> QED
    BY <2>1, <2>2, <2>3, <2>4, <2>5, <2>6, <2>7, Zenon DEF LifeInv
<1>11. ASSUME NEW t \in Threads, RegisterSendClear(t) PROVE LifeInv'
  BY <1>11, SMT DEF RegisterSendClear, Goto
<1>12. ASSUME NEW t \in Threads, RegisterSendUnflag(t) PROVE LifeInv'
  BY <1>12, SMT DEF RegisterSendUnflag, Return
<1>13. ASSUME NEW t \in Threads, DispatchSend(t) PROVE LifeInv'
  <2>1. ConnectOnce'
    BY <1>13, SMT DEF DispatchSend, Goto, Complete
  <2>2. Fresh'
    BY <1>13, SMT DEF DispatchSend, Goto, Complete
  <2>3. EnteringAlone'
    BY <1>13, SMT DEF DispatchSend, Goto, Complete
  <2>4. OneDisconnect'
    BY <1>13, SMT DEF DispatchSend, Goto, Complete
  <2>5. ServedUntilReleased'
    BY <1>13, SMT DEF DispatchSend, Goto, Complete
  <2>6. SendersInManager'
    BY <1>13, SMT DEF DispatchSend, Goto, Complete
  <2>7. NoCrash'
    BY <1>13, SMT DEF DispatchSend, Goto, Complete
  <2> QED
    BY <2>1, <2>2, <2>3, <2>4, <2>5, <2>6, <2>7, Zenon DEF LifeInv
<1>14. ASSUME NEW t \in Threads, ProcessSend(t) PROVE LifeInv'
  BY <1>14, SMT DEF ProcessSend, Goto
<1>15. ASSUME NEW t \in Threads, ProcessSendZero(t) PROVE LifeInv'
  <2>1. ConnectOnce'
    BY <1>15, SMT DEF ProcessSendZero, Goto, Disconnect, RegisterDisconnect, Post
  <2>2. Fresh'
    BY <1>15, SMT DEF ProcessSendZero, Goto, Disconnect, RegisterDisconnect, Post
  <2>3. EnteringAlone'
    BY <1>15, SMT DEF ProcessSendZero, Goto, Disconnect, RegisterDisconnect, Post
  <2>4. OneDisconnect'
    BY <1>15, SMT DEF ProcessSendZero, Goto, Disconnect, RegisterDisconnect, Post
  <2>5. ServedUntilReleased'
    BY <1>15, SMT DEF ProcessSendZero, Goto, Disconnect, RegisterDisconnect, Post
  <2>6. SendersInManager'
    BY <1>15, SMT DEF ProcessSendZero, Goto, Disconnect, RegisterDisconnect, Post
  <2>7. NoCrash'
    BY <1>15, SMT DEF ProcessSendZero, Goto, Disconnect, RegisterDisconnect, Post
  <2> QED
    BY <2>1, <2>2, <2>3, <2>4, <2>5, <2>6, <2>7, Zenon DEF LifeInv
<1>16. ASSUME NEW t \in Threads, ProcessSendNext(t) PROVE LifeInv'
  <2>1. ConnectOnce'
    BY <1>16, SMT DEF ProcessSendNext, Goto
  <2>2. Fresh'
    BY <1>16, SMT DEF ProcessSendNext, Goto
  <2>3. EnteringAlone'
    BY <1>16, SMT DEF ProcessSendNext, Goto
  <2>4. OneDisconnect'
    BY <1>16, SMT DEF ProcessSendNext, Goto
  <2>5. ServedUntilReleased'
    BY <1>16, SMT DEF ProcessSendNext, Goto
  <2>6. SendersInManager'
    BY <1>16, ProcessSendNextKeepsSenders, Zenon
  <2>7. NoCrash'
    BY <1>16, SMT DEF ProcessSendNext, Goto
  <2> QED
    BY <2>1, <2>2, <2>3, <2>4, <2>5, <2>6, <2>7, Zenon DEF LifeInv
<1>17. ASSUME NEW t \in Threads, DispatchRecv(t) PROVE LifeInv'
  BY <1>17, SMT DEF DispatchRecv, Goto, Complete
<1>18. ASSUME NEW t \in Threads, ProcessRecv(t) PROVE LifeInv'
  BY <1>18, SMT DEF ProcessRecv, Goto
<1>19. ASSUME NEW t \in Threads, ProcessRecvZero(t) PROVE LifeInv'
  BY <1>19, SMT DEF ProcessRecvZero, Goto, Disconnect, RegisterDisconnect, Post
<1>20. ASSUME NEW t \in Threads, RegisterRecv(t) PROVE LifeInv'
  BY <1>20, SMT DEF RegisterRecv, Goto
<1>21. ASSUME NEW t \in Threads, WSARecvPosted(t) PROVE LifeInv'
  BY <1>21, SMT DEF WSARecvPosted, Goto, Post
<1>22. ASSUME NEW t \in Threads, WSARecvFailed(t) PROVE LifeInv'
  <2>1. Goto(t, "wsaRecv", "idle") /\ UNCHANGED <<sendVars, homeVars, holdVars>>
    BY <1>22, Zenon DEF WSARecvFailed
  <2>2. CASE Disconnect
    BY <2>1, <2>2, SMT DEF Goto, Disconnect, RegisterDisconnect, Post
  <2>3. CASE UNCHANGED linkVars
    BY <2>1, <2>3, SMT DEF Goto
  <2> QED
    BY <1>22, <2>2, <2>3, Zenon DEF WSARecvFailed, HandleError
<1>23. ASSUME NEW t \in Threads, DispatchDisconnect(t) PROVE LifeInv'
  BY <1>23, SMT DEF DispatchDisconnect, Goto, Complete
<1>24. ASSUME NEW t \in Threads, OnDisconnected(t) PROVE LifeInv'
  BY <1>24, SMT DEF OnDisconnected, Goto
<1>25. ASSUME NEW t \in Threads, ReleaseSession(t) PROVE LifeInv'
  BY <1>25, SMT DEF ReleaseSession, Goto
<1>26. ASSUME NEW t \in Threads, Connect(t) PROVE LifeInv'
  BY <1>26, SMT DEF Connect, Post
<1>27. CASE UNCHANGED vars
  BY <1>27, SMT DEF vars
<1> QED
  BY <1>1, <1>2, <1>3, <1>4, <1>5, <1>6, <1>7, <1>8, <1>9, <1>10, <1>11, <1>12, <1>13,
     <1>14, <1>15, <1>16, <1>17, <1>18, <1>19, <1>20, <1>21, <1>22, <1>23, <1>24, <1>25,
     <1>26, <1>27, Zenon DEF Next, Step

\* Hence the life of a session is always in order.
LEMMA LifeInvariant == Spec => [](Flags /\ Data /\ LifeInv)
<1>1. Init => Flags /\ Data /\ LifeInv
  BY TypeInit, LifeInit
<1> QED
  BY <1>1, FlagsNext, DataNext, LifeNext, PTL DEF Spec

\* A session is released at most once: the assertion in ReleaseSession never fires.
THEOREM ReleasedOnce == Spec => []NoCrash
<1>1. LifeInv => NoCrash
  BY Zenon DEF LifeInv
<1> QED
  BY <1>1, LifeInvariant, PTL

\* The session leaves the service disconnected, out of its manager, and unsent to.
THEOREM IsReleasedLast == Spec => ReleasedLast
<1> DEFINE Last == inService /\ ~inService' =>
                     ~connected /\ ~inManager /\ \A t \in Threads : ~InSend(t)
<1>1. Flags /\ Data /\ LifeInv /\ [Next]_vars => [Last]_vars
  <2> SUFFICES ASSUME Flags, LifeInv, [Next]_vars, inService, ~inService'
               PROVE  ~connected /\ ~inManager /\ \A t \in Threads : ~InSend(t)
    BY Zenon
  <2>1. ASSUME NEW t \in Threads, ReleaseSession(t)
        PROVE  ~connected /\ ~inManager /\ \A u \in Threads : ~InSend(u)
    BY <2>1, Zenon DEF ReleaseSession, Goto, LifeInv, OneDisconnect, Disconnecting,
       SendersInManager
  <2>2. \E t \in Threads : ReleaseSession(t)
    BY Zenon DEF Next, Step, vars, homeVars, ProcessConnect, AddSession, OnConnected, Greet,
       Send, SendPush, RegisterSendCheck, RegisterSendDrain, WSASendPosted, WSASendFailed,
       RegisterSendClear, RegisterSendUnflag, DispatchSend, ProcessSend, ProcessSendZero,
       ProcessSendNext, DispatchRecv, ProcessRecv, ProcessRecvZero, RegisterRecv,
       WSARecvPosted, WSARecvFailed, DispatchDisconnect, OnDisconnected, Connect
  <2> QED
    BY <2>1, <2>2
<1> QED
  BY <1>1, LifeInvariant, PTL DEF Spec, ReleasedLast

-----------------------------------------------------------------------------
(***************************************************************************)
(* The receive chain, and the owner references of its event and of those   *)
(* of connect and disconnect.  Together with the life of the session these *)
(* are inductive as they stand.                                            *)
(***************************************************************************)
RecvOwner ==
  /\ io["Recv"] > 0 => recvOwner
  /\ recvOwner => io["Recv"] > 0 \/ \E t \in Threads : pc[t] \in {"prOk", "prZero"}

DiscOwner ==
  /\ io["Disconnect"] > 0 => discOwner
  /\ discOwner => io["Disconnect"] > 0 \/ \E t \in Threads : pc[t] = "pdStart"

\* OnConnected, which goes on to the first receive, is inside Send.
Greeting == \A t \in Threads : greeter = t => pc[t] \in {"sendPush"} \cup RegisterSendStates

LoopInv == ReceiveChain /\ RecvOwner /\ DiscOwner /\ Greeting

\* No receive is under way at first.
LEMMA LoopInit == Init => LoopInv
BY SessionAssumption, SMT DEF Init, LoopInv, ReceiveChain, InRecv, RecvStates, RecvOwner,
   DiscOwner, Greeting,
   EventTypes

\* A step that leaves the receives to those who have them keeps the chain.
LEMMA KeepsChain ==
  ASSUME Data, ReceiveChain,
         \A t \in Threads : InRecv(t)' <=> InRecv(t),
         io'["Recv"] = io["Recv"],
         connected' => connected,
         recvFailed' <=> recvFailed
  PROVE  ReceiveChain'
BY SMT DEF ReceiveChain

\* Leaving Send or RegisterSend, OnConnected goes on to the first receive.
LEMMA ReturnKeepsRecv ==
  ASSUME Data, NEW t \in Threads, pc[t] \in {"sendPush"} \cup RegisterSendStates, Return(t)
  PROVE  \A u \in Threads : InRecv(u)' <=> InRecv(u)
BY SessionAssumption, SMT DEF Data, Return, InRecv, RecvStates, RegisterSendStates

\* Every step keeps the chain and the references.
LEMMA LoopNext == Flags /\ Data /\ LifeInv /\ LoopInv /\ [Next]_vars => LoopInv'
<1> SUFFICES ASSUME Flags, Data, LifeInv, LoopInv, [Next]_vars PROVE LoopInv'
  OBVIOUS
<1>0. Fresh /\ ConnectOnce /\ OneDisconnect
  BY Zenon DEF LifeInv
<1> USE <1>0 DEF Flags, Data, LoopInv, ReceiveChain, InRecv, RecvStates, RecvOwner,
   DiscOwner, Greeting, RegisterSendStates, sendVars, recvVars, linkVars, homeVars,
   holdVars, EventTypes
<1>1. ASSUME NEW t \in Threads, ProcessConnect(t) PROVE LoopInv'
  <2>1. io["Recv"] = 0 /\ greeter = NoThread /\ \A u \in Threads : pc[u] = "idle"
    BY <1>1, SMT DEF ProcessConnect, Complete, ConnectOnce, Fresh, Quiet
  <2>2. /\ pc' = [pc EXCEPT ![t] = "addSession"]
        /\ greeter' = NoThread
        /\ io'["Recv"] = 0 /\ io'["Disconnect"] = io["Disconnect"]
        /\ UNCHANGED <<recvOwner, discOwner>>
    BY <1>1, <2>1, SMT DEF ProcessConnect, Complete, Goto
  <2>3. \A u \in Threads : InRecv(u)' <=> u = t
    BY <2>1, <2>2, SessionAssumption, SMT
  <2>4. ReceiveChain'
    BY <2>2, <2>3, SMT
  <2>5. RecvOwner' /\ DiscOwner' /\ Greeting'
    BY <2>1, <2>2, SessionAssumption, SMT
  <2> QED
    BY <2>4, <2>5, Zenon DEF LoopInv
<1>2. ASSUME NEW t \in Threads, AddSession(t) PROVE LoopInv'
  BY <1>2, SMT DEF AddSession, Goto
<1>3. ASSUME NEW t \in Threads, OnConnected(t) PROVE LoopInv'
  BY <1>3, SMT DEF OnConnected, Goto
<1>4. ASSUME NEW t \in Threads, Greet(t) PROVE LoopInv'
  <2>1. UNCHANGED <<io, connected, recvFailed, recvOwner, discOwner>> /\ pc[t] = "greet"
    BY <1>4, Zenon DEF Greet, Goto
  <2>2. greeter # t /\ InRecv(t)
    BY <2>1, SMT
  <2>3. CASE Goto(t, "greet", "sendPush") /\ greeter' = t
    <3>1. \A u \in Threads : InRecv(u)' <=> InRecv(u)
      BY <2>2, <2>3, SMT DEF Goto
    <3>2. ReceiveChain'
      BY <2>1, <3>1, KeepsChain, Zenon
    <3>3. RecvOwner' /\ DiscOwner' /\ Greeting'
      BY <2>1, <2>3, SMT DEF Goto
    <3> QED
      BY <3>2, <3>3, Zenon DEF LoopInv
  <2>4. CASE Goto(t, "greet", "rrCheck") /\ UNCHANGED greeter
    BY <2>1, <2>2, <2>4, SMT DEF Goto
  <2> QED
    BY <1>4, <2>3, <2>4, Zenon DEF Greet
<1>5. ASSUME NEW t \in Threads, Send(t) PROVE LoopInv'
  BY <1>5, SMT DEF Send, Goto
<1>6. ASSUME NEW t \in Threads, SendPush(t) PROVE LoopInv'
  <2>1. UNCHANGED <<io, connected, recvFailed, recvOwner, discOwner>> /\ pc[t] = "sendPush"
    BY <1>6, Zenon DEF SendPush
  <2>2. CASE Return(t)
    <3>1. \A u \in Threads : InRecv(u)' <=> InRecv(u)
      BY <2>1, <2>2, ReturnKeepsRecv, Zenon
    <3>2. ReceiveChain'
      BY <2>1, <3>1, KeepsChain, Zenon
    <3>3. RecvOwner' /\ DiscOwner' /\ Greeting'
      BY <2>1, <2>2, SessionAssumption, SMT DEF Return
    <3> QED
      BY <3>2, <3>3, Zenon DEF LoopInv
  <2>3. CASE pc' = [pc EXCEPT ![t] = "rsCheck"] /\ UNCHANGED holdVars
    BY <2>1, <2>3, SMT
  <2> QED
    BY <1>6, <2>2, <2>3, Zenon DEF SendPush
<1>7. ASSUME NEW t \in Threads, RegisterSendCheck(t) PROVE LoopInv'
  <2>1. UNCHANGED <<io, connected, recvFailed, recvOwner, discOwner>> /\ pc[t] = "rsCheck"
    BY <1>7, Zenon DEF RegisterSendCheck, Goto
  <2>2. CASE Return(t)
    <3>1. \A u \in Threads : InRecv(u)' <=> InRecv(u)
      BY <2>1, <2>2, ReturnKeepsRecv, SMT
    <3>2. ReceiveChain'
      BY <2>1, <3>1, KeepsChain, Zenon
    <3>3. RecvOwner' /\ DiscOwner' /\ Greeting'
      BY <2>1, <2>2, SessionAssumption, SMT DEF Return
    <3> QED
      BY <3>2, <3>3, Zenon DEF LoopInv
  <2>3. CASE Goto(t, "rsCheck", "rsDrain") /\ UNCHANGED holdVars
    BY <2>1, <2>3, SMT DEF Goto
  <2> QED
    BY <1>7, <2>2, <2>3, Zenon DEF RegisterSendCheck
<1>8. ASSUME NEW t \in Threads, RegisterSendDrain(t) PROVE LoopInv'
  BY <1>8, SMT DEF RegisterSendDrain, Goto
<1>9. ASSUME NEW t \in Threads, WSASendPosted(t) PROVE LoopInv'
  <2>1. /\ UNCHANGED <<connected, recvFailed, recvOwner, discOwner>>
        /\ pc[t] = "wsaSend" /\ Return(t)
        /\ io'["Recv"] = io["Recv"] /\ io'["Disconnect"] = io["Disconnect"]
    BY <1>9, SMT DEF WSASendPosted, Post
  <2>2. \A u \in Threads : InRecv(u)' <=> InRecv(u)
    BY <2>1, ReturnKeepsRecv, SMT
  <2>3. ReceiveChain'
    BY <2>1, <2>2, KeepsChain, Zenon
  <2>4. RecvOwner' /\ DiscOwner' /\ Greeting'
    BY <2>1, SessionAssumption, SMT DEF Return
  <2> QED
    BY <2>3, <2>4, Zenon DEF LoopInv
<1>10. ASSUME NEW t \in Threads, WSASendFailed(t) PROVE LoopInv'
  BY <1>10, SMT DEF WSASendFailed, Goto, HandleError, Disconnect, RegisterDisconnect,
     Post, OneDisconnect
<1>11. ASSUME NEW t \in Threads, RegisterSendClear(t) PROVE LoopInv'
  BY <1>11, SMT DEF RegisterSendClear, Goto
<1>12. ASSUME NEW t \in Threads, RegisterSendUnflag(t) PROVE LoopInv'
  <2>1. UNCHANGED <<io, connected, recvFailed, recvOwner, discOwner>> /\ pc[t] = "rsUnflag"
        /\ Return(t)
    BY <1>12, Zenon DEF RegisterSendUnflag
  <2>2. \A u \in Threads : InRecv(u)' <=> InRecv(u)
    BY <2>1, ReturnKeepsRecv, SMT
  <2>3. ReceiveChain'
    BY <2>1, <2>2, KeepsChain, Zenon
  <2>4. RecvOwner' /\ DiscOwner' /\ Greeting'
    BY <2>1, SessionAssumption, SMT DEF Return
  <2> QED
    BY <2>3, <2>4, Zenon DEF LoopInv
<1>13. ASSUME NEW t \in Threads, DispatchSend(t) PROVE LoopInv'
  BY <1>13, SMTT(30) DEF DispatchSend, Goto, Complete
<1>14. ASSUME NEW t \in Threads, ProcessSend(t) PROVE LoopInv'
  BY <1>14, SMT DEF ProcessSend, Goto
<1>15. ASSUME NEW t \in Threads, ProcessSendZero(t) PROVE LoopInv'
  BY <1>15, SMT DEF ProcessSendZero, Goto, Disconnect, RegisterDisconnect, Post,
     OneDisconnect
<1>16. ASSUME NEW t \in Threads, ProcessSendNext(t) PROVE LoopInv'
  BY <1>16, SMT DEF ProcessSendNext, Goto
<1>17. ASSUME NEW t \in Threads, DispatchRecv(t) PROVE LoopInv'
  <2>1. /\ UNCHANGED <<connected, recvFailed, recvOwner, discOwner, greeter>>
        /\ pc[t] = "idle"
        /\ io["Recv"] = 1 /\ \A u \in Threads : ~InRecv(u)
        /\ io'["Recv"] = 0 /\ io'["Disconnect"] = io["Disconnect"]
    BY <1>17, SMT DEF DispatchRecv, Goto, Complete
  <2>2. CASE Goto(t, "idle", "prOk")
    BY <2>1, <2>2, SMT DEF Goto
  <2>3. CASE Goto(t, "idle", "prZero")
    BY <2>1, <2>3, SMT DEF Goto
  <2> QED
    BY <1>17, <2>2, <2>3, Zenon DEF DispatchRecv
<1>18. ASSUME NEW t \in Threads, ProcessRecv(t) PROVE LoopInv'
  BY <1>18, SMT DEF ProcessRecv, Goto
<1>19. ASSUME NEW t \in Threads, ProcessRecvZero(t) PROVE LoopInv'
  BY <1>19, SMT DEF ProcessRecvZero, Goto, Disconnect, RegisterDisconnect, Post,
     OneDisconnect
<1>20. ASSUME NEW t \in Threads, RegisterRecv(t) PROVE LoopInv'
  <2>1. UNCHANGED <<io, connected, recvFailed, recvOwner, discOwner, greeter>>
        /\ pc[t] = "rrCheck"
    BY <1>20, Zenon DEF RegisterRecv, Goto
  <2>2. CASE connected /\ Goto(t, "rrCheck", "wsaRecv")
    BY <2>1, <2>2, SMT DEF Goto
  <2>3. CASE ~connected /\ Goto(t, "rrCheck", "idle")
    BY <2>1, <2>3, SMT DEF Goto
  <2> QED
    BY <1>20, <2>2, <2>3, Zenon DEF RegisterRecv
<1>21. ASSUME NEW t \in Threads, WSARecvPosted(t) PROVE LoopInv'
  <2>1. io["Recv"] = 0 /\ greeter # t /\ \A u \in Threads : InRecv(u) => u = t
    BY <1>21, SMT DEF WSARecvPosted, Goto
  <2>2. /\ pc' = [pc EXCEPT ![t] = "idle"] /\ pc[t] = "wsaRecv"
        /\ io'["Recv"] = 1 /\ io'["Disconnect"] = io["Disconnect"]
        /\ recvOwner' /\ UNCHANGED <<connected, discOwner, recvFailed, greeter>>
    BY <1>21, <2>1, SMT DEF WSARecvPosted, Goto, Post
  <2>3. \A u \in Threads : ~InRecv(u)'
    BY <2>1, <2>2, SMT
  <2> QED
    BY <2>2, <2>3, SMT
<1>22. ASSUME NEW t \in Threads, WSARecvFailed(t) PROVE LoopInv'
  BY <1>22, SMT DEF WSARecvFailed, Goto, HandleError, Disconnect, RegisterDisconnect,
     Post, OneDisconnect
<1>23. ASSUME NEW t \in Threads, DispatchDisconnect(t) PROVE LoopInv'
  BY <1>23, SMT DEF DispatchDisconnect, Goto, Complete, OneDisconnect, Disconnecting
<1>24. ASSUME NEW t \in Threads, OnDisconnected(t) PROVE LoopInv'
  BY <1>24, SMT DEF OnDisconnected, Goto, OneDisconnect, Disconnecting
<1>25. ASSUME NEW t \in Threads, ReleaseSession(t) PROVE LoopInv'
  BY <1>25, SMT DEF ReleaseSession, Goto
<1>26. ASSUME NEW t \in Threads, Connect(t) PROVE LoopInv'
  BY <1>26, SMT DEF Connect, Post
<1>27. CASE UNCHANGED vars
  BY <1>27, SMT DEF vars
<1> QED
  BY <1>1, <1>2, <1>3, <1>4, <1>5, <1>6, <1>7, <1>8, <1>9, <1>10, <1>11, <1>12, <1>13,
     <1>14, <1>15, <1>16, <1>17, <1>18, <1>19, <1>20, <1>21, <1>22, <1>23, <1>24, <1>25,
     <1>26, <1>27, Zenon DEF Next, Step

\* Hence the receive chain is always in order.
LEMMA LoopInvariant == Spec => []LoopInv
BY LifeInvariant, LoopInit, LoopNext, PTL DEF Spec

\* The receive chain never branches, and breaks only when a WSARecv fails with an
\* error HandleError does nothing about.
THEOREM ReceivesAreChained == Spec => []ReceiveChain
<1>1. LoopInv => ReceiveChain
  BY Zenon DEF LoopInv
<1> QED
  BY <1>1, LoopInvariant, PTL


-----------------------------------------------------------------------------
(***************************************************************************)
(* What is true of _sendEvent, the queue and the flag where a thread       *)
(* stands.  SendEventExclusive makes these invariants: whoever stands in   *)
(* one of the places has the event to itself.                              *)
(***************************************************************************)

\* Nothing has been sent before the session is opened.
Unsent == ~opened => ~sendRegistered /\ sendQueue = <<>>

\* Buffers are dropped only after a fault.
Faults == \A t \in Threads : pc[t] \in {"rsClear", "rsUnflag", "psZero"} => sendFailed

OwnerStages ==
  /\ \A t \in Threads :
       pc[t] \in {"psLock", "rsCheck", "rsDrain", "rsUnflag"} => ~sendEvent.owner
  /\ \A t \in Threads : pc[t] = "wsaSend" => sendEvent.owner
  /\ sendEvent.owner => SendEventInUse
  /\ io["Send"] > 0 => sendEvent.owner

QueueStages ==
  /\ \A t \in Threads : pc[t] \in {"rsCheck", "rsDrain"} => sendQueue # <<>>
  /\ NoEmptyWSASend

SendInv == Unsent /\ Faults /\ OwnerStages /\ QueueStages /\ NoLostWakeup

\* Nothing is queued or under way at first.
LEMMA SendInit == Init => SendInv
BY SMT DEF Init, SendInv, Unsent, Faults, OwnerStages, QueueStages, NoEmptyWSASend, NoLostWakeup,
   SendEventInUse, SendEventStates, RegisterSendStates, EventTypes

\* What a thread pushes is in the queue.
LEMMA AppendNotEmpty ==
  ASSUME NEW q \in Seq(Nat), NEW n \in Nat
  PROVE  Append(q, n) # <<>>
OBVIOUS

\* What Send's critical section leaves behind.
LEMMA SendPushFrame ==
  ASSUME Data, NEW t \in Threads, SendPush(t)
  PROVE  /\ sendQueue' # <<>>
         /\ UNCHANGED <<sendEvent, sendFailed, connected, io, opened>>
<1>1. pushed + 1 \in Nat /\ sendQueue \in Seq(Nat)
  BY SMT DEF Data
<1>2. sendQueue' = Append(sendQueue, pushed + 1)
  BY Zenon DEF SendPush
<1> QED
  BY <1>1, <1>2, AppendNotEmpty, Zenon DEF SendPush, linkVars, homeVars

\* What the last lines of ProcessSend leave alone.
LEMMA ProcessSendNextFrame ==
  ASSUME NEW t \in Threads, ProcessSendNext(t)
  PROVE  UNCHANGED <<sendQueue, sendEvent, sendFailed, connected, io, opened>>
BY Zenon DEF ProcessSendNext, linkVars, homeVars

\* Every step keeps them true.
LEMMA SendNext ==
  Flags /\ Data /\ LifeInv /\ SendEventExclusive /\ SendInv /\ [Next]_vars => SendInv'
<1> SUFFICES ASSUME Flags, Data, LifeInv, SendEventExclusive, SendInv, [Next]_vars
             PROVE  SendInv'
  OBVIOUS
<1>0. Fresh /\ ConnectOnce
  BY Zenon DEF LifeInv
<1> USE <1>0 DEF Flags, Data, SendEventExclusive, SendInv, Unsent, Faults, OwnerStages,
   QueueStages, NoEmptyWSASend, NoLostWakeup, SendEventInUse, SendEventStates,
   RegisterSendStates, sendVars, recvVars, linkVars, homeVars, holdVars, EventTypes
<1>1. ASSUME NEW t \in Threads, ProcessConnect(t) PROVE SendInv'
  BY <1>1, SMT DEF ProcessConnect, Goto, Complete, Fresh, Quiet, ConnectOnce
<1>2. ASSUME NEW t \in Threads, AddSession(t) PROVE SendInv'
  BY <1>2, SMT DEF AddSession, Goto, Fresh
<1>3. ASSUME NEW t \in Threads, OnConnected(t) PROVE SendInv'
  BY <1>3, SMTT(30) DEF OnConnected, Goto, Fresh
<1>4. ASSUME NEW t \in Threads, Greet(t) PROVE SendInv'
  BY <1>4, SMT DEF Greet, Goto, Fresh
<1>5. ASSUME NEW t \in Threads, Send(t) PROVE SendInv'
  BY <1>5, SMT DEF Send, Goto, Fresh
<1>6. ASSUME NEW t \in Threads, SendPush(t) PROVE SendInv'
  <2>1. /\ sendQueue' # <<>>
        /\ UNCHANGED <<sendEvent, sendFailed, connected, io, opened>>
    BY <1>6, SendPushFrame
  <2>2. pc[t] = "sendPush" /\ opened /\ sendRegistered' = TRUE
    BY <1>6, SMT DEF SendPush, Fresh
  <2>3. CASE sendRegistered /\ Return(t)
    BY <2>1, <2>2, <2>3, SMT DEF Return
  <2>4. CASE ~sendRegistered /\ pc' = [pc EXCEPT ![t] = "rsCheck"]
    BY <2>1, <2>2, <2>4, SMT
  <2> QED
    BY <1>6, <2>3, <2>4, Zenon DEF SendPush
<1>7. ASSUME NEW t \in Threads, RegisterSendCheck(t) PROVE SendInv'
  BY <1>7, SMT DEF RegisterSendCheck, Goto, Return, Fresh
<1>8. ASSUME NEW t \in Threads, RegisterSendDrain(t) PROVE SendInv'
  BY <1>8, SMT DEF RegisterSendDrain, Goto, Fresh
<1>9. ASSUME NEW t \in Threads, WSASendPosted(t) PROVE SendInv'
  BY <1>9, SMT DEF WSASendPosted, Post, Return, Fresh
<1>10. ASSUME NEW t \in Threads, WSASendFailed(t) PROVE SendInv'
  BY <1>10, SMT DEF WSASendFailed, Goto, HandleError, Disconnect, RegisterDisconnect,
     Post, Fresh
<1>11. ASSUME NEW t \in Threads, RegisterSendClear(t) PROVE SendInv'
  BY <1>11, SMT DEF RegisterSendClear, Goto, Fresh
<1>12. ASSUME NEW t \in Threads, RegisterSendUnflag(t) PROVE SendInv'
  BY <1>12, SMT DEF RegisterSendUnflag, Return, Fresh
<1>13. ASSUME NEW t \in Threads, DispatchSend(t) PROVE SendInv'
  BY <1>13, SMT DEF DispatchSend, Goto, Complete, Fresh
<1>14. ASSUME NEW t \in Threads, ProcessSend(t) PROVE SendInv'
  BY <1>14, SMT DEF ProcessSend, Goto, Fresh
<1>15. ASSUME NEW t \in Threads, ProcessSendZero(t) PROVE SendInv'
  BY <1>15, SMT DEF ProcessSendZero, Goto, Disconnect, RegisterDisconnect, Post, Fresh
<1>16. ASSUME NEW t \in Threads, ProcessSendNext(t) PROVE SendInv'
  <2>1. UNCHANGED <<sendQueue, sendEvent, sendFailed, connected, io, opened>>
    BY <1>16, ProcessSendNextFrame
  <2>2. CASE sendQueue = <<>> /\ Goto(t, "psLock", "idle") /\ sendRegistered' = FALSE
    BY <2>1, <2>2, SMT DEF Goto
  <2>3. CASE sendQueue # <<>> /\ Goto(t, "psLock", "rsCheck") /\ UNCHANGED sendRegistered
    BY <2>1, <2>3, SMT DEF Goto
  <2> QED
    BY <1>16, <2>2, <2>3, Zenon DEF ProcessSendNext
<1>17. ASSUME NEW t \in Threads, DispatchRecv(t) PROVE SendInv'
  BY <1>17, SMTT(30) DEF DispatchRecv, Goto, Complete, Fresh
<1>18. ASSUME NEW t \in Threads, ProcessRecv(t) PROVE SendInv'
  BY <1>18, SMT DEF ProcessRecv, Goto, Fresh
<1>19. ASSUME NEW t \in Threads, ProcessRecvZero(t) PROVE SendInv'
  BY <1>19, SMT DEF ProcessRecvZero, Goto, Disconnect, RegisterDisconnect, Post, Fresh
<1>20. ASSUME NEW t \in Threads, RegisterRecv(t) PROVE SendInv'
  <2>1. /\ pc[t] = "rrCheck" /\ \E to \in {"wsaRecv", "idle"} : pc' = [pc EXCEPT ![t] = to]
        /\ UNCHANGED <<sendVars, recvVars, linkVars, homeVars, holdVars>>
    BY <1>20, Zenon DEF RegisterRecv, Goto
  <2> QED
    BY <2>1, SMT DEF Fresh
<1>21. ASSUME NEW t \in Threads, WSARecvPosted(t) PROVE SendInv'
  BY <1>21, SMT DEF WSARecvPosted, Goto, Post, Fresh
<1>22. ASSUME NEW t \in Threads, WSARecvFailed(t) PROVE SendInv'
  BY <1>22, SMT DEF WSARecvFailed, Goto, HandleError, Disconnect, RegisterDisconnect,
     Post, Fresh
<1>23. ASSUME NEW t \in Threads, DispatchDisconnect(t) PROVE SendInv'
  BY <1>23, SMT DEF DispatchDisconnect, Goto, Complete, Fresh
<1>24. ASSUME NEW t \in Threads, OnDisconnected(t) PROVE SendInv'
  BY <1>24, SMT DEF OnDisconnected, Goto, Fresh
<1>25. ASSUME NEW t \in Threads, ReleaseSession(t) PROVE SendInv'
  BY <1>25, SMT DEF ReleaseSession, Goto, Fresh
<1>26. ASSUME NEW t \in Threads, Connect(t) PROVE SendInv'
  BY <1>26, SMT DEF Connect, Post
<1>27. CASE UNCHANGED vars
  BY <1>27, SMT DEF vars
<1> QED
  BY <1>1, <1>2, <1>3, <1>4, <1>5, <1>6, <1>7, <1>8, <1>9, <1>10, <1>11, <1>12, <1>13,
     <1>14, <1>15, <1>16, <1>17, <1>18, <1>19, <1>20, <1>21, <1>22, <1>23, <1>24, <1>25,
     <1>26, <1>27, Zenon DEF Next, Step

\* Hence the send side is always in order.
LEMMA SendInvariant == Spec => [](SendEventExclusive /\ SendInv)
BY LifeInvariant, SendEventIsExclusive, SendInit, SendNext, PTL DEF Spec

-----------------------------------------------------------------------------
\* RegisterSend never calls WSASend with nothing to send.
THEOREM WSASendHasBuffers == Spec => []NoEmptyWSASend
<1>1. SendInv => NoEmptyWSASend
  BY Zenon DEF SendInv, QueueStages
<1> QED
  BY <1>1, SendInvariant, PTL

\* The flag is up only while somebody is at work on a send, and without a fault it is
\* up while a buffer is queued.
THEOREM WakeupsAreNotLost == Spec => []NoLostWakeup
<1>1. SendInv => NoLostWakeup
  BY Zenon DEF SendInv
<1> QED
  BY <1>1, SendInvariant, PTL

\* The kernel never holds an operation whose event has lost its owner.
THEOREM PendingIoIsOwned == Spec => []PendingIoHoldsSession
<1>1. Data /\ LifeInv /\ LoopInv /\ SendInv => PendingIoHoldsSession
  BY SMT DEF Data, LifeInv, ConnectOnce, LoopInv, RecvOwner, DiscOwner, SendInv, OwnerStages,
     PendingIoHoldsSession, EventTypes
<1> QED
  BY <1>1, LifeInvariant, LoopInvariant, SendInvariant, PTL

\* No event that is at rest keeps the session alive.
THEOREM IdleEventsOwnNothing == Spec => []NoReferenceCycle
<1>1. LifeInv /\ LoopInv /\ SendInv => NoReferenceCycle
  BY SMT DEF LifeInv, ConnectOnce, LoopInv, RecvOwner, DiscOwner, SendInv, OwnerStages,
     NoReferenceCycle
<1> QED
  BY <1>1, LifeInvariant, LoopInvariant, SendInvariant, PTL

-----------------------------------------------------------------------------
(***************************************************************************)
(* The refinement.  What a thread does to the pending buffers is to append *)
(* one, to move the queue behind the batch of _sendEvent, or to take that  *)
(* batch away, sent or lost.                                               *)
(***************************************************************************)

\* A batch is the beginning of what is pending, and the queue is the rest.
LEMMA BatchThenQueue ==
  ASSUME NEW b \in Seq(Nat), NEW q \in Seq(Nat)
  PROVE  /\ Len(b) \in 0 .. Len(b \o q)
         /\ SubSeq(b \o q, 1, Len(b)) = b
         /\ SubSeq(b \o q, Len(b) + 1, Len(b \o q)) = q
         /\ <<>> \o q = q
<1>1. Len(b) \in Nat /\ Len(q) \in Nat /\ Len(b \o q) = Len(b) + Len(q)
  BY ConcatProperties, SMT
<1>2. SubSeq(b \o q, 1, Len(b)) = b
  <2>1. CASE Len(b) = 0
    BY <1>1, <2>1, SubSeqEmpty, EmptySeq, SMT
  <2>2. CASE Len(b) > 0
    BY <1>1, <2>2, SubSeqOfConcat1, SubSeqFull, SMT
  <2> QED
    BY <1>1, <2>1, <2>2, SMT
<1>3. SubSeq(b \o q, Len(b) + 1, Len(b \o q)) = q
  <2>1. CASE Len(q) = 0
    BY <1>1, <2>1, SubSeqEmpty, EmptySeq, SMT
  <2>2. CASE Len(q) > 0
    BY <1>1, <2>2, SubSeqOfConcat2, SubSeqFull, SMT
  <2> QED
    BY <1>1, <2>1, <2>2, SMT
<1> QED
  BY <1>1, <1>2, <1>3, ConcatEmptySeq, SMT

\* A buffer appended to the queue is appended to what is pending.
LEMMA AppendIsPending ==
  ASSUME NEW b \in Seq(Nat), NEW q \in Seq(Nat), NEW n \in Nat
  PROVE  b \o Append(q, n) = Append(b \o q, n)
<1>1. b \o q \in Seq(Nat) /\ <<n>> \in Seq(Nat)
  BY ConcatProperties, SMT
<1>2. b \o (q \o <<n>>) = (b \o q) \o <<n>>
  BY <1>1, ConcatAssociative
<1> QED
  BY <1>1, <1>2, AppendIsConcat, Zenon

\* The buffers in _sendEvent and those in the queue.
LEMMA SendBuffersType ==
  Data => sendEvent.bufs \in Seq(Nat) /\ sendQueue \in Seq(Nat) /\ pushed + 1 \in Nat
BY SMT DEF Data

\* A step that leaves the send side alone is no step of the channel.
LEMMA ChannelStutters ==
  UNCHANGED <<sendQueue, sendEvent, pushed, sent, sendFailed>> => UNCHANGED Channel!vars
BY Zenon DEF Channel!vars

\* The critical section of Send accepts a buffer.
LEMMA SendPushAccepts == ASSUME Data, NEW t \in Threads, SendPush(t) PROVE Channel!Accept
<1>1. sendEvent.bufs \o Append(sendQueue, pushed + 1)
        = Append(sendEvent.bufs \o sendQueue, pushed + 1)
  BY SendBuffersType, AppendIsPending, Zenon
<1> QED
  BY <1>1, Zenon DEF SendPush, Channel!Accept

\* Draining the queue into _sendEvent changes nothing for the callers.
LEMMA DrainStutters ==
  ASSUME Data, NEW t \in Threads, RegisterSendDrain(t) PROVE UNCHANGED Channel!vars
<1>1. sendEvent.bufs \o sendQueue \in Seq(Nat)
  BY SendBuffersType, ConcatProperties, Zenon
<1>2. (sendEvent.bufs \o sendQueue) \o <<>> = sendEvent.bufs \o sendQueue
  BY <1>1, ConcatEmptySeq, Zenon
<1>3. sendEvent'.bufs = sendEvent.bufs \o sendQueue /\ sendQueue' = <<>>
  BY SMT DEF RegisterSendDrain
<1> QED
  BY <1>2, <1>3, Zenon DEF RegisterSendDrain, Channel!vars

\* Emptying _sendEvent leaves the queue.
LEMMA BatchGone ==
  ASSUME Data, sendEvent' = [owner |-> FALSE, bufs |-> <<>>], UNCHANGED sendQueue
  PROVE  \E k \in 0 .. Len(sendEvent.bufs \o sendQueue) :
           /\ SubSeq(sendEvent.bufs \o sendQueue, 1, k) = sendEvent.bufs
           /\ sendEvent'.bufs \o sendQueue'
                 = SubSeq(sendEvent.bufs \o sendQueue, k + 1,
                          Len(sendEvent.bufs \o sendQueue))
<1>1. sendEvent'.bufs = <<>>
  BY SMT
<1>2. sendEvent'.bufs \o sendQueue' = sendQueue
  BY <1>1, SendBuffersType, BatchThenQueue, Zenon
<1>3. /\ Len(sendEvent.bufs) \in 0 .. Len(sendEvent.bufs \o sendQueue)
      /\ SubSeq(sendEvent.bufs \o sendQueue, 1, Len(sendEvent.bufs)) = sendEvent.bufs
      /\ SubSeq(sendEvent.bufs \o sendQueue, Len(sendEvent.bufs) + 1,
                Len(sendEvent.bufs \o sendQueue)) = sendQueue
  BY SendBuffersType, BatchThenQueue
<1> WITNESS Len(sendEvent.bufs) \in 0 .. Len(sendEvent.bufs \o sendQueue)
<1> QED
  BY <1>2, <1>3, Zenon

\* The completion of a send delivers the batch.
LEMMA ProcessSendDelivers ==
  ASSUME Data, NEW t \in Threads, ProcessSend(t) PROVE Channel!Deliver
<1>1. /\ sendEvent' = [owner |-> FALSE, bufs |-> <<>>]
      /\ sent' = sent \o sendEvent.bufs
      /\ UNCHANGED <<sendQueue, pushed, sendFailed>>
  BY Zenon DEF ProcessSend
<1> QED
  BY <1>1, BatchGone, Zenon DEF Channel!Deliver

\* After a failed send the batch is lost.
LEMMA ErrorLoses ==
  ASSUME Data, sendFailed = TRUE, sendEvent' = [owner |-> FALSE, bufs |-> <<>>],
         UNCHANGED <<sendQueue, pushed, sent, sendFailed>>
  PROVE  Channel!Lose
BY BatchGone, Zenon DEF Channel!Lose

\* Every step of the session is a step of the channel, or none.
LEMMA StepImplements ==
  Flags /\ Data /\ SendInv /\ [Next]_vars => Channel!Next \/ UNCHANGED Channel!vars
<1> SUFFICES ASSUME Flags, Data, SendInv, [Next]_vars
             PROVE  Channel!Next \/ UNCHANGED Channel!vars
  OBVIOUS
<1> DEFINE Goal == Channel!Next \/ UNCHANGED Channel!vars
<1>1. ASSUME NEW t \in Threads, SendPush(t) PROVE Goal
  BY <1>1, SendPushAccepts, Zenon DEF Channel!Next
<1>2. ASSUME NEW t \in Threads, RegisterSendDrain(t) PROVE Goal
  BY <1>2, DrainStutters, Zenon
<1>3. ASSUME NEW t \in Threads, WSASendFailed(t) PROVE Goal
  BY <1>3, Zenon DEF WSASendFailed, Channel!Next, Channel!Fault
<1>4. ASSUME NEW t \in Threads, DispatchSend(t) PROVE Goal
  BY <1>4, Zenon DEF DispatchSend, Channel!vars, Channel!Next, Channel!Fault
<1>5. ASSUME NEW t \in Threads, RegisterSendClear(t) PROVE Goal
  <2>1. sendFailed = TRUE
    BY <1>5, SMT DEF RegisterSendClear, Goto, SendInv, Faults, Flags
  <2>2. Channel!Lose
    BY <1>5, <2>1, ErrorLoses, Zenon DEF RegisterSendClear
  <2> QED
    BY <2>2, Zenon DEF Channel!Next
<1>6. ASSUME NEW t \in Threads, ProcessSendZero(t) PROVE Goal
  <2>1. sendFailed = TRUE
    BY <1>6, SMT DEF ProcessSendZero, Goto, SendInv, Faults, Flags
  <2>2. Channel!Lose
    BY <1>6, <2>1, ErrorLoses, Zenon DEF ProcessSendZero
  <2> QED
    BY <2>2, Zenon DEF Channel!Next
<1>7. ASSUME NEW t \in Threads, ProcessSend(t) PROVE Goal
  BY <1>7, ProcessSendDelivers, Zenon DEF Channel!Next
<1>8. ASSUME NEW t \in Threads, AddSession(t) PROVE Goal
  BY <1>8, ChannelStutters, Zenon DEF AddSession, sendVars
<1>9. ASSUME NEW t \in Threads, OnConnected(t) PROVE Goal
  BY <1>9, ChannelStutters, Zenon DEF OnConnected, sendVars
<1>10. ASSUME NEW t \in Threads, Greet(t) PROVE Goal
  BY <1>10, ChannelStutters, Zenon DEF Greet, sendVars
<1>11. ASSUME NEW t \in Threads, Send(t) PROVE Goal
  BY <1>11, ChannelStutters, Zenon DEF Send, sendVars
<1>12. ASSUME NEW t \in Threads, RegisterSendCheck(t) PROVE Goal
  BY <1>12, ChannelStutters, Zenon DEF RegisterSendCheck, sendVars
<1>13. ASSUME NEW t \in Threads, WSASendPosted(t) PROVE Goal
  BY <1>13, ChannelStutters, Zenon DEF WSASendPosted, sendVars
<1>14. ASSUME NEW t \in Threads, RegisterSendUnflag(t) PROVE Goal
  BY <1>14, ChannelStutters, Zenon DEF RegisterSendUnflag, sendVars
<1>15. ASSUME NEW t \in Threads, ProcessSendNext(t) PROVE Goal
  BY <1>15, ChannelStutters, Zenon DEF ProcessSendNext, sendVars
<1>16. ASSUME NEW t \in Threads, DispatchRecv(t) PROVE Goal
  BY <1>16, ChannelStutters, Zenon DEF DispatchRecv, sendVars
<1>17. ASSUME NEW t \in Threads, ProcessRecv(t) PROVE Goal
  BY <1>17, ChannelStutters, Zenon DEF ProcessRecv, sendVars
<1>18. ASSUME NEW t \in Threads, ProcessRecvZero(t) PROVE Goal
  BY <1>18, ChannelStutters, Zenon DEF ProcessRecvZero, sendVars
<1>19. ASSUME NEW t \in Threads, RegisterRecv(t) PROVE Goal
  BY <1>19, ChannelStutters, Zenon DEF RegisterRecv, sendVars
<1>20. ASSUME NEW t \in Threads, WSARecvPosted(t) PROVE Goal
  BY <1>20, ChannelStutters, Zenon DEF WSARecvPosted, sendVars
<1>21. ASSUME NEW t \in Threads, WSARecvFailed(t) PROVE Goal
  BY <1>21, ChannelStutters, Zenon DEF WSARecvFailed, sendVars
<1>22. ASSUME NEW t \in Threads, DispatchDisconnect(t) PROVE Goal
  BY <1>22, ChannelStutters, Zenon DEF DispatchDisconnect, sendVars
<1>23. ASSUME NEW t \in Threads, OnDisconnected(t) PROVE Goal
  BY <1>23, ChannelStutters, Zenon DEF OnDisconnected, sendVars
<1>24. ASSUME NEW t \in Threads, ReleaseSession(t) PROVE Goal
  BY <1>24, ChannelStutters, Zenon DEF ReleaseSession, sendVars
<1>25. ASSUME NEW t \in Threads, Connect(t) PROVE Goal
  BY <1>25, ChannelStutters, Zenon DEF Connect, sendVars
<1>26. ASSUME NEW t \in Threads, ProcessConnect(t) PROVE Goal
  BY <1>26, ChannelStutters, Zenon DEF ProcessConnect, sendVars
<1>27. CASE UNCHANGED vars
  BY <1>27, ChannelStutters, Zenon DEF vars, sendVars
<1> QED
  BY <1>1, <1>2, <1>3, <1>4, <1>5, <1>6, <1>7, <1>8, <1>9, <1>10, <1>11, <1>12, <1>13,
     <1>14, <1>15, <1>16, <1>17, <1>18, <1>19, <1>20, <1>21, <1>22, <1>23, <1>24, <1>25,
     <1>26, <1>27, Zenon DEF Next, Step

(***************************************************************************)
(* The flag, the queue, the event and the lock implement the ordered       *)
(* channel that the callers of Send count on.                              *)
(***************************************************************************)
THEOREM SessionImplementsChannel == Spec => ImplementsChannel
<1>1. Init => Channel!Init
  <2>1. Init => sendEvent.bufs \o sendQueue = <<>>
    BY SMT DEF Init
  <2> QED
    BY <2>1, Zenon DEF Init, Channel!Init
<1> QED
  BY <1>1, LifeInvariant, SendInvariant, StepImplements,
     PTL DEF Spec, ImplementsChannel, Channel!Spec
=============================================================================
