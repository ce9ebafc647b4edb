------------------------------ MODULE Session ------------------------------
(***************************************************************************)
(* One Session (IocpLib/NetCodes/Session.h, Session.cpp) from the moment   *)
(* the listener hands it an accepted connection, or a client service tells *)
(* it to connect, to the moment the service releases it, as the threads of *)
(* the program drive it: senders that call Session::Send through a session *)
(* manager, and workers that take completions from the completion port and *)
(* run IocpCore::Dispatch.                                                 *)
(*                                                                         *)
(* A step ends where another thread can see or change what the next line   *)
(* uses: at the stale IsConnected() tests, at the lock, and at the calls   *)
(* that hand an OVERLAPPED to the kernel.  Code between two such places is *)
(* one action.  Packets, the receive buffer and the socket options are not *)
(* here: a buffer is the number of the push that queued it.                *)
(***************************************************************************)
EXTENDS Integers, Sequences

CONSTANTS
  Threads,   \* the threads that send or that serve the completion port
  NoThread,  \* the owner of a lock nobody holds
  MaxSends   \* bound of the model: Send is not started after so many pushes

ASSUME SessionAssumption ==
  /\ NoThread \notin Threads
  /\ MaxSends \in Nat

VARIABLES
  connected,       \* _connected
  sendQueue,       \* _sendQueue
  sendRegistered,  \* _sendRegistered
  sendEvent,       \* _sendEvent: is its owner set, and its sendBuffers
  connOwner,       \* _connectEvent.owner is set
  recvOwner,       \* _recvEvent.owner is set
  discOwner,       \* _disconnectEvent.owner is set
  lockOwner,       \* the thread that keeps _locks[0] across several steps
  inService,       \* the session is in Service::_sessions
  inManager,       \* the session is in the manager its senders look it up in
  greeter,         \* the thread inside OnConnected, or NoThread
  crashed,         \* an ASSERT_CRASH fired
  io,              \* operations the kernel holds, per event
  pc,              \* where each thread stands
  opened,          \* history: ProcessConnect has run
  pushed,          \* history: number of buffers pushed
  sent,            \* history: buffers whose send completed, in order
  sendFailed,      \* history: a WSASend failed or completed with zero bytes
  recvFailed       \* history: a WSARecv failed and HandleError let it pass

sendVars == <<sendQueue, sendRegistered, sendEvent, pushed, sent, sendFailed>>
recvVars == <<recvOwner, recvFailed>>
linkVars == <<connected, discOwner, io>>
homeVars == <<connOwner, inService, inManager, crashed, opened>>
holdVars == <<lockOwner, greeter>>
vars == <<sendVars, recvVars, linkVars, homeVars, holdVars, pc>>

EventTypes == {"Connect", "Disconnect", "Recv", "Send"}

\* The states of a thread inside RegisterSend, and those in which it works on
\* _sendEvent: inside RegisterSend or handling a completed send.
RegisterSendStates == {"rsCheck", "rsDrain", "wsaSend", "rsClear", "rsUnflag"}
SendEventStates == RegisterSendStates \cup {"psOk", "psZero", "psLock"}

\* The states of a thread that will register or give up the next receive.
RecvStates == {"addSession", "onConnected", "greet", "prOk", "prZero", "rrCheck", "wsaRecv"}

States == {"idle", "sendPush", "pdStart", "pdRelease"}
            \cup SendEventStates \cup RecvStates

\* Thread t will register or give up the next receive.
InRecv(t) == pc[t] \in RecvStates \/ greeter = t

\* Thread t is inside Session::Send, called by a session manager that keeps its
\* own lock for the whole call.  (RegisterSend called by ProcessSend holds the
\* session's lock instead.)
InSend(t) ==
  \/ pc[t] = "sendPush"
  \/ pc[t] \in RegisterSendStates /\ lockOwner # t

Init ==
  /\ connected = FALSE
  /\ sendQueue = <<>>
  /\ sendRegistered = FALSE
  /\ sendEvent = [owner |-> FALSE, bufs |-> <<>>]
  /\ connOwner = FALSE
  /\ recvOwner = FALSE
  /\ discOwner = FALSE
  /\ lockOwner = NoThread
  /\ greeter = NoThread
  /\ inService = FALSE
  /\ inManager = FALSE
  /\ crashed = FALSE
  /\ io = [e \in EventTypes |-> 0]
  /\ pc = [t \in Threads |-> "idle"]
  /\ opened = FALSE
  /\ pushed = 0
  /\ sent = <<>>
  /\ sendFailed = FALSE
  /\ recvFailed = FALSE

Goto(t, from, to) ==
  /\ pc[t] = from
  /\ pc' = [pc EXCEPT ![t] = to]

\* WRITE_LOCK taken and released within the step.  The lock is reentrant.
LockIsFreeFor(t) == lockOwner \in {t, NoThread}

\* The kernel takes, or gives back, one operation on the event's OVERLAPPED.
Post(e) == io' = [io EXCEPT ![e] = @ + 1]
Complete(e) ==
  /\ io[e] > 0
  /\ io' = [io EXCEPT ![e] = @ - 1]

\* DisconnectEx is under way, or it failed and no completion will come.
RegisterDisconnect ==
  \/ discOwner' = TRUE /\ Post("Disconnect")
  \/ discOwner' = FALSE /\ UNCHANGED io

-----------------------------------------------------------------------------
(***************************************************************************)
(* Plausible mistakes in the code below, each the wrong twin of the action *)
(* whose name it bears.  No specification uses them; substituted for their *)
(* twins they show what each property is able to catch.                    *)
(***************************************************************************)

\* The session does not join the service.
MutantAddSession(t) ==
  /\ Goto(t, "addSession", "onConnected")
  /\ UNCHANGED <<sendVars, recvVars, linkVars, homeVars, holdVars>>

\* Every Send registers.
MutantSendPush(t) ==
  /\ pc[t] = "sendPush"
  /\ LockIsFreeFor(t)
  /\ pushed' = pushed + 1
  /\ sendQueue' = Append(sendQueue, pushed + 1)
  /\ sendRegistered' = TRUE
  /\ pc' = [pc EXCEPT ![t] = "rsCheck"]
  /\ UNCHANGED <<sendEvent, sent, sendFailed, recvVars, linkVars, homeVars, holdVars>>

\* The queue is drained from its back.
MutantRegisterSendDrain(t) ==
  /\ Goto(t, "rsDrain", "wsaSend")
  /\ LockIsFreeFor(t)
  /\ sendEvent' = [owner |-> TRUE, bufs |-> [i \in 1 .. Len(sendQueue) |->
                                               sendQueue[Len(sendQueue) + 1 - i]]]
  /\ sendQueue' = <<>>
  /\ UNCHANGED <<sendRegistered, pushed, sent, sendFailed, recvVars, linkVars, homeVars,
                 holdVars>>

\* The owner is not reset after the error.
MutantRegisterSendClear(t) ==
  /\ Goto(t, "rsClear", "rsUnflag")
  /\ sendEvent' = [sendEvent EXCEPT !.bufs = <<>>]
  /\ UNCHANGED <<sendQueue, sendRegistered, pushed, sent, sendFailed, recvVars, linkVars,
                 homeVars, holdVars>>

\* The flag is lowered whatever has been queued.
MutantProcessSendNext(t) ==
  /\ Goto(t, "psLock", "idle")
  /\ lockOwner = NoThread
  /\ sendRegistered' = FALSE
  /\ UNCHANGED <<sendQueue, sendEvent, pushed, sent, sendFailed, recvVars, linkVars,
                 homeVars, holdVars>>

\* The flag stays up after a failed send.
MutantRegisterSendUnflag(t) ==
  /\ pc[t] = "rsUnflag"
  /\ pc' = [pc EXCEPT ![t] = IF greeter = t THEN "rrCheck" ELSE "idle"]
  /\ greeter' = IF greeter = t THEN NoThread ELSE greeter
  /\ lockOwner' = IF lockOwner = t THEN NoThread ELSE lockOwner
  /\ UNCHANGED <<sendVars, recvVars, linkVars, homeVars>>

\* The next send is registered whatever has been queued.
MutantProcessSendAgain(t) ==
  /\ Goto(t, "psLock", "rsCheck")
  /\ lockOwner = NoThread
  /\ lockOwner' = t
  /\ UNCHANGED <<sendVars, recvVars, linkVars, homeVars, greeter>>

\* The lock guard outlives ProcessSend.
MutantReturn(t) ==
  /\ pc' = [pc EXCEPT ![t] = IF greeter = t THEN "rrCheck" ELSE "idle"]
  /\ greeter' = IF greeter = t THEN NoThread ELSE greeter
  /\ UNCHANGED lockOwner

\* The handler of a receive does not register the next one.
MutantProcessRecv(t) ==
  /\ Goto(t, "prOk", "idle")
  /\ recvOwner' = FALSE
  /\ UNCHANGED <<sendVars, recvFailed, linkVars, homeVars, holdVars>>

\* The owner is reset after a WSARecv that is pending.
MutantWSARecvPosted(t) ==
  /\ Goto(t, "wsaRecv", "idle")
  /\ recvOwner' = FALSE
  /\ Post("Recv")
  /\ UNCHANGED <<sendVars, recvFailed, connected, discOwner, homeVars, holdVars>>

\* The session is taken out of its manager without the manager's lock.
MutantOnDisconnected(t) ==
  /\ Goto(t, "pdStart", "pdRelease")
  /\ discOwner' = FALSE
  /\ inManager' = FALSE
  /\ UNCHANGED <<sendVars, recvVars, connected, io, connOwner, inService, crashed, opened,
                 holdVars>>

-----------------------------------------------------------------------------
(***************************************************************************)
(* Disconnect, called by whoever notices the end of the connection.  The   *)
(* exchange on _connected elects one caller, so that the assignments to    *)
(* _disconnectEvent that follow are its own.                               *)
(***************************************************************************)

Disconnect ==
  \/ /\ ~connected
     /\ UNCHANGED linkVars
  \/ /\ connected
     /\ connected' = FALSE
     /\ RegisterDisconnect

\* An error code of WSASend or WSARecv: a reset connection, or anything else.
HandleError(err) ==
  \/ err = "reset" /\ Disconnect
  \/ err = "other" /\ UNCHANGED linkVars

-----------------------------------------------------------------------------
(***************************************************************************)
(* Two ways in: the worker whose AcceptEx completed runs ProcessConnect at *)
(* once; a client service calls Connect, and the worker that takes the     *)
(* completion of ConnectEx runs ProcessConnect.                            *)
(***************************************************************************)

\* RegisterConnect.  (If it fails nothing has changed, and its caller gives up.)
Connect(t) ==
  /\ pc[t] = "idle"
  /\ ~opened
  /\ ~connOwner
  /\ connOwner' = TRUE
  /\ Post("Connect")
  /\ UNCHANGED <<sendVars, recvVars, connected, discOwner, inService, inManager, crashed,
                 opened, holdVars, pc>>

\* Nothing on the way looks at the result of ConnectEx: refused or not, the
\* session counts as connected, and its first receive or send fails if it is not.
ProcessConnect(t) ==
  /\ \/ ~opened /\ ~connOwner /\ UNCHANGED io
     \/ Complete("Connect")
  /\ Goto(t, "idle", "addSession")
  /\ connOwner' = FALSE
  /\ opened' = TRUE
  /\ connected' = TRUE
  /\ UNCHANGED <<sendVars, recvVars, discOwner, inService, inManager, crashed, holdVars>>

\* Service::AddSession
AddSession(t) ==
  /\ Goto(t, "addSession", "onConnected")
  /\ inService' = TRUE
  /\ UNCHANGED <<sendVars, recvVars, linkVars, connOwner, inManager, crashed, opened,
                 holdVars>>

\* The derived classes' OnConnected registers the session with its manager: from
\* here on other threads send through it ...
OnConnected(t) ==
  /\ Goto(t, "onConnected", "greet")
  /\ inManager' = TRUE
  /\ UNCHANGED <<sendVars, recvVars, linkVars, connOwner, inService, crashed, opened,
                 holdVars>>

\* ... and then, in the relay, sends a first buffer itself, if the session is still
\* there.
Greet(t) ==
  /\ \/ /\ inManager /\ connected
        /\ Goto(t, "greet", "sendPush")
        /\ greeter' = t
     \/ /\ Goto(t, "greet", "rrCheck")
        /\ UNCHANGED greeter
  /\ UNCHANGED <<sendVars, recvVars, linkVars, homeVars, lockOwner>>

-----------------------------------------------------------------------------
(***************************************************************************)
(* Send and RegisterSend.                                                  *)
(***************************************************************************)

\* The thread leaves Session::Send, or the RegisterSend of a completed send:
\* its lock guard goes, and OnConnected goes on to the first receive.
Return(t) ==
  /\ pc' = [pc EXCEPT ![t] = IF greeter = t THEN "rrCheck" ELSE "idle"]
  /\ greeter' = IF greeter = t THEN NoThread ELSE greeter
  /\ lockOwner' = IF lockOwner = t THEN NoThread ELSE lockOwner

\* Send finds the session connected.  (If it does not, it returns at once.)
Send(t) ==
  /\ inManager
  /\ pushed < MaxSends
  /\ connected
  /\ Goto(t, "idle", "sendPush")
  /\ UNCHANGED <<sendVars, recvVars, linkVars, homeVars, holdVars>>

\* The critical section of Send: the exchange on _sendRegistered elects the
\* thread that registers a send.
SendPush(t) ==
  /\ pc[t] = "sendPush"
  /\ LockIsFreeFor(t)
  /\ pushed' = pushed + 1
  /\ sendQueue' = Append(sendQueue, pushed + 1)
  /\ sendRegistered' = TRUE
  /\ \/ sendRegistered /\ Return(t)
     \/ ~sendRegistered /\ pc' = [pc EXCEPT ![t] = "rsCheck"] /\ UNCHANGED holdVars
  /\ UNCHANGED <<sendEvent, sent, sendFailed, recvVars, linkVars, homeVars>>

\* The first lines of RegisterSend.  A session that is no longer connected keeps
\* its queue and its flag as they are.
RegisterSendCheck(t) ==
  /\ UNCHANGED <<sendVars, recvVars, linkVars, homeVars>>
  /\ \/ connected /\ Goto(t, "rsCheck", "rsDrain") /\ UNCHANGED holdVars
     \/ ~connected /\ pc[t] = "rsCheck" /\ Return(t)

\* _sendEvent takes its owner and, under the lock, everything that is queued.
RegisterSendDrain(t) ==
  /\ Goto(t, "rsDrain", "wsaSend")
  /\ LockIsFreeFor(t)
  /\ sendEvent' = [owner |-> TRUE, bufs |-> sendEvent.bufs \o sendQueue]
  /\ sendQueue' = <<>>
  /\ UNCHANGED <<sendRegistered, pushed, sent, sendFailed, recvVars, linkVars, homeVars,
                 holdVars>>

\* WSASend succeeds or is pending: either way a completion will come.
WSASendPosted(t) ==
  /\ pc[t] = "wsaSend"
  /\ Post("Send")
  /\ Return(t)
  /\ UNCHANGED <<sendVars, recvVars, connected, discOwner, homeVars>>

\* WSASend fails and RegisterSend calls HandleError.
WSASendFailed(t) ==
  /\ Goto(t, "wsaSend", "rsClear")
  /\ sendFailed' = TRUE
  /\ \E err \in {"reset", "other"} : HandleError(err)
  /\ UNCHANGED <<sendQueue, sendRegistered, sendEvent, pushed, sent, recvVars, homeVars,
                 holdVars>>

\* After the error _sendEvent is emptied first ...
RegisterSendClear(t) ==
  /\ Goto(t, "rsClear", "rsUnflag")
  /\ sendEvent' = [owner |-> FALSE, bufs |-> <<>>]
  /\ UNCHANGED <<sendQueue, sendRegistered, pushed, sent, sendFailed, recvVars, linkVars,
                 homeVars, holdVars>>

\* ... and then offered to the next sender, outside the lock if Send called.
RegisterSendUnflag(t) ==
  /\ pc[t] = "rsUnflag"
  /\ sendRegistered' = FALSE
  /\ Return(t)
  /\ UNCHANGED <<sendQueue, sendEvent, pushed, sent, sendFailed, recvVars, linkVars,
                 homeVars>>

-----------------------------------------------------------------------------
(***************************************************************************)
(* A completed send.                                                       *)
(***************************************************************************)

\* IocpCore::Dispatch takes the completion: bytes were sent, or none.
DispatchSend(t) ==
  /\ Complete("Send")
  /\ \/ Goto(t, "idle", "psOk") /\ UNCHANGED sendFailed
     \/ Goto(t, "idle", "psZero") /\ sendFailed' = TRUE
  /\ UNCHANGED <<sendQueue, sendRegistered, sendEvent, pushed, sent, recvVars, connected,
                 discOwner, homeVars, holdVars>>

\* The first lines of ProcessSend, then OnSend, which does nothing.
ProcessSend(t) ==
  /\ Goto(t, "psOk", "psLock")
  /\ sent' = sent \o sendEvent.bufs
  /\ sendEvent' = [owner |-> FALSE, bufs |-> <<>>]
  /\ UNCHANGED <<sendQueue, sendRegistered, pushed, sendFailed, recvVars, linkVars,
                 homeVars, holdVars>>

\* No bytes: the connection is over, and the flag stays up for good.
ProcessSendZero(t) ==
  /\ Goto(t, "psZero", "idle")
  /\ sendEvent' = [owner |-> FALSE, bufs |-> <<>>]
  /\ Disconnect
  /\ UNCHANGED <<sendQueue, sendRegistered, pushed, sent, sendFailed, recvVars, homeVars,
                 holdVars>>

\* The last lines of ProcessSend, under the lock: lower the flag, or register
\* what has been queued meanwhile, still under the lock.
ProcessSendNext(t) ==
  /\ lockOwner = NoThread
  /\ \/ /\ sendQueue = <<>>
        /\ Goto(t, "psLock", "idle")
        /\ sendRegistered' = FALSE
        /\ UNCHANGED lockOwner
     \/ /\ sendQueue # <<>>
        /\ Goto(t, "psLock", "rsCheck")
        /\ lockOwner' = t
        /\ UNCHANGED sendRegistered
  /\ UNCHANGED <<sendQueue, sendEvent, pushed, sent, sendFailed, recvVars, linkVars,
                 homeVars, greeter>>

-----------------------------------------------------------------------------
(***************************************************************************)
(* A completed receive, and the next one.                                  *)
(***************************************************************************)

\* IocpCore::Dispatch takes the completion: bytes arrived, or the end of the
\* stream (which is also what an aborted receive reports).
DispatchRecv(t) ==
  /\ Complete("Recv")
  /\ \/ Goto(t, "idle", "prOk")
     \/ Goto(t, "idle", "prZero")
  /\ UNCHANGED <<sendVars, recvVars, connected, discOwner, homeVars, holdVars>>

\* ProcessRecv with bytes: RecvBuffer and OnRecv take them (module
\* PacketStream), and the next receive is registered.
ProcessRecv(t) ==
  /\ Goto(t, "prOk", "rrCheck")
  /\ recvOwner' = FALSE
  /\ UNCHANGED <<sendVars, recvFailed, linkVars, homeVars, holdVars>>

ProcessRecvZero(t) ==
  /\ Goto(t, "prZero", "idle")
  /\ recvOwner' = FALSE
  /\ Disconnect
  /\ UNCHANGED <<sendVars, recvFailed, homeVars, holdVars>>

\* RegisterRecv gives up on a session that is no longer connected.
RegisterRecv(t) ==
  /\ \/ connected /\ Goto(t, "rrCheck", "wsaRecv")
     \/ ~connected /\ Goto(t, "rrCheck", "idle")
  /\ UNCHANGED <<sendVars, recvVars, linkVars, homeVars, holdVars>>

WSARecvPosted(t) ==
  /\ Goto(t, "wsaRecv", "idle")
  /\ recvOwner' = TRUE
  /\ Post("Recv")
  /\ UNCHANGED <<sendVars, recvFailed, connected, discOwner, homeVars, holdVars>>

WSARecvFailed(t) ==
  /\ Goto(t, "wsaRecv", "idle")
  /\ recvOwner' = FALSE
  /\ \E err \in {"reset", "other"} :
       /\ HandleError(err)
       /\ recvFailed' = (recvFailed \/ err = "other")
  /\ UNCHANGED <<sendVars, homeVars, holdVars>>

-----------------------------------------------------------------------------
(***************************************************************************)
(* A completed disconnect.                                                 *)
(***************************************************************************)

DispatchDisconnect(t) ==
  /\ Complete("Disconnect")
  /\ Goto(t, "idle", "pdStart")
  /\ UNCHANGED <<sendVars, recvVars, connected, discOwner, homeVars, holdVars>>

\* OnDisconnected removes the session from its manager, whose lock it gets when
\* no thread sends through the manager.
OnDisconnected(t) ==
  /\ \A u \in Threads : ~InSend(u)
  /\ Goto(t, "pdStart", "pdRelease")
  /\ discOwner' = FALSE
  /\ inManager' = FALSE
  /\ UNCHANGED <<sendVars, recvVars, connected, io, connOwner, inService, crashed, opened,
                 holdVars>>

\* Service::ReleaseSession asserts that the session was there to be erased.
ReleaseSession(t) ==
  /\ Goto(t, "pdRelease", "idle")
  /\ crashed' = (crashed \/ ~inService)
  /\ inService' = FALSE
  /\ UNCHANGED <<sendVars, recvVars, linkVars, connOwner, inManager, opened, holdVars>>

-----------------------------------------------------------------------------
\* What a thread does between two visits to the completion port.
Step(t) ==
  \/ AddSession(t) \/ OnConnected(t) \/ Greet(t)
  \/ SendPush(t)
  \/ RegisterSendCheck(t) \/ RegisterSendDrain(t)
  \/ WSASendPosted(t) \/ WSASendFailed(t)
  \/ RegisterSendClear(t) \/ RegisterSendUnflag(t)
  \/ ProcessSend(t) \/ ProcessSendZero(t) \/ ProcessSendNext(t)
  \/ ProcessRecv(t) \/ ProcessRecvZero(t)
  \/ RegisterRecv(t) \/ WSARecvPosted(t) \/ WSARecvFailed(t)
  \/ OnDisconnected(t) \/ ReleaseSession(t)

Next ==
  \E t \in Threads :
    \/ Connect(t) \/ ProcessConnect(t)
    \/ Send(t)
    \/ DispatchSend(t) \/ DispatchRecv(t) \/ DispatchDisconnect(t)
    \/ Step(t)

Spec == Init /\ [][Next]_vars

(***************************************************************************)
(* A thread that has started something goes on with it.  The completion    *)
(* port is first in, first out, so a completion that keeps being there     *)
(* whenever a worker comes is taken: strong fairness.  Nothing makes a     *)
(* peer send, or a caller call Send.                                       *)
(***************************************************************************)
Fairness ==
  /\ \A t \in Threads : WF_vars(Step(t))
  /\ SF_vars(\E t \in Threads : DispatchSend(t))
  /\ SF_vars(\E t \in Threads : DispatchDisconnect(t))

FairSpec == Spec /\ Fairness

-----------------------------------------------------------------------------
\* Every variable has its type.
TypeOK ==
  /\ connected \in BOOLEAN
  /\ sendQueue \in Seq(Nat)
  /\ sendRegistered \in BOOLEAN
  /\ sendEvent \in [owner : BOOLEAN, bufs : Seq(Nat)]
  /\ connOwner \in BOOLEAN
  /\ recvOwner \in BOOLEAN
  /\ discOwner \in BOOLEAN
  /\ {lockOwner, greeter} \subseteq Threads \cup {NoThread}
  /\ inService \in BOOLEAN
  /\ inManager \in BOOLEAN
  /\ crashed \in BOOLEAN
  /\ io \in [EventTypes -> Nat]
  /\ pc \in [Threads -> States]
  /\ opened \in BOOLEAN
  /\ pushed \in Nat
  /\ sent \in Seq(Nat)
  /\ sendFailed \in BOOLEAN
  /\ recvFailed \in BOOLEAN

\* A thread, or the kernel, has _sendEvent in its hands.
SendEventInUse == io["Send"] > 0 \/ \E t \in Threads : pc[t] \in SendEventStates

(***************************************************************************)
(* _sendEvent, one OVERLAPPED and one vector that no lock protects, is     *)
(* never used twice at a time: not by two threads, not by a thread and the *)
(* kernel, not by two WSASends.  Whoever uses it has _sendRegistered up.   *)
(* This is what lets RegisterSend and ProcessSend touch it unlocked.       *)
(***************************************************************************)
SendEventExclusive ==
  /\ io["Send"] <= 1
  /\ \A t, u \in Threads :
       pc[t] \in SendEventStates /\ pc[u] \in SendEventStates => t = u
  /\ \A t \in Threads : pc[t] \in SendEventStates => io["Send"] = 0
  /\ SendEventInUse => sendRegistered

(***************************************************************************)
(* RegisterSend never calls WSASend with nothing to send: the completion   *)
(* would report zero bytes and ProcessSend would disconnect the session.   *)
(***************************************************************************)
NoEmptyWSASend == \A t \in Threads : pc[t] = "wsaSend" => sendEvent.bufs # <<>>

(***************************************************************************)
(* While the kernel holds an operation, the event's owner reference keeps  *)
(* the session alive: Dispatch finds an object to call.                    *)
(***************************************************************************)
PendingIoHoldsSession ==
  /\ io["Connect"] > 0 => connOwner
  /\ io["Send"] > 0 => sendEvent.owner
  /\ io["Recv"] > 0 => recvOwner
  /\ io["Disconnect"] > 0 => discOwner

(***************************************************************************)
(* An event that is not in use owns nothing: the reference from the event, *)
(* which is part of the session, back to the session would keep a session  *)
(* that everybody else has forgotten.                                      *)
(***************************************************************************)
NoReferenceCycle ==
  /\ connOwner => io["Connect"] > 0
  /\ sendEvent.owner => SendEventInUse
  /\ recvOwner => io["Recv"] > 0 \/ \E t \in Threads : pc[t] \in {"prOk", "prZero"}
  /\ discOwner => io["Disconnect"] > 0 \/ \E t \in Threads : pc[t] = "pdStart"

(***************************************************************************)
(* No lost wakeup.  The flag of a connected session is up only while       *)
(* somebody is at work on a send, failed sends included: a Send that finds *)
(* it down registers, so no error leaves the session mute.  And as long as *)
(* no send has failed the flag is up while a buffer is queued.  (After a   *)
(* failed WSASend a buffer pushed before the flag is lowered waits for the *)
(* next Send.)                                                             *)
(***************************************************************************)
NoLostWakeup ==
  connected =>
    /\ sendRegistered => SendEventInUse
    /\ sendQueue # <<>> /\ ~sendFailed => sendRegistered

(***************************************************************************)
(* A connected session always has a receive under way, or a thread about   *)
(* to register one, and never two.  Only a WSARecv that fails with an      *)
(* error HandleError does nothing about ends the chain: the errors of a    *)
(* broken connection disconnect the session, whoever meets them.           *)
(***************************************************************************)
ReceiveChain ==
  /\ io["Recv"] <= 1
  /\ \A t, u \in Threads : InRecv(t) /\ InRecv(u) => t = u
  /\ \A t \in Threads : InRecv(t) => io["Recv"] = 0
  /\ connected /\ ~recvFailed => io["Recv"] = 1 \/ \E t \in Threads : InRecv(t)

(***************************************************************************)
(* Whatever the two ends and the errors do, the session is released at     *)
(* most once: the assertion in ReleaseSession never fires.                 *)
(***************************************************************************)
NoCrash == ~crashed

(***************************************************************************)
(* When the session leaves the service, which frees its id for reuse, it   *)
(* is disconnected, it is out of its manager, and no thread is inside Send *)
(* on it: nothing can be sent to a recycled id through the old session.    *)
(***************************************************************************)
ReleasedLast ==
  [][inService /\ ~inService' =>
       /\ ~connected
       /\ ~inManager
       /\ \A t \in Threads : ~InSend(t)]_vars

\* Every buffer is sent in the end unless the session disconnects or the
\* transport fails a send.
SendProgress ==
  \A n \in 1 .. MaxSends :
    pushed >= n ~> sendFailed \/ ~connected \/ \E i \in 1 .. Len(sent) : sent[i] = n

\* A disconnect the kernel accepted ends with the session released.
DisconnectCompletes == io["Disconnect"] > 0 ~> opened /\ ~inService

\* The send side, seen from its callers.
Channel == INSTANCE OrderedChannel WITH
  accepted <- pushed,
  pending <- sendEvent.bufs \o sendQueue,
  sent <- sent,
  faulty <- sendFailed

\* The send side implements the ordered channel: buffers leave in the order they
\* were accepted, none twice, and only a fault of the transport loses any.
ImplementsChannel == Channel!Spec
=============================================================================
