------------------------------ MODULE Listener ------------------------------
(***************************************************************************)
(* The accept chain of a Listener (IocpLib/NetCodes/Listener.cpp) on top   *)
(* of its Service.  There is one AcceptEvent.  The main thread registers   *)
(* the first accept; from then on the worker that takes the completion of  *)
(* an accept processes it and registers the next.  The same workers take   *)
(* the completions of disconnects, which make room for new sessions.       *)
(*                                                                         *)
(* Of a session only its life matters here: created, waiting to be         *)
(* connected; connected, in the service; closing, its disconnect under     *)
(* way; stuck, its DisconnectEx failed, so that nothing will release it.   *)
(***************************************************************************)
EXTENDS Service

CONSTANTS
  Workers,   \* the threads that serve the completion port
  Main,      \* the thread that calls StartAccept
  NoSession  \* nullptr

ASSUME ListenerAssumption ==
  /\ Main \notin Workers
  /\ NoSession \notin Sessions

VARIABLES
  life,            \* where each session is in its life
  acceptSession,   \* _acceptEvent->session
  acceptPending,   \* the kernel holds _acceptEvent
  unusedSession,   \* the argument of a thread inside RegisterAccept
  dropped,         \* history: a created session was given up before it connected
  pc               \* where each thread stands

vars == <<serviceVars, life, acceptSession, acceptPending, unusedSession, dropped, pc>>

Threads == Workers \cup {Main}

Init ==
  /\ ServiceInit
  /\ life = [s \in Sessions |-> "unused"]
  /\ acceptSession = NoSession
  /\ acceptPending = FALSE
  /\ unusedSession = [t \in Threads |-> NoSession]
  /\ dropped = FALSE
  /\ pc = [t \in Threads |-> IF t = Main THEN "start" ELSE "idle"]

Goto(t, from, to) ==
  /\ pc[t] = from
  /\ pc' = [pc EXCEPT ![t] = to]

-----------------------------------------------------------------------------
(***************************************************************************)
(* Plausible mistakes in the code below, each the wrong twin of the        *)
(* definition whose name it bears.                                         *)
(***************************************************************************)

\* The wait for room is left out.
MutantWaitForRoom(t) ==
  /\ Goto(t, "waiting", "accepting")
  /\ UNCHANGED <<serviceVars, life, acceptSession, acceptPending, unusedSession, dropped>>

\* The worker leaves the accept with the kernel.
MutantDispatchAccept(t) ==
  /\ t # Main
  /\ acceptPending
  /\ Goto(t, "idle", "processing")
  /\ UNCHANGED <<serviceVars, life, acceptSession, acceptPending, unusedSession, dropped>>

\* The session is not handed back.
MutantProcessAcceptFailed(t) ==
  /\ Goto(t, "processing", "registering")
  /\ UNCHANGED <<serviceVars, life, acceptSession, acceptPending, unusedSession, dropped>>

\* The session is released but its disconnect stays in the port.
MutantProcessDisconnect(t, s) ==
  /\ t # Main /\ pc[t] = "idle"
  /\ life[s] = "closing"
  /\ ReleaseSession(s)
  /\ UNCHANGED <<life, acceptSession, acceptPending, unusedSession, dropped, pc>>

-----------------------------------------------------------------------------
StartAccept ==
  /\ Goto(Main, "start", "registering")
  /\ UNCHANGED <<serviceVars, life, acceptSession, acceptPending, unusedSession, dropped>>

\* RegisterAccept takes the session it is given or creates one, which replaces
\* whatever the event held.  A new session is null if the port refuses its socket:
\* by then it has its id, which nobody gives back.
RegisterAccept(t) ==
  /\ Goto(t, "registering", "waiting")
  /\ \/ /\ unusedSession[t] # NoSession
        /\ acceptSession' = unusedSession[t]
        /\ UNCHANGED <<serviceVars, life>>
     \/ /\ unusedSession[t] = NoSession
        /\ \E s \in Sessions :
             /\ life[s] = "unused"
             /\ CreateSession(s)
             /\ \/ acceptSession' = s /\ life' = [life EXCEPT ![s] = "created"]
                \/ acceptSession' = NoSession /\ UNCHANGED life
  /\ UNCHANGED <<acceptPending, unusedSession, dropped>>

\* It spins until the service has room.
WaitForRoom(t) ==
  /\ CanAddNewSession
  /\ Goto(t, "waiting", "accepting")
  /\ UNCHANGED <<serviceVars, life, acceptSession, acceptPending, unusedSession, dropped>>

\* AcceptEx is under way.  A worker returns to the port, the main thread is done.
AcceptExPosted(t) ==
  /\ acceptSession # NoSession
  /\ Goto(t, "accepting", "idle")
  /\ acceptPending' = TRUE
  /\ unusedSession' = [unusedSession EXCEPT ![t] = NoSession]
  /\ UNCHANGED <<serviceVars, life, acceptSession, dropped>>

\* AcceptEx fails: RegisterAccept calls itself with its own argument.  If that
\* is null the session it has just created is lost, and its id with it.
AcceptExFailed(t) ==
  /\ acceptSession # NoSession
  /\ Goto(t, "accepting", "registering")
  /\ \/ unusedSession[t] # NoSession /\ UNCHANGED <<life, dropped>>
     \/ /\ unusedSession[t] = NoSession
        /\ life' = [life EXCEPT ![acceptSession] = "unused"]
        /\ dropped' = TRUE
  /\ UNCHANGED <<serviceVars, acceptSession, acceptPending, unusedSession>>

\* The arguments of AcceptEx are read through a null session.
AcceptExOnNull(t) ==
  /\ pc[t] = "accepting"
  /\ acceptSession = NoSession
  /\ crashed' = TRUE
  /\ UNCHANGED <<sessions, sessionCount, idVars, life, acceptSession, acceptPending,
                 unusedSession, dropped, pc>>

\* A worker takes the completion of the accept.
DispatchAccept(t) ==
  /\ t # Main
  /\ acceptPending
  /\ acceptPending' = FALSE
  /\ Goto(t, "idle", "processing")
  /\ UNCHANGED <<serviceVars, life, acceptSession, unusedSession, dropped>>

\* ProcessAccept cannot make a connection of it: the session is used again.
ProcessAcceptFailed(t) ==
  /\ Goto(t, "processing", "registering")
  /\ unusedSession' = [unusedSession EXCEPT ![t] = acceptSession]
  /\ UNCHANGED <<serviceVars, life, acceptSession, acceptPending, dropped>>

\* ProcessAccept connects the session, which joins the service, and then
\* registers the next accept for a new one.
ProcessAccept(t) ==
  /\ Goto(t, "processing", "registering")
  /\ AddSession(acceptSession)
  /\ life' = [life EXCEPT ![acceptSession] = "connected"]
  /\ UNCHANGED <<acceptSession, acceptPending, unusedSession, dropped>>

\* The connection ends; DisconnectEx is under way, or fails.
Disconnect(s) ==
  /\ life[s] = "connected"
  /\ \/ life' = [life EXCEPT ![s] = "closing"]
     \/ life' = [life EXCEPT ![s] = "stuck"]
  /\ UNCHANGED <<serviceVars, acceptSession, acceptPending, unusedSession, dropped, pc>>

\* A worker takes the completion of the disconnect and releases the session.
ProcessDisconnect(t, s) ==
  /\ t # Main /\ pc[t] = "idle"
  /\ life[s] = "closing"
  /\ life' = [life EXCEPT ![s] = "unused"]
  /\ ReleaseSession(s)
  /\ UNCHANGED <<acceptSession, acceptPending, unusedSession, dropped, pc>>

Register(t) ==
  \/ RegisterAccept(t) \/ WaitForRoom(t)
  \/ AcceptExPosted(t) \/ AcceptExFailed(t) \/ AcceptExOnNull(t)
  \/ ProcessAccept(t) \/ ProcessAcceptFailed(t)

\* A crash is the end of the program.
Next ==
  /\ ~crashed
  /\ \/ StartAccept
     \/ \E t \in Threads : Register(t) \/ DispatchAccept(t)
     \/ \E s \in Sessions : Disconnect(s)
     \/ \E t \in Threads, s \in Sessions : ProcessDisconnect(t, s)

Spec == Init /\ [][Next]_vars

(***************************************************************************)
(* Threads run on, a completion does not wait for ever, and AcceptEx does  *)
(* not fail for ever.  Nothing makes a client connect or disconnect.       *)
(***************************************************************************)
Fairness ==
  /\ WF_vars(~crashed /\ StartAccept)
  /\ \A t \in Threads :
       WF_vars(~crashed /\ Register(t)) /\ SF_vars(~crashed /\ AcceptExPosted(t))
  /\ \A s \in Sessions :
       WF_vars(~crashed /\ \E t \in Threads : ProcessDisconnect(t, s))

FairSpec == Spec /\ Fairness

-----------------------------------------------------------------------------
\* Every variable has its type.
TypeOK ==
  /\ ServiceTypeOK
  /\ life \in [Sessions -> {"unused", "created", "connected", "closing", "stuck"}]
  /\ acceptSession \in Sessions \cup {NoSession}
  /\ acceptPending \in BOOLEAN
  /\ unusedSession \in [Threads -> Sessions \cup {NoSession}]
  /\ dropped \in BOOLEAN
  /\ pc \in [Threads -> {"start", "idle", "registering", "waiting", "accepting",
                         "processing"}]

InChain(t) == pc[t] \in {"start", "registering", "waiting", "accepting", "processing"}

(***************************************************************************)
(* The accept event, which no lock protects, has one user at a time: one   *)
(* thread of the chain, or the kernel.  The comment on _acceptEvent in     *)
(* Listener.h says so.                                                     *)
(***************************************************************************)
AcceptEventExclusive ==
  /\ \A t, u \in Threads : InChain(t) /\ InChain(u) => t = u
  /\ \A t \in Threads : InChain(t) => ~acceptPending

(***************************************************************************)
(* The service never holds more sessions than it may, though the listener  *)
(* looks for room long before the session joins; and it counts them right. *)
(***************************************************************************)
CapacityRespected ==
  /\ sessionCount <= MaxSessionCount
  /\ sessionCount = Cardinality(sessions)

Live == {s \in Sessions : life[s] # "unused"}
DistinctIds == \A s, u \in Live : sessionId[s] = sessionId[u] => s = u

(***************************************************************************)
(* Two sessions share an id only after GetFreeSessionId has found none,    *)
(* and it finds one as long as no session was given up before it connected *)
(* and there are more ids than places: one for the session that waits to   *)
(* be connected.                                                           *)
(***************************************************************************)
IdsUnique ==
  \/ DistinctIds
  \/ exhausted /\ (dropped \/ MaxSessionCount = SYSTEM_MAXIMUM_SESSION_COUNT)

\* Session s, not connected yet, has once had an AcceptEx under way.
HasBeenOffered(s) ==
  /\ life[s] = "created"
  /\ \/ acceptSession = s /\ (acceptPending \/ \E t \in Threads : pc[t] = "processing")
     \/ \E t \in Threads : unusedSession[t] = s

(***************************************************************************)
(* A session that AcceptEx has once taken is used again until it connects, *)
(* whatever fails in between: the comment on RegisterAccept in Listener.h. *)
(* (The comment says so of every session that has been created; but one    *)
(* whose first AcceptEx fails is given up: AcceptExFailed.)                *)
(***************************************************************************)
ReusedUntilConnected ==
  [][\A s \in Sessions :
       HasBeenOffered(s) => HasBeenOffered(s)' \/ life'[s] = "connected"]_vars

(***************************************************************************)
(* Ids start at 1: the comment in CreateSession in Service.cpp.  0 stands  *)
(* for "not initialised" in Session.h and for "not found" in               *)
(* GetFreeSessionId.                                                       *)
(***************************************************************************)
IdsStartAtOne == ~exhausted => \A s \in Live : sessionId[s] >= 1

(***************************************************************************)
(* The program crashes only if the port has refused a new session's        *)
(* socket: the assertion in ReleaseSession never fires, and RegisterAccept *)
(* has a session whenever one could be created.                            *)
(***************************************************************************)
NoCrash == crashed => acceptSession = NoSession /\ \E t \in Threads : pc[t] = "accepting"

(***************************************************************************)
(* A disconnect under way makes room, and the chain goes on: in the end an *)
(* accept is pending, unless the port refuses a session.                   *)
(***************************************************************************)
AcceptResumes == (\E s \in Sessions : life[s] = "closing") ~> acceptPending \/ crashed
=============================================================================
