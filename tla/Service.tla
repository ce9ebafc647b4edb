------------------------------ MODULE Service ------------------------------
(***************************************************************************)
(* What a Service (IocpLib/NetCodes/Service.h, Service.cpp) keeps: the     *)
(* sessions it serves, their number, and the pool of session ids.  Each    *)
(* operation runs under the service's lock and is one step; the modules    *)
(* that extend this one say who calls it.                                  *)
(***************************************************************************)
EXTENDS Integers, FiniteSets

CONSTANTS
  Sessions,                     \* the Session objects; a released one is used again
  SYSTEM_MAXIMUM_SESSION_COUNT, \* the size of the id pool: ids are below it
  MaxSessionCount               \* _maxSessionCount

\* The constructor asserts the last of these.
ASSUME ServiceAssumption ==
  /\ SYSTEM_MAXIMUM_SESSION_COUNT \in Nat \ {0}
  /\ MaxSessionCount \in 1 .. SYSTEM_MAXIMUM_SESSION_COUNT

VARIABLES
  sessionId,          \* Session::_sessionId
  sessions,           \* _sessions
  sessionCount,       \* _sessionCount
  lastUsedSessionId,  \* _lastUsedSessionId
  sessionIdPool,      \* _sessionIdPool
  exhausted,          \* history: GetFreeSessionId has found no free id
  crashed             \* an ASSERT_CRASH fired

idVars == <<sessionId, lastUsedSessionId, sessionIdPool, exhausted>>
serviceVars == <<sessions, sessionCount, crashed, idVars>>

Ids == 0 .. SYSTEM_MAXIMUM_SESSION_COUNT - 1

ServiceInit ==
  /\ sessionId = [s \in Sessions |-> 0]
  /\ sessions = {}
  /\ sessionCount = 0
  /\ lastUsedSessionId = 0
  /\ sessionIdPool = [id \in Ids |-> FALSE]
  /\ exhausted = FALSE
  /\ crashed = FALSE

CanAddNewSession == sessionCount < MaxSessionCount

\* The id that is i places behind the last one handed out.
IdAfter(i) == (lastUsedSessionId + i) % SYSTEM_MAXIMUM_SESSION_COUNT

-----------------------------------------------------------------------------
(***************************************************************************)
(* Plausible mistakes in the code below, each the wrong twin of the        *)
(* definition whose name it bears.                                         *)
(***************************************************************************)

\* The id that was found is not marked as taken.
MutantTakeId(s, id) ==
  /\ sessionId' = [sessionId EXCEPT ![s] = id]
  /\ lastUsedSessionId' = id
  /\ UNCHANGED <<sessionIdPool, exhausted>>

\* A released session gives up its id but not its place.
MutantReleaseId(s) ==
  /\ crashed' = (crashed \/ s \notin sessions)
  /\ sessions' = sessions \ {s}
  /\ sessionIdPool' = [sessionIdPool EXCEPT ![sessionId[s]] = FALSE]
  /\ UNCHANGED <<sessionCount, sessionId, lastUsedSessionId, exhausted>>

-----------------------------------------------------------------------------
\* The id a session is given is taken.
TakeId(s, id) ==
  /\ sessionId' = [sessionId EXCEPT ![s] = id]
  /\ lastUsedSessionId' = id
  /\ sessionIdPool' = [sessionIdPool EXCEPT ![id] = TRUE]
  /\ UNCHANGED exhausted

\* The places GetFreeSessionId searches: all but that of the last id itself.
Places == 1 .. SYSTEM_MAXIMUM_SESSION_COUNT - 1

\* CreateSession: the first free id behind the last one, or 0 if there is none.
CreateSession(s) ==
  /\ \/ \E i \in Places :
          /\ ~sessionIdPool[IdAfter(i)]
          /\ \A j \in 1 .. i - 1 : sessionIdPool[IdAfter(j)]
          /\ TakeId(s, IdAfter(i))
     \/ /\ \A i \in Places : sessionIdPool[IdAfter(i)]
        /\ sessionId' = [sessionId EXCEPT ![s] = 0]
        /\ exhausted' = TRUE
        /\ UNCHANGED <<lastUsedSessionId, sessionIdPool>>
  /\ UNCHANGED <<sessions, sessionCount, crashed>>

AddSession(s) ==
  /\ sessionCount' = sessionCount + 1
  /\ sessions' = sessions \cup {s}
  /\ UNCHANGED <<crashed, idVars>>

ReleaseSession(s) ==
  /\ crashed' = (crashed \/ s \notin sessions)
  /\ sessions' = sessions \ {s}
  /\ sessionCount' = sessionCount - 1
  /\ sessionIdPool' = [sessionIdPool EXCEPT ![sessionId[s]] = FALSE]
  /\ UNCHANGED <<sessionId, lastUsedSessionId, exhausted>>

\* Every variable of the service has its type.
ServiceTypeOK ==
  /\ sessionId \in [Sessions -> Ids]
  /\ sessions \subseteq Sessions
  /\ sessionCount \in Int
  /\ lastUsedSessionId \in Ids
  /\ sessionIdPool \in [Ids -> BOOLEAN]
  /\ exhausted \in BOOLEAN
  /\ crashed \in BOOLEAN
=============================================================================
