--------------------------- MODULE ListenerProofs ---------------------------
(***************************************************************************)
(* Theorems about Listener for every set of workers and sessions and every *)
(* size of the id pool and the service.                                    *)
(***************************************************************************)
EXTENDS Listener, ServiceProofs

-----------------------------------------------------------------------------
(***************************************************************************)
(* The accept event: one user at a time, and a session in it from the      *)
(* moment the kernel has it to the end of ProcessAccept.                   *)
(***************************************************************************)

HasSession ==
  /\ acceptPending => acceptSession # NoSession
  /\ \A t \in Threads : pc[t] = "processing" => acceptSession # NoSession

States == {"start", "idle", "registering", "waiting", "accepting", "processing"}

Chain == pc \in [Threads -> States] /\ AcceptEventExclusive /\ HasSession

\* The main thread starts the chain.
LEMMA ChainInit == Init => Chain
BY ListenerAssumption, SMT DEF Init, Chain, AcceptEventExclusive, InChain, HasSession, States

\* Every step leaves it to one user.
LEMMA ChainNext == Chain /\ [Next]_vars => Chain'
<1> SUFFICES ASSUME Chain, [Next]_vars PROVE Chain'
  OBVIOUS
<1> USE DEF Chain, AcceptEventExclusive, InChain, HasSession, States, Threads
<1>1. CASE StartAccept
  BY <1>1, SMT DEF StartAccept, Goto
<1>2. ASSUME NEW t \in Threads, RegisterAccept(t) PROVE Chain'
  BY <1>2, SMT DEF RegisterAccept, Goto, CreateSession, TakeId
<1>3. ASSUME NEW t \in Threads, WaitForRoom(t) PROVE Chain'
  BY <1>3, SMT DEF WaitForRoom, Goto, CanAddNewSession
<1>4. ASSUME NEW t \in Threads, AcceptExPosted(t) PROVE Chain'
  BY <1>4, SMT DEF AcceptExPosted, Goto
<1>5. ASSUME NEW t \in Threads, AcceptExFailed(t) PROVE Chain'
  BY <1>5, SMT DEF AcceptExFailed, Goto
<1>6. ASSUME NEW t \in Threads, AcceptExOnNull(t) PROVE Chain'
  BY <1>6, SMT DEF AcceptExOnNull
<1>7. ASSUME NEW t \in Threads, ProcessAccept(t) PROVE Chain'
  BY <1>7, SMT DEF ProcessAccept, Goto, AddSession
<1>8. ASSUME NEW t \in Threads, ProcessAcceptFailed(t) PROVE Chain'
  BY <1>8, SMT DEF ProcessAcceptFailed, Goto
<1>9. ASSUME NEW t \in Threads, DispatchAccept(t) PROVE Chain'
  BY <1>9, SMT DEF DispatchAccept, Goto
<1>10. ASSUME NEW s \in Sessions, Disconnect(s) PROVE Chain'
  BY <1>10, SMT DEF Disconnect
<1>11. ASSUME NEW t \in Threads, NEW s \in Sessions, ProcessDisconnect(t, s) PROVE Chain'
  BY <1>11, SMT DEF ProcessDisconnect, ReleaseSession
<1>12. CASE UNCHANGED vars
  BY <1>12, SMT DEF vars
<1> QED
  BY <1>1, <1>2, <1>3, <1>4, <1>5, <1>6, <1>7, <1>8, <1>9, <1>10, <1>11, <1>12, Zenon DEF Next,
     Register

-----------------------------------------------------------------------------
(***************************************************************************)
(* Types.  The Boolean variables are Zenon's, the others the SMT solver's. *)
(***************************************************************************)

Flags ==
  /\ sessionIdPool \in [Ids -> BOOLEAN]
  /\ exhausted \in BOOLEAN
  /\ crashed \in BOOLEAN
  /\ acceptPending \in BOOLEAN
  /\ dropped \in BOOLEAN

Data ==
  /\ sessionId \in [Sessions -> Ids]
  /\ sessions \subseteq Sessions
  /\ sessionCount \in Int
  /\ lastUsedSessionId \in Ids
  /\ life \in [Sessions -> {"unused", "created", "connected", "closing", "stuck"}]
  /\ acceptSession \in Sessions \cup {NoSession}
  /\ unusedSession \in [Threads -> Sessions \cup {NoSession}]

\* The two halves are the type invariant.
LEMMA TypeHalves == Chain /\ Flags /\ Data => TypeOK
BY Zenon DEF TypeOK, ServiceTypeOK, Flags, Data, Chain, States

\* The initial state has its types.
LEMMA TypeInit == Init => Flags /\ Data
<1>1. Init => Flags
  BY Zenon DEF Init, ServiceInit, Flags
<1>2. Init => Data
  BY ZeroIsId, ListenerAssumption, SMT DEF Init, ServiceInit, Data
<1> QED
  BY <1>1, <1>2

\* Every step keeps the Boolean variables Boolean.
LEMMA FlagsNext == Data /\ Flags /\ [Next]_vars => Flags'
<1> SUFFICES ASSUME Data, Flags, [Next]_vars PROVE Flags'
  OBVIOUS
<1> USE DEF Flags, serviceVars, idVars
<1>1. CASE StartAccept
  BY <1>1, Zenon DEF StartAccept, Goto
<1>2. ASSUME NEW t \in Threads, RegisterAccept(t) PROVE Flags'
  <2>1. ASSUME NEW s \in Sessions, CreateSession(s)
        PROVE  /\ sessionIdPool' \in [Ids -> BOOLEAN]
               /\ exhausted' \in BOOLEAN /\ crashed' \in BOOLEAN
    BY <2>1, CreateSessionCases, Zenon DEF TakeId, Data
  <2> QED
    BY <1>2, <2>1, Zenon DEF RegisterAccept
<1>3. ASSUME NEW t \in Threads, WaitForRoom(t) PROVE Flags'
  BY <1>3, Zenon DEF WaitForRoom, Goto, CanAddNewSession
<1>4. ASSUME NEW t \in Threads, AcceptExPosted(t) PROVE Flags'
  BY <1>4, Zenon DEF AcceptExPosted, Goto
<1>5. ASSUME NEW t \in Threads, AcceptExFailed(t) PROVE Flags'
  BY <1>5, Zenon DEF AcceptExFailed, Goto
<1>6. ASSUME NEW t \in Threads, AcceptExOnNull(t) PROVE Flags'
  BY <1>6, Zenon DEF AcceptExOnNull
<1>7. ASSUME NEW t \in Threads, ProcessAccept(t) PROVE Flags'
  BY <1>7, Zenon DEF ProcessAccept, Goto, AddSession
<1>8. ASSUME NEW t \in Threads, ProcessAcceptFailed(t) PROVE Flags'
  BY <1>8, Zenon DEF ProcessAcceptFailed, Goto
<1>9. ASSUME NEW t \in Threads, DispatchAccept(t) PROVE Flags'
  BY <1>9, Zenon DEF DispatchAccept, Goto
<1>10. ASSUME NEW s \in Sessions, Disconnect(s) PROVE Flags'
  BY <1>10, Zenon DEF Disconnect
<1>11. ASSUME NEW t \in Threads, NEW s \in Sessions, ProcessDisconnect(t, s) PROVE Flags'
  BY <1>11, Zenon DEF ProcessDisconnect, ReleaseSession
<1>12. CASE UNCHANGED vars
  BY <1>12, Zenon DEF vars
<1> QED
  BY <1>1, <1>2, <1>3, <1>4, <1>5, <1>6, <1>7, <1>8, <1>9, <1>10, <1>11, <1>12, Zenon DEF Next,
     Register

\* Every step keeps the other types.
LEMMA DataNext == Chain /\ Data /\ [Next]_vars => Data'
<1> SUFFICES ASSUME Chain, Data, [Next]_vars PROVE Data'
  OBVIOUS
<1> USE DEF Chain, HasSession, Data, serviceVars, idVars
<1>1. CASE StartAccept
  BY <1>1, SMT DEF StartAccept, Goto
<1>2. ASSUME NEW t \in Threads, RegisterAccept(t) PROVE Data'
  <2>1. ASSUME NEW s \in Sessions, CreateSession(s)
        PROVE  /\ sessionId' \in [Sessions -> Ids] /\ lastUsedSessionId' \in Ids
               /\ UNCHANGED <<sessions, sessionCount>>
    BY <2>1, CreateSessionCases, ZeroIsId, Zenon DEF TakeId
  <2>2. /\ sessionId' \in [Sessions -> Ids] /\ lastUsedSessionId' \in Ids
        /\ UNCHANGED <<sessions, sessionCount>>
    BY <1>2, <2>1, Zenon DEF RegisterAccept
  <2>3. /\ acceptSession' \in Sessions \cup {NoSession}
        /\ life' \in [Sessions -> {"unused", "created", "connected", "closing", "stuck"}]
        /\ UNCHANGED unusedSession
    BY <1>2, SMT DEF RegisterAccept, Goto
  <2> QED
    BY <2>2, <2>3, Zenon
<1>3. ASSUME NEW t \in Threads, WaitForRoom(t) PROVE Data'
  BY <1>3, SMT DEF WaitForRoom, Goto, CanAddNewSession
<1>4. ASSUME NEW t \in Threads, AcceptExPosted(t) PROVE Data'
  BY <1>4, SMT DEF AcceptExPosted, Goto
<1>5. ASSUME NEW t \in Threads, AcceptExFailed(t) PROVE Data'
  BY <1>5, SMT DEF AcceptExFailed, Goto
<1>6. ASSUME NEW t \in Threads, AcceptExOnNull(t) PROVE Data'
  BY <1>6, SMT DEF AcceptExOnNull
<1>7. ASSUME NEW t \in Threads, ProcessAccept(t) PROVE Data'
  BY <1>7, SMT DEF ProcessAccept, Goto, AddSession
<1>8. ASSUME NEW t \in Threads, ProcessAcceptFailed(t) PROVE Data'
  BY <1>8, SMT DEF ProcessAcceptFailed, Goto
<1>9. ASSUME NEW t \in Threads, DispatchAccept(t) PROVE Data'
  BY <1>9, SMT DEF DispatchAccept, Goto
<1>10. ASSUME NEW s \in Sessions, Disconnect(s) PROVE Data'
  BY <1>10, SMT DEF Disconnect
<1>11. ASSUME NEW t \in Threads, NEW s \in Sessions, ProcessDisconnect(t, s) PROVE Data'
  BY <1>11, SMT DEF ProcessDisconnect, ReleaseSession
<1>12. CASE UNCHANGED vars
  BY <1>12, SMT DEF vars
<1> QED
  BY <1>1, <1>2, <1>3, <1>4, <1>5, <1>6, <1>7, <1>8, <1>9, <1>10, <1>11, <1>12, Zenon DEF Next,
     Register

\* Every variable has its type in every reachable state.
THEOREM TypeCorrect == Spec => []TypeOK
<1>1. [](Chain /\ Flags /\ Data) => []TypeOK
  BY TypeHalves, PTL
<1> QED
  BY <1>1, ChainInit, ChainNext, TypeInit, FlagsNext, DataNext, PTL DEF Spec

\* The accept event, which no lock protects, has one user at a time.
THEOREM AcceptEventIsExclusive == Spec => []AcceptEventExclusive
<1>1. Chain => AcceptEventExclusive
  BY Zenon DEF Chain
<1> QED
  BY <1>1, ChainInit, ChainNext, PTL DEF Spec

-----------------------------------------------------------------------------
(***************************************************************************)
(* The life of the sessions.  The one that has been created and not yet    *)
(* connected is that of the accept event, and those behind it are the      *)
(* sessions of the service.                                                *)
(***************************************************************************)

Served ==
  \A s \in Sessions : s \in sessions <=> life[s] \in {"connected", "closing", "stuck"}

\* The accept is on its way, at the kernel or in its handler.
Offering ==
  acceptPending \/ \E t \in Threads : pc[t] \in {"waiting", "accepting", "processing"}

Offered ==
  /\ Offering /\ acceptSession # NoSession => life[acceptSession] = "created"
  /\ \A s \in Sessions : life[s] = "created" =>
       s = acceptSession /\ (Offering \/ \E t \in Threads : unusedSession[t] = s)
  /\ \A t \in Threads : unusedSession[t] # NoSession =>
       /\ pc[t] \in {"registering", "waiting", "accepting"}
       /\ acceptSession = unusedSession[t]
       /\ life[acceptSession] = "created"

LifeInv == Served /\ Offered /\ NoCrash

\* At first there is no session.
LEMMA LifeInit == Init => LifeInv
BY ListenerAssumption, SMT DEF Init, ServiceInit, LifeInv, Served, Offering, Offered, NoCrash

\* Every step keeps them in order.
LEMMA LifeNext == Chain /\ Flags /\ Data /\ LifeInv /\ [Next]_vars => LifeInv'
<1> SUFFICES ASSUME Chain, Flags, Data, LifeInv, [Next]_vars PROVE LifeInv'
  OBVIOUS
<1> USE DEF Chain, AcceptEventExclusive, InChain, HasSession, States, Threads, Data, LifeInv,
   Served, Offering, Offered, NoCrash, serviceVars, idVars
<1>1. CASE StartAccept
  BY <1>1, SMT DEF StartAccept, Goto
<1>2. ASSUME NEW t \in Threads, RegisterAccept(t) PROVE LifeInv'
  <2>1. /\ pc[t] = "registering" /\ pc' = [pc EXCEPT ![t] = "waiting"]
        /\ UNCHANGED <<acceptPending, unusedSession, sessions, crashed>>
    <3>1. ASSUME NEW s \in Sessions, CreateSession(s) PROVE UNCHANGED <<sessions, crashed>>
      BY <3>1, Zenon DEF CreateSession
    <3> QED
      BY <1>2, <3>1, Zenon DEF RegisterAccept, Goto
  <2>2. CASE unusedSession[t] # NoSession
    <3>1. acceptSession' = unusedSession[t] /\ UNCHANGED life
      BY <1>2, <2>2, Zenon DEF RegisterAccept
    <3> QED
      BY <2>1, <2>2, <3>1, SMT
  <2>3. ASSUME unusedSession[t] = NoSession, NEW s \in Sessions, life[s] = "unused",
               acceptSession' = s, life' = [life EXCEPT ![s] = "created"]
        PROVE  LifeInv'
    BY <2>1, <2>3, ListenerAssumption, SMT
  <2>4. ASSUME unusedSession[t] = NoSession, acceptSession' = NoSession, UNCHANGED life
        PROVE  LifeInv'
    BY <2>1, <2>4, ListenerAssumption, SMT
  <2> QED
    BY <1>2, <2>2, <2>3, <2>4, Zenon DEF RegisterAccept
<1>3. ASSUME NEW t \in Threads, WaitForRoom(t) PROVE LifeInv'
  BY <1>3, SMT DEF WaitForRoom, Goto, CanAddNewSession
<1>4. ASSUME NEW t \in Threads, AcceptExPosted(t) PROVE LifeInv'
  BY <1>4, SMT DEF AcceptExPosted, Goto
<1>5. ASSUME NEW t \in Threads, AcceptExFailed(t) PROVE LifeInv'
  BY <1>5, SMT DEF AcceptExFailed, Goto
<1>6. ASSUME NEW t \in Threads, AcceptExOnNull(t) PROVE LifeInv'
  BY <1>6, SMT DEF AcceptExOnNull
<1>7. ASSUME NEW t \in Threads, ProcessAccept(t) PROVE LifeInv'
  BY <1>7, SMT DEF ProcessAccept, Goto, AddSession
<1>8. ASSUME NEW t \in Threads, ProcessAcceptFailed(t) PROVE LifeInv'
  BY <1>8, SMT DEF ProcessAcceptFailed, Goto
<1>9. ASSUME NEW t \in Threads, DispatchAccept(t) PROVE LifeInv'
  BY <1>9, SMT DEF DispatchAccept, Goto
<1>10. ASSUME NEW s \in Sessions, Disconnect(s) PROVE LifeInv'
  BY <1>10, SMT DEF Disconnect
<1>11. ASSUME NEW t \in Threads, NEW s \in Sessions, ProcessDisconnect(t, s) PROVE LifeInv'
  <2>1. s \in sessions
    BY <1>11, SMT DEF ProcessDisconnect
  <2>2. crashed' = crashed
    BY <1>11, <2>1, Zenon DEF ProcessDisconnect, ReleaseSession, Flags
  <2>3. /\ life' = [life EXCEPT ![s] = "unused"] /\ life[s] = "closing"
        /\ sessions' = sessions \ {s}
        /\ UNCHANGED <<acceptSession, acceptPending, unusedSession, pc>>
    BY <1>11, Zenon DEF ProcessDisconnect, ReleaseSession
  <2> QED
    BY <2>2, <2>3, SMT
<1>12. CASE UNCHANGED vars
  BY <1>12, SMT DEF vars
<1> QED
  BY <1>1, <1>2, <1>3, <1>4, <1>5, <1>6, <1>7, <1>8, <1>9, <1>10, <1>11, <1>12, Zenon DEF Next,
     Register

\* Hence the life of a session is always in order.
LEMMA LifeInvariant == Spec => [](Chain /\ Flags /\ Data /\ LifeInv)
BY ChainInit, ChainNext, TypeInit, FlagsNext, DataNext, LifeInit, LifeNext, PTL DEF Spec

\* The program crashes only if the port refuses a new session.
THEOREM OnlyNullCrashes == Spec => []NoCrash
<1>1. LifeInv => NoCrash
  BY Zenon DEF LifeInv
<1> QED
  BY <1>1, LifeInvariant, PTL

OfferKept ==
  \A s \in Sessions : HasBeenOffered(s) => HasBeenOffered(s)' \/ life'[s] = "connected"

\* No step gives up a session that has once been offered to AcceptEx.
LEMMA ReuseNext == Chain /\ Data /\ LifeInv /\ [Next]_vars => OfferKept
<1> SUFFICES ASSUME Chain, Data, LifeInv, [Next]_vars PROVE OfferKept
  OBVIOUS
<1> USE DEF Chain, AcceptEventExclusive, InChain, HasSession, States, Threads, Data, LifeInv,
   Served, Offering, Offered, OfferKept, HasBeenOffered, serviceVars, idVars
<1>1. CASE StartAccept
  BY <1>1, SMT DEF StartAccept, Goto
<1>2. ASSUME NEW t \in Threads, RegisterAccept(t) PROVE OfferKept
  BY <1>2, SMT DEF RegisterAccept, Goto, CreateSession, TakeId
<1>3. ASSUME NEW t \in Threads, WaitForRoom(t) PROVE OfferKept
  BY <1>3, SMT DEF WaitForRoom, Goto, CanAddNewSession
<1>4. ASSUME NEW t \in Threads, AcceptExPosted(t) PROVE OfferKept
  BY <1>4, SMT DEF AcceptExPosted, Goto
<1>5. ASSUME NEW t \in Threads, AcceptExFailed(t) PROVE OfferKept
  BY <1>5, SMT DEF AcceptExFailed, Goto
<1>6. ASSUME NEW t \in Threads, AcceptExOnNull(t) PROVE OfferKept
  BY <1>6, SMT DEF AcceptExOnNull
<1>7. ASSUME NEW t \in Threads, ProcessAccept(t) PROVE OfferKept
  BY <1>7, SMT DEF ProcessAccept, Goto, AddSession
<1>8. ASSUME NEW t \in Threads, ProcessAcceptFailed(t) PROVE OfferKept
  BY <1>8, SMT DEF ProcessAcceptFailed, Goto
<1>9. ASSUME NEW t \in Threads, DispatchAccept(t) PROVE OfferKept
  BY <1>9, SMT DEF DispatchAccept, Goto
<1>10. ASSUME NEW s \in Sessions, Disconnect(s) PROVE OfferKept
  BY <1>10, SMT DEF Disconnect
<1>11. ASSUME NEW t \in Threads, NEW s \in Sessions, ProcessDisconnect(t, s) PROVE OfferKept
  BY <1>11, SMT DEF ProcessDisconnect, ReleaseSession
<1>12. CASE UNCHANGED vars
  BY <1>12, SMT DEF vars
<1> QED
  BY <1>1, <1>2, <1>3, <1>4, <1>5, <1>6, <1>7, <1>8, <1>9, <1>10, <1>11, <1>12, Zenon DEF Next,
     Register

\* A session that AcceptEx has once taken is used again until it connects.
THEOREM OfferedSessionsConnect == Spec => ReusedUntilConnected
<1>1. Chain /\ Data /\ LifeInv /\ [Next]_vars
        => [\A s \in Sessions :
              HasBeenOffered(s) => HasBeenOffered(s)' \/ life'[s] = "connected"]_vars
  BY ReuseNext, Zenon DEF OfferKept
<1> QED
  BY <1>1, LifeInvariant, PTL DEF Spec, ReusedUntilConnected

-----------------------------------------------------------------------------
(***************************************************************************)
(* Capacity.  Room is made, or seen, before the accept and used after it;  *)
(* in between nobody else adds a session.                                  *)
(***************************************************************************)

Room ==
  Offering /\ (\A t \in Threads : pc[t] # "waiting") => sessionCount < MaxSessionCount

Counted == IsFiniteSet(sessions) /\ CapacityRespected /\ Room

\* At first there is room.
LEMMA CountedInit == Init => Counted
BY FS_EmptySet, ServiceAssumption, ListenerAssumption, SMT
   DEF Init, ServiceInit, Counted, CapacityRespected, Room, Offering

\* Every step keeps the count right and within the capacity.
LEMMA CountedNext ==
  Chain /\ Flags /\ Data /\ LifeInv /\ Counted /\ [Next]_vars => Counted'
<1> SUFFICES ASSUME Chain, Flags, Data, LifeInv, Counted, [Next]_vars PROVE Counted'
  OBVIOUS
<1> USE DEF Chain, AcceptEventExclusive, InChain, HasSession, States, Threads, Data, LifeInv,
   Served, Offering, Offered, Counted, CapacityRespected, Room, serviceVars, idVars
<1>1. CASE StartAccept
  BY <1>1, SMT DEF StartAccept, Goto
<1>2. ASSUME NEW t \in Threads, RegisterAccept(t) PROVE Counted'
  BY <1>2, SMT DEF RegisterAccept, Goto, CreateSession, TakeId
<1>3. ASSUME NEW t \in Threads, WaitForRoom(t) PROVE Counted'
  BY <1>3, SMT DEF WaitForRoom, Goto, CanAddNewSession
<1>4. ASSUME NEW t \in Threads, AcceptExPosted(t) PROVE Counted'
  BY <1>4, SMT DEF AcceptExPosted, Goto
<1>5. ASSUME NEW t \in Threads, AcceptExFailed(t) PROVE Counted'
  BY <1>5, SMT DEF AcceptExFailed, Goto
<1>6. ASSUME NEW t \in Threads, AcceptExOnNull(t) PROVE Counted'
  BY <1>6, SMT DEF AcceptExOnNull
<1>7. ASSUME NEW t \in Threads, ProcessAccept(t) PROVE Counted'
  <2>1. acceptSession \in Sessions \ sessions /\ sessionCount < MaxSessionCount
    BY <1>7, SMT DEF ProcessAccept, Goto
  <2>2. /\ sessions' = sessions \cup {acceptSession} /\ sessionCount' = sessionCount + 1
        /\ UNCHANGED <<acceptPending, unusedSession>>
    BY <1>7, Zenon DEF ProcessAccept, AddSession
  <2>3. IsFiniteSet(sessions') /\ sessionCount' = Cardinality(sessions')
    BY <2>1, <2>2, FS_AddElement, SMT
  <2>4. sessionCount' <= MaxSessionCount
    BY <2>1, <2>2, ServiceAssumption, SMT
  <2>5. Room'
    BY <1>7, <2>2, SMT DEF ProcessAccept, Goto
  <2> QED
    BY <2>3, <2>4, <2>5
<1>8. ASSUME NEW t \in Threads, ProcessAcceptFailed(t) PROVE Counted'
  BY <1>8, SMT DEF ProcessAcceptFailed, Goto
<1>9. ASSUME NEW t \in Threads, DispatchAccept(t) PROVE Counted'
  BY <1>9, SMT DEF DispatchAccept, Goto
<1>10. ASSUME NEW s \in Sessions, Disconnect(s) PROVE Counted'
  BY <1>10, SMT DEF Disconnect
<1>11. ASSUME NEW t \in Threads, NEW s \in Sessions, ProcessDisconnect(t, s) PROVE Counted'
  <2>1. s \in sessions
    BY <1>11, SMT DEF ProcessDisconnect
  <2>2. /\ sessions' = sessions \ {s} /\ sessionCount' = sessionCount - 1
        /\ UNCHANGED <<acceptPending, unusedSession, pc>>
    BY <1>11, Zenon DEF ProcessDisconnect, ReleaseSession
  <2>3. IsFiniteSet(sessions') /\ sessionCount' = Cardinality(sessions')
    BY <2>1, <2>2, FS_RemoveElement, SMT
  <2>4. sessionCount' <= MaxSessionCount
    BY <2>2, ServiceAssumption, SMT
  <2>5. Room'
    BY <2>2, <2>4, ServiceAssumption, SMT
  <2> QED
    BY <2>3, <2>4, <2>5
<1>12. CASE UNCHANGED vars
  BY <1>12, SMT DEF vars
<1> QED
  BY <1>1, <1>2, <1>3, <1>4, <1>5, <1>6, <1>7, <1>8, <1>9, <1>10, <1>11, <1>12, Zenon DEF Next,
     Register

\* The service never holds more sessions than it may, and counts them right.
THEOREM CapacityIsRespected == Spec => []CapacityRespected
<1>1. Counted => CapacityRespected
  BY Zenon DEF Counted
<1> QED
  BY <1>1, LifeInvariant, CountedInit, CountedNext, PTL DEF Spec

-----------------------------------------------------------------------------
(***************************************************************************)
(* Ids.  The ids taken in the pool are those of the live sessions, as long *)
(* as none was lost; there are fewer sessions than ids; and the place that *)
(* GetFreeSessionId leaves out, that of the last id, is taken too or its   *)
(* session is gone: so there is a free id to be found.                     *)
(***************************************************************************)

\* What GetFreeSessionId has to do with.
Named == ~exhausted => DistinctIds /\ \A s \in Live : sessionIdPool[sessionId[s]]

\* The session waiting for its connection is the last that got an id.
Latest ==
  ~exhausted => \A s \in Sessions : life[s] = "created" => sessionId[s] = lastUsedSessionId

AtStart ==
  \A t \in Threads : pc[t] = "start" =>
    sessionCount = 0 /\ \A s \in Sessions : life[s] = "unused"

\* Every id is free or that of a live session.
Accounted ==
  \A id \in Ids : sessionIdPool[id] => \E s \in Live : sessionId[s] = id

\* A session that was asked for is there.
Present == \A t \in Threads : pc[t] \in {"waiting", "accepting"} => acceptSession # NoSession

LastIdTaken ==
  \A t \in Threads : pc[t] = "registering" /\ unusedSession[t] = NoSession =>
    sessionIdPool[lastUsedSessionId] \/ sessionCount < MaxSessionCount

Frugal == ~dropped /\ ~exhausted => LastIdTaken /\ (Present => Accounted)

Enough == exhausted /\ MaxSessionCount < SYSTEM_MAXIMUM_SESSION_COUNT => dropped

IdInv == Named /\ Latest /\ AtStart /\ Frugal /\ Enough

\* At first all ids are free.
LEMMA IdInit == Init => IdInv
<1> SUFFICES ASSUME Init PROVE IdInv
  OBVIOUS
<1>1. /\ \A s \in Sessions : life[s] = "unused"
      /\ Live = {} /\ sessionCount = 0 /\ ~exhausted
      /\ \A id \in Ids : ~sessionIdPool[id]
  BY SMT DEF Init, ServiceInit, Live
<1>2. LastIdTaken
  BY <1>1, ServiceAssumption, SMT DEF LastIdTaken
<1>3. Accounted
  BY <1>1, Zenon DEF Accounted
<1>4. Named /\ Latest /\ AtStart /\ Enough
  BY <1>1, SMT DEF Named, DistinctIds, Latest, AtStart, Enough
<1> QED
  BY <1>2, <1>3, <1>4, Zenon DEF IdInv, Frugal

\* When a thread is about to ask for a session none is waiting to be connected.
LEMMA NoneCreated ==
  ASSUME Chain, Data, LifeInv, NEW t \in Threads,
         pc[t] = "registering", unusedSession[t] = NoSession
  PROVE  \A s \in Sessions : life[s] # "created"
BY ListenerAssumption, SMT DEF Chain, AcceptEventExclusive, InChain, Data, LifeInv, Offered,
   Offering

\* With fewer sessions than ids there is a free one.
LEMMA ThereIsAFreeId ==
  ASSUME Chain, Flags, Data, LifeInv, Counted, IdInv, NEW t \in Threads,
         pc[t] = "registering", unusedSession[t] = NoSession,
         ~dropped, ~exhausted, MaxSessionCount < SYSTEM_MAXIMUM_SESSION_COUNT,
         \A i \in Places : sessionIdPool[IdAfter(i)]
  PROVE  FALSE
<1>1. Live = sessions
  BY NoneCreated, SMT DEF Live, LifeInv, Served, Data
<1>2. LastIdTaken /\ Accounted
  <2>1. Present
    BY SMT DEF Present, Chain, States, AcceptEventExclusive, InChain
  <2> QED
    BY <2>1, Zenon DEF IdInv, Frugal
<1>3. /\ \A s \in sessions : sessionIdPool[sessionId[s]]
      /\ \A id \in Ids : sessionIdPool[id] => \E s \in sessions : sessionId[s] = id
      /\ sessionIdPool[lastUsedSessionId] \/ sessionCount < MaxSessionCount
  BY <1>1, <1>2, Zenon DEF IdInv, Named, Accounted, LastIdTaken
<1> QED
  BY <1>3, SomeIdIsFree, Zenon DEF Data, Counted, CapacityRespected

\* Every step keeps the ids apart and accounted for.
LEMMA IdNext ==
  Chain /\ Flags /\ Data /\ LifeInv /\ Counted /\ IdInv /\ [Next]_vars => IdInv'
<1> SUFFICES ASSUME Chain, Flags, Data, LifeInv, Counted, IdInv, [Next]_vars PROVE IdInv'
  OBVIOUS
<1> USE DEF Chain, AcceptEventExclusive, InChain, HasSession, States, Threads, Data, LifeInv,
   Served, Offering, Offered, Counted, CapacityRespected, Room, IdInv, Named, DistinctIds, Live,
   Latest, AtStart, Accounted, Present, LastIdTaken, Frugal, Enough, serviceVars, idVars
<1>1. CASE StartAccept
  <2>1. /\ pc[Main] = "start" /\ pc' = [pc EXCEPT ![Main] = "registering"]
        /\ UNCHANGED <<sessions, sessionCount, idVars, life, acceptSession, acceptPending,
                       unusedSession, dropped>>
    BY <1>1, Zenon DEF StartAccept, Goto
  <2>2. sessionCount < MaxSessionCount
    BY <2>1, ServiceAssumption, SMT
  <2>3. Named' /\ Latest' /\ Enough'
    BY <2>1, Zenon
  <2>4. AtStart' /\ LastIdTaken'
    BY <2>1, <2>2, SMT
  <2>5. Present /\ (Accounted <=> Accounted')
    BY <2>1, SMT
  <2> QED
    BY <2>1, <2>3, <2>4, <2>5, Zenon
<1>2. ASSUME NEW t \in Threads, RegisterAccept(t) PROVE IdInv'
  <2>1. /\ pc[t] = "registering" /\ pc' = [pc EXCEPT ![t] = "waiting"]
        /\ UNCHANGED <<acceptPending, unusedSession, dropped>>
    BY <1>2, Zenon DEF RegisterAccept, Goto
  <2>2. Present /\ AtStart' /\ LastIdTaken'
    BY <2>1, SMT
  <2>3. CASE unusedSession[t] # NoSession
    <3>1. UNCHANGED <<idVars, sessions, sessionCount, life>>
      BY <1>2, <2>3, Zenon DEF RegisterAccept
    <3> HIDE DEF Chain, Data, LifeInv, Counted
    <3> QED
      BY <2>1, <2>2, <3>1, Zenon
  <2>4. ASSUME unusedSession[t] = NoSession, NEW s \in Sessions, life[s] = "unused",
               CreateSession(s),
               \/ acceptSession' = s /\ life' = [life EXCEPT ![s] = "created"]
               \/ acceptSession' = NoSession /\ UNCHANGED life
        PROVE  IdInv'
    <3>1. \A u \in Sessions : life[u] # "created"
      BY <2>1, <2>4, NoneCreated
    <3>2. ASSUME NEW id \in Ids, ~sessionIdPool[id], TakeId(s, id) PROVE IdInv'
      <4>1. Named'
        BY <2>4, <3>2, SMTT(30) DEF TakeId, Flags
      <4>2. Latest'
        BY <2>4, <3>1, <3>2, SMTT(30) DEF TakeId
      <4>3. Present' /\ Accounted => Accounted'
        BY <2>1, <2>4, <3>2, SMTT(30) DEF TakeId, Flags
      <4> HIDE DEF Chain, Data, LifeInv, Counted
      <4> QED
        BY <2>1, <2>2, <3>2, <4>1, <4>2, <4>3, Zenon DEF TakeId
    <3>3. ASSUME \A i \in Places : sessionIdPool[IdAfter(i)], exhausted' = TRUE
          PROVE  IdInv'
      <4>1. Enough'
        <5>1. ASSUME ~dropped, ~exhausted, MaxSessionCount < SYSTEM_MAXIMUM_SESSION_COUNT
              PROVE  FALSE
          <6> HIDE DEF Chain, Data, LifeInv, Counted, IdInv
          <6> QED
            BY <2>1, <2>4, <3>3, <5>1, ThereIsAFreeId, Zenon
        <5> HIDE DEF Chain, Data, LifeInv, Counted
        <5> QED
          BY <2>1, <5>1, Zenon
      <4> HIDE DEF Chain, Data, LifeInv, Counted
      <4> QED
        BY <2>2, <3>3, <4>1, Zenon
    <3>4. lastUsedSessionId \in Ids
      OBVIOUS
    <3> HIDE DEF Chain, Data, LifeInv, Counted, IdInv
    <3> QED
      BY <2>4, <3>2, <3>3, <3>4, CreateSessionCases, Zenon
  <2> QED
    BY <1>2, <2>3, <2>4, Zenon DEF RegisterAccept
<1>3. ASSUME NEW t \in Threads, WaitForRoom(t) PROVE IdInv'
  BY <1>3, SMT DEF WaitForRoom, Goto, CanAddNewSession
<1>4. ASSUME NEW t \in Threads, AcceptExPosted(t) PROVE IdInv'
  BY <1>4, SMT DEF AcceptExPosted, Goto
<1>5. ASSUME NEW t \in Threads, AcceptExFailed(t) PROVE IdInv'
  BY <1>5, SMT DEF AcceptExFailed, Goto
<1>6. ASSUME NEW t \in Threads, AcceptExOnNull(t) PROVE IdInv'
  BY <1>6, SMT DEF AcceptExOnNull
<1>7. ASSUME NEW t \in Threads, ProcessAccept(t) PROVE IdInv'
  BY <1>7, SMT DEF ProcessAccept, Goto, AddSession
<1>8. ASSUME NEW t \in Threads, ProcessAcceptFailed(t) PROVE IdInv'
  BY <1>8, SMT DEF ProcessAcceptFailed, Goto
<1>9. ASSUME NEW t \in Threads, DispatchAccept(t) PROVE IdInv'
  BY <1>9, SMT DEF DispatchAccept, Goto
<1>10. ASSUME NEW s \in Sessions, Disconnect(s) PROVE IdInv'
  BY <1>10, SMT DEF Disconnect
<1>11. ASSUME NEW t \in Threads, NEW s \in Sessions, ProcessDisconnect(t, s) PROVE IdInv'
  <2>1. /\ life[s] = "closing" /\ life' = [life EXCEPT ![s] = "unused"]
        /\ sessionIdPool' = [sessionIdPool EXCEPT ![sessionId[s]] = FALSE]
        /\ sessionCount' = sessionCount - 1
        /\ UNCHANGED <<sessionId, lastUsedSessionId, exhausted, acceptSession, acceptPending,
                       unusedSession, dropped, pc>>
    BY <1>11, Zenon DEF ProcessDisconnect, ReleaseSession
  <2>2. Named'
    BY <2>1, SMT DEF Flags
  <2>3. Latest' /\ AtStart' /\ Enough'
    BY <2>1, SMT
  <2>4. LastIdTaken'
    BY <2>1, ServiceAssumption, SMT
  <2>5. (Present' <=> Present) /\ (Accounted => Accounted')
    BY <2>1, SMT DEF Flags
  <2> QED
    BY <2>1, <2>2, <2>3, <2>4, <2>5, Zenon
<1>12. CASE UNCHANGED vars
  BY <1>12, SMT DEF vars
<1> QED
  BY <1>1, <1>2, <1>3, <1>4, <1>5, <1>6, <1>7, <1>8, <1>9, <1>10, <1>11, <1>12, Zenon DEF Next,
     Register

\* Two live sessions share an id only after the pool has run out, and it cannot run out
\* unless sessions were given up or there is an id for every place and no more.
THEOREM IdsAreUnique == Spec => []IdsUnique
<1>1. IdInv => IdsUnique
  BY ServiceAssumption, SMT DEF IdInv, Named, Enough, IdsUnique
<1> QED
  BY <1>1, LifeInvariant, CountedInit, CountedNext, IdInit, IdNext, PTL DEF Spec
=============================================================================
