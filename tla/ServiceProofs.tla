---------------------------- MODULE ServiceProofs ----------------------------
(***************************************************************************)
(* What the theorems about Listener and Middleman need of the Service they *)
(* extend, for every number of ids and places: ids are found as long as    *)
(* there are more of them than sessions.                                   *)
(***************************************************************************)
EXTENDS Service, FiniteSetTheorems, TLAPS

\* An id behind another one is an id, and another one.
LEMMA IdAfterIsId ==
  ASSUME lastUsedSessionId \in Ids, NEW i \in Places
  PROVE  IdAfter(i) \in Ids /\ IdAfter(i) # lastUsedSessionId
BY ServiceAssumption, SMT DEF Ids, IdAfter, Places

\* Id 0 exists.
LEMMA ZeroIsId == 0 \in Ids
BY ServiceAssumption, SMT DEF Ids

\* Any id but the last one is some places behind it.
LEMMA EveryOtherId ==
  ASSUME lastUsedSessionId \in Ids, NEW id \in Ids, id # lastUsedSessionId
  PROVE  \E i \in Places : IdAfter(i) = id
<1> DEFINE N == SYSTEM_MAXIMUM_SESSION_COUNT
<1>1. CASE id > lastUsedSessionId
  <2>1. id - lastUsedSessionId \in Places /\ IdAfter(id - lastUsedSessionId) = id
    BY <1>1, ServiceAssumption, SMT DEF Ids, Places, IdAfter
  <2> QED
    BY <2>1
<1>2. CASE id < lastUsedSessionId
  <2>1. id - lastUsedSessionId + N \in Places /\ IdAfter(id - lastUsedSessionId + N) = id
    BY <1>2, ServiceAssumption, SMT DEF Ids, Places, IdAfter
  <2> QED
    BY <2>1
<1> QED
  BY <1>1, <1>2, ServiceAssumption, SMT DEF Ids

\* CreateSession: a free id is found and taken, or none is left.
LEMMA CreateSessionCases ==
  ASSUME lastUsedSessionId \in Ids, NEW s \in Sessions, CreateSession(s)
  PROVE  /\ UNCHANGED <<sessions, sessionCount, crashed>>
         /\ \/ \E id \in Ids : ~sessionIdPool[id] /\ id # lastUsedSessionId /\ TakeId(s, id)
            \/ /\ \A i \in Places : sessionIdPool[IdAfter(i)]
               /\ sessionId' = [sessionId EXCEPT ![s] = 0]
               /\ exhausted' = TRUE
               /\ UNCHANGED <<lastUsedSessionId, sessionIdPool>>
BY IdAfterIsId, Zenon DEF CreateSession

(***************************************************************************)
(* The places GetFreeSessionId searches leave out that of the last id, so  *)
(* it must not be this very id that is free: it is taken, or the service   *)
(* is not full.                                                            *)
(***************************************************************************)
LEMMA SomeIdIsFree ==
  ASSUME MaxSessionCount < SYSTEM_MAXIMUM_SESSION_COUNT, lastUsedSessionId \in Ids,
         sessionId \in [Sessions -> Ids], sessions \subseteq Sessions,
         IsFiniteSet(sessions), sessionCount = Cardinality(sessions),
         sessionCount <= MaxSessionCount,
         \A s \in sessions : sessionIdPool[sessionId[s]],
         \A id \in Ids : sessionIdPool[id] => \E s \in sessions : sessionId[s] = id,
         sessionIdPool[lastUsedSessionId] \/ sessionCount < MaxSessionCount
  PROVE  \E i \in Places : ~sessionIdPool[IdAfter(i)]
<1> SUFFICES ASSUME \A i \in Places : sessionIdPool[IdAfter(i)] PROVE FALSE
  OBVIOUS
<1> DEFINE Taken == {id \in Ids : sessionIdPool[id]}
<1> DEFINE f == [s \in sessions |-> sessionId[s]]
<1>1. f \in Surjection(sessions, Taken)
  <2>1. \A s \in sessions : sessionId[s] \in Taken
    BY Zenon
  <2>2. \A id \in Taken : \E s \in sessions : f[s] = id
    BY Zenon
  <2> QED
    BY <2>1, <2>2, Zenon DEF Surjection
<1>2. IsFiniteSet(Taken) /\ Cardinality(Taken) <= sessionCount
  BY <1>1, FS_Surjection, Zenon
<1>3. Ids \ {lastUsedSessionId} \subseteq Taken
  BY EveryOtherId, Zenon
<1>4. IsFiniteSet(Ids) /\ Cardinality(Ids) = SYSTEM_MAXIMUM_SESSION_COUNT
  BY FS_Interval, ServiceAssumption, SMT DEF Ids
<1>5. /\ IsFiniteSet(Ids \ {lastUsedSessionId})
      /\ Cardinality(Ids \ {lastUsedSessionId}) = SYSTEM_MAXIMUM_SESSION_COUNT - 1
  BY <1>4, FS_RemoveElement, Zenon
<1>6. Cardinality(Taken) \in Nat /\ sessionCount \in Nat
  BY <1>2, FS_CardinalityType, Zenon
<1>7. CASE sessionIdPool[lastUsedSessionId]
  <2>1. Ids \subseteq Taken
    BY <1>3, <1>7, Zenon
  <2>2. Cardinality(Ids) <= Cardinality(Taken)
    BY <1>2, <2>1, FS_Subset, Zenon
  <2> QED
    BY <1>2, <1>4, <1>6, <2>2, ServiceAssumption, SMT
<1>8. CASE sessionCount < MaxSessionCount
  <2>1. Cardinality(Ids \ {lastUsedSessionId}) <= Cardinality(Taken)
    BY <1>2, <1>3, FS_Subset, Zenon
  <2> QED
    BY <1>2, <1>5, <1>6, <1>8, <2>1, ServiceAssumption, SMT
<1> QED
  BY <1>7, <1>8, Zenon
=============================================================================
