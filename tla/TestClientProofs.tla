-------------------------- MODULE TestClientProofs --------------------------
(***************************************************************************)
(* Theorems about TestClient, for any number of sessions and broadcasts:   *)
(* what the shared buffer says of the sender when a packet leaves, and     *)
(* what the manager's lock keeps together during a broadcast.              *)
(***************************************************************************)
EXTENDS TestClient, ServiceProofs

-----------------------------------------------------------------------------
(***************************************************************************)
(* The invariants: types; what the history of the ids written, the packets *)
(* pending and those that have left say of each other (Covered); who is in *)
(* the manager and in the service (Managed, Served).                       *)
(***************************************************************************)
Written(s) == WritesFor(s, Len(written))

\* Every packet of a session that has left, is to leave or is about to be sent has
\* had the id written for it.
Covered ==
  \A s \in Sessions :
    Len(left[s]) + pending[s] + (IF target = s THEN 1 ELSE 0) <= Written(s)

\* A packet left after some of the writes.
LeftInTime == \A s \in Sessions : \A i \in 1 .. Len(left[s]) : left[s][i] \in 0 .. Len(written)

SenderInv == TypeOK /\ Covered /\ LeftInTime /\ SenderIdCurrent

Managed == manager = {s \in Sessions : life[s] \in {"open", "closing", "stuck"}}

\* Whoever the broadcast under way has yet to reach stays in the manager.
Guarded ==
  /\ todo \subseteq manager
  /\ target # NoSession => target \in manager
  /\ main # "broadcasting" => todo = {} /\ target = NoSession

Served ==
  /\ sessions = {s \in Sessions : life[s] \in {"connecting", "open", "closing", "stuck",
                                               "removed"}}
  /\ crashed => main = "starting"

ManagerInv == TypeOK /\ Managed /\ Guarded /\ Served

-----------------------------------------------------------------------------
(***************************************************************************)
(* The steps.                                                              *)
(***************************************************************************)
\* The next-state relation, action by action.
LEMMA NextCases ==
  ASSUME [Next]_vars,
         NEW P,
         \A s \in Sessions : StartSession(s) => P,
         StartFails => P, Launch => P, Send => P, BroadcastEnd => P, Broadcast => P,
         \A s \in Sessions : WriteSenderId(s) => P,
         \A s \in Sessions : ProcessConnect(s) => P,
         \A s \in Sessions : Add(s) => P,
         \A s \in Sessions : Remove(s) => P,
         \A s \in Sessions : Release(s) => P,
         \A s \in Sessions : Disconnect(s) => P,
         \A s \in Sessions : Leave(s) => P,
         UNCHANGED vars => P
  PROVE  P
BY Zenon DEF Next, MainStep, WorkerStep

\* The variables have their types to begin with.
LEMMA TypeInit == Init => TypeOK
<1> SUFFICES ASSUME Init PROVE TypeOK
  OBVIOUS
<1>1. ServiceTypeOK
  BY ZeroIsId, SMT DEF Init, ServiceInit, ServiceTypeOK
<1> QED
  BY <1>1, SMT DEF Init, TypeOK

\* A step keeps the types of the service.
LEMMA ServiceTypeNext == TypeOK /\ [Next]_vars => ServiceTypeOK'
<1> SUFFICES ASSUME TypeOK, [Next]_vars PROVE ServiceTypeOK'
  OBVIOUS
<1> USE DEF TypeOK, ServiceTypeOK, serviceVars, idVars
<1>1. ASSUME NEW s \in Sessions, StartSession(s) PROVE ServiceTypeOK'
  <2>1. CreateSession(s) /\ UNCHANGED <<sessions, sessionCount, crashed>>
    BY <1>1, Zenon DEF StartSession, CreateSession
  <2>2. CASE \E id \in Ids : TakeId(s, id)
    BY <2>1, <2>2, SMT DEF TakeId
  <2>3. CASE /\ sessionId' = [sessionId EXCEPT ![s] = 0]
             /\ exhausted' = TRUE
             /\ UNCHANGED <<lastUsedSessionId, sessionIdPool>>
    BY <2>1, <2>3, ZeroIsId, SMT
  <2> QED
    BY <2>1, <2>2, <2>3, CreateSessionCases, Zenon
<1>2. CASE StartFails
  BY <1>2, SMT DEF StartFails
<1>3. CASE Launch
  BY <1>3, SMT DEF Launch
<1>4. CASE Send
  BY <1>4, SMT DEF Send
<1>5. CASE BroadcastEnd
  BY <1>5, SMT DEF BroadcastEnd
<1>6. CASE Broadcast
  BY <1>6, SMT DEF Broadcast
<1>7. ASSUME NEW s \in Sessions, WriteSenderId(s) PROVE ServiceTypeOK'
  BY <1>7, SMT DEF WriteSenderId
<1>8. ASSUME NEW s \in Sessions, ProcessConnect(s) PROVE ServiceTypeOK'
  BY <1>8, SMT DEF ProcessConnect, AddSession
<1>9. ASSUME NEW s \in Sessions, Add(s) PROVE ServiceTypeOK'
  BY <1>9, SMT DEF Add
<1>10. ASSUME NEW s \in Sessions, Remove(s) PROVE ServiceTypeOK'
  BY <1>10, SMT DEF Remove
<1>11. ASSUME NEW s \in Sessions, Release(s) PROVE ServiceTypeOK'
  <2>1. ReleaseSession(s)
    BY <1>11 DEF Release
  <2>2. crashed' \in BOOLEAN
    BY <2>1, Zenon DEF ReleaseSession
  <2> QED
    BY <2>1, <2>2, SMT DEF ReleaseSession
<1>12. ASSUME NEW s \in Sessions, Disconnect(s) PROVE ServiceTypeOK'
  BY <1>12, SMT DEF Disconnect
<1>13. ASSUME NEW s \in Sessions, Leave(s) PROVE ServiceTypeOK'
  BY <1>13, SMT DEF Leave
<1>14. CASE UNCHANGED vars
  BY <1>14, SMT DEF vars
<1> HIDE DEF TypeOK, ServiceTypeOK
<1> QED
  BY <1>1, <1>2, <1>3, <1>4, <1>5, <1>6, <1>7, <1>8, <1>9, <1>10, <1>11, <1>12, <1>13,
     <1>14, NextCases, Zenon

\* A step keeps the types of the other variables.
LEMMA TypeNext == TypeOK /\ [Next]_vars => TypeOK'
<1> SUFFICES ASSUME TypeOK, [Next]_vars PROVE TypeOK'
  OBVIOUS
<1>0. ServiceTypeOK'
  BY ServiceTypeNext
<1> USE <1>0, TestClientAssumption DEF TypeOK, sessionVars, bufferVars, loopVars, Goto
<1>1. ASSUME NEW s \in Sessions, StartSession(s) PROVE TypeOK'
  BY <1>1, SMT DEF StartSession
<1>2. CASE StartFails
  BY <1>2, SMT DEF StartFails
<1>3. CASE Launch
  BY <1>3, SMT DEF Launch
<1>4. CASE Send
  BY <1>4, SMT DEF Send
<1>5. CASE BroadcastEnd
  BY <1>5, SMT DEF BroadcastEnd
<1>6. CASE Broadcast
  BY <1>6, SMT DEF Broadcast
<1>7. ASSUME NEW s \in Sessions, WriteSenderId(s) PROVE TypeOK'
  BY <1>7, SMT DEF WriteSenderId
<1>8. ASSUME NEW s \in Sessions, ProcessConnect(s) PROVE TypeOK'
  BY <1>8, SMT DEF ProcessConnect
<1>9. ASSUME NEW s \in Sessions, Add(s) PROVE TypeOK'
  BY <1>9, SMT DEF Add
<1>10. ASSUME NEW s \in Sessions, Remove(s) PROVE TypeOK'
  BY <1>10, SMT DEF Remove
<1>11. ASSUME NEW s \in Sessions, Release(s) PROVE TypeOK'
  <2>1. life' \in [Sessions -> {"unused", "posted", "connecting", "open", "closing", "stuck",
                                "removed", "released"}]
    BY <1>11, SMT DEF Release
  <2> QED
    BY <1>11, <2>1, Zenon DEF Release
<1>12. ASSUME NEW s \in Sessions, Disconnect(s) PROVE TypeOK'
  <2>1. /\ life' \in [Sessions -> {"unused", "posted", "connecting", "open", "closing",
                                   "stuck", "removed", "released"}]
        /\ connected' \in [Sessions -> BOOLEAN]
    BY <1>12, Zenon DEF Disconnect
  <2> QED
    BY <1>12, <2>1, Zenon DEF Disconnect
<1>13. ASSUME NEW s \in Sessions, Leave(s) PROVE TypeOK'
  BY <1>13, SMT DEF Leave
<1>14. CASE UNCHANGED vars
  BY <1>14, SMT DEF vars
<1> HIDE DEF TypeOK
<1> QED
  BY <1>1, <1>2, <1>3, <1>4, <1>5, <1>6, <1>7, <1>8, <1>9, <1>10, <1>11, <1>12, <1>13,
     <1>14, NextCases, Zenon

\* Every variable always has its type.
THEOREM TypeCorrect == Spec => []TypeOK
BY TypeInit, TypeNext, PTL DEF Spec

-----------------------------------------------------------------------------
(***************************************************************************)
(* How often an id has been written.                                       *)
(***************************************************************************)
\* The number of writes is a number.
LEMMA WritesType ==
  ASSUME NEW s, NEW n \in Nat
  PROVE  IsFiniteSet({i \in 1 .. n : written[i] = s}) /\ WritesFor(s, n) \in Nat
<1>1. IsFiniteSet(1 .. n)
  BY FS_Interval
<1>2. IsFiniteSet({i \in 1 .. n : written[i] = s})
  BY <1>1, FS_Subset, Zenon
<1> QED
  BY <1>2, FS_CardinalityType, Zenon DEF WritesFor

\* A further write counts for the session it is for and leaves the counts before it.
LEMMA WriteCounts ==
  ASSUME written \in Seq(Sessions), NEW t \in Sessions, written' = Append(written, t),
         NEW s \in Sessions
  PROVE  /\ \A n \in 0 .. Len(written) : WritesFor(s, n)' = WritesFor(s, n)
         /\ Written(s)' = Written(s) + (IF s = t THEN 1 ELSE 0)
<1> DEFINE N == Len(written)
<1>1. /\ N \in Nat /\ Len(written') = N + 1 /\ written'[N + 1] = t
      /\ \A i \in 1 .. N : written'[i] = written[i]
  BY SMT
<1>2. ASSUME NEW n \in 0 .. N PROVE WritesFor(s, n)' = WritesFor(s, n)
  <2>1. {i \in 1 .. n : written'[i] = s} = {i \in 1 .. n : written[i] = s}
    BY <1>1, SMT
  <2> QED
    BY <2>1, Zenon DEF WritesFor
<1>3. Written(s)' = Written(s) + (IF s = t THEN 1 ELSE 0)
  <2> DEFINE before == {i \in 1 .. N : written[i] = s}
             after == {i \in 1 .. N + 1 : written'[i] = s}
  <2>1. Written(s) = Cardinality(before)
    BY Zenon DEF Written, WritesFor
  <2>2. Written(s)' = Cardinality(after)
    BY <1>1, Zenon DEF Written, WritesFor
  <2>3. IsFiniteSet(before) /\ N + 1 \notin before
    <3>1. IsFiniteSet(before)
      BY <1>1, WritesType, Zenon
    <3> QED
      BY <1>1, <3>1, SMT
  <2>4. after = IF s = t THEN before \cup {N + 1} ELSE before
    BY <1>1, SMT
  <2>5. CASE s = t
    <3>1. Cardinality(before \cup {N + 1}) = Cardinality(before) + 1
      BY <2>3, FS_AddElement, Zenon
    <3> QED
      BY <2>1, <2>2, <2>4, <2>5, <3>1
  <2>6. CASE s # t
    <3>1. Cardinality(before) \in Nat
      BY <2>3, FS_CardinalityType, Zenon
    <3> HIDE DEF before, after
    <3> QED
      BY <2>1, <2>2, <2>4, <2>6, <3>1, SMT
  <2> QED
    BY <2>5, <2>6
<1> QED
  BY <1>2, <1>3

\* Steps that touch neither the buffer nor the target.
LEMMA SenderUnchanged ==
  ASSUME SenderInv, TypeOK', UNCHANGED <<bufferVars, target>>
  PROVE  SenderInv'
<1>1. UNCHANGED <<written, pending, left, target>>
  BY DEF bufferVars
<1> QED
  BY <1>1, Zenon DEF SenderInv, Covered, LeftInTime, SenderIdCurrent, Written, WritesFor

\* No packet has been sent.
LEMMA SenderInit == Init => SenderInv
<1> SUFFICES ASSUME Init PROVE SenderInv
  OBVIOUS
<1>1. TypeOK
  BY TypeInit
<1>2. /\ \A s \in Sessions : left[s] = <<>> /\ pending[s] = 0
      /\ target = NoSession /\ Len(written) = 0
  BY SMT DEF Init
<1>3. \A s \in Sessions : Written(s) \in Nat
  BY <1>2, WritesType, SMT DEF Written
<1>4. Covered
  BY <1>2, <1>3, TestClientAssumption, SMT DEF Covered
<1>5. LeftInTime /\ SenderIdCurrent
  BY <1>2, SMT DEF LeftInTime, SenderIdCurrent
<1> QED
  BY <1>1, <1>4, <1>5 DEF SenderInv

\* The id of the next session is written.
LEMMA WriteKeeps ==
  ASSUME SenderInv, TypeOK', NEW t \in Sessions, WriteSenderId(t)
  PROVE  SenderInv'
<1>1. /\ target = NoSession /\ target' = t
      /\ written' = Append(written, t)
      /\ UNCHANGED <<pending, left>>
  BY DEF WriteSenderId
<1>2. /\ written \in Seq(Sessions)
      /\ \A s \in Sessions : left[s] \in Seq(Nat) /\ pending[s] \in Nat
  BY Zenon DEF SenderInv, TypeOK
<1>3. Len(written') = Len(written) + 1 /\ Len(written) \in Nat
  BY <1>1, <1>2, SMT
<1>4. Covered'
  <2> SUFFICES ASSUME NEW s \in Sessions
               PROVE  Len(left[s]) + pending[s] + (IF t = s THEN 1 ELSE 0) <= Written(s)'
    BY <1>1, Zenon DEF Covered
  <2>1. Len(left[s]) + pending[s] <= Written(s)
    BY <1>1, <1>2, TestClientAssumption, SMT DEF SenderInv, Covered
  <2>2. Written(s)' = Written(s) + (IF s = t THEN 1 ELSE 0)
    BY <1>1, <1>2, WriteCounts, Zenon
  <2>3. Written(s) \in Nat
    BY <1>3, WritesType, Zenon DEF Written
  <2>4. Len(left[s]) \in Nat /\ pending[s] \in Nat
    BY <1>2, SMT
  <2> QED
    BY <2>1, <2>2, <2>3, <2>4, SMT
<1>5. LeftInTime'
  <2> SUFFICES ASSUME NEW s \in Sessions, NEW i \in 1 .. Len(left[s])
               PROVE  left[s][i] \in 0 .. Len(written')
    BY <1>1, Zenon DEF LeftInTime
  <2>1. left[s][i] \in 0 .. Len(written)
    BY Zenon DEF SenderInv, LeftInTime
  <2> QED
    BY <1>3, <2>1, SMT
<1>6. SenderIdCurrent'
  <2> SUFFICES ASSUME NEW s \in Sessions, NEW i \in 1 .. Len(left[s])
               PROVE  Cardinality({j \in 1 .. left[s][i] : written'[j] = s}) >= i
    BY <1>1, Zenon DEF SenderIdCurrent, WritesFor
  <2>1. left[s][i] \in 0 .. Len(written)
    BY Zenon DEF SenderInv, LeftInTime
  <2>2. WritesFor(s, left[s][i]) >= i
    BY Zenon DEF SenderInv, SenderIdCurrent
  <2>3. {j \in 1 .. left[s][i] : written'[j] = s} = {j \in 1 .. left[s][i] : written[j] = s}
    BY <1>1, <1>2, <2>1, SMT
  <2> QED
    BY <2>2, <2>3, Zenon DEF WritesFor
<1> QED
  BY <1>4, <1>5, <1>6 DEF SenderInv

\* The session whose id has been written sends, or is not connected any more.
LEMMA SendKeeps ==
  ASSUME SenderInv, TypeOK', Send
  PROVE  SenderInv'
<1>1. /\ target \in Sessions /\ target' = NoSession
      /\ pending' = [pending EXCEPT ![target] = IF connected[target] THEN @ + 1 ELSE @]
      /\ UNCHANGED <<written, left>>
  BY DEF Send, SenderInv, TypeOK
<1>2. \A s \in Sessions : left[s] \in Seq(Nat) /\ pending[s] \in Nat
  BY Zenon DEF SenderInv, TypeOK
<1>3. Covered'
  <2> SUFFICES ASSUME NEW s \in Sessions
               PROVE  Len(left[s]) + pending'[s] + (IF target' = s THEN 1 ELSE 0)
                        <= Written(s)
    BY <1>1, Zenon DEF Covered, Written, WritesFor
  <2>1. Len(left[s]) + pending[s] + (IF target = s THEN 1 ELSE 0) <= Written(s)
    BY Zenon DEF SenderInv, Covered
  <2>2. Len(left[s]) \in Nat /\ pending[s] \in Nat /\ s # NoSession
    BY <1>2, TestClientAssumption, SMT
  <2>3. Written(s) \in Nat
    <3>1. Len(written) \in Nat
      BY SMT DEF SenderInv, TypeOK
    <3> QED
      BY <3>1, WritesType, Zenon DEF Written
  <2>4. pending \in [Sessions -> Nat]
    BY Zenon DEF SenderInv, TypeOK
  <2> QED
    BY <1>1, <2>1, <2>2, <2>3, <2>4, SMT
<1>4. LeftInTime' /\ SenderIdCurrent'
  BY <1>1, Zenon DEF SenderInv, LeftInTime, SenderIdCurrent, WritesFor
<1> QED
  BY <1>3, <1>4 DEF SenderInv

\* The packet that leaves carries what has been written so far.
LEMMA LeaveKeeps ==
  ASSUME SenderInv, TypeOK', NEW t \in Sessions, Leave(t)
  PROVE  SenderInv'
<1>1. /\ pending[t] > 0
      /\ pending' = [pending EXCEPT ![t] = @ - 1]
      /\ left' = [left EXCEPT ![t] = Append(@, Len(written))]
      /\ UNCHANGED <<written, target>>
  BY DEF Leave, loopVars
<1>2. /\ written \in Seq(Sessions) /\ left \in [Sessions -> Seq(Nat)]
      /\ pending \in [Sessions -> Nat]
  BY DEF SenderInv, TypeOK
<1>3. ASSUME NEW s \in Sessions
      PROVE  /\ Len(left[s]) \in Nat /\ pending[s] \in Nat
             /\ Len(written) \in Nat /\ Written(s) \in Nat
             /\ s # t => left'[s] = left[s] /\ pending'[s] = pending[s]
  <2>1. Len(written) \in Nat /\ Len(left[s]) \in Nat /\ pending[s] \in Nat
    BY <1>2, SMT
  <2>2. Written(s) \in Nat
    BY <2>1, WritesType, Zenon DEF Written
  <2> QED
    BY <1>1, <1>2, <2>1, <2>2, SMT
<1>4. /\ Len(left'[t]) = Len(left[t]) + 1 /\ pending'[t] = pending[t] - 1
      /\ left'[t][Len(left[t]) + 1] = Len(written)
      /\ \A i \in 1 .. Len(left[t]) : left'[t][i] = left[t][i]
  <2>1. left'[t] = Append(left[t], Len(written)) /\ left[t] \in Seq(Nat)
    BY <1>1, <1>2, SMT
  <2> QED
    BY <1>1, <1>2, <1>3, <2>1, SMT
<1>5. \A s \in Sessions :
        Len(left[s]) + pending[s] + (IF target = s THEN 1 ELSE 0) <= Written(s)
  BY Zenon DEF SenderInv, Covered
<1>6. Covered'
  <2> SUFFICES ASSUME NEW s \in Sessions
               PROVE  Len(left'[s]) + pending'[s] + (IF target = s THEN 1 ELSE 0)
                        <= Written(s)
    BY <1>1, Zenon DEF Covered, Written, WritesFor
  <2>1. CASE s = t
    <3>1. /\ Len(left[s]) \in Nat /\ pending[s] \in Nat /\ Written(s) \in Nat
          /\ Len(left[s]) + pending[s] + (IF target = s THEN 1 ELSE 0) <= Written(s)
      BY <1>3, <1>5
    <3>2. Len(left'[s]) = Len(left[s]) + 1 /\ pending'[s] = pending[s] - 1
      BY <1>4, <2>1, Zenon
    <3> QED
      BY <3>1, <3>2, SMT
  <2>2. CASE s # t
    BY <1>3, <1>5, <2>2, Zenon
  <2> QED
    BY <2>1, <2>2
<1>7. ASSUME NEW s \in Sessions, NEW i \in 1 .. Len(left'[s])
      PROVE  left'[s][i] \in 0 .. Len(written) /\ WritesFor(s, left'[s][i]) >= i
  <2>1. CASE s = t /\ i = Len(left[t]) + 1
    <3>1. left'[s][i] = Len(written)
      BY <1>4, <2>1, Zenon
    <3>2. Written(s) >= i
      BY <1>1, <1>3, <1>5, <2>1, SMT
    <3> QED
      BY <1>3, <3>1, <3>2, SMT DEF Written
  <2>2. CASE ~(s = t /\ i = Len(left[t]) + 1)
    <3>1. i \in 1 .. Len(left[s]) /\ left'[s][i] = left[s][i]
      BY <1>3, <1>4, <2>2, SMT
    <3> QED
      BY <3>1, Zenon DEF SenderInv, LeftInTime, SenderIdCurrent
  <2> QED
    BY <2>1, <2>2
<1>8. LeftInTime'
  BY <1>1, <1>7, Zenon DEF LeftInTime
<1>9. SenderIdCurrent'
  BY <1>1, <1>7, Zenon DEF SenderIdCurrent, WritesFor
<1> QED
  BY <1>6, <1>8, <1>9 DEF SenderInv

\* Every step keeps the account.
LEMMA SenderNext == SenderInv /\ [Next]_vars => SenderInv'
<1> SUFFICES ASSUME SenderInv, [Next]_vars PROVE SenderInv'
  OBVIOUS
<1>1. TypeOK'
  BY TypeNext DEF SenderInv
<1>2. ASSUME UNCHANGED <<bufferVars, target>> PROVE SenderInv'
  BY <1>1, <1>2, SenderUnchanged
<1>3. ASSUME NEW s \in Sessions, StartSession(s) PROVE SenderInv'
  BY <1>2, <1>3, Zenon DEF StartSession, loopVars
<1>4. CASE StartFails
  BY <1>2, <1>4, Zenon DEF StartFails, loopVars
<1>5. CASE Launch
  BY <1>2, <1>5, Zenon DEF Launch
<1>6. CASE Send
  BY <1>1, <1>6, SendKeeps
<1>7. CASE BroadcastEnd
  BY <1>2, <1>7, Zenon DEF BroadcastEnd
<1>8. CASE Broadcast
  BY <1>2, <1>8, Zenon DEF Broadcast
<1>9. ASSUME NEW s \in Sessions, WriteSenderId(s) PROVE SenderInv'
  BY <1>1, <1>9, WriteKeeps
<1>10. ASSUME NEW s \in Sessions, ProcessConnect(s) PROVE SenderInv'
  BY <1>2, <1>10, Zenon DEF ProcessConnect, loopVars
<1>11. ASSUME NEW s \in Sessions, Add(s) PROVE SenderInv'
  BY <1>2, <1>11, Zenon DEF Add, loopVars
<1>12. ASSUME NEW s \in Sessions, Remove(s) PROVE SenderInv'
  BY <1>2, <1>12, Zenon DEF Remove, loopVars
<1>13. ASSUME NEW s \in Sessions, Release(s) PROVE SenderInv'
  BY <1>2, <1>13, Zenon DEF Release, loopVars
<1>14. ASSUME NEW s \in Sessions, Disconnect(s) PROVE SenderInv'
  BY <1>2, <1>14, Zenon DEF Disconnect, loopVars
<1>15. ASSUME NEW s \in Sessions, Leave(s) PROVE SenderInv'
  BY <1>1, <1>15, LeaveKeeps
<1>16. CASE UNCHANGED vars
  BY <1>2, <1>16, Zenon DEF vars, loopVars
<1> QED
  BY <1>3, <1>4, <1>5, <1>6, <1>7, <1>8, <1>9, <1>10, <1>11, <1>12, <1>13, <1>14, <1>15,
     <1>16, NextCases, Zenon

(***************************************************************************)
(* Broadcast writes each sender's id into the one buffer all packets       *)
(* share, and a packet that leaves late carries a later id, never one      *)
(* written before its own.                                                 *)
(***************************************************************************)
THEOREM SenderIdsAreCurrent == Spec => []SenderIdCurrent
<1>1. SenderInv => SenderIdCurrent
  BY DEF SenderInv
<1> QED
  BY <1>1, SenderInit, SenderNext, PTL DEF Spec
-----------------------------------------------------------------------------
(***************************************************************************)
(* The manager and its lock.                                               *)
(***************************************************************************)
\* There is no session yet.
LEMMA ManagerInit == Init => ManagerInv
<1> SUFFICES ASSUME Init PROVE ManagerInv
  OBVIOUS
<1>1. TypeOK
  BY TypeInit
<1>2. Managed /\ Guarded /\ Served
  BY SMT DEF Init, ServiceInit, Managed, Guarded, Served
<1> QED
  BY <1>1, <1>2 DEF ManagerInv

\* Sessions come into the manager and leave it only between two broadcasts, and the
\* service erases those it has.
LEMMA ManagerNext == ManagerInv /\ [Next]_vars => ManagerInv'
<1> SUFFICES ASSUME ManagerInv, [Next]_vars PROVE ManagerInv'
  OBVIOUS
<1>0. TypeOK'
  BY TypeNext DEF ManagerInv
<1>1. /\ life \in [Sessions -> {"unused", "posted", "connecting", "open", "closing", "stuck",
                               "removed", "released"}]
      /\ sessions \subseteq Sessions /\ manager \subseteq Sessions /\ todo \subseteq Sessions
      /\ target \in Sessions \cup {NoSession} /\ NoSession \notin Sessions
      /\ crashed \in BOOLEAN
  BY TestClientAssumption, Zenon DEF ManagerInv, TypeOK, ServiceTypeOK
<1> DEFINE Kept == Managed' /\ Guarded' /\ Served'
<1> SUFFICES Kept
  BY <1>0 DEF ManagerInv
<1> USE <1>1 DEF Managed, Guarded, Served, serviceVars, sessionVars, bufferVars, loopVars, Goto
<1>2. Managed /\ Guarded /\ Served
  BY DEF ManagerInv
<1>3. ASSUME NEW s \in Sessions, StartSession(s) PROVE Kept
  <2>1. UNCHANGED <<sessions, sessionCount, crashed>>
    BY <1>3, Zenon DEF StartSession, CreateSession
  <2> QED
    BY <1>2, <1>3, <2>1, SMT DEF StartSession
<1>4. CASE StartFails
  BY <1>2, <1>4, SMT DEF StartFails
<1>5. CASE Launch
  <2>1. main = "starting" /\ main' = "sleeping"
    BY <1>5, Zenon DEF Launch
  <2>2. ~crashed
    BY <2>1, SMT DEF Next, vars
  <2> QED
    BY <1>2, <1>5, <2>2, SMT DEF Launch
<1>6. CASE Send
  BY <1>2, <1>6, SMT DEF Send
<1>7. CASE BroadcastEnd
  BY <1>2, <1>7, SMT DEF BroadcastEnd
<1>8. CASE Broadcast
  BY <1>2, <1>8, SMT DEF Broadcast
<1>9. ASSUME NEW s \in Sessions, WriteSenderId(s) PROVE Kept
  BY <1>2, <1>9, SMT DEF WriteSenderId
<1>10. ASSUME NEW s \in Sessions, ProcessConnect(s) PROVE Kept
  BY <1>2, <1>10, SMT DEF ProcessConnect, AddSession
<1>11. ASSUME NEW s \in Sessions, Add(s) PROVE Kept
  BY <1>2, <1>11, SMT DEF Add, Unlocked
<1>12. ASSUME NEW s \in Sessions, Remove(s) PROVE Kept
  BY <1>2, <1>12, SMT DEF Remove, Unlocked
<1>13. ASSUME NEW s \in Sessions, Release(s) PROVE Kept
  BY <1>2, <1>13, SMT DEF Release, ReleaseSession
<1>14. ASSUME NEW s \in Sessions, Disconnect(s) PROVE Kept
  BY <1>2, <1>14, SMT DEF Disconnect
<1>15. ASSUME NEW s \in Sessions, Leave(s) PROVE Kept
  BY <1>2, <1>15, SMT DEF Leave
<1>16. CASE UNCHANGED vars
  BY <1>2, <1>16, SMT DEF vars
<1> HIDE DEF Kept
<1> QED
  BY <1>3, <1>4, <1>5, <1>6, <1>7, <1>8, <1>9, <1>10, <1>11, <1>12, <1>13, <1>14, <1>15,
     <1>16, NextCases, Zenon

\* The manager holds the sessions that have been opened and not been removed, and
\* those a broadcast has yet to reach stay there until it has: the read lock.
BroadcastGuarded ==
  /\ Managed
  /\ todo \subseteq manager
  /\ target # NoSession => target \in manager

(***************************************************************************)
(* Broadcast never reaches for a session that OnDisconnected has removed   *)
(* (and the worker released) meanwhile.                                    *)
(***************************************************************************)
THEOREM NobodyLeavesABroadcast == Spec => []BroadcastGuarded
<1>1. ManagerInv => BroadcastGuarded
  BY DEF ManagerInv, BroadcastGuarded, Guarded
<1> QED
  BY <1>1, ManagerInit, ManagerNext, PTL DEF Spec

OnlyStartFails == crashed => main = "starting"

(***************************************************************************)
(* Once main has started the service, the assertion in ReleaseSession does *)
(* not fire: every session that is released was added.                     *)
(***************************************************************************)
THEOREM OnlyStartCrashes == Spec => []OnlyStartFails
<1>1. ManagerInv => OnlyStartFails
  BY DEF ManagerInv, OnlyStartFails, Served
<1> QED
  BY <1>1, ManagerInit, ManagerNext, PTL DEF Spec
=============================================================================
