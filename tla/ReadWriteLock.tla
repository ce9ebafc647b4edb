--------------------------- MODULE ReadWriteLock ---------------------------
(***************************************************************************)
(* What class Lock promises to those who use its guards: a reader-writer   *)
(* lock that a thread may take again inside its own write guard.  A thread *)
(* holds a stack of guards, as C++ scopes nest.                            *)
(***************************************************************************)
EXTENDS Integers, Sequences

CONSTANT Threads

VARIABLE held  \* the guards each thread holds, innermost last

Init == held = [t \in Threads |-> <<>>]

Holds(t, kind) == \E i \in 1 .. Len(held[t]) : held[t][i] = kind

\* A writer shares the lock with nobody.
AcquireWrite(t) ==
  /\ \A u \in Threads \ {t} : held[u] = <<>>
  /\ held' = [held EXCEPT ![t] = Append(@, "W")]

\* A reader shares it with other readers.
AcquireRead(t) ==
  /\ \A u \in Threads \ {t} : ~Holds(u, "W")
  /\ held' = [held EXCEPT ![t] = Append(@, "R")]

Release(t) ==
  /\ held[t] # <<>>
  /\ held' = [held EXCEPT ![t] = SubSeq(@, 1, Len(@) - 1)]

Next == \E t \in Threads : AcquireWrite(t) \/ AcquireRead(t) \/ Release(t)

Spec == Init /\ [][Next]_held
=============================================================================
