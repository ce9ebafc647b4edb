----------------------------- MODULE LockProofs -----------------------------
(***************************************************************************)
(* Theorems about Lock for every set of threads, finite or not, and every  *)
(* depth to which guards are nested; only the last counts the threads.     *)
(***************************************************************************)
EXTENDS Lock, FiniteSets, FiniteSetTheorems, SequenceTheorems, TLAPS

-----------------------------------------------------------------------------
(***************************************************************************)
(* The inductive invariant: what the flag and the count of write locks say *)
(* of the guards that are held.                                            *)
(***************************************************************************)

\* The read guards, each named by its holder and its depth.
ReadGuards ==
  {g \in Threads \X Nat : g[2] \in 1 .. Len(held[g[1]]) /\ held[g[1]][g[2]] = "R"}

\* The flag counts them.
Counted == IsFiniteSet(ReadGuards) /\ lockFlag.readers = Cardinality(ReadGuards)

\* How many write guards thread t holds.
WriteDepth(t) ==
  IF lockFlag.writer # t THEN 0 ELSE IF pc[t] = "unlockStore" THEN 1 ELSE writeCount

\* A thread's write guards are below its read guards.
Layered ==
  \A t \in Threads :
    /\ WriteDepth(t) <= Len(held[t])
    /\ \A i \in 1 .. Len(held[t]) : held[t][i] = "W" <=> i <= WriteDepth(t)

\* What is true where a thread stands.
Stage(t) ==
  /\ pc[t] \in {"writeSpin", "readLoad", "readSwap"} => lockFlag.writer # t
  /\ pc[t] \in {"writeCount", "unlockCount", "unlockStore"} => lockFlag.writer = t
  /\ pc[t] = "writeCount" => writeCount = 0 /\ held[t] = <<>>
  /\ pc[t] = "unlockCount" => writeCount > 0 /\ Len(held[t]) = writeCount
  /\ pc[t] = "unlockStore" => writeCount = 0 /\ Len(held[t]) = 1
  /\ pc[t] = "run" /\ lockFlag.writer = t => writeCount > 0

Stages == \A t \in Threads : Stage(t)

\* Under a writer nobody else holds a guard.
Alone == \A t, u \in Threads : lockFlag.writer = t /\ t # u => held[u] = <<>>

LockInv ==
  /\ TypeOK
  /\ Counted
  /\ Layered
  /\ Stages
  /\ Alone
  /\ lockFlag.writer = NoThread => writeCount = 0
  /\ ~crashed

-----------------------------------------------------------------------------
\* What taking a guard does to the guards held.
LEMMA PushFacts ==
  ASSUME TypeOK, NEW t \in Threads, NEW kind \in Kinds, Push(t, kind)
  PROVE  /\ held' \in [Threads -> Seq(Kinds)]
         /\ \A u \in Threads \ {t} : held'[u] = held[u]
         /\ Len(held[t]) \in Nat
         /\ Len(held'[t]) = Len(held[t]) + 1
         /\ \A i \in 1 .. Len(held[t]) : held'[t][i] = held[t][i]
         /\ held'[t][Len(held[t]) + 1] = kind
<1>1. held \in [Threads -> Seq(Kinds)] /\ held[t] \in Seq(Kinds)
  BY DEF TypeOK
<1>2. held' = [held EXCEPT ![t] = Append(held[t], kind)]
  BY DEF Push
<1>3. held'[t] = Append(held[t], kind) /\ \A u \in Threads \ {t} : held'[u] = held[u]
  BY <1>1, <1>2
<1>4. Append(held[t], kind) \in Seq(Kinds)
  BY <1>1, AppendProperties
<1>5. held' \in [Threads -> Seq(Kinds)]
  BY <1>1, <1>2, <1>4
<1>6. Len(held[t]) \in Nat
  BY <1>1, LenProperties
<1> QED
  BY <1>1, <1>3, <1>5, <1>6, AppendProperties

\* A prefix of a stack of guards.
LEMMA PrefixFacts ==
  ASSUME NEW s, NEW n \in Nat, \A i \in 1 .. n : s[i] \in Kinds
  PROVE  /\ SubSeq(s, 1, n) \in Seq(Kinds)
         /\ Len(SubSeq(s, 1, n)) = n
         /\ \A i \in 1 .. n : SubSeq(s, 1, n)[i] = s[i]
  BY SubSeqProperties

\* What giving up the innermost guard does.
LEMMA PopFacts ==
  ASSUME TypeOK, NEW t \in Threads, held[t] # <<>>, Pop(t)
  PROVE  /\ held' \in [Threads -> Seq(Kinds)]
         /\ \A u \in Threads \ {t} : held'[u] = held[u]
         /\ Len(held[t]) \in Nat \ {0}
         /\ Len(held'[t]) = Len(held[t]) - 1
         /\ \A i \in 1 .. Len(held[t]) - 1 : held'[t][i] = held[t][i]
<1> DEFINE rest == SubSeq(held[t], 1, Len(held[t]) - 1)
<1>1. held \in [Threads -> Seq(Kinds)] /\ held[t] \in Seq(Kinds)
  BY DEF TypeOK
<1>2. held' = [held EXCEPT ![t] = rest]
  BY DEF Pop
<1>3. held'[t] = rest /\ \A u \in Threads \ {t} : held'[u] = held[u]
  BY <1>1, <1>2
<1>4. Len(held[t]) \in Nat \ {0}
  BY <1>1, EmptySeq, LenProperties
<1>5. \A i \in 1 .. Len(held[t]) - 1 : held[t][i] \in Kinds
  BY <1>1, <1>4, ElementOfSeq
<1>6. /\ rest \in Seq(Kinds)
      /\ Len(rest) = Len(held[t]) - 1
      /\ \A i \in 1 .. Len(held[t]) - 1 : rest[i] = held[t][i]
  BY <1>4, <1>5, PrefixFacts
<1>7. held' \in [Threads -> Seq(Kinds)]
  BY <1>1, <1>2, <1>6
<1> QED
  BY <1>3, <1>4, <1>6, <1>7

-----------------------------------------------------------------------------
\* A new read guard is one more.
LEMMA ReadGuardAdded ==
  ASSUME TypeOK, NEW t \in Threads, Push(t, "R"), Counted
  PROVE  IsFiniteSet(ReadGuards)' /\ Cardinality(ReadGuards') = lockFlag.readers + 1
<1> DEFINE g == <<t, Len(held[t]) + 1>>
<1>1. "R" \in Kinds
  BY DEF Kinds
<1>2. /\ \A u \in Threads \ {t} : held'[u] = held[u]
      /\ Len(held[t]) \in Nat
      /\ Len(held'[t]) = Len(held[t]) + 1
      /\ \A i \in 1 .. Len(held[t]) : held'[t][i] = held[t][i]
      /\ held'[t][Len(held[t]) + 1] = "R"
  BY <1>1, PushFacts
<1>3. g \notin ReadGuards
  BY <1>2 DEF ReadGuards
<1>4. ReadGuards' = ReadGuards \cup {g}
  <2>1. g \in ReadGuards'
    BY <1>2 DEF ReadGuards
  <2>2. ASSUME NEW x \in ReadGuards PROVE x \in ReadGuards'
    <3>1. CASE x[1] = t
      BY <1>2, <3>1 DEF ReadGuards
    <3>2. CASE x[1] # t
      BY <1>2, <3>2 DEF ReadGuards
    <3> QED
      BY <3>1, <3>2
  <2>3. ReadGuards' \subseteq ReadGuards \cup {g}
    BY <1>2 DEF ReadGuards
  <2> QED
    BY <2>1, <2>2, <2>3
<1> QED
  BY <1>3, <1>4, FS_AddElement DEF Counted

\* A read guard given up is one less.
LEMMA ReadGuardRemoved ==
  ASSUME TypeOK, NEW t \in Threads, Innermost(t, "R"), Pop(t), Counted
  PROVE  /\ lockFlag.readers # 0
         /\ IsFiniteSet(ReadGuards)'
         /\ Cardinality(ReadGuards') = lockFlag.readers - 1
<1> DEFINE g == <<t, Len(held[t])>>
<1>1. /\ \A u \in Threads \ {t} : held'[u] = held[u]
      /\ Len(held[t]) \in Nat \ {0}
      /\ Len(held'[t]) = Len(held[t]) - 1
      /\ \A i \in 1 .. Len(held[t]) - 1 : held'[t][i] = held[t][i]
      /\ held[t][Len(held[t])] = "R"
  BY PopFacts DEF Innermost
<1>2. g \in ReadGuards
  BY <1>1 DEF ReadGuards
<1>3. ReadGuards' = ReadGuards \ {g}
  <2>1. ReadGuards' \subseteq ReadGuards /\ g \notin ReadGuards'
    BY <1>1 DEF ReadGuards
  <2>2. ReadGuards \ {g} \subseteq ReadGuards'
    BY <1>1 DEF ReadGuards
  <2> QED
    BY <2>1, <2>2
<1>4. lockFlag.readers # 0
  BY <1>2, FS_EmptySet DEF Counted
<1> QED
  BY <1>2, <1>3, <1>4, FS_RemoveElement DEF Counted

\* Taking a write guard, or giving one up, leaves the read guards alone.
LEMMA ReadGuardsKept ==
  ASSUME TypeOK, NEW t \in Threads, Push(t, "W") \/ (Innermost(t, "W") /\ Pop(t))
  PROVE  ReadGuards' = ReadGuards
<1>1. CASE Push(t, "W")
  <2>1. "W" \in Kinds
    BY DEF Kinds
  <2>2. /\ \A u \in Threads \ {t} : held'[u] = held[u]
        /\ Len(held[t]) \in Nat
        /\ Len(held'[t]) = Len(held[t]) + 1
        /\ \A i \in 1 .. Len(held[t]) : held'[t][i] = held[t][i]
        /\ held'[t][Len(held[t]) + 1] = "W"
    BY <1>1, <2>1, PushFacts
  <2> QED
    BY <2>2 DEF ReadGuards
<1>2. CASE Innermost(t, "W") /\ Pop(t)
  <2>1. /\ \A u \in Threads \ {t} : held'[u] = held[u]
        /\ Len(held[t]) \in Nat \ {0}
        /\ Len(held'[t]) = Len(held[t]) - 1
        /\ \A i \in 1 .. Len(held[t]) - 1 : held'[t][i] = held[t][i]
        /\ held[t][Len(held[t])] = "W"
    BY <1>2, PopFacts DEF Innermost
  <2> QED
    BY <2>1 DEF ReadGuards
<1> QED
  BY <1>1, <1>2

-----------------------------------------------------------------------------
\* When the flag is empty nobody holds a guard.
LEMMA EmptyFlag ==
  ASSUME LockInv, lockFlag = EMPTY_FLAG
  PROVE  \A u \in Threads : held[u] = <<>>
<1> SUFFICES ASSUME NEW u \in Threads, held[u] # <<>> PROVE FALSE
  OBVIOUS
<1> DEFINE n == Len(held[u])
<1>1. held[u] \in Seq(Kinds) /\ n \in Nat \ {0} /\ held[u][n] \in Kinds
  BY EmptySeq, LenProperties, ElementOfSeq DEF LockInv, TypeOK
<1>2. lockFlag.writer # u /\ lockFlag.readers = 0
  BY LockAssumption DEF EMPTY_FLAG
<1>3. held[u][n] # "W"
  BY <1>1, <1>2 DEF LockInv, Layered, WriteDepth
<1>4. held[u][n] = "R"
  BY <1>1, <1>3 DEF Kinds
<1>5. <<u, n>> \in ReadGuards
  BY <1>1, <1>4 DEF ReadGuards
<1> QED
  BY <1>2, <1>5, FS_EmptySet DEF LockInv, Counted

\* When the innermost guard is a write guard the lock is the thread's, and
\* nobody reads.
LEMMA InnermostWrite ==
  ASSUME LockInv, NEW t \in Threads, Innermost(t, "W")
  PROVE  /\ lockFlag.writer = t
         /\ lockFlag.readers = 0
         /\ Len(held[t]) \in Nat \ {0}
         /\ Len(held[t]) = WriteDepth(t)
<1> DEFINE n == Len(held[t])
<1>1. held[t] \in Seq(Kinds) /\ n \in Nat \ {0} /\ held[t][n] = "W"
  BY EmptySeq, LenProperties DEF LockInv, TypeOK, Innermost
<1>2. n <= WriteDepth(t) /\ WriteDepth(t) <= n
  BY <1>1 DEF LockInv, Layered
<1>3. lockFlag.writer = t
  BY <1>1, <1>2 DEF WriteDepth
<1>4. WriteDepth(t) \in Nat
  BY DEF LockInv, TypeOK, WriteDepth
<1>5. n = WriteDepth(t)
  BY <1>1, <1>2, <1>4
<1>6. \A i \in 1 .. n : held[t][i] # "R"
  BY <1>5 DEF LockInv, Layered
<1>7. \A u \in Threads \ {t} : held[u] = <<>>
  BY <1>3 DEF LockInv, Alone
<1>8. ReadGuards = {}
  BY <1>6, <1>7 DEF ReadGuards
<1>9. lockFlag.readers = 0
  BY <1>8, FS_EmptySet DEF LockInv, Counted
<1> QED
  BY <1>1, <1>3, <1>5, <1>9

-----------------------------------------------------------------------------
\* The initial state satisfies the invariant.
LEMMA LockInvInit == Init => LockInv
<1> SUFFICES ASSUME Init PROVE LockInv
  OBVIOUS
<1> USE DEF Init
<1>1. TypeOK
  BY EmptySeq DEF TypeOK, EMPTY_FLAG, States
<1>2. Counted
  <2>1. ReadGuards = {}
    BY DEF ReadGuards
  <2> QED
    BY <2>1, FS_EmptySet DEF Counted, EMPTY_FLAG
<1>3. Layered /\ Stages /\ Alone
  BY LockAssumption DEF Layered, WriteDepth, Stages, Stage, Alone, EMPTY_FLAG
<1> QED
  BY <1>1, <1>2, <1>3 DEF LockInv

\* A nested write lock.
LEMMA WriteLockAgain ==
  ASSUME LockInv, NEW t \in Threads, WriteLock(t), lockFlag.writer = t
  PROVE  LockInv'
<1>1. /\ pc[t] = "run" /\ MayWrite(t) /\ Push(t, "W")
      /\ writeCount' = writeCount + 1
      /\ UNCHANGED <<lockFlag, expected, crashed, pc>>
  BY DEF WriteLock
<1>2. /\ held' \in [Threads -> Seq(Kinds)]
      /\ \A u \in Threads \ {t} : held'[u] = held[u]
      /\ Len(held[t]) \in Nat
      /\ Len(held'[t]) = Len(held[t]) + 1
      /\ \A i \in 1 .. Len(held[t]) : held'[t][i] = held[t][i]
      /\ held'[t][Len(held[t]) + 1] = "W"
  BY <1>1, PushFacts DEF LockInv, Kinds
<1>3. writeCount \in Nat /\ writeCount > 0 /\ WriteDepth(t) = writeCount
  BY <1>1 DEF LockInv, TypeOK, Stages, Stage, WriteDepth
<1>4. Len(held[t]) = writeCount
  BY <1>1, <1>2, <1>3 DEF LockInv, Layered, MayWrite
<1>5. TypeOK'
  BY <1>1, <1>2, <1>3 DEF LockInv, TypeOK
<1>6. Counted'
  BY <1>1, ReadGuardsKept DEF LockInv, Counted
<1>7. Layered'
  <2>1. \A u \in Threads \ {t} : WriteDepth(u)' = 0 /\ WriteDepth(u) = 0
    BY <1>1 DEF WriteDepth
  <2>2. WriteDepth(t)' = Len(held'[t])
    BY <1>1, <1>2, <1>4 DEF WriteDepth
  <2>3. \A i \in 1 .. Len(held'[t]) : held'[t][i] = "W"
    BY <1>1, <1>2 DEF MayWrite
  <2> QED
    BY <1>2, <2>1, <2>2, <2>3 DEF LockInv, Layered
<1>8. Stages' /\ Alone'
  BY <1>1, <1>2, <1>3 DEF LockInv, Stages, Stage, Alone
<1> QED
  BY <1>1, <1>5, <1>6, <1>7, <1>8, LockAssumption DEF LockInv

\* The swap of an empty flag.
LEMMA WriteSwapKeeps ==
  ASSUME LockInv, NEW t \in Threads, WriteSwap(t)
  PROVE  LockInv'
<1>1. /\ lockFlag = EMPTY_FLAG /\ pc[t] = "writeSpin"
      /\ pc' = [pc EXCEPT ![t] = "writeCount"]
      /\ lockFlag' = [lockFlag EXCEPT !.writer = t]
      /\ UNCHANGED <<writeCount, held, expected, crashed>>
  BY DEF WriteSwap, Goto
<1>2. lockFlag'.writer = t /\ lockFlag'.readers = lockFlag.readers
  BY <1>1 DEF LockInv, TypeOK
<1>3. \A u \in Threads : held[u] = <<>>
  BY <1>1, EmptyFlag
<1>4. writeCount = 0 /\ lockFlag.writer = NoThread
  BY <1>1 DEF LockInv, EMPTY_FLAG
<1>5. TypeOK'
  BY <1>1 DEF LockInv, TypeOK, States
<1>6. Counted'
  BY <1>1, <1>2 DEF LockInv, Counted, ReadGuards
<1>7. pc'[t] = "writeCount" /\ \A u \in Threads \ {t} : pc'[u] = pc[u]
  BY <1>1 DEF LockInv, TypeOK
<1>8. Layered'
  BY <1>1, <1>2, <1>3, <1>4, <1>7 DEF Layered, WriteDepth
<1>9. Stages' /\ Alone'
  BY <1>1, <1>2, <1>3, <1>4, <1>7, LockAssumption DEF LockInv, Stages, Stage, Alone
<1> QED
  BY <1>1, <1>2, <1>5, <1>6, <1>8, <1>9, LockAssumption DEF LockInv

\* The first write lock is counted.
LEMMA WriteCountKeeps ==
  ASSUME LockInv, NEW t \in Threads, WriteCount(t)
  PROVE  LockInv'
<1>1. /\ pc[t] = "writeCount"
      /\ pc' = [pc EXCEPT ![t] = "run"]
      /\ writeCount' = writeCount + 1
      /\ Push(t, "W")
      /\ UNCHANGED <<lockFlag, expected, crashed>>
  BY DEF WriteCount, Goto
<1>2. /\ held' \in [Threads -> Seq(Kinds)]
      /\ \A u \in Threads \ {t} : held'[u] = held[u]
      /\ Len(held'[t]) = Len(held[t]) + 1
      /\ held'[t][Len(held[t]) + 1] = "W"
  BY <1>1, PushFacts DEF LockInv, Kinds
<1>3. lockFlag.writer = t /\ writeCount = 0 /\ Len(held[t]) = 0
  BY <1>1 DEF LockInv, Stages, Stage
<1>4. pc'[t] = "run" /\ \A u \in Threads \ {t} : pc'[u] = pc[u]
  BY <1>1 DEF LockInv, TypeOK
<1>5. TypeOK'
  <2>1. writeCount' \in Nat
    BY <1>1, <1>3
  <2>2. pc' \in [Threads -> States]
    BY <1>1 DEF LockInv, TypeOK, States
  <2> QED
    BY <1>1, <1>2, <2>1, <2>2 DEF LockInv, TypeOK
<1>6. Counted'
  BY <1>1, ReadGuardsKept DEF LockInv, Counted
<1>7. Layered'
  <2>1. \A u \in Threads \ {t} : WriteDepth(u)' = 0 /\ WriteDepth(u) = 0
    BY <1>1, <1>3 DEF WriteDepth
  <2>2. WriteDepth(t)' = 1 /\ Len(held'[t]) = 1 /\ held'[t][1] = "W"
    BY <1>1, <1>2, <1>3, <1>4 DEF WriteDepth
  <2>3. \A i \in 1 .. Len(held'[t]) : held'[t][i] = "W" <=> i <= WriteDepth(t)'
    BY <2>2
  <2>4. WriteDepth(t)' <= Len(held'[t])
    BY <2>2
  <2> QED
    BY <1>2, <2>1, <2>3, <2>4 DEF LockInv, Layered
<1>8. Stages' /\ Alone'
  BY <1>1, <1>2, <1>3, <1>4 DEF LockInv, Stages, Stage, Alone
<1> QED
  BY <1>1, <1>3, <1>5, <1>6, <1>7, <1>8, LockAssumption DEF LockInv

(***************************************************************************)
(* A step that only moves a thread, from and to a stage that says as much  *)
(* about its guards.                                                       *)
(***************************************************************************)
LEMMA OnlyMoves ==
  ASSUME LockInv, NEW t \in Threads,
         UNCHANGED <<lockFlag, writeCount, held>>,
         crashed' = FALSE,
         expected' \in [Threads -> Nat],
         pc[t] # "unlockStore",
         NEW to \in {"writeSpin", "readLoad", "readSwap", "unlockCount"},
         pc' = [pc EXCEPT ![t] = to],
         IF to = "unlockCount"
           THEN lockFlag.writer = t /\ Len(held[t]) = writeCount /\ writeCount > 0
           ELSE lockFlag.writer # t
  PROVE  LockInv'
<1>1. pc'[t] = to /\ \A u \in Threads \ {t} : pc'[u] = pc[u]
  BY DEF LockInv, TypeOK
<1>2. TypeOK'
  <2>1. pc' \in [Threads -> States]
    BY DEF LockInv, TypeOK, States
  <2> QED
    BY <2>1 DEF LockInv, TypeOK
<1>3. Counted'
  BY DEF LockInv, Counted, ReadGuards
<1>4. Layered'
  <2>1. \A u \in Threads : WriteDepth(u)' = WriteDepth(u)
    BY <1>1 DEF WriteDepth
  <2> QED
    BY <2>1 DEF LockInv, Layered
<1>5. Stages'
  BY <1>1 DEF LockInv, Stages, Stage
<1>6. Alone'
  BY DEF LockInv, Alone
<1> QED
  BY <1>2, <1>3, <1>4, <1>5, <1>6 DEF LockInv

\* WriteUnlock finds no reader.
LEMMA WriteUnlockKeeps ==
  ASSUME LockInv, NEW t \in Threads, WriteUnlock(t)
  PROVE  LockInv'
<1>1. /\ pc[t] = "run" /\ Innermost(t, "W")
      /\ pc' = [pc EXCEPT ![t] = "unlockCount"]
      /\ crashed' = (crashed \/ lockFlag.readers # 0)
      /\ UNCHANGED <<lockFlag, writeCount, held, expected>>
  BY DEF WriteUnlock, Goto
<1>2. lockFlag.writer = t /\ lockFlag.readers = 0 /\ Len(held[t]) = writeCount
  BY <1>1, InnermostWrite DEF WriteDepth
<1>3. writeCount > 0
  BY <1>1, <1>2 DEF LockInv, Stages, Stage
<1>4. crashed' = FALSE
  <2>1. crashed = FALSE
    BY DEF LockInv, TypeOK
  <2>2. lockFlag.readers # 0 <=> FALSE
    BY <1>2
  <2> QED
    BY <1>1, <2>1, <2>2, Zenon
<1>5. expected' \in [Threads -> Nat]
  BY <1>1 DEF LockInv, TypeOK
<1> QED
  BY <1>1, <1>2, <1>3, <1>4, <1>5, OnlyMoves

\* The count goes down; if it is zero, the last guard is still to be given up.
LEMMA WriteUncountKeeps ==
  ASSUME LockInv, NEW t \in Threads, WriteUncount(t)
  PROVE  LockInv'
<1>1. /\ pc[t] = "unlockCount"
      /\ writeCount' = writeCount - 1
      /\ UNCHANGED <<lockFlag, expected, crashed>>
  BY DEF WriteUncount, Goto
<1>2. /\ lockFlag.writer = t /\ writeCount \in Nat /\ writeCount > 0
      /\ Len(held[t]) = writeCount /\ WriteDepth(t) = writeCount
  BY <1>1 DEF LockInv, TypeOK, Stages, Stage, WriteDepth
<1>3. writeCount' \in Nat
  BY <1>1, <1>2
<1>4. \A i \in 1 .. Len(held[t]) : held[t][i] = "W"
  BY <1>2 DEF LockInv, Layered
<1>5. \A u \in Threads \ {t} : WriteDepth(u) = 0 /\ WriteDepth(u)' = 0
  BY <1>1, <1>2 DEF WriteDepth
<1>6. CASE writeCount' = 0
  <2>1. pc' = [pc EXCEPT ![t] = "unlockStore"] /\ held' = held
    BY <1>6 DEF WriteUncount, Goto
  <2>2. pc'[t] = "unlockStore" /\ \A u \in Threads \ {t} : pc'[u] = pc[u]
    BY <2>1 DEF LockInv, TypeOK
  <2>3. writeCount = 1
    BY <1>1, <1>2, <1>6
  <2>4. TypeOK'
    <3>1. pc' \in [Threads -> States]
      BY <2>1 DEF LockInv, TypeOK, States
    <3> QED
      BY <1>1, <1>3, <2>1, <3>1 DEF LockInv, TypeOK
  <2>5. Counted'
    BY <1>1, <2>1 DEF LockInv, Counted, ReadGuards
  <2>6. Layered'
    <3>1. WriteDepth(t)' = 1
      BY <1>1, <1>2, <2>2 DEF WriteDepth
    <3> QED
      BY <1>2, <1>5, <2>1, <2>3, <3>1 DEF LockInv, Layered
  <2>7. Stages' /\ Alone'
    BY <1>1, <1>2, <1>6, <2>1, <2>2, <2>3 DEF LockInv, Stages, Stage, Alone
  <2> QED
    BY <1>1, <1>6, <2>4, <2>5, <2>6, <2>7 DEF LockInv
<1>7. CASE writeCount' # 0
  <2>1. pc' = [pc EXCEPT ![t] = "run"] /\ Pop(t)
    BY <1>7 DEF WriteUncount, Goto
  <2>2. pc'[t] = "run" /\ \A u \in Threads \ {t} : pc'[u] = pc[u]
    BY <2>1 DEF LockInv, TypeOK
  <2>3. held[t] # <<>>
    BY <1>2, EmptySeq
  <2>4. /\ held' \in [Threads -> Seq(Kinds)]
        /\ \A u \in Threads \ {t} : held'[u] = held[u]
        /\ Len(held'[t]) = Len(held[t]) - 1
        /\ \A i \in 1 .. Len(held[t]) - 1 : held'[t][i] = held[t][i]
    BY <2>1, <2>3, PopFacts DEF LockInv
  <2>5. TypeOK'
    <3>1. pc' \in [Threads -> States]
      BY <2>1 DEF LockInv, TypeOK, States
    <3> QED
      BY <1>1, <1>3, <2>4, <3>1 DEF LockInv, TypeOK
  <2>6. Counted'
    <3>1. Innermost(t, "W")
      BY <1>2, <1>4, <2>3 DEF Innermost
    <3> QED
      BY <1>1, <2>1, <3>1, ReadGuardsKept DEF LockInv, Counted
  <2>7. Layered'
    <3>1. WriteDepth(t)' = writeCount'
      BY <1>1, <1>2, <2>2 DEF WriteDepth
    <3>2. Len(held'[t]) = writeCount' /\ \A i \in 1 .. Len(held'[t]) : held'[t][i] = "W"
      BY <1>1, <1>2, <1>4, <2>4
    <3> QED
      BY <1>3, <1>5, <2>4, <3>1, <3>2 DEF LockInv, Layered
  <2>8. Stages'
    <3>1. writeCount' > 0
      BY <1>3, <1>7
    <3> QED
      BY <1>1, <1>2, <2>2, <2>4, <3>1 DEF LockInv, Stages, Stage
  <2>9. Alone'
    BY <1>1, <1>2, <2>4 DEF LockInv, Alone
  <2> QED
    BY <1>1, <1>2, <2>5, <2>6, <2>7, <2>8, <2>9, LockAssumption DEF LockInv
<1> QED
  BY <1>6, <1>7

\* The flag is emptied as the last guard goes.
LEMMA WriteStoreKeeps ==
  ASSUME LockInv, NEW t \in Threads, WriteStore(t)
  PROVE  LockInv'
<1>1. /\ pc[t] = "unlockStore"
      /\ pc' = [pc EXCEPT ![t] = "run"]
      /\ lockFlag' = EMPTY_FLAG
      /\ Pop(t)
      /\ UNCHANGED <<writeCount, expected, crashed>>
  BY DEF WriteStore, Goto
<1>2. lockFlag.writer = t /\ writeCount = 0 /\ Len(held[t]) = 1
  BY <1>1 DEF LockInv, Stages, Stage
<1>3. held[t] # <<>> /\ held[t][1] = "W"
  <2>1. WriteDepth(t) = 1
    BY <1>1, <1>2 DEF WriteDepth
  <2> QED
    BY <1>2, <2>1, EmptySeq DEF LockInv, Layered
<1>4. Innermost(t, "W")
  BY <1>2, <1>3 DEF Innermost
<1>5. /\ held' \in [Threads -> Seq(Kinds)]
      /\ \A u \in Threads \ {t} : held'[u] = held[u]
      /\ Len(held'[t]) = 0
  <2>1. Len(held'[t]) = Len(held[t]) - 1
    BY <1>1, <1>3, PopFacts DEF LockInv
  <2> QED
    BY <1>1, <1>2, <1>3, <2>1, PopFacts DEF LockInv
<1>6. lockFlag'.writer = NoThread /\ lockFlag'.readers = 0
  BY <1>1 DEF EMPTY_FLAG
<1>7. lockFlag.readers = 0
  BY <1>4, InnermostWrite
<1>8. pc'[t] = "run" /\ \A u \in Threads \ {t} : pc'[u] = pc[u]
  BY <1>1 DEF LockInv, TypeOK
<1>9. TypeOK'
  <2>1. pc' \in [Threads -> States]
    BY <1>1 DEF LockInv, TypeOK, States
  <2>2. lockFlag' \in [writer : Threads \cup {NoThread}, readers : Nat]
    BY <1>1 DEF EMPTY_FLAG
  <2> QED
    BY <1>1, <1>5, <2>1, <2>2 DEF LockInv, TypeOK
<1>10. Counted'
  BY <1>1, <1>4, <1>6, <1>7, ReadGuardsKept DEF LockInv, Counted
<1>11. \A u \in Threads : WriteDepth(u)' = 0
  BY <1>6, LockAssumption DEF WriteDepth
<1>12. Layered'
  <2>1. \A u \in Threads \ {t} : WriteDepth(u) = 0
    BY <1>2 DEF WriteDepth
  <2> QED
    BY <1>5, <1>11, <2>1 DEF LockInv, Layered
<1>13. Stages' /\ Alone'
  BY <1>1, <1>2, <1>6, <1>8, LockAssumption DEF LockInv, Stages, Stage, Alone
<1> QED
  BY <1>1, <1>2, <1>9, <1>10, <1>12, <1>13 DEF LockInv

\* A new number of readers in the flag.
LEMMA FlagFacts ==
  ASSUME TypeOK, NEW n \in Nat, lockFlag' = [lockFlag EXCEPT !.readers = n]
  PROVE  /\ lockFlag' \in [writer : Threads \cup {NoThread}, readers : Nat]
         /\ lockFlag'.writer = lockFlag.writer
         /\ lockFlag'.readers = n
  BY DEF TypeOK

(***************************************************************************)
(* A reader is counted, inside the thread's own write lock or when nobody  *)
(* writes.                                                                 *)
(***************************************************************************)
LEMMA ReaderJoins ==
  ASSUME LockInv, NEW t \in Threads,
         pc[t] \in {"run", "readSwap"},
         lockFlag.writer = NoThread \/ (lockFlag.writer = t /\ pc[t] = "run"),
         pc' = [pc EXCEPT ![t] = "run"],
         lockFlag' = [lockFlag EXCEPT !.readers = lockFlag.readers + 1],
         Push(t, "R"),
         UNCHANGED <<writeCount, expected, crashed>>
  PROVE  LockInv'
<1>1. /\ held' \in [Threads -> Seq(Kinds)]
      /\ \A u \in Threads \ {t} : held'[u] = held[u]
      /\ Len(held[t]) \in Nat
      /\ Len(held'[t]) = Len(held[t]) + 1
      /\ \A i \in 1 .. Len(held[t]) : held'[t][i] = held[t][i]
      /\ held'[t][Len(held[t]) + 1] = "R"
  BY PushFacts DEF LockInv, Kinds
<1>2. pc'[t] = "run" /\ \A u \in Threads \ {t} : pc'[u] = pc[u]
  BY DEF LockInv, TypeOK
<1>3. /\ lockFlag' \in [writer : Threads \cup {NoThread}, readers : Nat]
      /\ lockFlag'.writer = lockFlag.writer
      /\ lockFlag'.readers = lockFlag.readers + 1
  <2>1. lockFlag.readers + 1 \in Nat
    BY DEF LockInv, TypeOK
  <2> QED
    BY <2>1, FlagFacts DEF LockInv
<1>4. TypeOK'
  <2>1. pc' \in [Threads -> States]
    BY DEF LockInv, TypeOK, States
  <2> QED
    BY <1>1, <1>3, <2>1 DEF LockInv, TypeOK
<1>5. Counted'
  BY <1>3, ReadGuardAdded DEF LockInv, Counted
<1>6. \A u \in Threads : WriteDepth(u)' = WriteDepth(u)
  BY <1>2, <1>3, LockAssumption DEF WriteDepth
<1>7. Layered'
  <2>1. WriteDepth(t) \in Nat /\ WriteDepth(t) <= Len(held[t])
    BY DEF LockInv, Layered, TypeOK, WriteDepth
  <2>2. \A i \in 1 .. Len(held'[t]) : held'[t][i] = "W" <=> i <= WriteDepth(t)
    <3> SUFFICES ASSUME NEW i \in 1 .. Len(held[t]) + 1
                 PROVE  held'[t][i] = "W" <=> i <= WriteDepth(t)
      BY <1>1
    <3>1. CASE i = Len(held[t]) + 1
      BY <1>1, <2>1, <3>1
    <3>2. CASE i \in 1 .. Len(held[t])
      BY <1>1, <3>2 DEF LockInv, Layered
    <3> QED
      BY <1>1, <3>1, <3>2
  <2>3. WriteDepth(t) <= Len(held'[t])
    BY <1>1, <2>1
  <2>4. \A u \in Threads \ {t} :
          /\ WriteDepth(u) <= Len(held'[u])
          /\ \A i \in 1 .. Len(held'[u]) : held'[u][i] = "W" <=> i <= WriteDepth(u)
    BY <1>1 DEF LockInv, Layered
  <2> QED
    BY <1>6, <2>2, <2>3, <2>4 DEF Layered
<1>8. Stages'
  BY <1>1, <1>2, <1>3, LockAssumption DEF LockInv, Stages, Stage
<1>9. Alone'
  <2> SUFFICES ASSUME NEW w \in Threads, NEW u \in Threads, lockFlag'.writer = w, w # u
               PROVE  held'[u] = <<>>
    BY DEF Alone
  <2>1. w = t
    BY <1>3, LockAssumption
  <2> QED
    BY <1>1, <1>3, <2>1 DEF LockInv, Alone
<1> QED
  BY <1>3, <1>4, <1>5, <1>7, <1>8, <1>9 DEF LockInv

\* A reader is still counted when it leaves.
LEMMA ReadUnlockKeeps ==
  ASSUME LockInv, NEW t \in Threads, ReadUnlock(t)
  PROVE  LockInv'
<1>1. /\ pc[t] = "run" /\ Innermost(t, "R") /\ Pop(t)
      /\ crashed' = (crashed \/ lockFlag.readers = 0)
      /\ lockFlag' = [lockFlag EXCEPT !.readers = lockFlag.readers - 1]
      /\ UNCHANGED <<writeCount, expected, pc>>
  BY DEF ReadUnlock
<1>2. /\ held' \in [Threads -> Seq(Kinds)]
      /\ \A u \in Threads \ {t} : held'[u] = held[u]
      /\ Len(held[t]) \in Nat \ {0}
      /\ Len(held'[t]) = Len(held[t]) - 1
      /\ \A i \in 1 .. Len(held[t]) - 1 : held'[t][i] = held[t][i]
      /\ held[t][Len(held[t])] = "R"
  BY <1>1, PopFacts DEF LockInv, Innermost
<1>3. lockFlag.readers # 0 /\ lockFlag.readers \in Nat
  BY <1>1, ReadGuardRemoved DEF LockInv, TypeOK
<1>4. /\ lockFlag' \in [writer : Threads \cup {NoThread}, readers : Nat]
      /\ lockFlag'.writer = lockFlag.writer
      /\ lockFlag'.readers = lockFlag.readers - 1
  <2>1. lockFlag.readers - 1 \in Nat
    BY <1>3
  <2> QED
    BY <1>1, <2>1, FlagFacts DEF LockInv
<1>5. crashed' = FALSE
  <2>1. crashed = FALSE
    BY DEF LockInv, TypeOK
  <2> QED
    BY <1>1, <1>3, <2>1, Zenon
<1>6. TypeOK'
  BY <1>1, <1>2, <1>4, <1>5 DEF LockInv, TypeOK
<1>7. Counted'
  BY <1>1, <1>4, ReadGuardRemoved DEF LockInv, Counted
<1>8. \A u \in Threads : WriteDepth(u)' = WriteDepth(u)
  BY <1>1, <1>4 DEF WriteDepth
<1>9. Layered'
  <2>1. WriteDepth(t) \in Nat /\ WriteDepth(t) <= Len(held[t])
    BY DEF LockInv, Layered, TypeOK, WriteDepth
  <2>2. WriteDepth(t) # Len(held[t])
    BY <1>2 DEF LockInv, Layered
  <2>3. WriteDepth(t) <= Len(held'[t])
    BY <1>2, <2>1, <2>2
  <2>4. \A i \in 1 .. Len(held'[t]) : held'[t][i] = "W" <=> i <= WriteDepth(t)
    BY <1>2 DEF LockInv, Layered
  <2>5. \A u \in Threads \ {t} :
          /\ WriteDepth(u) <= Len(held'[u])
          /\ \A i \in 1 .. Len(held'[u]) : held'[u][i] = "W" <=> i <= WriteDepth(u)
    BY <1>2 DEF LockInv, Layered
  <2> QED
    BY <1>8, <2>3, <2>4, <2>5 DEF Layered
<1>10. Stages'
  <2> SUFFICES ASSUME NEW u \in Threads PROVE Stage(u)'
    BY DEF Stages
  <2>1. Stage(u)
    BY DEF LockInv, Stages
  <2>2. CASE u = t
    BY <1>1, <1>4, <2>1, <2>2 DEF Stage
  <2>3. CASE u # t
    BY <1>1, <1>2, <1>4, <2>1, <2>3 DEF Stage
  <2> QED
    BY <2>2, <2>3
<1>11. Alone'
  BY <1>1, <1>2, <1>4, EmptySeq DEF LockInv, Alone, Innermost
<1> QED
  BY <1>1, <1>4, <1>5, <1>6, <1>7, <1>9, <1>10, <1>11 DEF LockInv

-----------------------------------------------------------------------------
\* Every step keeps the invariant.
LEMMA LockInvNext == LockInv /\ [Next]_vars => LockInv'
<1> SUFFICES ASSUME LockInv, [Next]_vars PROVE LockInv'
  OBVIOUS
<1>1. ASSUME NEW t \in Threads, WriteLock(t) PROVE LockInv'
  <2>1. CASE lockFlag.writer = t
    BY <1>1, <2>1, WriteLockAgain
  <2>2. CASE lockFlag.writer # t
    <3>1. /\ pc[t] = "run" /\ pc' = [pc EXCEPT ![t] = "writeSpin"]
          /\ UNCHANGED <<lockFlag, writeCount, held, expected, crashed>>
      BY <1>1, <2>2 DEF WriteLock, Goto
    <3>2. crashed' = FALSE /\ expected' \in [Threads -> Nat]
      BY <3>1 DEF LockInv, TypeOK
    <3> QED
      BY <2>2, <3>1, <3>2, OnlyMoves
  <2> QED
    BY <2>1, <2>2
<1>2. ASSUME NEW t \in Threads, WriteUncount(t) PROVE LockInv'
  BY <1>2, WriteUncountKeeps
<1>3. ASSUME NEW t \in Threads, ReadLock(t) PROVE LockInv'
  <2>1. CASE lockFlag.writer = t
    <3>1. /\ pc[t] = "run" /\ Push(t, "R")
          /\ lockFlag' = [lockFlag EXCEPT !.readers = lockFlag.readers + 1]
          /\ UNCHANGED <<writeCount, expected, crashed, pc>>
      BY <1>3, <2>1 DEF ReadLock
    <3>2. pc' = [pc EXCEPT ![t] = "run"]
      BY <3>1 DEF LockInv, TypeOK
    <3> QED
      BY <2>1, <3>1, <3>2, ReaderJoins
  <2>2. CASE lockFlag.writer # t
    <3>1. /\ pc[t] = "run" /\ pc' = [pc EXCEPT ![t] = "readLoad"]
          /\ UNCHANGED <<lockFlag, writeCount, held, expected, crashed>>
      BY <1>3, <2>2 DEF ReadLock, Goto
    <3>2. crashed' = FALSE /\ expected' \in [Threads -> Nat]
      BY <3>1 DEF LockInv, TypeOK
    <3> QED
      BY <2>2, <3>1, <3>2, OnlyMoves
  <2> QED
    BY <2>1, <2>2
<1>4. ASSUME NEW t \in Threads, ReadLoad(t) PROVE LockInv'
  <2>1. /\ pc[t] = "readLoad" /\ pc' = [pc EXCEPT ![t] = "readSwap"]
        /\ expected' = [expected EXCEPT ![t] = lockFlag.readers]
        /\ UNCHANGED <<lockFlag, writeCount, held, crashed>>
    BY <1>4 DEF ReadLoad, Goto
  <2>2. crashed' = FALSE /\ expected' \in [Threads -> Nat]
    BY <2>1 DEF LockInv, TypeOK
  <2>3. lockFlag.writer # t
    BY <2>1 DEF LockInv, Stages, Stage
  <2> QED
    BY <2>1, <2>2, <2>3, OnlyMoves
<1>5. ASSUME NEW t \in Threads, ReadSwap(t) PROVE LockInv'
  <2>1. CASE lockFlag = [writer |-> NoThread, readers |-> expected[t]]
    <3>1. /\ pc[t] = "readSwap" /\ Push(t, "R")
          /\ pc' = [pc EXCEPT ![t] = "run"]
          /\ lockFlag' = [lockFlag EXCEPT !.readers = lockFlag.readers + 1]
          /\ UNCHANGED <<writeCount, expected, crashed>>
      BY <1>5, <2>1 DEF ReadSwap, Goto
    <3>2. lockFlag.writer = NoThread
      BY <2>1
    <3> QED
      BY <3>1, <3>2, ReaderJoins
  <2>2. CASE lockFlag # [writer |-> NoThread, readers |-> expected[t]]
    <3>1. /\ pc[t] = "readSwap" /\ pc' = [pc EXCEPT ![t] = "readLoad"]
          /\ UNCHANGED <<lockFlag, writeCount, held, expected, crashed>>
      BY <1>5, <2>2 DEF ReadSwap, Goto
    <3>2. crashed' = FALSE /\ expected' \in [Threads -> Nat]
      BY <3>1 DEF LockInv, TypeOK
    <3>3. lockFlag.writer # t
      BY <3>1 DEF LockInv, Stages, Stage
    <3> QED
      BY <3>1, <3>2, <3>3, OnlyMoves
  <2> QED
    BY <2>1, <2>2
<1>6. CASE UNCHANGED vars
  <2>1. UNCHANGED <<lockFlag, writeCount, held, expected, crashed, pc>>
    BY <1>6 DEF vars
  <2>2. TypeOK' /\ Counted'
    BY <2>1 DEF LockInv, TypeOK, Counted, ReadGuards
  <2>3. Layered' /\ Stages' /\ Alone'
    BY <2>1 DEF LockInv, Layered, WriteDepth, Stages, Stage, Alone
  <2> QED
    BY <2>1, <2>2, <2>3 DEF LockInv
<1> QED
  BY <1>1, <1>2, <1>3, <1>4, <1>5, <1>6, WriteSwapKeeps, WriteCountKeeps,
     WriteUnlockKeeps, WriteStoreKeeps, ReadUnlockKeeps
     DEF Next, Enter, Proceed

-----------------------------------------------------------------------------
\* The invariant always holds.
LEMMA LockInvAlways == Spec => []LockInv
  BY LockInvInit, LockInvNext, PTL DEF Spec

\* Every variable of a lock always has its type.
THEOREM TypeCorrect == Spec => []TypeOK
<1>1. LockInv => TypeOK
  BY DEF LockInv
<1> QED
  BY <1>1, LockInvAlways, PTL

(***************************************************************************)
(* A thread with a write guard excludes every other thread's guards, for   *)
(* any number of threads and any nesting.                                  *)
(***************************************************************************)
THEOREM WritersExclude == Spec => []MutualExclusion
<1>1. LockInv => MutualExclusion
  <2> SUFFICES ASSUME LockInv, NEW t \in Threads, NEW u \in Threads, t # u,
                      NEW i \in 1 .. Len(held[t]), held[t][i] = "W"
               PROVE  held[u] = <<>>
    BY DEF MutualExclusion
  <2>1. i <= WriteDepth(t)
    BY DEF LockInv, Layered
  <2>2. lockFlag.writer = t
    BY <2>1 DEF WriteDepth
  <2> QED
    BY <2>2 DEF LockInv, Alone
<1> QED
  BY <1>1, LockInvAlways, PTL

\* Neither CRASH of Lock.cpp fires.
THEOREM NoCrashEver == Spec => []NoCrash
<1>1. LockInv => NoCrash
  BY DEF LockInv, NoCrash
<1> QED
  BY <1>1, LockInvAlways, PTL

-----------------------------------------------------------------------------
\* Only the writer holds write guards.
LEMMA WritersWrite ==
  ASSUME LockInv, NEW u \in Threads, lockFlag.writer # u
  PROVE  ~Abstract!Holds(u, "W")
<1> SUFFICES ASSUME NEW i \in 1 .. Len(held[u]), held[u][i] = "W" PROVE FALSE
  BY DEF Abstract!Holds
<1>1. i <= WriteDepth(u) /\ WriteDepth(u) = 0
  BY DEF LockInv, Layered, WriteDepth
<1> QED
  BY <1>1

\* A write guard is taken with nobody else holding one.
LEMMA AcquiresWrite ==
  ASSUME LockInv, NEW t \in Threads, Push(t, "W"), lockFlag.writer = t
  PROVE  Abstract!Next
<1>1. \A u \in Threads \ {t} : held[u] = <<>>
  BY DEF LockInv, Alone
<1>2. Abstract!AcquireWrite(t)
  BY <1>1 DEF Push, Abstract!AcquireWrite
<1> QED
  BY <1>2 DEF Abstract!Next

\* A read guard is taken with nobody else writing.
LEMMA AcquiresRead ==
  ASSUME LockInv, NEW t \in Threads, Push(t, "R"), lockFlag.writer \in {t, NoThread}
  PROVE  Abstract!Next
<1>1. \A u \in Threads \ {t} : ~Abstract!Holds(u, "W")
  BY WritersWrite, LockAssumption
<1>2. Abstract!AcquireRead(t)
  BY <1>1 DEF Push, Abstract!AcquireRead
<1> QED
  BY <1>2 DEF Abstract!Next

\* A guard that is given up was held.
LEMMA Releases ==
  ASSUME NEW t \in Threads, held[t] # <<>>, Pop(t)
  PROVE  Abstract!Next
<1>1. Abstract!Release(t)
  BY DEF Pop, Abstract!Release
<1> QED
  BY <1>1 DEF Abstract!Next

\* Every step of the spin lock is one of the reader-writer lock, or none.
LEMMA StepImplements == LockInv /\ [Next]_vars => [Abstract!Next]_held
<1> SUFFICES ASSUME LockInv, [Next]_vars PROVE Abstract!Next \/ held' = held
  OBVIOUS
<1>1. ASSUME NEW t \in Threads, WriteLock(t) PROVE Abstract!Next \/ held' = held
  BY <1>1, AcquiresWrite DEF WriteLock
<1>2. ASSUME NEW t \in Threads, WriteCount(t) PROVE Abstract!Next
  <2>1. Push(t, "W") /\ lockFlag.writer = t
    BY <1>2 DEF WriteCount, Goto, LockInv, Stages, Stage
  <2> QED
    BY <2>1, AcquiresWrite
<1>3. ASSUME NEW t \in Threads, ReadLock(t) PROVE Abstract!Next \/ held' = held
  BY <1>3, AcquiresRead DEF ReadLock
<1>4. ASSUME NEW t \in Threads, ReadSwap(t) PROVE Abstract!Next \/ held' = held
  <2>1. CASE lockFlag = [writer |-> NoThread, readers |-> expected[t]]
    <3>1. Push(t, "R") /\ lockFlag.writer = NoThread
      BY <1>4, <2>1 DEF ReadSwap
    <3> QED
      BY <3>1, AcquiresRead
  <2>2. CASE lockFlag # [writer |-> NoThread, readers |-> expected[t]]
    BY <1>4, <2>2 DEF ReadSwap
  <2> QED
    BY <2>1, <2>2
<1>5. ASSUME NEW t \in Threads, WriteUncount(t) PROVE Abstract!Next \/ held' = held
  <2>1. CASE Pop(t)
    <3>1. Len(held[t]) # 0
      BY <1>5 DEF WriteUncount, Goto, LockInv, TypeOK, Stages, Stage
    <3>2. held[t] # <<>>
      BY <3>1, EmptySeq
    <3> QED
      BY <2>1, <3>2, Releases
  <2>2. CASE held' = held
    BY <2>2
  <2> QED
    BY <1>5, <2>1, <2>2 DEF WriteUncount
<1>6. ASSUME NEW t \in Threads, WriteStore(t) PROVE Abstract!Next
  <2>1. Pop(t) /\ Len(held[t]) = 1
    BY <1>6 DEF WriteStore, Goto, LockInv, Stages, Stage
  <2>2. held[t] # <<>>
    BY <2>1, EmptySeq
  <2> QED
    BY <2>1, <2>2, Releases
<1>7. ASSUME NEW t \in Threads, ReadUnlock(t) PROVE Abstract!Next
  BY <1>7, Releases DEF ReadUnlock, Innermost
<1>8. ASSUME NEW t \in Threads, WriteSwap(t) \/ ReadLoad(t) \/ WriteUnlock(t)
      PROVE  held' = held
  BY <1>8 DEF WriteSwap, ReadLoad, WriteUnlock
<1>9. CASE UNCHANGED vars
  BY <1>9 DEF vars
<1> QED
  BY <1>1, <1>2, <1>3, <1>4, <1>5, <1>6, <1>7, <1>8, <1>9 DEF Next, Enter, Proceed

(***************************************************************************)
(* The spin lock, one atomic access at a time, implements the              *)
(* reader-writer lock that its users count on.                             *)
(***************************************************************************)
THEOREM Implements == Spec => ImplementsLock
<1>1. Init => Abstract!Init
  BY DEF Init, Abstract!Init
<1> QED
  BY <1>1, LockInvAlways, StepImplements, PTL DEF Spec, ImplementsLock, Abstract!Spec

-----------------------------------------------------------------------------
(***************************************************************************)
(* The flag as a word.  In the code the pair is one uint32: the id of the  *)
(* writing thread, 0 for none, in the upper 16 bits and the number of      *)
(* readers in the lower.  Everything the code learns from the word is what *)
(* the model says of the pair, as long as the read guards that all threads *)
(* can hold together fit into the lower half.                              *)
(***************************************************************************)
\* How many values a half of the word has: READ_COUNT_MASK + 1.
Half == 65536
UINT32_MAX == 4294967295
uint32 == {n \in Nat : n <= UINT32_MAX}

Word(ThreadId) == ThreadId[lockFlag.writer] * Half + lockFlag.readers

\* LThreadId of each thread, which counts from 1.
ThreadIds ==
  {id \in [Threads \cup {NoThread} -> Nat] :
     /\ id[NoThread] = 0
     /\ \A t \in Threads : id[t] # 0 /\ id[t] < Half
     /\ \A t, u \in Threads : id[t] = id[u] => t = u}

FlagIsWord(ThreadId) ==
  /\ Word(ThreadId) \in uint32
  /\ Word(ThreadId) % Half = lockFlag.readers
  /\ Word(ThreadId) = 0 <=> lockFlag = EMPTY_FLAG
  /\ \A t \in Threads :
       /\ ThreadId[t] = Word(ThreadId) \div Half <=> lockFlag.writer = t
       /\ Word(ThreadId) = expected[t]
            <=> lockFlag = [writer |-> NoThread, readers |-> expected[t]]

\* A thread nests its guards to MaxDepth at most, the one it waits for included.
Waiting(t) == pc[t] \in {"writeSpin", "writeCount", "readLoad", "readSwap"}

Nested ==
  \A t \in Threads : Len(held[t]) <= MaxDepth /\ (Waiting(t) => Len(held[t]) < MaxDepth)

\* A guard taken or left is one more or one less.
LEMMA StackDepth ==
  ASSUME TypeOK, NEW t \in Threads
  PROVE  /\ Len(held[t]) \in Nat
         /\ \A kind \in Kinds : Push(t, kind) =>
              /\ Len(held'[t]) = Len(held[t]) + 1
              /\ \A u \in Threads \ {t} : held'[u] = held[u]
         /\ held[t] # <<>> /\ Pop(t) =>
              /\ Len(held'[t]) = Len(held[t]) - 1
              /\ \A u \in Threads \ {t} : held'[u] = held[u]
BY SMT DEF TypeOK, Push, Pop

\* No thread nests deeper.
LEMMA NestedNext == LockInv /\ Nested /\ [Next]_vars => Nested'
<1> SUFFICES ASSUME LockInv, Nested, [Next]_vars PROVE Nested'
  OBVIOUS
<1>1. /\ TypeOK /\ pc \in [Threads -> States] /\ MaxDepth \in Nat
      /\ \A t \in Threads : Len(held[t]) \in Nat
  BY LockAssumption, StackDepth, Zenon DEF LockInv, TypeOK
<1>2. "R" \in Kinds /\ "W" \in Kinds
  BY SMT DEF Kinds
<1>A. ASSUME NEW t \in Threads,
              \A u \in Threads \ {t} : held'[u] = held[u] /\ pc'[u] = pc[u],
              Len(held'[t]) <= MaxDepth, Waiting(t)' => Len(held'[t]) < MaxDepth
       PROVE  Nested'
  <2> SUFFICES ASSUME NEW u \in Threads, u # t
               PROVE  Len(held'[u]) <= MaxDepth /\ (Waiting(u)' => Len(held'[u]) < MaxDepth)
    BY <1>A, Zenon DEF Nested
  <2>1. held'[u] = held[u] /\ (Waiting(u)' => Waiting(u))
    BY <1>A, Zenon DEF Waiting
  <2> QED
    BY <2>1, Zenon DEF Nested
<1>3. ASSUME NEW t \in Threads, Len(held[t]) < MaxDepth,
             \A u \in Threads \ {t} : held'[u] = held[u] /\ pc'[u] = pc[u],
             \/ Len(held'[t]) = Len(held[t]) + 1 /\ ~Waiting(t)'
             \/ held'[t] = held[t]
      PROVE  Nested'
  <2>1. Len(held[t]) + 1 <= MaxDepth /\ Len(held[t]) <= MaxDepth
    BY <1>1, <1>3, SMT
  <2> QED
    BY <1>A, <1>3, <2>1, Zenon
<1>4. ASSUME NEW t \in Threads,
             \A u \in Threads \ {t} : held'[u] = held[u] /\ pc'[u] = pc[u],
             \/ Len(held'[t]) = Len(held[t]) - 1 /\ ~Waiting(t)'
             \/ held'[t] = held[t] /\ (Waiting(t)' => Waiting(t))
      PROVE  Nested'
  <2>1. Len(held[t]) <= MaxDepth /\ (Waiting(t) => Len(held[t]) < MaxDepth)
    BY Zenon DEF Nested
  <2>2. Len(held[t]) - 1 <= MaxDepth
    BY <1>1, <2>1, SMT
  <2> QED
    BY <1>A, <1>4, <2>1, <2>2, Zenon
<1>5. ASSUME NEW t \in Threads, Waiting(t) PROVE Len(held[t]) < MaxDepth
  BY <1>5, Zenon DEF Nested
<1>6. ASSUME NEW t \in Threads, NEW to, pc' = [pc EXCEPT ![t] = to]
      PROVE  pc'[t] = to /\ \A u \in Threads \ {t} : pc'[u] = pc[u]
  BY <1>1, <1>6, SMT
<1>B. ASSUME NEW t \in Threads, NEW to, pc' = [pc EXCEPT ![t] = to],
              to \notin {"writeSpin", "writeCount", "readLoad", "readSwap"}
       PROVE  ~Waiting(t)'
  BY <1>6, <1>B, Zenon DEF Waiting
<1>C. /\ "run" \notin {"writeSpin", "writeCount", "readLoad", "readSwap"}
       /\ "unlockCount" \notin {"writeSpin", "writeCount", "readLoad", "readSwap"}
       /\ "unlockStore" \notin {"writeSpin", "writeCount", "readLoad", "readSwap"}
  BY SMT
<1>7. ASSUME NEW t \in Threads, WriteLock(t) PROVE Nested'
  <2>1. pc[t] = "run" /\ Len(held[t]) < MaxDepth
    BY <1>7, Zenon DEF WriteLock
  <2>2. CASE Push(t, "W") /\ pc' = pc
    <3>1. ~Waiting(t)'
      BY <2>1, <2>2, Zenon DEF Waiting
    <3> QED
      BY <1>1, <1>2, <1>3, <2>1, <2>2, <3>1, StackDepth, Zenon
  <2>3. CASE pc' = [pc EXCEPT ![t] = "writeSpin"] /\ held' = held
    BY <1>3, <1>6, <2>1, <2>3, Zenon
  <2> QED
    BY <1>7, <2>2, <2>3, Zenon DEF WriteLock, Goto
<1>8. ASSUME NEW t \in Threads, ReadLock(t) PROVE Nested'
  <2>1. pc[t] = "run" /\ Len(held[t]) < MaxDepth
    BY <1>8, Zenon DEF ReadLock
  <2>2. CASE Push(t, "R") /\ pc' = pc
    <3>1. ~Waiting(t)'
      BY <2>1, <2>2, Zenon DEF Waiting
    <3> QED
      BY <1>1, <1>2, <1>3, <2>1, <2>2, <3>1, StackDepth, Zenon
  <2>3. CASE pc' = [pc EXCEPT ![t] = "readLoad"] /\ held' = held
    BY <1>3, <1>6, <2>1, <2>3, Zenon
  <2> QED
    BY <1>8, <2>2, <2>3, Zenon DEF ReadLock, Goto
<1>9. ASSUME NEW t \in Threads, WriteSwap(t) PROVE Nested'
  <2>1. /\ pc[t] = "writeSpin" /\ pc' = [pc EXCEPT ![t] = "writeCount"] /\ held' = held
    BY <1>9, Zenon DEF WriteSwap, Goto
  <2> QED
    BY <1>4, <1>6, <2>1, Zenon DEF Waiting
<1>10. ASSUME NEW t \in Threads, WriteCount(t) PROVE Nested'
  <2>1. pc[t] = "writeCount" /\ pc' = [pc EXCEPT ![t] = "run"] /\ Push(t, "W")
    BY <1>10, Zenon DEF WriteCount, Goto
  <2>2. Len(held[t]) < MaxDepth
    BY <1>5, <2>1, Zenon DEF Waiting
  <2>3. ~Waiting(t)'
    BY <1>B, <1>C, <2>1, Zenon
  <2> QED
    BY <1>1, <1>2, <1>3, <1>6, <2>1, <2>2, <2>3, StackDepth, Zenon
<1>11. ASSUME NEW t \in Threads, ReadLoad(t) PROVE Nested'
  <2>1. pc[t] = "readLoad" /\ pc' = [pc EXCEPT ![t] = "readSwap"] /\ held' = held
    BY <1>11, Zenon DEF ReadLoad, Goto
  <2> QED
    BY <1>4, <1>6, <2>1, Zenon DEF Waiting
<1>12. ASSUME NEW t \in Threads, ReadSwap(t) PROVE Nested'
  <2>1. CASE pc[t] = "readSwap" /\ pc' = [pc EXCEPT ![t] = "run"] /\ Push(t, "R")
    <3>1. Len(held[t]) < MaxDepth
      BY <1>5, <2>1, Zenon DEF Waiting
    <3>2. ~Waiting(t)'
      BY <1>B, <1>C, <2>1, Zenon
    <3> QED
      BY <1>1, <1>2, <1>3, <1>6, <2>1, <3>1, <3>2, StackDepth, Zenon
  <2>2. CASE pc[t] = "readSwap" /\ pc' = [pc EXCEPT ![t] = "readLoad"] /\ held' = held
    BY <1>4, <1>6, <2>2, Zenon DEF Waiting
  <2> QED
    BY <1>12, <2>1, <2>2, Zenon DEF ReadSwap, Goto
<1>13. ASSUME NEW t \in Threads, WriteUnlock(t) PROVE Nested'
  <2>1. pc' = [pc EXCEPT ![t] = "unlockCount"] /\ held' = held
    BY <1>13, Zenon DEF WriteUnlock, Goto
  <2>2. ~Waiting(t)'
    BY <1>B, <1>C, <2>1, Zenon
  <2> QED
    BY <1>4, <1>6, <2>1, <2>2, Zenon
<1>14. ASSUME NEW t \in Threads, WriteUncount(t) PROVE Nested'
  <2>1. CASE pc' = [pc EXCEPT ![t] = "unlockStore"] /\ held' = held
    <3>1. ~Waiting(t)'
      BY <1>B, <1>C, <2>1, Zenon
    <3> QED
      BY <1>4, <1>6, <2>1, <3>1, Zenon
  <2>2. CASE pc[t] = "unlockCount" /\ pc' = [pc EXCEPT ![t] = "run"] /\ Pop(t)
    <3>1. ~Waiting(t)'
      BY <1>B, <1>C, <2>2, Zenon
    <3>2. held[t] # <<>>
      <4>1. Len(held[t]) > 0
        BY <2>2, SMT DEF LockInv, Stages, Stage
      <4> QED
        BY <4>1, SMT
    <3> QED
      BY <1>1, <1>4, <1>6, <2>2, <3>1, <3>2, StackDepth, Zenon
  <2> QED
    BY <1>14, <2>1, <2>2, Zenon DEF WriteUncount, Goto
<1>15. ASSUME NEW t \in Threads, WriteStore(t) PROVE Nested'
  <2>1. pc[t] = "unlockStore" /\ pc' = [pc EXCEPT ![t] = "run"] /\ Pop(t)
    BY <1>15, Zenon DEF WriteStore, Goto
  <2>2. ~Waiting(t)'
    BY <1>B, <1>C, <2>1, Zenon
  <2>3. held[t] # <<>>
    <3>1. Len(held[t]) = 1
      BY <2>1, SMT DEF LockInv, Stages, Stage
    <3> QED
      BY <3>1, SMT
  <2> QED
    BY <1>1, <1>4, <1>6, <2>1, <2>2, <2>3, StackDepth, Zenon
<1>16. ASSUME NEW t \in Threads, ReadUnlock(t) PROVE Nested'
  <2>1. pc[t] = "run" /\ pc' = pc /\ Pop(t) /\ held[t] # <<>>
    BY <1>16, Zenon DEF ReadUnlock, Innermost
  <2>2. ~Waiting(t)'
    BY <2>1, Zenon DEF Waiting
  <2> QED
    BY <1>1, <1>4, <2>1, <2>2, StackDepth, Zenon
<1>17. CASE UNCHANGED vars
  <2>1. held' = held /\ pc' = pc
    BY <1>17, SMT DEF vars
  <2> QED
    BY <2>1, Zenon DEF Nested, Waiting
<1> QED
  BY <1>7, <1>8, <1>9, <1>10, <1>11, <1>12, <1>13, <1>14, <1>15, <1>16, <1>17, Zenon
     DEF Next, Enter, Proceed

\* Nobody holds a guard at first.
LEMMA NestedInit == Init => Nested
<1> SUFFICES ASSUME Init, NEW t \in Threads
             PROVE  Len(held[t]) <= MaxDepth /\ ~Waiting(t)
  BY Zenon DEF Nested
<1>1. Len(held[t]) = 0 /\ ~Waiting(t)
  BY SMT DEF Init, Waiting
<1> QED
  BY <1>1, LockAssumption, SMT

\* All threads together hold no more read guards than they may nest.
LEMMA ReadersBounded ==
  ASSUME IsFiniteSet(Threads), LockInv, Nested
  PROVE  lockFlag.readers <= Cardinality(Threads) * MaxDepth
<1>1. /\ IsFiniteSet(1 .. MaxDepth) /\ Cardinality(1 .. MaxDepth) = MaxDepth
  BY LockAssumption, FS_Interval, SMT
<1>2. /\ IsFiniteSet(Threads \X (1 .. MaxDepth))
      /\ Cardinality(Threads \X (1 .. MaxDepth)) = Cardinality(Threads) * MaxDepth
  BY <1>1, FS_Product, Zenon
<1>3. ReadGuards \in SUBSET (Threads \X (1 .. MaxDepth))
  <2> SUFFICES ASSUME NEW t \in Threads, NEW i \in Nat, i \in 1 .. Len(held[t])
               PROVE  i \in 1 .. MaxDepth
    BY SMT DEF ReadGuards
  <2>1. Len(held[t]) \in Nat /\ Len(held[t]) <= MaxDepth
    BY StackDepth, Zenon DEF LockInv, Nested
  <2> QED
    BY <2>1, LockAssumption, SMT
<1> QED
  BY <1>2, <1>3, FS_Subset, Zenon DEF LockInv, Counted

Remembered == \A t \in Threads : expected[t] < Half

\* What a thread remembers of the number of readers is such a number.
LEMMA RememberedNext ==
  TypeOK /\ Remembered /\ lockFlag.readers < Half /\ [Next]_vars => Remembered'
<1> SUFFICES ASSUME TypeOK, Remembered, lockFlag.readers < Half, [Next]_vars
             PROVE  Remembered'
  OBVIOUS
<1>1. ASSUME NEW t \in Threads, ReadLoad(t) PROVE Remembered'
  <2>1. /\ expected'[t] = lockFlag.readers
        /\ \A u \in Threads \ {t} : expected'[u] = expected[u]
    BY <1>1, SMT DEF ReadLoad, TypeOK
  <2> QED
    BY <2>1, Zenon DEF Remembered
<1>2. expected' = expected => Remembered'
  BY Zenon DEF Remembered
<1>3. ASSUME NEW t \in Threads, Enter(t) \/ (Proceed(t) /\ ~ReadLoad(t))
      PROVE  expected' = expected
  BY <1>3, Zenon DEF Enter, Proceed, WriteLock, ReadLock, WriteSwap, WriteCount, ReadSwap,
     WriteUnlock, WriteUncount, WriteStore, ReadUnlock
<1>4. UNCHANGED vars => expected' = expected
  BY SMT DEF vars
<1> QED
  BY <1>1, <1>2, <1>3, <1>4, Zenon DEF Next

\* A pair that fits is what its word says.
LEMMA PairAndWord ==
  ASSUME NEW w \in Nat, w < Half, NEW r \in Nat, r < Half
  PROVE  /\ w * Half + r \in uint32
         /\ (w * Half + r) % Half = r
         /\ (w * Half + r) \div Half = w
         /\ \A e \in Nat : e < Half => (w * Half + r = e <=> w = 0 /\ r = e)
<1>1. w * Half + r \in uint32
  <2>1. w * Half + r \in Nat /\ w * Half + r <= UINT32_MAX
    BY SMT DEF Half, UINT32_MAX
  <2> QED
    BY <2>1, Zenon DEF uint32
<1>2. (w * Half + r) % Half = r
  BY SMT DEF Half
<1>3. (w * Half + r) \div Half = w
  BY SMT DEF Half
<1>4. ASSUME NEW e \in Nat, e < Half, w * Half + r = e PROVE w = 0 /\ r = e
  BY <1>4, SMT DEF Half
<1>5. ASSUME w = 0 PROVE w * Half + r = r
  BY <1>5, SMT DEF Half
<1> QED
  BY <1>1, <1>2, <1>3, <1>4, <1>5, Zenon

(***************************************************************************)
(* What the code reads off _lockFlag (the writer, the number of readers,   *)
(* whether it is empty, whether it is still what ReadLock expects) is what *)
(* the lock's state says, in the 32 bits that there are: no reader is ever *)
(* carried into the writer's half.                                         *)
(***************************************************************************)
THEOREM TheFlagIsAWord ==
  ASSUME IsFiniteSet(Threads), Cardinality(Threads) * MaxDepth < Half,
         NEW ThreadId \in ThreadIds
  PROVE  Spec => []FlagIsWord(ThreadId)
<1> DEFINE WordInv == LockInv /\ Nested /\ Remembered
<1>1. Init => Remembered
  <2>1. 0 < Half
    BY SMT DEF Half
  <2> QED
    BY <2>1, Zenon DEF Init, Remembered
<1>2. LockInv /\ Nested => lockFlag.readers < Half
  <2> SUFFICES ASSUME LockInv, Nested PROVE lockFlag.readers < Half
    OBVIOUS
  <2>1. Cardinality(Threads) \in Nat
    BY FS_CardinalityType, Zenon
  <2>2. PICK b \in Int : b = Cardinality(Threads) * MaxDepth
    BY LockAssumption, <2>1, SMT
  <2>3. lockFlag.readers \in Nat
    BY SMT DEF LockInv, TypeOK
  <2>4. lockFlag.readers <= b /\ b < Half
    BY <2>2, ReadersBounded, Zenon
  <2> QED
    BY <2>3, <2>4, SMT DEF Half
<1>3. WordInv /\ [Next]_vars => WordInv'
  <2>1. LockInv => TypeOK
    BY Zenon DEF LockInv
  <2> QED
    BY <1>2, <2>1, LockInvNext, NestedNext, RememberedNext, Zenon
<1>4. WordInv => FlagIsWord(ThreadId)
  <2> SUFFICES ASSUME LockInv, Nested, Remembered PROVE FlagIsWord(ThreadId)
    OBVIOUS
  <2>0. /\ lockFlag \in [writer : Threads \cup {NoThread}, readers : Nat]
        /\ \A t \in Threads : expected[t] \in Nat /\ expected[t] < Half
        /\ lockFlag.readers < Half
    BY <1>2, Zenon DEF LockInv, TypeOK, Remembered
  <2>1. /\ lockFlag.writer \in Threads \cup {NoThread} /\ lockFlag.readers \in Nat
        /\ \A e : lockFlag = [writer |-> NoThread, readers |-> e]
                    <=> lockFlag.writer = NoThread /\ lockFlag.readers = e
    BY <2>0, SMT
  <2>2. /\ ThreadId \in [Threads \cup {NoThread} -> Nat] /\ ThreadId[NoThread] = 0
        /\ \A t \in Threads : ThreadId[t] # 0 /\ ThreadId[t] < Half
        /\ \A t, u \in Threads : ThreadId[t] = ThreadId[u] => t = u
    BY Zenon DEF ThreadIds
  <2>3. PICK w \in Nat : w = ThreadId[lockFlag.writer]
    BY <2>1, <2>2, Zenon
  <2>4. PICK r \in Nat : r = lockFlag.readers
    BY <2>1, Zenon
  <2>5. 0 \in Nat /\ 0 < Half
    BY SMT DEF Half
  <2>6. w < Half /\ r < Half
    BY <2>0, <2>1, <2>2, <2>3, <2>4, <2>5, Zenon
  <2>7. w = 0 <=> lockFlag.writer = NoThread
    BY <2>1, <2>2, <2>3, Zenon
  <2>8. \A t \in Threads : ThreadId[t] = w <=> lockFlag.writer = t
    BY <2>1, <2>2, <2>3, Zenon
  <2>9. Word(ThreadId) = w * Half + r
    BY <2>3, <2>4, Zenon DEF Word
  <2>10. /\ w * Half + r \in uint32
         /\ (w * Half + r) % Half = r
         /\ (w * Half + r) \div Half = w
         /\ \A e \in Nat : e < Half => (w * Half + r = e <=> w = 0 /\ r = e)
    BY <2>6, PairAndWord, Zenon
  <2>11. Word(ThreadId) = 0 <=> lockFlag = EMPTY_FLAG
    BY <2>1, <2>4, <2>5, <2>7, <2>9, <2>10, Zenon DEF EMPTY_FLAG
  <2>12. ASSUME NEW t \in Threads
         PROVE  Word(ThreadId) = expected[t]
                  <=> lockFlag = [writer |-> NoThread, readers |-> expected[t]]
    <3>1. PICK e \in Nat : e = expected[t] /\ e < Half
      BY <2>0, Zenon
    <3>2. w * Half + r = e <=> w = 0 /\ r = e
      BY <2>10, <3>1, Zenon
    <3>3. lockFlag = [writer |-> NoThread, readers |-> e] <=> w = 0 /\ r = e
      BY <2>1, <2>4, <2>7, Zenon
    <3> QED
      BY <2>9, <3>1, <3>2, <3>3, Zenon
  <2> QED
    BY <2>4, <2>8, <2>9, <2>10, <2>11, <2>12, Zenon DEF FlagIsWord
<1> QED
  BY <1>1, <1>3, <1>4, LockInvInit, NestedInit, PTL DEF Spec
=============================================================================
