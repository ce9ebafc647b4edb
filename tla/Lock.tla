-------------------------------- MODULE Lock --------------------------------
(***************************************************************************)
(* Class Lock (IocpLib/Fundamentals/Lock.h, Lock.cpp), one atomic access   *)
(* to _lockFlag per step.                                                  *)
(*                                                                         *)
(* _lockFlag packs the id of the writer and the number of readers into 16  *)
(* bits each.  Here it is a pair: thread ids are at most the number of     *)
(* threads launched, and 65536 read guards are never held at once          *)
(* (TheFlagIsAWord in LockProofs).  A failed compare-and-swap changes      *)
(* nothing and is no step, and what a thread does when its wait times out  *)
(* (it crashes the program) is left out.                                   *)
(*                                                                         *)
(* Threads use the guards of Lock.h, so that locks nest like scopes.  They *)
(* do not take a write guard inside a read guard: WriteLock would wait for *)
(* the thread's own read lock, or, inside a write guard, WriteUnlock would *)
(* crash with INVALID_UNLOCK_ORDER.  No caller in the program does.        *)
(***************************************************************************)
EXTENDS Integers, Sequences

CONSTANTS
  Threads,
  NoThread,  \* the writer of a lock nobody writes under
  MaxDepth   \* bound of the model: how deep a thread nests its guards

ASSUME LockAssumption ==
  /\ NoThread \notin Threads
  /\ MaxDepth \in Nat

VARIABLES
  lockFlag,    \* _lockFlag
  writeCount,  \* _writeCount
  held,        \* the guards each thread holds, innermost last
  expected,    \* the local variable of ReadLock
  crashed,     \* a CRASH fired
  pc           \* where each thread stands

vars == <<lockFlag, writeCount, held, expected, crashed, pc>>

EMPTY_FLAG == [writer |-> NoThread, readers |-> 0]

Kinds == {"R", "W"}
States == {"run", "writeSpin", "writeCount", "readLoad", "readSwap", "unlockCount",
           "unlockStore"}

Init ==
  /\ lockFlag = EMPTY_FLAG
  /\ writeCount = 0
  /\ held = [t \in Threads |-> <<>>]
  /\ expected = [t \in Threads |-> 0]
  /\ crashed = FALSE
  /\ pc = [t \in Threads |-> "run"]

Goto(t, from, to) ==
  /\ pc[t] = from
  /\ pc' = [pc EXCEPT ![t] = to]

Push(t, kind) == held' = [held EXCEPT ![t] = Append(@, kind)]
Pop(t) == held' = [held EXCEPT ![t] = SubSeq(@, 1, Len(@) - 1)]

\* The thread is about to leave the scope of a guard of this kind.
Innermost(t, kind) == held[t] # <<>> /\ held[t][Len(held[t])] = kind

\* The nesting rule above.
MayWrite(t) == \A i \in 1 .. Len(held[t]) : held[t][i] = "W"

-----------------------------------------------------------------------------
(***************************************************************************)
(* Plausible mistakes in the code below, each the wrong twin of the action *)
(* whose name it bears.                                                    *)
(***************************************************************************)

\* A writer waits for other writers only.
MutantWriteSwap(t) ==
  /\ lockFlag.writer = NoThread
  /\ Goto(t, "writeSpin", "writeCount")
  /\ lockFlag' = [lockFlag EXCEPT !.writer = t]
  /\ UNCHANGED <<writeCount, held, expected, crashed>>

\* A reader looks for a writer but not for readers that came since its load.
MutantReadSwap(t) ==
  /\ lockFlag.writer = NoThread
  /\ Goto(t, "readSwap", "run")
  /\ lockFlag' = [lockFlag EXCEPT !.readers = expected[t] + 1]
  /\ Push(t, "R")
  /\ UNCHANGED <<writeCount, expected, crashed>>

\* The innermost write guard frees the lock.
MutantWriteUncount(t) ==
  /\ Goto(t, "unlockCount", "unlockStore")
  /\ writeCount' = writeCount - 1
  /\ UNCHANGED <<lockFlag, held, expected, crashed>>

\* At zero the flag is left as it is.
MutantWriteStore(t) ==
  /\ Goto(t, "unlockStore", "run")
  /\ Pop(t)
  /\ UNCHANGED <<lockFlag, writeCount, expected, crashed>>

-----------------------------------------------------------------------------
(***************************************************************************)
(* WriteLock.  Only a thread itself makes itself the writer, or ends that, *)
(* so that the test at the start cannot be outdated.                       *)
(***************************************************************************)

WriteLock(t) ==
  /\ pc[t] = "run"
  /\ MayWrite(t)
  /\ Len(held[t]) < MaxDepth
  /\ \/ /\ lockFlag.writer = t
        /\ writeCount' = writeCount + 1
        /\ Push(t, "W")
        /\ UNCHANGED pc
     \/ /\ lockFlag.writer # t
        /\ Goto(t, "run", "writeSpin")
        /\ UNCHANGED <<writeCount, held>>
  /\ UNCHANGED <<lockFlag, expected, crashed>>

\* The compare-and-swap of an empty flag succeeds ...
WriteSwap(t) ==
  /\ lockFlag = EMPTY_FLAG
  /\ Goto(t, "writeSpin", "writeCount")
  /\ lockFlag' = [lockFlag EXCEPT !.writer = t]
  /\ UNCHANGED <<writeCount, held, expected, crashed>>

\* ... and the new writer counts its first write lock.
WriteCount(t) ==
  /\ Goto(t, "writeCount", "run")
  /\ writeCount' = writeCount + 1
  /\ Push(t, "W")
  /\ UNCHANGED <<lockFlag, expected, crashed>>

-----------------------------------------------------------------------------
\* WriteUnlock crashes if there are readers.  It counts down ...
WriteUnlock(t) ==
  /\ Innermost(t, "W")
  /\ Goto(t, "run", "unlockCount")
  /\ crashed' = (crashed \/ lockFlag.readers # 0)
  /\ UNCHANGED <<lockFlag, writeCount, held, expected>>

WriteUncount(t) ==
  /\ writeCount' = writeCount - 1
  /\ \/ writeCount' = 0 /\ Goto(t, "unlockCount", "unlockStore") /\ UNCHANGED held
     \/ writeCount' # 0 /\ Goto(t, "unlockCount", "run") /\ Pop(t)
  /\ UNCHANGED <<lockFlag, expected, crashed>>

\* ... and at zero stores an empty flag.
WriteStore(t) ==
  /\ Goto(t, "unlockStore", "run")
  /\ lockFlag' = EMPTY_FLAG
  /\ Pop(t)
  /\ UNCHANGED <<writeCount, expected, crashed>>

-----------------------------------------------------------------------------
\* ReadLock adds a reader at once in a thread that has the write lock.
ReadLock(t) ==
  /\ pc[t] = "run"
  /\ Len(held[t]) < MaxDepth
  /\ \/ /\ lockFlag.writer = t
        /\ lockFlag' = [lockFlag EXCEPT !.readers = @ + 1]
        /\ Push(t, "R")
        /\ UNCHANGED pc
     \/ /\ lockFlag.writer # t
        /\ Goto(t, "run", "readLoad")
        /\ UNCHANGED <<lockFlag, held>>
  /\ UNCHANGED <<writeCount, expected, crashed>>

\* Otherwise it loads the number of readers ...
ReadLoad(t) ==
  /\ Goto(t, "readLoad", "readSwap")
  /\ expected' = [expected EXCEPT ![t] = lockFlag.readers]
  /\ UNCHANGED <<lockFlag, writeCount, held, crashed>>

\* ... and adds one if the flag, writer included, still is what it expects.
ReadSwap(t) ==
  /\ \/ /\ lockFlag = [writer |-> NoThread, readers |-> expected[t]]
        /\ Goto(t, "readSwap", "run")
        /\ lockFlag' = [lockFlag EXCEPT !.readers = @ + 1]
        /\ Push(t, "R")
     \/ /\ lockFlag # [writer |-> NoThread, readers |-> expected[t]]
        /\ Goto(t, "readSwap", "readLoad")
        /\ UNCHANGED <<lockFlag, held>>
  /\ UNCHANGED <<writeCount, expected, crashed>>

ReadUnlock(t) ==
  /\ pc[t] = "run"
  /\ Innermost(t, "R")
  /\ crashed' = (crashed \/ lockFlag.readers = 0)
  /\ lockFlag' = [lockFlag EXCEPT !.readers = @ - 1]
  /\ Pop(t)
  /\ UNCHANGED <<writeCount, expected, pc>>

-----------------------------------------------------------------------------
Enter(t) == WriteLock(t) \/ ReadLock(t)

\* What a thread that has begun to lock, or holds a guard, goes on to do.
Proceed(t) ==
  \/ WriteSwap(t) \/ WriteCount(t)
  \/ ReadLoad(t) \/ ReadSwap(t)
  \/ WriteUnlock(t) \/ WriteUncount(t) \/ WriteStore(t) \/ ReadUnlock(t)

Next == \E t \in Threads : Enter(t) \/ Proceed(t)

Spec == Init /\ [][Next]_vars

\* Threads run on, and leave the scopes they have entered.
FairSpec == Spec /\ \A t \in Threads : WF_vars(Proceed(t))

-----------------------------------------------------------------------------
\* Every variable has its type.
TypeOK ==
  /\ lockFlag \in [writer : Threads \cup {NoThread}, readers : Nat]
  /\ writeCount \in Nat
  /\ held \in [Threads -> Seq(Kinds)]
  /\ expected \in [Threads -> Nat]
  /\ crashed \in BOOLEAN
  /\ pc \in [Threads -> States]

(***************************************************************************)
(* A thread with a write guard excludes every other thread's guards, from  *)
(* the end of WriteLock to the end of the outermost WriteUnlock.           *)
(***************************************************************************)
MutualExclusion ==
  \A t, u \in Threads :
    t # u /\ (\E i \in 1 .. Len(held[t]) : held[t][i] = "W") => held[u] = <<>>

(***************************************************************************)
(* Neither CRASH fires: when a thread leaves a write guard nobody reads,   *)
(* and when it leaves a read guard its reader is still counted.            *)
(***************************************************************************)
NoCrash == ~crashed

(***************************************************************************)
(* The lock does not wedge: if somebody wants it, somebody gets it, though *)
(* nothing makes it the one who has waited longest.                        *)
(***************************************************************************)
LockProgress ==
  (\E t \in Threads : pc[t] \in {"writeSpin", "readLoad", "readSwap"})
    ~> (\E t \in Threads : held[t] # <<>>)

\* The lock seen from its users.
Abstract == INSTANCE ReadWriteLock

\* The spin lock implements the reader-writer lock.
ImplementsLock == Abstract!Spec
=============================================================================
