-------------------------- MODULE SendBufferProofs --------------------------
(***************************************************************************)
(* Theorems about SendBuffer for any number of threads, chunks and buffers *)
(* and any sizes: a buffer's memory is its own, the pool has what nobody   *)
(* refers to, no assertion fires, and all that implements BufferMemory;    *)
(* and about ObjectPool, from which the SendBuffer objects come.           *)
(***************************************************************************)
EXTENDS SendBuffer, SequenceTheorems, TLAPS

\* Each action, and who takes it.
LEMMA NextCases ==
  [Next]_vars =>
    \/ \E t \in Threads : Open(t)
    \/ \E t \in Threads : Pop(t)
    \/ \E t \in Threads : Replace(t)
    \/ \E t \in Threads : Allocate(t)
    \/ \E t \in Threads : AllocateFails(t)
    \/ \E t \in Threads : WriteAndClose(t)
    \/ \E t \in Threads : Send(t)
    \/ \E t \in Threads : Drop(t)
    \/ \E t \in Threads, b \in Buffers : SendDone(t, b)
    \/ \E t \in Threads : PushGlobal(t)
    \/ UNCHANGED vars
BY Zenon DEF Next, Step

-----------------------------------------------------------------------------
(***************************************************************************)
(* Where the threads stand.                                                *)
(***************************************************************************)

\* The caller's buffer before it is allocated, and once it is.
Unallocated(t) ==
  /\ buffer[t] \in Buffers
  /\ chunkOf[buffer[t]] = NoChunk
  /\ sessions[buffer[t]] = 0
  /\ allocSize[t] \in 1 .. ChunkSize
Allocated(t) == buffer[t] \in Buffers /\ chunkOf[buffer[t]] # NoChunk

\* The current chunk has just been reset.
Fresh(t) == currentChunk[t] # NoChunk /\ usedSize[currentChunk[t]] = 0

\* What is written lies behind what is used.
AtTheEnd(t) ==
  /\ chunkOf[buffer[t]] = currentChunk[t]
  /\ start[buffer[t]] = usedSize[currentChunk[t]]

At(t) ==
  /\ pc[t] = "run" => buffer[t] = NoBuffer
  /\ pc[t] = "open" => Unallocated(t)
  /\ pc[t] = "replace" => Unallocated(t) /\ popped[t] # NoChunk
  /\ pc[t] = "allocate" => Unallocated(t) /\ Fresh(t)
  /\ pc[t] = "writing" => Allocated(t) /\ AtTheEnd(t)
  /\ pc[t] = "sending" => Allocated(t)
  /\ pc[t] = "pushing" =>
       /\ abandoned[t] # NoChunk
       /\ buffer[t] = NoBuffer \/ (Unallocated(t) /\ Fresh(t)) \/ Allocated(t)
  /\ pc[t] # "replace" => popped[t] = NoChunk
  /\ pc[t] # "pushing" => abandoned[t] = NoChunk

Stages == \A t \in Threads : At(t)

(***************************************************************************)
(* Who owns what.  No two threads have the same buffer, or refer to the    *)
(* same chunk in any of the three ways; one that is on its way into or out *)
(* of the pool has no buffers.                                             *)
(***************************************************************************)
OwnBuffers ==
  /\ \A t, u \in Threads : t # u /\ buffer[t] \in Buffers => buffer[t] # buffer[u]
  /\ \A b \in Buffers : sessions[b] > 0 => chunkOf[b] # NoChunk

OwnChunks ==
  /\ \A t, u \in Threads, c \in Chunks : Held(t, c) /\ Held(u, c) => t = u
  /\ \A t \in Threads :
       currentChunk[t] # NoChunk => currentChunk[t] \notin {popped[t], abandoned[t]}
  /\ \A t \in Threads, b \in Buffers :
       chunkOf[b] # NoChunk => chunkOf[b] \notin {popped[t], abandoned[t]}

\* A chunk that anybody knows of has been created.
Made ==
  /\ \A i \in 1 .. Len(sendBufferChunks) : sendBufferChunks[i] \in created
  /\ \A t \in Threads, c \in Chunks : Held(t, c) => c \in created
  /\ \A b \in Buffers : chunkOf[b] # NoChunk => chunkOf[b] \in created

(***************************************************************************)
(* What is used.  A chunk is open exactly while the thread whose current   *)
(* one it is writes; only what that thread writes lies beyond the used     *)
(* part.                                                                   *)
(***************************************************************************)
OpenedByWriter ==
  \A c \in Chunks : opened[c] <=> \E t \in Threads : pc[t] = "writing" /\ currentChunk[t] = c

Fits(b) == start[b] + size[b] <= ChunkSize
Used(b) == start[b] + size[b] <= usedSize[chunkOf[b]]

Space ==
  \A b \in Buffers : chunkOf[b] # NoChunk => Fits(b) /\ (Written(b) \/ Used(b))

-----------------------------------------------------------------------------
\* The beginning of a sequence.
LEMMA Prefix ==
  ASSUME NEW S, NEW s \in Seq(S), NEW n \in Nat, n <= Len(s)
  PROVE  /\ SubSeq(s, 1, n) \in Seq(S)
         /\ Len(SubSeq(s, 1, n)) = n
         /\ \A i \in 1 .. n : SubSeq(s, 1, n)[i] = s[i]
<1>1. \A i \in 1 .. n : s[i] \in S
  BY ElementOfSeq, LenProperties, SMT
<1> QED
  BY <1>1, SubSeqProperties, SMT

\* What Pop returns: the last chunk of the pool, or one that is new.
LEMMA PopTakes ==
  ASSUME TypeOK, NEW t \in Threads, Pop(t)
  PROVE  \E c \in Chunks :
           /\ popped' = [popped EXCEPT ![t] = c]
           /\ \/ c \notin created /\ created' = created \cup {c} /\ UNCHANGED sendBufferChunks
              \/ /\ UNCHANGED created
                 /\ sendBufferChunks' \in Seq(Chunks)
                 /\ Len(sendBufferChunks) \in Nat \ {0}
                 /\ Len(sendBufferChunks') = Len(sendBufferChunks) - 1
                 /\ c = sendBufferChunks[Len(sendBufferChunks)]
                 /\ \A i \in 1 .. Len(sendBufferChunks) - 1 :
                      sendBufferChunks'[i] = sendBufferChunks[i]
<1>1. CASE CreateChunk(t)
  BY <1>1, Zenon DEF CreateChunk
<1>2. CASE PopBack(t)
  <2>1. sendBufferChunks \in Seq(Chunks) /\ sendBufferChunks # <<>>
    BY <1>2, Zenon DEF PopBack, TypeOK
  <2>2. PICK q : q = SubSeq(sendBufferChunks, 1, Len(sendBufferChunks) - 1)
    OBVIOUS
  <2>3. /\ q \in Seq(Chunks)
        /\ Len(sendBufferChunks) \in Nat \ {0}
        /\ Len(q) = Len(sendBufferChunks) - 1
        /\ sendBufferChunks[Len(sendBufferChunks)] \in Chunks
        /\ \A i \in 1 .. Len(sendBufferChunks) - 1 : q[i] = sendBufferChunks[i]
    <3>1. /\ Len(sendBufferChunks) \in Nat \ {0}
          /\ \A i \in 1 .. Len(sendBufferChunks) : sendBufferChunks[i] \in Chunks
      BY <2>1, EmptySeq, LenProperties, ElementOfSeq, SMT
    <3>2. /\ 1 \in 1 .. Len(sendBufferChunks) + 1
          /\ Len(sendBufferChunks) - 1 \in 1 - 1 .. Len(sendBufferChunks)
          /\ Len(sendBufferChunks) \in 1 .. Len(sendBufferChunks)
      BY <3>1, SMT
    <3>3. /\ q \in Seq(Chunks)
          /\ Len(q) = Len(sendBufferChunks) - 1
          /\ \A i \in 1 .. Len(sendBufferChunks) - 1 : q[i] = sendBufferChunks[i]
      <4>1. /\ Len(sendBufferChunks) - 1 \in Nat
            /\ Len(sendBufferChunks) - 1 <= Len(sendBufferChunks)
        BY <3>1, SMT
      <4> QED
        BY <2>1, <2>2, <4>1, Prefix, Zenon
    <3> QED
      BY <3>1, <3>2, <3>3
  <2> QED
    BY <1>2, <2>2, <2>3, Zenon DEF PopBack
<1> QED
  BY <1>1, <1>2, Zenon DEF Pop

(***************************************************************************)
(* What Release does: the reference was not the last, or the buffer goes,  *)
(* or its chunk is left as well.                                           *)
(***************************************************************************)
GoesOn(t, then) ==
  abandoned' = [abandoned EXCEPT ![t] = NoChunk] /\ pc' = [pc EXCEPT ![t] = then]

Freed(b) ==
  /\ chunkOf' = [chunkOf EXCEPT ![b] = NoChunk]
  /\ start' = [start EXCEPT ![b] = 0]
  /\ size' = [size EXCEPT ![b] = 0]

Emptied(t, b) ==
  /\ ChunkLeft(chunkOf[b], {}, {b})
  /\ abandoned' = [abandoned EXCEPT ![t] = chunkOf[b]]
  /\ pc' = [pc EXCEPT ![t] = "pushing"]

Released(t, b, last, then) ==
  \/ ~last /\ UNCHANGED <<chunkOf, start, size>> /\ GoesOn(t, then)
  \/ last /\ Freed(b) /\ (GoesOn(t, then) \/ Emptied(t, b))

\* Those are the cases.
LEMMA ReleaseCases ==
  ASSUME TypeOK, NEW t \in Threads, NEW b \in Buffers, NEW last, NEW then,
         Release(t, b, last, then)
  PROVE  Released(t, b, last, then)
<1>1. CASE ~last
  BY <1>1, SMT DEF Release, TypeOK, Released, GoesOn
<1>2. CASE last
  <2>1. Freed(b)
    BY <1>2, SMT DEF Release, Freed
  <2>2. GoesOn(t, then) \/ Emptied(t, b)
    <3>1. CASE ChunkLeft(chunkOf[b], {}, {b})
      BY <1>2, <3>1, SMT DEF Release, Emptied
    <3>2. CASE ~ChunkLeft(chunkOf[b], {}, {b})
      BY <1>2, <3>2, SMT DEF Release, GoesOn
    <3> QED
      BY <3>1, <3>2
  <2> QED
    BY <1>2, <2>1, <2>2, Zenon DEF Released
<1> QED
  BY <1>1, <1>2, Zenon

\* Whatever the case, the types are kept.
LEMMA ReleaseTypes ==
  ASSUME TypeOK, NEW t \in Threads, NEW b \in Buffers, NEW last, NEW then \in States,
         Released(t, b, last, then)
  PROVE  /\ chunkOf' \in [Buffers -> Chunks \cup {NoChunk}]
         /\ start' \in [Buffers -> 0 .. ChunkSize]
         /\ size' \in [Buffers -> 0 .. ChunkSize]
         /\ abandoned' \in [Threads -> Chunks \cup {NoChunk}]
         /\ pc' \in [Threads -> States]
<1>1. UNCHANGED <<chunkOf, start, size>> \/ Freed(b)
  BY Zenon DEF Released
<1>2. /\ chunkOf' \in [Buffers -> Chunks \cup {NoChunk}]
      /\ start' \in [Buffers -> 0 .. ChunkSize]
      /\ size' \in [Buffers -> 0 .. ChunkSize]
  <2>1. CASE UNCHANGED <<chunkOf, start, size>>
    BY <2>1, Zenon DEF TypeOK
  <2>2. CASE Freed(b)
    BY <2>2, SendBufferAssumption, SMT DEF Freed, TypeOK
  <2> QED
    BY <1>1, <2>1, <2>2
<1>3. GoesOn(t, then) \/ Emptied(t, b)
  BY Zenon DEF Released
<1>4. abandoned' \in [Threads -> Chunks \cup {NoChunk}] /\ pc' \in [Threads -> States]
  <2>1. CASE GoesOn(t, then)
    BY <2>1, SMT DEF GoesOn, TypeOK
  <2>2. CASE Emptied(t, b)
    BY <2>2, SMT DEF Emptied, TypeOK, States
  <2> QED
    BY <1>3, <2>1, <2>2
<1> QED
  BY <1>2, <1>4

\* What it means for the chunks: buffers only go, and a chunk that is left has one holder.
LEMMA ReleaseChunks ==
  ASSUME TypeOK, NEW t \in Threads, NEW b \in Buffers, NEW last, NEW then,
         chunkOf[b] # NoChunk, Released(t, b, last, then)
  PROVE  /\ \A d \in Buffers : chunkOf'[d] \in {chunkOf[d], NoChunk}
         /\ \/ \A u \in Threads : abandoned'[u] \in {abandoned[u], NoChunk}
            \/ /\ \A u \in Threads \ {t} : abandoned'[u] = abandoned[u]
               /\ abandoned'[t] = chunkOf[b]
               /\ \A u \in Threads : currentChunk[u] # chunkOf[b]
               /\ \A d \in Buffers : chunkOf'[d] # chunkOf[b]
<1>1. \A d \in Buffers : chunkOf'[d] \in {chunkOf[d], NoChunk}
  <2>1. UNCHANGED chunkOf \/ chunkOf' = [chunkOf EXCEPT ![b] = NoChunk]
    BY Zenon DEF Released, Freed
  <2> QED
    BY <2>1, SMT DEF TypeOK
<1>2. CASE GoesOn(t, then)
  <2>1. \A u \in Threads : abandoned'[u] \in {abandoned[u], NoChunk}
    BY <1>2, SMT DEF GoesOn, TypeOK
  <2> QED
    BY <1>1, <2>1
<1>3. CASE last /\ Freed(b) /\ Emptied(t, b)
  <2>1. (\A u \in Threads \ {t} : abandoned'[u] = abandoned[u]) /\ abandoned'[t] = chunkOf[b]
    BY <1>3, SMT DEF Emptied, TypeOK
  <2>2. \A u \in Threads : currentChunk[u] # chunkOf[b]
    BY <1>3, SMT DEF Emptied, ChunkLeft
  <2>3. \A d \in Buffers : chunkOf'[d] # chunkOf[b]
    <3>1. \A d \in Buffers \ {b} : chunkOf[d] # chunkOf[b]
      BY <1>3, Zenon DEF Emptied, ChunkLeft
    <3>2. chunkOf' = [chunkOf EXCEPT ![b] = NoChunk]
      BY <1>3, Zenon DEF Freed
    <3> QED
      BY <3>1, <3>2, SMT DEF TypeOK
  <2> QED
    BY <1>1, <2>1, <2>2, <2>3
<1> QED
  BY <1>2, <1>3, Zenon DEF Released

\* A caller lets go of its buffer.
LEMMA DropCases ==
  ASSUME TypeOK, Stages, NEW t \in Threads, Drop(t)
  PROVE  /\ pc[t] = "sending" /\ buffer[t] \in Buffers /\ chunkOf[buffer[t]] # NoChunk
         /\ buffer' = [buffer EXCEPT ![t] = NoBuffer]
         /\ Released(t, buffer[t], sessions[buffer[t]] = 0, "run")
         /\ UNCHANGED <<sessions, opened, usedSize, sendBufferChunks, created, currentChunk,
                        popped, allocSize, crashed>>
<1>1. pc[t] = "sending" /\ buffer[t] \in Buffers /\ chunkOf[buffer[t]] # NoChunk
  BY Zenon DEF Drop, Stages, At, Allocated
<1> QED
  BY <1>1, ReleaseCases, Zenon DEF Drop, chunkVars, poolVars

\* A session lets go of a buffer.
LEMMA SendDoneCases ==
  ASSUME TypeOK, OwnBuffers, NEW t \in Threads, NEW b \in Buffers, SendDone(t, b)
  PROVE  /\ pc[t] \in {"run", "sending"} /\ sessions[b] > 0 /\ chunkOf[b] # NoChunk
         /\ sessions' = [sessions EXCEPT ![b] = @ - 1]
         /\ Released(t, b, sessions[b] = 1 /\ \A u \in Threads : buffer[u] # b, pc[t])
         /\ UNCHANGED <<opened, usedSize, sendBufferChunks, created, currentChunk, popped,
                        buffer, allocSize, crashed>>
<1>1. sessions[b] > 0 /\ chunkOf[b] # NoChunk
  BY Zenon DEF SendDone, OwnBuffers
<1> QED
  BY <1>1, ReleaseCases, Zenon DEF SendDone, chunkVars, poolVars

\* What is in the pool is a chunk that nobody refers to.
LEMMA PoolFacts ==
  ASSUME TypeOK, PoolUnreferenced, NEW i \in 1 .. Len(sendBufferChunks)
  PROVE  /\ sendBufferChunks[i] \in Chunks
         /\ sendBufferChunks[i] # NoChunk
         /\ \A u \in Threads : /\ sendBufferChunks[i] # currentChunk[u]
                               /\ sendBufferChunks[i] # popped[u]
                               /\ sendBufferChunks[i] # abandoned[u]
         /\ \A d \in Buffers : sendBufferChunks[i] # chunkOf[d]
<1>1. sendBufferChunks[i] \in Chunks
  BY ElementOfSeq, Zenon DEF TypeOK
<1> QED
  BY <1>1, SendBufferAssumption, Zenon DEF PoolUnreferenced, Held

\* A thread that nothing has happened to, and whose buffer and chunk nothing has happened
\* to, stands where it stood.
LEMMA SameAt ==
  ASSUME NEW u \in Threads, At(u),
         /\ pc'[u] = pc[u] /\ buffer'[u] = buffer[u] /\ allocSize'[u] = allocSize[u]
         /\ currentChunk'[u] = currentChunk[u]
         /\ popped'[u] = popped[u] /\ abandoned'[u] = abandoned[u],
         buffer[u] \in Buffers =>
           /\ chunkOf'[buffer[u]] = chunkOf[buffer[u]]
           /\ start'[buffer[u]] = start[buffer[u]]
           /\ sessions[buffer[u]] = 0 => sessions'[buffer[u]] = 0,
         currentChunk[u] # NoChunk => usedSize'[currentChunk[u]] = usedSize[currentChunk[u]],
         pc[u] = "writing" => currentChunk[u] # NoChunk
  PROVE  At(u)'
BY SMT DEF At, Unallocated, Allocated, AtTheEnd, Fresh

\* Every step keeps the types.
LEMMA TypeNext == TypeOK /\ Stages /\ OwnBuffers /\ Space /\ [Next]_vars => TypeOK'
<1> SUFFICES ASSUME TypeOK, Stages, OwnBuffers, Space, [Next]_vars PROVE TypeOK'
  OBVIOUS
<1> USE DEF TypeOK, States, Stages, At, Unallocated, Allocated, AtTheEnd, Fresh, Space, Fits
<1>1. ASSUME NEW t \in Threads, Open(t) PROVE TypeOK'
  BY <1>1, SendBufferAssumption, SMT DEF Open, Goto, bufferVars, chunkVars, poolVars
<1>2. ASSUME NEW t \in Threads, Pop(t) PROVE TypeOK'
  <2>1. /\ pc[t] = "open" /\ pc' = [pc EXCEPT ![t] = "replace"]
        /\ UNCHANGED <<chunkOf, start, size, sessions, opened, usedSize, currentChunk,
                       buffer, allocSize, abandoned>>
    BY <1>2, Zenon DEF Pop, Goto, bufferVars, chunkVars
  <2>2. PICK c \in Chunks :
          /\ popped' = [popped EXCEPT ![t] = c]
          /\ \/ c \notin created /\ created' = created \cup {c} /\ UNCHANGED sendBufferChunks
             \/ /\ UNCHANGED created
                /\ sendBufferChunks' \in Seq(Chunks)
                /\ Len(sendBufferChunks) \in Nat \ {0}
                /\ Len(sendBufferChunks') = Len(sendBufferChunks) - 1
                /\ c = sendBufferChunks[Len(sendBufferChunks)]
                /\ \A i \in 1 .. Len(sendBufferChunks) - 1 :
                     sendBufferChunks'[i] = sendBufferChunks[i]
    BY <1>2, PopTakes
  <2>3. popped' \in [Threads -> Chunks \cup {NoChunk}] /\ pc' \in [Threads -> States]
    BY <2>1, <2>2, SMT
  <2>4. sendBufferChunks' \in Seq(Chunks) /\ created' \subseteq Chunks
    BY <2>2, Zenon
  <2>5. crashed' \in BOOLEAN
    BY <1>2, Zenon DEF Pop
  <2> QED
    BY <2>1, <2>3, <2>4, <2>5, Zenon
<1>3. ASSUME NEW t \in Threads, Replace(t) PROVE TypeOK'
  BY <1>3, SendBufferAssumption, SMT DEF Replace, Goto, ChunkLeft, Reset, bufferVars,
     poolVars
<1>4. ASSUME NEW t \in Threads, Allocate(t) PROVE TypeOK'
  <2>0. PICK c, b : c = currentChunk[t] /\ b = buffer[t]
    OBVIOUS
  <2>1. /\ chunkOf' = [chunkOf EXCEPT ![b] = c]
        /\ start' = [start EXCEPT ![b] = usedSize[c]]
        /\ size' = [size EXCEPT ![b] = allocSize[t]]
        /\ opened' = [opened EXCEPT ![c] = TRUE]
        /\ allocSize' = [allocSize EXCEPT ![t] = 0]
        /\ pc' = [pc EXCEPT ![t] = "writing"]
        /\ crashed' = (crashed \/ opened[c])
        /\ UNCHANGED <<sessions, usedSize, sendBufferChunks, created, currentChunk, popped,
                       buffer, abandoned>>
    BY <1>4, <2>0, Zenon DEF Allocate, poolVars
  <2>2. c \in Chunks /\ b \in Buffers
    <3>1. pc[t] \in {"open", "allocate"} /\ (pc[t] = "open" => currentChunk[t] # NoChunk)
      BY <1>4, Zenon DEF Allocate, NeedsChunk
    <3>2. currentChunk[t] # NoChunk /\ buffer[t] \in Buffers
      <4> HIDE DEF TypeOK, OwnBuffers, Space
      <4> QED
        BY <3>1, Zenon
    <3>3. currentChunk[t] \in Chunks \cup {NoChunk}
      BY Zenon DEF TypeOK
    <3> QED
      BY <2>0, <3>2, <3>3, Zenon
  <2> HIDE DEF Stages, At, OwnBuffers, Space
  <2>3. /\ chunkOf' \in [Buffers -> Chunks \cup {NoChunk}]
        /\ start' \in [Buffers -> 0 .. ChunkSize]
        /\ size' \in [Buffers -> 0 .. ChunkSize]
    <3>1. usedSize[c] \in 0 .. ChunkSize /\ allocSize[t] \in 0 .. ChunkSize
      BY <2>2, Zenon
    <3>2. /\ chunkOf \in [Buffers -> Chunks \cup {NoChunk}]
          /\ start \in [Buffers -> 0 .. ChunkSize]
          /\ size \in [Buffers -> 0 .. ChunkSize]
      BY Zenon
    <3> HIDE DEF TypeOK
    <3> QED
      BY <2>1, <2>2, <3>1, <3>2, SMT
  <2>4. /\ allocSize' \in [Threads -> 0 .. ChunkSize]
        /\ pc' \in [Threads -> States]
    BY <2>1, SendBufferAssumption, SMT
  <2>5. opened' \in [Chunks -> BOOLEAN] /\ crashed' \in BOOLEAN
    BY <2>1, Zenon
  <2> QED
    BY <2>1, <2>3, <2>4, <2>5, Zenon
<1>5. ASSUME NEW t \in Threads, AllocateFails(t) PROVE TypeOK'
  BY <1>5, SendBufferAssumption, SMT DEF AllocateFails, bufferVars, chunkVars, poolVars,
     threadVars
<1>6. ASSUME NEW t \in Threads, WriteAndClose(t) PROVE TypeOK'
  BY <1>6, SendBufferAssumption, SMT DEF WriteAndClose, Goto, Close, poolVars, threadVars
<1>7. ASSUME NEW t \in Threads, Send(t) PROVE TypeOK'
  BY <1>7, SendBufferAssumption, SMT DEF Send, chunkVars, poolVars, threadVars
<1>8. ASSUME NEW t \in Threads, Drop(t) PROVE TypeOK'
  <2>1. /\ pc[t] = "sending" /\ buffer[t] \in Buffers /\ chunkOf[buffer[t]] # NoChunk
        /\ buffer' = [buffer EXCEPT ![t] = NoBuffer]
        /\ Released(t, buffer[t], sessions[buffer[t]] = 0, "run")
        /\ UNCHANGED <<sessions, opened, usedSize, sendBufferChunks, created, currentChunk,
                       popped, allocSize, crashed>>
    BY <1>8, DropCases
  <2>2. /\ chunkOf' \in [Buffers -> Chunks \cup {NoChunk}]
        /\ start' \in [Buffers -> 0 .. ChunkSize]
        /\ size' \in [Buffers -> 0 .. ChunkSize]
        /\ abandoned' \in [Threads -> Chunks \cup {NoChunk}]
        /\ pc' \in [Threads -> States]
    <3> HIDE DEF TypeOK
    <3>1. "run" \in States /\ pc[t] \in States
      BY Zenon DEF TypeOK, States
    <3> QED
      BY <2>1, <3>1, ReleaseTypes
  <2>4. buffer' \in [Threads -> Buffers \cup {NoBuffer}]
    BY <2>1, SMT
  <2> QED
    BY <2>1, <2>2, <2>4, Zenon
<1>9. ASSUME NEW t \in Threads, NEW b \in Buffers, SendDone(t, b) PROVE TypeOK'
  <2>1. /\ pc[t] \in {"run", "sending"} /\ sessions[b] > 0 /\ chunkOf[b] # NoChunk
        /\ sessions' = [sessions EXCEPT ![b] = @ - 1]
        /\ Released(t, b, sessions[b] = 1 /\ \A u \in Threads : buffer[u] # b, pc[t])
        /\ UNCHANGED <<opened, usedSize, sendBufferChunks, created, currentChunk, popped,
                       buffer, allocSize, crashed>>
    BY <1>9, SendDoneCases
  <2>2. /\ chunkOf' \in [Buffers -> Chunks \cup {NoChunk}]
        /\ start' \in [Buffers -> 0 .. ChunkSize]
        /\ size' \in [Buffers -> 0 .. ChunkSize]
        /\ abandoned' \in [Threads -> Chunks \cup {NoChunk}]
        /\ pc' \in [Threads -> States]
    <3> HIDE DEF TypeOK
    <3>1. "run" \in States /\ pc[t] \in States
      BY Zenon DEF TypeOK, States
    <3> QED
      BY <2>1, <3>1, ReleaseTypes
  <2>4. sessions' \in [Buffers -> 0 .. MaxSessions]
    BY <2>1, SendBufferAssumption, SMT
  <2> QED
    BY <2>1, <2>2, <2>4, Zenon
<1>10. ASSUME NEW t \in Threads, PushGlobal(t) PROVE TypeOK'
  BY <1>10, SendBufferAssumption, SMT DEF PushGlobal, Goto, Push, Interrupted, bufferVars,
     chunkVars
<1>11. CASE UNCHANGED vars
  BY <1>11, SendBufferAssumption, SMT DEF vars, bufferVars, chunkVars, poolVars, threadVars
<1> HIDE DEF TypeOK, States, Stages, At, Unallocated, Allocated, AtTheEnd, Fresh, Space,
   Fits
<1> QED
  BY <1>1, <1>2, <1>3, <1>4, <1>5, <1>6, <1>7, <1>8, <1>9, <1>10, <1>11, NextCases, Zenon

\* Every thread stands where it may.
LEMMA StagesNext == TypeOK /\ Stages /\ OwnBuffers /\ OwnChunks /\ [Next]_vars => Stages'
<1> SUFFICES ASSUME TypeOK, Stages, OwnBuffers, OwnChunks, [Next]_vars
             PROVE  Stages'
  OBVIOUS
<1> USE DEF TypeOK, States, Stages, At, Unallocated, Allocated, AtTheEnd, Fresh, OwnBuffers,
   OwnChunks, Held
<1>1. ASSUME NEW t \in Threads, Open(t) PROVE Stages'
  BY <1>1, SendBufferAssumption, SMT DEF Open, Goto, bufferVars, chunkVars, poolVars
<1>2. ASSUME NEW t \in Threads, Pop(t) PROVE Stages'
  <2>1. /\ pc[t] = "open" /\ pc' = [pc EXCEPT ![t] = "replace"]
        /\ UNCHANGED <<chunkOf, start, size, sessions, opened, usedSize, currentChunk,
                       buffer, allocSize, abandoned>>
    BY <1>2, Zenon DEF Pop, Goto, bufferVars, chunkVars
  <2>2. PICK c \in Chunks :
          /\ popped' = [popped EXCEPT ![t] = c]
          /\ \/ c \notin created /\ created' = created \cup {c} /\ UNCHANGED sendBufferChunks
             \/ /\ UNCHANGED created
                /\ sendBufferChunks' \in Seq(Chunks)
                /\ Len(sendBufferChunks) \in Nat \ {0}
                /\ Len(sendBufferChunks') = Len(sendBufferChunks) - 1
                /\ c = sendBufferChunks[Len(sendBufferChunks)]
                /\ \A i \in 1 .. Len(sendBufferChunks) - 1 :
                     sendBufferChunks'[i] = sendBufferChunks[i]
    BY <1>2, PopTakes
  <2> QED
    BY <2>1, <2>2, SendBufferAssumption, SMT
<1>3. ASSUME NEW t \in Threads, Replace(t) PROVE Stages'
  BY <1>3, SendBufferAssumption, SMT DEF Replace, Goto, ChunkLeft, Reset, bufferVars,
     poolVars
<1>4. ASSUME NEW t \in Threads, Allocate(t) PROVE Stages'
  BY <1>4, SendBufferAssumption, SMT DEF Allocate, NeedsChunk, FreeSize, poolVars
<1>5. ASSUME NEW t \in Threads, AllocateFails(t) PROVE Stages'
  BY <1>5, SendBufferAssumption, SMT DEF AllocateFails, bufferVars, chunkVars, poolVars,
     threadVars
<1>6. ASSUME NEW t \in Threads, WriteAndClose(t) PROVE Stages'
  <2>0. PICK c, b : c = currentChunk[t] /\ b = buffer[t]
    OBVIOUS
  <2>1. /\ b \in Buffers /\ c \in Chunks /\ chunkOf[b] = c
        /\ pc[t] = "writing" /\ pc' = [pc EXCEPT ![t] = "sending"]
        /\ UNCHANGED <<chunkOf, start, sessions, buffer, currentChunk, popped, abandoned,
                       allocSize>>
    BY <1>6, <2>0, SendBufferAssumption, SMT DEF WriteAndClose, Goto, threadVars
  <2>2. PICK n \in 1 .. size[b] : usedSize' = [usedSize EXCEPT ![c] = @ + n]
    BY <1>6, <2>0, <2>1, Zenon DEF WriteAndClose, Close
  <2>3. popped[t] = NoChunk /\ abandoned[t] = NoChunk
    BY <2>1, Zenon
  <2>4. \A u \in Threads \ {t} : At(u)'
    <3> SUFFICES ASSUME NEW u \in Threads \ {t} PROVE At(u)'
      OBVIOUS
    <3>1. pc[u] = "writing" => currentChunk[u] # NoChunk
      BY Zenon
    <3>2. At(u)
      BY Zenon
    <3>3. currentChunk[u] # c
      <4> HIDE DEF At, Stages, TypeOK
      <4> QED
        BY <2>0, <2>1, Zenon
    <3>4. currentChunk[u] # NoChunk => usedSize'[currentChunk[u]] = usedSize[currentChunk[u]]
      <4> HIDE DEF At, Stages, OwnChunks, OwnBuffers
      <4> QED
        BY <2>2, <3>3, SMT
    <3>5. pc'[u] = pc[u]
      <4> HIDE DEF At, Stages, OwnChunks, OwnBuffers
      <4> QED
        BY <2>1, SMT
    <3> HIDE DEF At, Stages, TypeOK, OwnChunks, OwnBuffers
    <3> QED
      BY <2>1, <3>1, <3>2, <3>4, <3>5, SameAt, Zenon
  <2>5. pc'[t] = "sending"
    <3> HIDE DEF At, Stages, OwnChunks, OwnBuffers
    <3> QED
      BY <2>1, SMT
  <2>6. Allocated(t)'
    BY <2>0, <2>1, SendBufferAssumption, Zenon
  <2> HIDE DEF Stages, OwnChunks, OwnBuffers, TypeOK, Allocated
  <2>7. At(t)'
    BY <2>1, <2>3, <2>5, <2>6, SMT
  <2> QED
    BY <2>4, <2>7, Zenon DEF Stages
<1>7. ASSUME NEW t \in Threads, Send(t) PROVE Stages'
  <2>1. /\ pc[t] = "sending"
        /\ sessions' = [sessions EXCEPT ![buffer[t]] = @ + 1]
        /\ UNCHANGED <<chunkOf, start, usedSize, currentChunk, popped, buffer, allocSize,
                       abandoned, pc>>
    BY <1>7, Zenon DEF Send, chunkVars, threadVars
  <2>2. \A u \in Threads : buffer[u] \in Buffers /\ u # t =>
          sessions'[buffer[u]] = sessions[buffer[u]]
    <3>1. \A u \in Threads : u # t /\ buffer[u] \in Buffers => buffer[u] # buffer[t]
      BY Zenon
    <3> HIDE DEF At, Stages, OwnChunks, OwnBuffers
    <3> QED
      BY <2>1, <3>1, SMT
  <2>3. \A u \in Threads \ {t} : At(u)'
    <3> SUFFICES ASSUME NEW u \in Threads \ {t} PROVE At(u)'
      OBVIOUS
    <3>1. At(u) /\ (pc[u] = "writing" => currentChunk[u] # NoChunk)
      BY Zenon
    <3> HIDE DEF At, Stages, TypeOK, OwnChunks, OwnBuffers
    <3> QED
      BY <2>1, <2>2, <3>1, SameAt, Zenon
  <2>4. Allocated(t) /\ popped[t] = NoChunk /\ abandoned[t] = NoChunk
    BY <2>1, Zenon
  <2>5. At(t)'
    <3>1. Allocated(t)'
      BY <2>1, <2>4, Zenon
    <3> HIDE DEF Stages, OwnChunks, OwnBuffers, TypeOK, Unallocated, Allocated, AtTheEnd, Fresh
    <3> QED
      BY <2>1, <2>4, <3>1, Zenon
  <2> HIDE DEF At
  <2> QED
    BY <2>3, <2>5, Zenon
<1>8. ASSUME NEW t \in Threads, Drop(t) PROVE Stages'
  <2>1. /\ pc[t] = "sending" /\ buffer[t] \in Buffers /\ chunkOf[buffer[t]] # NoChunk
        /\ buffer' = [buffer EXCEPT ![t] = NoBuffer]
        /\ Released(t, buffer[t], sessions[buffer[t]] = 0, "run")
        /\ UNCHANGED <<sessions, opened, usedSize, sendBufferChunks, created, currentChunk,
                       popped, allocSize, crashed>>
    BY <1>8, DropCases
  <2>2. \A u \in Threads : u # t /\ buffer[u] \in Buffers =>
          /\ chunkOf'[buffer[u]] = chunkOf[buffer[u]]
          /\ start'[buffer[u]] = start[buffer[u]]
          /\ (sessions[buffer[u]] = 0 => sessions'[buffer[u]] = 0)
    <3> HIDE DEF At, OwnChunks
    <3> QED
      BY <2>1, SMT DEF Released, Freed
  <2>3. \A u \in Threads \ {t} :
          pc'[u] = pc[u] /\ abandoned'[u] = abandoned[u] /\ buffer'[u] = buffer[u]
    <3> HIDE DEF At, OwnChunks, OwnBuffers
    <3> QED
      BY <2>1, SMT DEF Released, GoesOn, Emptied
  <2>4. \A u \in Threads \ {t} : At(u)'
    <3> SUFFICES ASSUME NEW u \in Threads \ {t} PROVE At(u)'
      OBVIOUS
    <3>1. pc[u] = "writing" => currentChunk[u] # NoChunk
      BY Zenon
    <3>2. At(u)
      BY Zenon
    <3> HIDE DEF At, Stages, TypeOK, OwnChunks, OwnBuffers
    <3> QED
      BY <2>1, <2>2, <2>3, <3>1, <3>2, SameAt, Zenon
  <2>5. popped[t] = NoChunk
    BY <2>1, Zenon
  <2>6. /\ buffer'[t] = NoBuffer
        /\ \/ pc'[t] = "run" /\ abandoned'[t] = NoChunk
           \/ pc'[t] = "pushing" /\ abandoned'[t] = chunkOf[buffer[t]]
    <3> HIDE DEF At, OwnChunks, OwnBuffers
    <3> QED
      BY <2>1, SMT DEF Released, GoesOn, Emptied
  <2>7. At(t)'
    <3>1. popped'[t] = NoChunk /\ chunkOf[buffer[t]] # NoChunk
      BY <2>1, <2>5, Zenon
    <3> HIDE DEF Stages, OwnChunks, OwnBuffers, TypeOK, Unallocated, Allocated, AtTheEnd, Fresh
    <3> QED
      BY <2>6, <3>1, Zenon
  <2> HIDE DEF Stages
  <2> QED
    BY <2>4, <2>7, Zenon DEF Stages
<1>9. ASSUME NEW t \in Threads, NEW b \in Buffers, SendDone(t, b) PROVE Stages'
  <2>1. /\ pc[t] \in {"run", "sending"} /\ sessions[b] > 0 /\ chunkOf[b] # NoChunk
        /\ sessions' = [sessions EXCEPT ![b] = @ - 1]
        /\ Released(t, b, sessions[b] = 1 /\ \A u \in Threads : buffer[u] # b, pc[t])
        /\ UNCHANGED <<opened, usedSize, sendBufferChunks, created, currentChunk, popped,
                       buffer, allocSize, crashed>>
    BY <1>9, SendDoneCases
  <2>2. \A u \in Threads : u # t /\ buffer[u] \in Buffers =>
          /\ chunkOf'[buffer[u]] = chunkOf[buffer[u]]
          /\ start'[buffer[u]] = start[buffer[u]]
          /\ (sessions[buffer[u]] = 0 => sessions'[buffer[u]] = 0)
    <3> HIDE DEF At, OwnChunks
    <3> QED
      BY <2>1, SMT DEF Released, Freed
  <2>3. \A u \in Threads \ {t} :
          pc'[u] = pc[u] /\ abandoned'[u] = abandoned[u] /\ buffer'[u] = buffer[u]
    <3> HIDE DEF At, OwnChunks, OwnBuffers
    <3> QED
      BY <2>1, SMT DEF Released, GoesOn, Emptied
  <2>4. \A u \in Threads \ {t} : At(u)'
    <3> SUFFICES ASSUME NEW u \in Threads \ {t} PROVE At(u)'
      OBVIOUS
    <3>1. pc[u] = "writing" => currentChunk[u] # NoChunk
      BY Zenon
    <3>2. At(u)
      BY Zenon
    <3> HIDE DEF At, Stages, TypeOK, OwnChunks, OwnBuffers
    <3> QED
      BY <2>1, <2>2, <2>3, <3>1, <3>2, SameAt, Zenon
  <2>5. /\ pc[t] = "run" => buffer[t] = NoBuffer
        /\ pc[t] = "sending" => Allocated(t)
        /\ popped[t] = NoChunk
    BY <2>1, Zenon
  <2>6. \/ pc'[t] = pc[t] /\ abandoned'[t] = NoChunk
        \/ pc'[t] = "pushing" /\ abandoned'[t] = chunkOf[b]
    <3> HIDE DEF At, OwnChunks, OwnBuffers
    <3> QED
      BY <2>1, SMT DEF Released, GoesOn, Emptied
  <2>7. buffer[t] \in Buffers => chunkOf'[buffer[t]] = chunkOf[buffer[t]]
    <3> HIDE DEF At, OwnChunks, OwnBuffers
    <3> QED
      BY <2>1, SMT DEF Released, Freed
  <2>8. pc[t] = "sending" => Allocated(t)'
    BY <2>1, <2>5, <2>7, Zenon
  <2> HIDE DEF Stages, OwnChunks, OwnBuffers, TypeOK, Allocated
  <2>9. At(t)'
    BY <2>1, <2>5, <2>6, <2>8, SMT
  <2> QED
    BY <2>4, <2>9, Zenon DEF Stages
<1>10. ASSUME NEW t \in Threads, PushGlobal(t) PROVE Stages'
  BY <1>10, SendBufferAssumption, SMT DEF PushGlobal, Goto, Push, Interrupted, bufferVars,
     chunkVars
<1>11. CASE UNCHANGED vars
  BY <1>11, SendBufferAssumption, SMT DEF vars, bufferVars, chunkVars, poolVars, threadVars
<1> HIDE DEF TypeOK, States, Stages, At, Unallocated, Allocated, AtTheEnd, Fresh,
   OwnBuffers, OwnChunks, Held
<1> QED
  BY <1>1, <1>2, <1>3, <1>4, <1>5, <1>6, <1>7, <1>8, <1>9, <1>10, <1>11, NextCases, Zenon

\* Every buffer has one caller.
LEMMA OwnBuffersNext == TypeOK /\ Stages /\ OwnBuffers /\ [Next]_vars => OwnBuffers'
<1> SUFFICES ASSUME TypeOK, Stages, OwnBuffers, [Next]_vars PROVE OwnBuffers'
  OBVIOUS
<1> USE DEF TypeOK, Stages, At, Unallocated, Allocated, OwnBuffers
<1>1. ASSUME NEW t \in Threads, Open(t) PROVE OwnBuffers'
  BY <1>1, SendBufferAssumption, SMT DEF Open, Goto, bufferVars, chunkVars, poolVars
<1>2. ASSUME NEW t \in Threads, Pop(t) PROVE OwnBuffers'
  <2>1. /\ pc[t] = "open" /\ pc' = [pc EXCEPT ![t] = "replace"]
        /\ UNCHANGED <<chunkOf, start, size, sessions, opened, usedSize, currentChunk,
                       buffer, allocSize, abandoned>>
    BY <1>2, Zenon DEF Pop, Goto, bufferVars, chunkVars
  <2>2. PICK c \in Chunks :
          /\ popped' = [popped EXCEPT ![t] = c]
          /\ \/ c \notin created /\ created' = created \cup {c} /\ UNCHANGED sendBufferChunks
             \/ /\ UNCHANGED created
                /\ sendBufferChunks' \in Seq(Chunks)
                /\ Len(sendBufferChunks) \in Nat \ {0}
                /\ Len(sendBufferChunks') = Len(sendBufferChunks) - 1
                /\ c = sendBufferChunks[Len(sendBufferChunks)]
                /\ \A i \in 1 .. Len(sendBufferChunks) - 1 :
                     sendBufferChunks'[i] = sendBufferChunks[i]
    BY <1>2, PopTakes
  <2> QED
    BY <2>1, <2>2, SendBufferAssumption, SMT
<1>3. ASSUME NEW t \in Threads, Replace(t) PROVE OwnBuffers'
  BY <1>3, SendBufferAssumption, SMT DEF Replace, Goto, ChunkLeft, Reset, bufferVars,
     poolVars
<1>4. ASSUME NEW t \in Threads, Allocate(t) PROVE OwnBuffers'
  BY <1>4, SendBufferAssumption, SMT DEF Allocate, NeedsChunk, FreeSize, poolVars
<1>5. ASSUME NEW t \in Threads, AllocateFails(t) PROVE OwnBuffers'
  BY <1>5, SendBufferAssumption, SMT DEF AllocateFails, bufferVars, chunkVars, poolVars,
     threadVars
<1>6. ASSUME NEW t \in Threads, WriteAndClose(t) PROVE OwnBuffers'
  BY <1>6, SendBufferAssumption, SMT DEF WriteAndClose, Goto, Close, poolVars, threadVars
<1>7. ASSUME NEW t \in Threads, Send(t) PROVE OwnBuffers'
  BY <1>7, SendBufferAssumption, SMT DEF Send, chunkVars, poolVars, threadVars
<1>8. ASSUME NEW t \in Threads, Drop(t) PROVE OwnBuffers'
  <2>1. /\ pc[t] = "sending" /\ buffer[t] \in Buffers /\ chunkOf[buffer[t]] # NoChunk
        /\ buffer' = [buffer EXCEPT ![t] = NoBuffer]
        /\ Released(t, buffer[t], sessions[buffer[t]] = 0, "run")
        /\ UNCHANGED <<sessions, opened, usedSize, sendBufferChunks, created, currentChunk,
                       popped, allocSize, crashed>>
    BY <1>8, DropCases
  <2> QED
    BY <2>1, SendBufferAssumption, SMT DEF Released, GoesOn, Freed, Emptied, ChunkLeft
<1>9. ASSUME NEW t \in Threads, NEW b \in Buffers, SendDone(t, b)
      PROVE  OwnBuffers'
  <2>1. /\ pc[t] \in {"run", "sending"} /\ sessions[b] > 0 /\ chunkOf[b] # NoChunk
        /\ sessions' = [sessions EXCEPT ![b] = @ - 1]
        /\ Released(t, b, sessions[b] = 1 /\ \A u \in Threads : buffer[u] # b, pc[t])
        /\ UNCHANGED <<opened, usedSize, sendBufferChunks, created, currentChunk, popped,
                       buffer, allocSize, crashed>>
    BY <1>9, SendDoneCases
  <2>2. \A d \in Buffers : sessions'[d] > 0 => sessions[d] > 0
    BY <2>1, SendBufferAssumption, SMT
  <2>3. \A d \in Buffers : chunkOf'[d] = chunkOf[d] \/ (d = b /\ sessions[b] = 1)
    <3>1. \/ UNCHANGED chunkOf
          \/ chunkOf' = [chunkOf EXCEPT ![b] = NoChunk] /\ sessions[b] = 1
      BY <2>1, Zenon DEF Released, Freed
    <3> QED
      BY <3>1, SMT
  <2>4. sessions[b] = 1 => ~(sessions'[b] > 0)
    BY <2>1, SMT
  <2> QED
    BY <2>1, <2>2, <2>3, <2>4, Zenon
<1>10. ASSUME NEW t \in Threads, PushGlobal(t) PROVE OwnBuffers'
  BY <1>10, SendBufferAssumption, SMT DEF PushGlobal, Goto, Push, Interrupted, bufferVars,
     chunkVars
<1>11. CASE UNCHANGED vars
  BY <1>11, SendBufferAssumption, SMT DEF vars, bufferVars, chunkVars, poolVars, threadVars
<1> HIDE DEF TypeOK, Stages, At, Unallocated, Allocated, OwnBuffers
<1> QED
  BY <1>1, <1>2, <1>3, <1>4, <1>5, <1>6, <1>7, <1>8, <1>9, <1>10, <1>11, NextCases, Zenon

\* Every chunk has one holder.
LEMMA OwnChunksNext ==
  TypeOK /\ Stages /\ OwnBuffers /\ OwnChunks /\ PoolUnreferenced /\ Made /\ [Next]_vars =>
  OwnChunks'
<1> SUFFICES ASSUME TypeOK, Stages, OwnBuffers, OwnChunks, PoolUnreferenced, Made,
                    [Next]_vars
             PROVE  OwnChunks'
  OBVIOUS
<1> USE DEF TypeOK, Stages, At, OwnChunks, Held, PoolUnreferenced, Made
<1>1. ASSUME NEW t \in Threads, Open(t) PROVE OwnChunks'
  BY <1>1, SendBufferAssumption, SMT DEF Open, Goto, bufferVars, chunkVars, poolVars
<1>2. ASSUME NEW t \in Threads, Pop(t) PROVE OwnChunks'
  <2>1. /\ pc[t] = "open" /\ pc' = [pc EXCEPT ![t] = "replace"]
        /\ UNCHANGED <<chunkOf, start, size, sessions, opened, usedSize, currentChunk,
                       buffer, allocSize, abandoned>>
    BY <1>2, Zenon DEF Pop, Goto, bufferVars, chunkVars
  <2>2. PICK c \in Chunks :
          /\ popped' = [popped EXCEPT ![t] = c]
          /\ \/ c \notin created /\ created' = created \cup {c} /\ UNCHANGED sendBufferChunks
             \/ /\ UNCHANGED created
                /\ sendBufferChunks' \in Seq(Chunks)
                /\ Len(sendBufferChunks) \in Nat \ {0}
                /\ Len(sendBufferChunks') = Len(sendBufferChunks) - 1
                /\ c = sendBufferChunks[Len(sendBufferChunks)]
                /\ \A i \in 1 .. Len(sendBufferChunks) - 1 :
                     sendBufferChunks'[i] = sendBufferChunks[i]
    BY <1>2, PopTakes
  <2>3. \A u \in Threads : /\ popped'[u] = IF u = t THEN c ELSE popped[u]
                           /\ currentChunk'[u] = currentChunk[u] /\ abandoned'[u] = abandoned[u]
    BY <2>1, <2>2, SMT
  <2>4. /\ \A u \in Threads : c \notin {currentChunk[u], popped[u], abandoned[u]}
        /\ \A d \in Buffers : chunkOf[d] # c
    <3>1. CASE c \notin created
      <4> HIDE DEF TypeOK, Stages, At, PoolUnreferenced, OwnChunks
      <4> QED
        BY <3>1, SendBufferAssumption, Zenon
    <3>2. CASE c \in created
      <4>1. c = sendBufferChunks[Len(sendBufferChunks)] /\ Len(sendBufferChunks) \in Nat \ {0}
        BY <2>2, <3>2, Zenon
      <4>2. Len(sendBufferChunks) \in 1 .. Len(sendBufferChunks)
        <5> HIDE DEF TypeOK, PoolUnreferenced, Made
        <5> QED
          BY <4>1, SMT
      <4> HIDE DEF TypeOK, Stages, At, PoolUnreferenced, OwnChunks, Made
      <4> QED
        BY <4>1, <4>2, PoolFacts, Zenon
    <3> QED
      BY <3>1, <3>2
  <2> HIDE DEF TypeOK, Stages, At, PoolUnreferenced, Made
  <2>5. \A u \in Threads, e \in Chunks : Held(u, e)' => (e = c /\ u = t) \/ (e # c /\ Held(u, e))
    BY <2>3, <2>4, Zenon
  <2>6. \A u, v \in Threads, e \in Chunks : Held(u, e)' /\ Held(v, e)' => u = v
    <3> HIDE DEF Held
    <3> QED
      BY <2>5, Zenon
  <2>7. \A u \in Threads :
          currentChunk[u] # NoChunk => currentChunk[u] \notin {popped'[u], abandoned'[u]}
    BY <2>3, <2>4, Zenon
  <2>8. \A u \in Threads, d \in Buffers :
          chunkOf[d] # NoChunk => chunkOf[d] \notin {popped'[u], abandoned'[u]}
    <3> SUFFICES ASSUME NEW u \in Threads, NEW d \in Buffers, chunkOf[d] # NoChunk
                 PROVE  chunkOf[d] \notin {popped'[u], abandoned'[u]}
      OBVIOUS
    <3>1. chunkOf[d] # c /\ chunkOf[d] \notin {popped[u], abandoned[u]}
      BY <2>4, Zenon
    <3> QED
      BY <2>3, <3>1, Zenon
  <2> QED
    BY <2>1, <2>6, <2>7, <2>8, Zenon
<1>3. ASSUME NEW t \in Threads, Replace(t) PROVE OwnChunks'
  BY <1>3, SendBufferAssumption, SMT DEF Replace, Goto, ChunkLeft, Reset, bufferVars,
     poolVars
<1>4. ASSUME NEW t \in Threads, Allocate(t) PROVE OwnChunks'
  BY <1>4, SendBufferAssumption, SMT DEF Allocate, NeedsChunk, FreeSize, poolVars
<1>5. ASSUME NEW t \in Threads, AllocateFails(t) PROVE OwnChunks'
  BY <1>5, SendBufferAssumption, SMT DEF AllocateFails, bufferVars, chunkVars, poolVars,
     threadVars
<1>6. ASSUME NEW t \in Threads, WriteAndClose(t) PROVE OwnChunks'
  BY <1>6, SendBufferAssumption, SMT DEF WriteAndClose, Goto, Close, poolVars, threadVars
<1>7. ASSUME NEW t \in Threads, Send(t) PROVE OwnChunks'
  BY <1>7, SendBufferAssumption, SMT DEF Send, chunkVars, poolVars, threadVars
<1>8. ASSUME NEW t \in Threads, Drop(t) PROVE OwnChunks'
  <2>1. /\ pc[t] = "sending" /\ buffer[t] \in Buffers /\ chunkOf[buffer[t]] # NoChunk
        /\ buffer' = [buffer EXCEPT ![t] = NoBuffer]
        /\ Released(t, buffer[t], sessions[buffer[t]] = 0, "run")
        /\ UNCHANGED <<sessions, opened, usedSize, sendBufferChunks, created, currentChunk,
                       popped, allocSize, crashed>>
    BY <1>8, DropCases
  <2>2. /\ \A d \in Buffers : chunkOf'[d] \in {chunkOf[d], NoChunk}
        /\ \/ \A u \in Threads : abandoned'[u] \in {abandoned[u], NoChunk}
           \/ /\ \A u \in Threads \ {t} : abandoned'[u] = abandoned[u]
              /\ abandoned'[t] = chunkOf[buffer[t]]
              /\ \A u \in Threads : currentChunk[u] # chunkOf[buffer[t]]
              /\ \A d \in Buffers : chunkOf'[d] # chunkOf[buffer[t]]
    <3> HIDE DEF TypeOK
    <3> QED
      BY <2>1, ReleaseChunks
  <2>3. chunkOf[buffer[t]] \in Chunks
    BY <2>1, Zenon DEF TypeOK
  <2> HIDE DEF TypeOK, Stages, At, PoolUnreferenced, Made
  <2>4. CASE \A u \in Threads : abandoned'[u] \in {abandoned[u], NoChunk}
    <3>1. \A u \in Threads, e \in Chunks : Held(u, e)' => Held(u, e)
      BY <2>1, <2>4, SendBufferAssumption, Zenon
    <3>2. \A u \in Threads : currentChunk[u] # NoChunk => currentChunk[u] # abandoned'[u]
      BY <2>4, Zenon
    <3>3. \A u \in Threads, d \in Buffers :
            chunkOf'[d] # NoChunk => chunkOf'[d] \notin {popped[u], abandoned'[u]}
      BY <2>2, <2>4, Zenon
    <3>4. \A u, v \in Threads, e \in Chunks : Held(u, e)' /\ Held(v, e)' => u = v
      <4> HIDE DEF Held
      <4> QED
        BY <3>1, Zenon
    <3> QED
      BY <2>1, <3>2, <3>3, <3>4, Zenon
  <2>5. CASE /\ \A u \in Threads \ {t} : abandoned'[u] = abandoned[u]
             /\ abandoned'[t] = chunkOf[buffer[t]]
             /\ \A u \in Threads : currentChunk[u] # chunkOf[buffer[t]]
             /\ \A d \in Buffers : chunkOf'[d] # chunkOf[buffer[t]]
    <3>1. \A u \in Threads, e \in Chunks :
            Held(u, e)' => \/ e = chunkOf[buffer[t]] /\ u = t
                           \/ e # chunkOf[buffer[t]] /\ Held(u, e)
      <4> SUFFICES ASSUME NEW u \in Threads, NEW e \in Chunks, Held(u, e)'
                   PROVE  \/ e = chunkOf[buffer[t]] /\ u = t
                          \/ e # chunkOf[buffer[t]] /\ Held(u, e)
        OBVIOUS
      <4>1. e \in {currentChunk[u], popped[u], abandoned'[u]}
        BY <2>1, Zenon
      <4>2. CASE u = t
        BY <2>5, <4>1, <4>2, Zenon
      <4>3. CASE u # t
        <5>1. Held(u, e)
          BY <2>5, <4>1, <4>3, Zenon
        <5>2. e # chunkOf[buffer[t]]
          <6>1. /\ currentChunk[u] # chunkOf[buffer[t]]
                /\ chunkOf[buffer[t]] \notin {popped[u], abandoned[u]}
            BY <2>1, <2>5, Zenon
          <6> QED
            BY <5>1, <6>1, Zenon
        <5> QED
          BY <5>1, <5>2
      <4> QED
        BY <4>2, <4>3
    <3>2. \A u \in Threads : currentChunk[u] # NoChunk => currentChunk[u] # abandoned'[u]
      BY <2>5, Zenon
    <3>3. \A u \in Threads, d \in Buffers :
            chunkOf'[d] # NoChunk => chunkOf'[d] \notin {popped[u], abandoned'[u]}
      <4> SUFFICES ASSUME NEW u \in Threads, NEW d \in Buffers, chunkOf'[d] # NoChunk
                   PROVE  chunkOf'[d] \notin {popped[u], abandoned'[u]}
        OBVIOUS
      <4>1. chunkOf'[d] = chunkOf[d] /\ chunkOf'[d] # chunkOf[buffer[t]]
        BY <2>2, <2>5, Zenon
      <4>2. chunkOf'[d] \notin {popped[u], abandoned[u]}
        BY <4>1, Zenon
      <4> QED
        BY <2>5, <4>1, <4>2, Zenon
    <3>4. \A u, v \in Threads, e \in Chunks : Held(u, e)' /\ Held(v, e)' => u = v
      <4> HIDE DEF Held
      <4> QED
        BY <3>1, Zenon
    <3> QED
      BY <2>1, <3>2, <3>3, <3>4, Zenon
  <2> QED
    BY <2>2, <2>4, <2>5
<1>9. ASSUME NEW t \in Threads, NEW b \in Buffers, SendDone(t, b)
      PROVE  OwnChunks'
  <2>1. /\ pc[t] \in {"run", "sending"} /\ sessions[b] > 0 /\ chunkOf[b] # NoChunk
        /\ sessions' = [sessions EXCEPT ![b] = @ - 1]
        /\ Released(t, b, sessions[b] = 1 /\ \A u \in Threads : buffer[u] # b, pc[t])
        /\ UNCHANGED <<opened, usedSize, sendBufferChunks, created, currentChunk, popped,
                       buffer, allocSize, crashed>>
    BY <1>9, SendDoneCases
  <2>2. /\ \A d \in Buffers : chunkOf'[d] \in {chunkOf[d], NoChunk}
        /\ \/ \A u \in Threads : abandoned'[u] \in {abandoned[u], NoChunk}
           \/ /\ \A u \in Threads \ {t} : abandoned'[u] = abandoned[u]
              /\ abandoned'[t] = chunkOf[b]
              /\ \A u \in Threads : currentChunk[u] # chunkOf[b]
              /\ \A d \in Buffers : chunkOf'[d] # chunkOf[b]
    <3> HIDE DEF TypeOK
    <3> QED
      BY <2>1, ReleaseChunks
  <2>3. chunkOf[b] \in Chunks
    BY <2>1, Zenon DEF TypeOK
  <2> HIDE DEF TypeOK, Stages, At, PoolUnreferenced, Made
  <2>4. CASE \A u \in Threads : abandoned'[u] \in {abandoned[u], NoChunk}
    <3>1. \A u \in Threads, e \in Chunks : Held(u, e)' => Held(u, e)
      BY <2>1, <2>4, SendBufferAssumption, Zenon
    <3>2. \A u \in Threads : currentChunk[u] # NoChunk => currentChunk[u] # abandoned'[u]
      BY <2>4, Zenon
    <3>3. \A u \in Threads, d \in Buffers :
            chunkOf'[d] # NoChunk => chunkOf'[d] \notin {popped[u], abandoned'[u]}
      BY <2>2, <2>4, Zenon
    <3>4. \A u, v \in Threads, e \in Chunks : Held(u, e)' /\ Held(v, e)' => u = v
      <4> HIDE DEF Held
      <4> QED
        BY <3>1, Zenon
    <3> QED
      BY <2>1, <3>2, <3>3, <3>4, Zenon
  <2>5. CASE /\ \A u \in Threads \ {t} : abandoned'[u] = abandoned[u]
             /\ abandoned'[t] = chunkOf[b]
             /\ \A u \in Threads : currentChunk[u] # chunkOf[b]
             /\ \A d \in Buffers : chunkOf'[d] # chunkOf[b]
    <3>1. \A u \in Threads, e \in Chunks :
            Held(u, e)' => \/ e = chunkOf[b] /\ u = t
                           \/ e # chunkOf[b] /\ Held(u, e)
      <4> SUFFICES ASSUME NEW u \in Threads, NEW e \in Chunks, Held(u, e)'
                   PROVE  \/ e = chunkOf[b] /\ u = t
                          \/ e # chunkOf[b] /\ Held(u, e)
        OBVIOUS
      <4>1. e \in {currentChunk[u], popped[u], abandoned'[u]}
        BY <2>1, Zenon
      <4>2. CASE u = t
        BY <2>5, <4>1, <4>2, Zenon
      <4>3. CASE u # t
        <5>1. Held(u, e)
          BY <2>5, <4>1, <4>3, Zenon
        <5>2. e # chunkOf[b]
          <6>1. /\ currentChunk[u] # chunkOf[b]
                /\ chunkOf[b] \notin {popped[u], abandoned[u]}
            BY <2>1, <2>5, Zenon
          <6> QED
            BY <5>1, <6>1, Zenon
        <5> QED
          BY <5>1, <5>2
      <4> QED
        BY <4>2, <4>3
    <3>2. \A u \in Threads : currentChunk[u] # NoChunk => currentChunk[u] # abandoned'[u]
      BY <2>5, Zenon
    <3>3. \A u \in Threads, d \in Buffers :
            chunkOf'[d] # NoChunk => chunkOf'[d] \notin {popped[u], abandoned'[u]}
      <4> SUFFICES ASSUME NEW u \in Threads, NEW d \in Buffers, chunkOf'[d] # NoChunk
                   PROVE  chunkOf'[d] \notin {popped[u], abandoned'[u]}
        OBVIOUS
      <4>1. chunkOf'[d] = chunkOf[d] /\ chunkOf'[d] # chunkOf[b]
        BY <2>2, <2>5, Zenon
      <4>2. chunkOf'[d] \notin {popped[u], abandoned[u]}
        BY <4>1, Zenon
      <4> QED
        BY <2>5, <4>1, <4>2, Zenon
    <3>4. \A u, v \in Threads, e \in Chunks : Held(u, e)' /\ Held(v, e)' => u = v
      <4> HIDE DEF Held
      <4> QED
        BY <3>1, Zenon
    <3> QED
      BY <2>1, <3>2, <3>3, <3>4, Zenon
  <2> QED
    BY <2>2, <2>4, <2>5
<1>10. ASSUME NEW t \in Threads, PushGlobal(t) PROVE OwnChunks'
  BY <1>10, SendBufferAssumption, SMT DEF PushGlobal, Goto, Push, Interrupted, bufferVars,
     chunkVars
<1>11. CASE UNCHANGED vars
  BY <1>11, SendBufferAssumption, SMT DEF vars, bufferVars, chunkVars, poolVars, threadVars
<1> HIDE DEF TypeOK, Stages, At, OwnChunks, Held, PoolUnreferenced, Made
<1> QED
  BY <1>1, <1>2, <1>3, <1>4, <1>5, <1>6, <1>7, <1>8, <1>9, <1>10, <1>11, NextCases, Zenon

\* Nobody refers to what is in the pool.
LEMMA PoolNext ==
  TypeOK /\ Stages /\ OwnBuffers /\ OwnChunks /\ PoolUnreferenced /\ Made /\ [Next]_vars =>
  PoolUnreferenced'
<1> SUFFICES ASSUME TypeOK, Stages, OwnBuffers, OwnChunks, PoolUnreferenced, Made,
                    [Next]_vars
             PROVE  PoolUnreferenced'
  OBVIOUS
<1> USE DEF TypeOK, Stages, At, OwnChunks, Held, PoolUnreferenced, Made
<1>1. ASSUME NEW t \in Threads, Open(t) PROVE PoolUnreferenced'
  BY <1>1, SendBufferAssumption, SMT DEF Open, Goto, bufferVars, chunkVars, poolVars
<1>2. ASSUME NEW t \in Threads, Pop(t) PROVE PoolUnreferenced'
  <2>1. /\ pc[t] = "open" /\ pc' = [pc EXCEPT ![t] = "replace"]
        /\ UNCHANGED <<chunkOf, start, size, sessions, opened, usedSize, currentChunk,
                       buffer, allocSize, abandoned>>
    BY <1>2, Zenon DEF Pop, Goto, bufferVars, chunkVars
  <2>2. PICK c \in Chunks :
          /\ popped' = [popped EXCEPT ![t] = c]
          /\ \/ c \notin created /\ created' = created \cup {c} /\ UNCHANGED sendBufferChunks
             \/ /\ UNCHANGED created
                /\ sendBufferChunks' \in Seq(Chunks)
                /\ Len(sendBufferChunks) \in Nat \ {0}
                /\ Len(sendBufferChunks') = Len(sendBufferChunks) - 1
                /\ c = sendBufferChunks[Len(sendBufferChunks)]
                /\ \A i \in 1 .. Len(sendBufferChunks) - 1 :
                     sendBufferChunks'[i] = sendBufferChunks[i]
    BY <1>2, PopTakes
  <2>3. \A u \in Threads : /\ popped'[u] = IF u = t THEN c ELSE popped[u]
                           /\ currentChunk'[u] = currentChunk[u] /\ abandoned'[u] = abandoned[u]
    BY <2>1, <2>2, SMT
  <2>4. CASE c \notin created /\ UNCHANGED sendBufferChunks
    <3>1. \A i \in 1 .. Len(sendBufferChunks) : sendBufferChunks[i] # c
      BY <2>4, Zenon
    <3>2. \A i \in 1 .. Len(sendBufferChunks), u \in Threads :
            sendBufferChunks[i] \notin {currentChunk'[u], popped'[u], abandoned'[u]}
      <4> SUFFICES ASSUME NEW i \in 1 .. Len(sendBufferChunks), NEW u \in Threads
                   PROVE  sendBufferChunks[i] \notin {currentChunk'[u], popped'[u], abandoned'[u]}
        OBVIOUS
      <4>1. sendBufferChunks[i] \notin {currentChunk[u], popped[u], abandoned[u]}
        BY Zenon
      <4> QED
        BY <2>3, <3>1, <4>1, Zenon
    <3> HIDE DEF TypeOK, Stages, At, OwnChunks, Made
    <3> QED
      BY <2>1, <2>4, <3>2, Zenon
  <2>5. CASE ~(c \notin created /\ UNCHANGED sendBufferChunks)
    <3>1. /\ c = sendBufferChunks[Len(sendBufferChunks)]
          /\ Len(sendBufferChunks) \in 1 .. Len(sendBufferChunks)
          /\ \A i \in 1 .. Len(sendBufferChunks') :
               /\ i \in 1 .. Len(sendBufferChunks) /\ i # Len(sendBufferChunks)
               /\ sendBufferChunks'[i] = sendBufferChunks[i]
      <4>1. /\ Len(sendBufferChunks) \in Nat \ {0}
            /\ Len(sendBufferChunks') = Len(sendBufferChunks) - 1
            /\ c = sendBufferChunks[Len(sendBufferChunks)]
            /\ \A i \in 1 .. Len(sendBufferChunks) - 1 :
                 sendBufferChunks'[i] = sendBufferChunks[i]
        BY <2>2, <2>5, Zenon
      <4> HIDE DEF TypeOK, PoolUnreferenced
      <4> QED
        BY <4>1, SMT
    <3>2. \A i \in 1 .. Len(sendBufferChunks') : sendBufferChunks'[i] # c
      <4> SUFFICES ASSUME NEW i \in 1 .. Len(sendBufferChunks'), sendBufferChunks'[i] = c
                   PROVE  FALSE
        OBVIOUS
      <4>1. i \in 1 .. Len(sendBufferChunks) /\ i # Len(sendBufferChunks)
        BY <3>1, Zenon
      <4>2. sendBufferChunks[i] = sendBufferChunks[Len(sendBufferChunks)]
        BY <3>1, Zenon
      <4> HIDE DEF TypeOK, Stages, At, OwnChunks, Made
      <4> QED
        BY <3>1, <4>1, <4>2, Zenon
    <3> HIDE DEF TypeOK, Stages, At, OwnChunks, Made
    <3>3. \A i, j \in 1 .. Len(sendBufferChunks') :
            sendBufferChunks'[i] = sendBufferChunks'[j] => i = j
      BY <3>1, Zenon
    <3>4. \A i \in 1 .. Len(sendBufferChunks'), u \in Threads :
            sendBufferChunks'[i] \notin {currentChunk'[u], popped'[u], abandoned'[u]}
      <4> SUFFICES ASSUME NEW i \in 1 .. Len(sendBufferChunks'), NEW u \in Threads
                   PROVE  sendBufferChunks'[i] \notin {currentChunk'[u], popped'[u], abandoned'[u]}
        OBVIOUS
      <4>1. sendBufferChunks'[i] \notin {currentChunk[u], popped[u], abandoned[u]}
        BY <3>1, Zenon
      <4> QED
        BY <2>3, <3>2, <4>1, Zenon
    <3>5. \A i \in 1 .. Len(sendBufferChunks'), d \in Buffers :
            chunkOf'[d] # sendBufferChunks'[i]
      BY <2>1, <3>1, Zenon
    <3> QED
      BY <3>3, <3>4, <3>5, Zenon
  <2> QED
    BY <2>4, <2>5
<1>3. ASSUME NEW t \in Threads, Replace(t) PROVE PoolUnreferenced'
  BY <1>3, SendBufferAssumption, SMT DEF Replace, Goto, ChunkLeft, Reset, bufferVars,
     poolVars
<1>4. ASSUME NEW t \in Threads, Allocate(t) PROVE PoolUnreferenced'
  BY <1>4, SendBufferAssumption, SMT DEF Allocate, NeedsChunk, FreeSize, poolVars
<1>5. ASSUME NEW t \in Threads, AllocateFails(t) PROVE PoolUnreferenced'
  BY <1>5, SendBufferAssumption, SMT DEF AllocateFails, bufferVars, chunkVars, poolVars,
     threadVars
<1>6. ASSUME NEW t \in Threads, WriteAndClose(t) PROVE PoolUnreferenced'
  BY <1>6, SendBufferAssumption, SMT DEF WriteAndClose, Goto, Close, poolVars, threadVars
<1>7. ASSUME NEW t \in Threads, Send(t) PROVE PoolUnreferenced'
  BY <1>7, SendBufferAssumption, SMT DEF Send, chunkVars, poolVars, threadVars
<1>8. ASSUME NEW t \in Threads, Drop(t) PROVE PoolUnreferenced'
  <2>1. /\ pc[t] = "sending" /\ buffer[t] \in Buffers /\ chunkOf[buffer[t]] # NoChunk
        /\ buffer' = [buffer EXCEPT ![t] = NoBuffer]
        /\ Released(t, buffer[t], sessions[buffer[t]] = 0, "run")
        /\ UNCHANGED <<sessions, opened, usedSize, sendBufferChunks, created, currentChunk,
                       popped, allocSize, crashed>>
    BY <1>8, DropCases
  <2>2. /\ \A d \in Buffers : chunkOf'[d] \in {chunkOf[d], NoChunk}
        /\ \/ \A u \in Threads : abandoned'[u] \in {abandoned[u], NoChunk}
           \/ /\ \A u \in Threads \ {t} : abandoned'[u] = abandoned[u]
              /\ abandoned'[t] = chunkOf[buffer[t]]
              /\ \A u \in Threads : currentChunk[u] # chunkOf[buffer[t]]
              /\ \A d \in Buffers : chunkOf'[d] # chunkOf[buffer[t]]
    <3> HIDE DEF TypeOK
    <3> QED
      BY <2>1, ReleaseChunks
  <2>3. \A i \in 1 .. Len(sendBufferChunks) :
          /\ sendBufferChunks[i] # NoChunk
          /\ \A u \in Threads : sendBufferChunks[i] # abandoned[u]
          /\ \A d \in Buffers : sendBufferChunks[i] # chunkOf[d]
    <3> HIDE DEF TypeOK, Stages, At, OwnChunks, Made, PoolUnreferenced
    <3> QED
      BY PoolFacts, Zenon
  <2> HIDE DEF TypeOK, Stages, At, OwnChunks, Made
  <2>4. \A d \in Buffers, i \in 1 .. Len(sendBufferChunks) : chunkOf'[d] # sendBufferChunks[i]
    <3> SUFFICES ASSUME NEW d \in Buffers, NEW i \in 1 .. Len(sendBufferChunks)
                 PROVE  chunkOf'[d] # sendBufferChunks[i]
      OBVIOUS
    <3>1. chunkOf'[d] \in {chunkOf[d], NoChunk}
      BY <2>2, Zenon
    <3> HIDE DEF PoolUnreferenced
    <3> QED
      BY <2>3, <3>1, Zenon
  <2>5. \A u \in Threads, i \in 1 .. Len(sendBufferChunks) : abandoned'[u] # sendBufferChunks[i]
    <3> SUFFICES ASSUME NEW u \in Threads, NEW i \in 1 .. Len(sendBufferChunks)
                 PROVE  abandoned'[u] # sendBufferChunks[i]
      OBVIOUS
    <3>1. abandoned'[u] \in {abandoned[u], NoChunk, chunkOf[buffer[t]]}
      BY <2>2, Zenon
    <3> HIDE DEF PoolUnreferenced
    <3> QED
      BY <2>1, <2>3, <3>1, Zenon
  <2>6. \A i, j \in 1 .. Len(sendBufferChunks) :
          sendBufferChunks[i] = sendBufferChunks[j] => i = j
    BY Zenon
  <2>7. \A i \in 1 .. Len(sendBufferChunks), u \in Threads :
          sendBufferChunks[i] # currentChunk[u] /\ sendBufferChunks[i] # popped[u]
    BY Zenon
  <2> HIDE DEF PoolUnreferenced
  <2> QED
    BY <2>1, <2>4, <2>5, <2>6, <2>7, Zenon DEF PoolUnreferenced
<1>9. ASSUME NEW t \in Threads, NEW b \in Buffers, SendDone(t, b)
      PROVE  PoolUnreferenced'
  <2>1. /\ pc[t] \in {"run", "sending"} /\ sessions[b] > 0 /\ chunkOf[b] # NoChunk
        /\ sessions' = [sessions EXCEPT ![b] = @ - 1]
        /\ Released(t, b, sessions[b] = 1 /\ \A u \in Threads : buffer[u] # b, pc[t])
        /\ UNCHANGED <<opened, usedSize, sendBufferChunks, created, currentChunk, popped,
                       buffer, allocSize, crashed>>
    BY <1>9, SendDoneCases
  <2>2. /\ \A d \in Buffers : chunkOf'[d] \in {chunkOf[d], NoChunk}
        /\ \/ \A u \in Threads : abandoned'[u] \in {abandoned[u], NoChunk}
           \/ /\ \A u \in Threads \ {t} : abandoned'[u] = abandoned[u]
              /\ abandoned'[t] = chunkOf[b]
              /\ \A u \in Threads : currentChunk[u] # chunkOf[b]
              /\ \A d \in Buffers : chunkOf'[d] # chunkOf[b]
    <3> HIDE DEF TypeOK
    <3> QED
      BY <2>1, ReleaseChunks
  <2>3. \A i \in 1 .. Len(sendBufferChunks) :
          /\ sendBufferChunks[i] # NoChunk
          /\ \A u \in Threads : sendBufferChunks[i] # abandoned[u]
          /\ \A d \in Buffers : sendBufferChunks[i] # chunkOf[d]
    <3> HIDE DEF TypeOK, Stages, At, OwnChunks, Made, PoolUnreferenced
    <3> QED
      BY PoolFacts, Zenon
  <2> HIDE DEF TypeOK, Stages, At, OwnChunks, Made
  <2>4. \A d \in Buffers, i \in 1 .. Len(sendBufferChunks) : chunkOf'[d] # sendBufferChunks[i]
    <3> SUFFICES ASSUME NEW d \in Buffers, NEW i \in 1 .. Len(sendBufferChunks)
                 PROVE  chunkOf'[d] # sendBufferChunks[i]
      OBVIOUS
    <3>1. chunkOf'[d] \in {chunkOf[d], NoChunk}
      BY <2>2, Zenon
    <3> HIDE DEF PoolUnreferenced
    <3> QED
      BY <2>3, <3>1, Zenon
  <2>5. \A u \in Threads, i \in 1 .. Len(sendBufferChunks) : abandoned'[u] # sendBufferChunks[i]
    <3> SUFFICES ASSUME NEW u \in Threads, NEW i \in 1 .. Len(sendBufferChunks)
                 PROVE  abandoned'[u] # sendBufferChunks[i]
      OBVIOUS
    <3>1. abandoned'[u] \in {abandoned[u], NoChunk, chunkOf[b]}
      BY <2>2, Zenon
    <3> HIDE DEF PoolUnreferenced
    <3> QED
      BY <2>1, <2>3, <3>1, Zenon
  <2>6. \A i, j \in 1 .. Len(sendBufferChunks) :
          sendBufferChunks[i] = sendBufferChunks[j] => i = j
    BY Zenon
  <2>7. \A i \in 1 .. Len(sendBufferChunks), u \in Threads :
          sendBufferChunks[i] # currentChunk[u] /\ sendBufferChunks[i] # popped[u]
    BY Zenon
  <2> HIDE DEF PoolUnreferenced
  <2> QED
    BY <2>1, <2>4, <2>5, <2>6, <2>7, Zenon DEF PoolUnreferenced
<1>10. ASSUME NEW t \in Threads, PushGlobal(t) PROVE PoolUnreferenced'
  <2>0. PICK c : c = abandoned[t]
    OBVIOUS
  <2>1. /\ sendBufferChunks' = Append(sendBufferChunks, c)
        /\ abandoned' = [abandoned EXCEPT ![t] = NoChunk]
        /\ UNCHANGED <<chunkOf, currentChunk, popped>>
    BY <1>10, <2>0, Zenon DEF PushGlobal, Push, bufferVars
  <2>2. c # NoChunk
    BY <1>10, <2>0, Zenon DEF PushGlobal, Goto
  <2>3. c \in Chunks /\ sendBufferChunks \in Seq(Chunks)
    BY <2>0, <2>2, Zenon
  <2>4. /\ \A u \in Threads : c # currentChunk[u] /\ c # popped[u]
        /\ \A u \in Threads : u # t => c # abandoned[u]
        /\ \A d \in Buffers : c # chunkOf[d]
    <3> HIDE DEF Stages, At, TypeOK, PoolUnreferenced, Made
    <3>1. Held(t, c)
      BY <2>0, Zenon
    <3>2. \A u \in Threads : u # t => ~Held(u, c)
      <4> HIDE DEF Held
      <4> QED
        BY <2>3, <3>1, Zenon
    <3>3. c # currentChunk[t]
      BY <2>0, <2>2, Zenon
    <3>4. c # popped[t]
      BY <1>10, <2>0, <2>2, Zenon DEF PushGlobal, Goto, Stages, At
    <3>5. \A d \in Buffers : c # chunkOf[d]
      BY <2>0, <2>2, Zenon
    <3> QED
      BY <3>2, <3>3, <3>4, <3>5, Zenon
  <2>5. /\ Len(sendBufferChunks') = Len(sendBufferChunks) + 1
        /\ \A i \in 1 .. Len(sendBufferChunks) : sendBufferChunks'[i] = sendBufferChunks[i]
        /\ sendBufferChunks'[Len(sendBufferChunks) + 1] = c
        /\ Len(sendBufferChunks) \in Nat
    BY <2>1, <2>3, AppendProperties, LenProperties
  <2>6. \A u \in Threads :
          abandoned'[u] = NoChunk \/ (u # t /\ abandoned'[u] = abandoned[u])
    BY <2>1, Zenon
  <2> HIDE DEF Stages, At, OwnChunks, Made
  <2>7. \A i \in 1 .. Len(sendBufferChunks) :
          /\ sendBufferChunks[i] # c /\ sendBufferChunks[i] # NoChunk
          /\ \A u \in Threads : sendBufferChunks[i] \notin {currentChunk[u], popped[u], abandoned[u]}
          /\ \A d \in Buffers : sendBufferChunks[i] # chunkOf[d]
    <3> HIDE DEF TypeOK, PoolUnreferenced
    <3> QED
      BY <2>0, PoolFacts, Zenon
  <2>8. \A i \in 1 .. Len(sendBufferChunks) + 1 :
          i \in 1 .. Len(sendBufferChunks) \/ i = Len(sendBufferChunks) + 1
    BY <2>5, SMT
  <2>9. \A i, j \in 1 .. Len(sendBufferChunks) :
          sendBufferChunks[i] = sendBufferChunks[j] => i = j
    BY Zenon
  <2> HIDE DEF TypeOK, PoolUnreferenced
  <2>10. \A i, j \in 1 .. Len(sendBufferChunks') :
           sendBufferChunks'[i] = sendBufferChunks'[j] => i = j
    BY <2>5, <2>7, <2>8, <2>9, Zenon
  <2>11. \A i \in 1 .. Len(sendBufferChunks') :
           /\ \A u \in Threads :
                sendBufferChunks'[i] \notin {currentChunk[u], popped[u], abandoned'[u]}
           /\ \A d \in Buffers : sendBufferChunks'[i] # chunkOf[d]
    <3>1. \A i \in 1 .. Len(sendBufferChunks') :
            \/ i \in 1 .. Len(sendBufferChunks) /\ sendBufferChunks'[i] = sendBufferChunks[i]
            \/ sendBufferChunks'[i] = c
      BY <2>5, <2>8, Zenon
    <3> SUFFICES ASSUME NEW i \in 1 .. Len(sendBufferChunks')
                 PROVE  /\ \A u \in Threads :
                             sendBufferChunks'[i] \notin {currentChunk[u], popped[u], abandoned'[u]}
                        /\ \A d \in Buffers : sendBufferChunks'[i] # chunkOf[d]
      OBVIOUS
    <3>2. CASE i \in 1 .. Len(sendBufferChunks) /\ sendBufferChunks'[i] = sendBufferChunks[i]
      BY <2>6, <2>7, <3>2, Zenon
    <3>3. CASE sendBufferChunks'[i] = c
      BY <2>2, <2>4, <2>6, <3>3, Zenon
    <3> QED
      BY <3>1, <3>2, <3>3, Zenon
  <2> QED
    BY <2>1, <2>10, <2>11, Zenon DEF PoolUnreferenced
<1>11. CASE UNCHANGED vars
  BY <1>11, SendBufferAssumption, SMT DEF vars, bufferVars, chunkVars, poolVars, threadVars
<1> HIDE DEF TypeOK, Stages, At, OwnChunks, Held, PoolUnreferenced, Made
<1> QED
  BY <1>1, <1>2, <1>3, <1>4, <1>5, <1>6, <1>7, <1>8, <1>9, <1>10, <1>11, NextCases, Zenon

\* Chunks in use have been created.
LEMMA MadeNext == TypeOK /\ Stages /\ OwnBuffers /\ Made /\ [Next]_vars => Made'
<1> SUFFICES ASSUME TypeOK, Stages, OwnBuffers, Made, [Next]_vars PROVE Made'
  OBVIOUS
<1> USE DEF TypeOK, Stages, At, Held, Made
<1>1. ASSUME NEW t \in Threads, Open(t) PROVE Made'
  <2>1. UNCHANGED <<sendBufferChunks, created, chunkOf, currentChunk, popped, abandoned>>
    BY <1>1, Zenon DEF Open, bufferVars, poolVars
  <2> QED
    BY <2>1, Zenon
<1>2. ASSUME NEW t \in Threads, Pop(t) PROVE Made'
  <2>1. /\ pc[t] = "open" /\ pc' = [pc EXCEPT ![t] = "replace"]
        /\ UNCHANGED <<chunkOf, start, size, sessions, opened, usedSize, currentChunk,
                       buffer, allocSize, abandoned>>
    BY <1>2, Zenon DEF Pop, Goto, bufferVars, chunkVars
  <2>2. PICK c \in Chunks :
          /\ popped' = [popped EXCEPT ![t] = c]
          /\ \/ c \notin created /\ created' = created \cup {c} /\ UNCHANGED sendBufferChunks
             \/ /\ UNCHANGED created
                /\ sendBufferChunks' \in Seq(Chunks)
                /\ Len(sendBufferChunks) \in Nat \ {0}
                /\ Len(sendBufferChunks') = Len(sendBufferChunks) - 1
                /\ c = sendBufferChunks[Len(sendBufferChunks)]
                /\ \A i \in 1 .. Len(sendBufferChunks) - 1 :
                     sendBufferChunks'[i] = sendBufferChunks[i]
    BY <1>2, PopTakes
  <2>3. \A u \in Threads : /\ popped'[u] = IF u = t THEN c ELSE popped[u]
                           /\ currentChunk'[u] = currentChunk[u] /\ abandoned'[u] = abandoned[u]
    BY <2>1, <2>2, SMT
  <2>4. /\ c \in created'
        /\ created \subseteq created'
        /\ \A i \in 1 .. Len(sendBufferChunks') : sendBufferChunks'[i] \in created
    <3>1. CASE c \notin created /\ created' = created \cup {c} /\ UNCHANGED sendBufferChunks
      BY <3>1, Zenon
    <3>2. CASE ~(c \notin created /\ created' = created \cup {c} /\ UNCHANGED sendBufferChunks)
      <4>1. /\ UNCHANGED created
            /\ Len(sendBufferChunks) \in Nat \ {0}
            /\ Len(sendBufferChunks') = Len(sendBufferChunks) - 1
            /\ c = sendBufferChunks[Len(sendBufferChunks)]
            /\ \A i \in 1 .. Len(sendBufferChunks) - 1 :
                 sendBufferChunks'[i] = sendBufferChunks[i]
        BY <2>2, <3>2, Zenon
      <4>2. /\ Len(sendBufferChunks) \in 1 .. Len(sendBufferChunks)
            /\ \A i \in 1 .. Len(sendBufferChunks') :
                 i \in 1 .. Len(sendBufferChunks) - 1 /\ i \in 1 .. Len(sendBufferChunks)
        <5> HIDE DEF TypeOK, Made
        <5> QED
          BY <4>1, SMT
      <4> QED
        BY <4>1, <4>2, Zenon
    <3> QED
      BY <3>1, <3>2
  <2> QED
    BY <2>1, <2>3, <2>4, Zenon
<1>3. ASSUME NEW t \in Threads, Replace(t) PROVE Made'
  BY <1>3, SendBufferAssumption, SMT DEF Replace, Goto, ChunkLeft, Reset, bufferVars,
     poolVars
<1>4. ASSUME NEW t \in Threads, Allocate(t) PROVE Made'
  BY <1>4, SendBufferAssumption, SMT DEF Allocate, NeedsChunk, FreeSize, poolVars
<1>5. ASSUME NEW t \in Threads, AllocateFails(t) PROVE Made'
  BY <1>5, SendBufferAssumption, SMT DEF AllocateFails, bufferVars, chunkVars, poolVars,
     threadVars
<1>6. ASSUME NEW t \in Threads, WriteAndClose(t) PROVE Made'
  BY <1>6, SendBufferAssumption, SMT DEF WriteAndClose, Goto, Close, poolVars, threadVars
<1>7. ASSUME NEW t \in Threads, Send(t) PROVE Made'
  BY <1>7, SendBufferAssumption, SMT DEF Send, chunkVars, poolVars, threadVars
<1>8. ASSUME NEW t \in Threads, Drop(t) PROVE Made'
  <2>1. /\ pc[t] = "sending" /\ buffer[t] \in Buffers /\ chunkOf[buffer[t]] # NoChunk
        /\ buffer' = [buffer EXCEPT ![t] = NoBuffer]
        /\ Released(t, buffer[t], sessions[buffer[t]] = 0, "run")
        /\ UNCHANGED <<sessions, opened, usedSize, sendBufferChunks, created, currentChunk,
                       popped, allocSize, crashed>>
    BY <1>8, DropCases
  <2>2. /\ \A d \in Buffers : chunkOf'[d] \in {chunkOf[d], NoChunk}
        /\ \/ \A u \in Threads : abandoned'[u] \in {abandoned[u], NoChunk}
           \/ /\ \A u \in Threads \ {t} : abandoned'[u] = abandoned[u]
              /\ abandoned'[t] = chunkOf[buffer[t]]
              /\ \A u \in Threads : currentChunk[u] # chunkOf[buffer[t]]
              /\ \A d \in Buffers : chunkOf'[d] # chunkOf[buffer[t]]
    <3> HIDE DEF TypeOK
    <3> QED
      BY <2>1, ReleaseChunks
  <2>3. chunkOf[buffer[t]] \in Chunks
    BY <2>1, Zenon DEF TypeOK
  <2> HIDE DEF TypeOK, Stages, At
  <2>4. \A u \in Threads, e \in Chunks : Held(u, e)' => Held(u, e) \/ e = chunkOf[buffer[t]]
    BY <2>1, <2>2, <2>3, SendBufferAssumption, Zenon
  <2>5. \A d \in Buffers : chunkOf'[d] # NoChunk => chunkOf'[d] \in created
    BY <2>2, Zenon
  <2>6. \A u \in Threads, e \in Chunks : Held(u, e)' => e \in created
    <3>1. chunkOf[buffer[t]] \in created
      BY <2>1, Zenon
    <3> HIDE DEF Held
    <3> QED
      BY <2>4, <3>1, Zenon
  <2> HIDE DEF Held
  <2> QED
    BY <2>1, <2>5, <2>6, Zenon
<1>9. ASSUME NEW t \in Threads, NEW b \in Buffers, SendDone(t, b) PROVE Made'
  <2>1. /\ pc[t] \in {"run", "sending"} /\ sessions[b] > 0 /\ chunkOf[b] # NoChunk
        /\ sessions' = [sessions EXCEPT ![b] = @ - 1]
        /\ Released(t, b, sessions[b] = 1 /\ \A u \in Threads : buffer[u] # b, pc[t])
        /\ UNCHANGED <<opened, usedSize, sendBufferChunks, created, currentChunk, popped,
                       buffer, allocSize, crashed>>
    BY <1>9, SendDoneCases
  <2>2. /\ \A d \in Buffers : chunkOf'[d] \in {chunkOf[d], NoChunk}
        /\ \/ \A u \in Threads : abandoned'[u] \in {abandoned[u], NoChunk}
           \/ /\ \A u \in Threads \ {t} : abandoned'[u] = abandoned[u]
              /\ abandoned'[t] = chunkOf[b]
              /\ \A u \in Threads : currentChunk[u] # chunkOf[b]
              /\ \A d \in Buffers : chunkOf'[d] # chunkOf[b]
    <3> HIDE DEF TypeOK
    <3> QED
      BY <2>1, ReleaseChunks
  <2>3. chunkOf[b] \in Chunks
    BY <2>1, Zenon DEF TypeOK
  <2> HIDE DEF TypeOK, Stages, At
  <2>4. \A u \in Threads, e \in Chunks : Held(u, e)' => Held(u, e) \/ e = chunkOf[b]
    BY <2>1, <2>2, <2>3, SendBufferAssumption, Zenon
  <2>5. \A d \in Buffers : chunkOf'[d] # NoChunk => chunkOf'[d] \in created
    BY <2>2, Zenon
  <2>6. \A u \in Threads, e \in Chunks : Held(u, e)' => e \in created
    <3>1. chunkOf[b] \in created
      BY <2>1, Zenon
    <3> HIDE DEF Held
    <3> QED
      BY <2>4, <3>1, Zenon
  <2> HIDE DEF Held
  <2> QED
    BY <2>1, <2>5, <2>6, Zenon
<1>10. ASSUME NEW t \in Threads, PushGlobal(t) PROVE Made'
  BY <1>10, SendBufferAssumption, SMT DEF PushGlobal, Goto, Push, Interrupted, bufferVars,
     chunkVars
<1>11. CASE UNCHANGED vars
  BY <1>11, SendBufferAssumption, SMT DEF vars, bufferVars, chunkVars, poolVars, threadVars
<1> HIDE DEF TypeOK, Stages, At, Held, Made
<1> QED
  BY <1>1, <1>2, <1>3, <1>4, <1>5, <1>6, <1>7, <1>8, <1>9, <1>10, <1>11, NextCases, Zenon

\* A chunk is open while it is written.
LEMMA OpenedNext ==
  TypeOK /\ Stages /\ OwnBuffers /\ OwnChunks /\ OpenedByWriter /\ [Next]_vars =>
  OpenedByWriter'
<1> SUFFICES ASSUME TypeOK, Stages, OwnBuffers, OwnChunks, OpenedByWriter, [Next]_vars
             PROVE  OpenedByWriter'
  OBVIOUS
<1> USE DEF TypeOK, Stages, At, Allocated, AtTheEnd, Held, OwnChunks, OpenedByWriter
<1>1. ASSUME NEW t \in Threads, Open(t) PROVE OpenedByWriter'
  BY <1>1, SendBufferAssumption, SMT DEF Open, Goto, bufferVars, chunkVars, poolVars
<1>2. ASSUME NEW t \in Threads, Pop(t) PROVE OpenedByWriter'
  <2>1. /\ pc[t] = "open" /\ pc' = [pc EXCEPT ![t] = "replace"]
        /\ UNCHANGED <<chunkOf, start, size, sessions, opened, usedSize, currentChunk,
                       buffer, allocSize, abandoned>>
    BY <1>2, Zenon DEF Pop, Goto, bufferVars, chunkVars
  <2>2. PICK c \in Chunks :
          /\ popped' = [popped EXCEPT ![t] = c]
          /\ \/ c \notin created /\ created' = created \cup {c} /\ UNCHANGED sendBufferChunks
             \/ /\ UNCHANGED created
                /\ sendBufferChunks' \in Seq(Chunks)
                /\ Len(sendBufferChunks) \in Nat \ {0}
                /\ Len(sendBufferChunks') = Len(sendBufferChunks) - 1
                /\ c = sendBufferChunks[Len(sendBufferChunks)]
                /\ \A i \in 1 .. Len(sendBufferChunks) - 1 :
                     sendBufferChunks'[i] = sendBufferChunks[i]
    BY <1>2, PopTakes
  <2> QED
    BY <2>1, <2>2, SendBufferAssumption, SMT
<1>3. ASSUME NEW t \in Threads, Replace(t) PROVE OpenedByWriter'
  BY <1>3, SendBufferAssumption, SMT DEF Replace, Goto, ChunkLeft, Reset, bufferVars,
     poolVars
<1>4. ASSUME NEW t \in Threads, Allocate(t) PROVE OpenedByWriter'
  BY <1>4, SendBufferAssumption, SMT DEF Allocate, NeedsChunk, FreeSize, poolVars
<1>5. ASSUME NEW t \in Threads, AllocateFails(t) PROVE OpenedByWriter'
  BY <1>5, SendBufferAssumption, SMT DEF AllocateFails, bufferVars, chunkVars, poolVars,
     threadVars
<1>6. ASSUME NEW t \in Threads, WriteAndClose(t) PROVE OpenedByWriter'
  BY <1>6, SendBufferAssumption, SMT DEF WriteAndClose, Goto, Close, poolVars, threadVars
<1>7. ASSUME NEW t \in Threads, Send(t) PROVE OpenedByWriter'
  BY <1>7, SendBufferAssumption, SMT DEF Send, chunkVars, poolVars, threadVars
<1>8. ASSUME NEW t \in Threads, Drop(t) PROVE OpenedByWriter'
  <2>1. /\ pc[t] = "sending" /\ buffer[t] \in Buffers /\ chunkOf[buffer[t]] # NoChunk
        /\ buffer' = [buffer EXCEPT ![t] = NoBuffer]
        /\ Released(t, buffer[t], sessions[buffer[t]] = 0, "run")
        /\ UNCHANGED <<sessions, opened, usedSize, sendBufferChunks, created, currentChunk,
                       popped, allocSize, crashed>>
    BY <1>8, DropCases
  <2> QED
    BY <2>1, SendBufferAssumption, SMT DEF Released, GoesOn, Freed, Emptied, ChunkLeft
<1>9. ASSUME NEW t \in Threads, NEW b \in Buffers, SendDone(t, b)
      PROVE  OpenedByWriter'
  <2>1. /\ pc[t] \in {"run", "sending"} /\ sessions[b] > 0 /\ chunkOf[b] # NoChunk
        /\ sessions' = [sessions EXCEPT ![b] = @ - 1]
        /\ Released(t, b, sessions[b] = 1 /\ \A u \in Threads : buffer[u] # b, pc[t])
        /\ UNCHANGED <<opened, usedSize, sendBufferChunks, created, currentChunk, popped,
                       buffer, allocSize, crashed>>
    BY <1>9, SendDoneCases
  <2> QED
    BY <2>1, SendBufferAssumption, SMT DEF Released, GoesOn, Freed, Emptied, ChunkLeft
<1>10. ASSUME NEW t \in Threads, PushGlobal(t) PROVE OpenedByWriter'
  BY <1>10, SendBufferAssumption, SMT DEF PushGlobal, Goto, Push, Interrupted, bufferVars,
     chunkVars
<1>11. CASE UNCHANGED vars
  BY <1>11, SendBufferAssumption, SMT DEF vars, bufferVars, chunkVars, poolVars, threadVars
<1> HIDE DEF TypeOK, Stages, At, Allocated, AtTheEnd, Held, OwnChunks, OpenedByWriter
<1> QED
  BY <1>1, <1>2, <1>3, <1>4, <1>5, <1>6, <1>7, <1>8, <1>9, <1>10, <1>11, NextCases, Zenon

\* A step that neither moves nor adds a buffer takes nobody's space.
LEMMA SameSpace ==
  ASSUME TypeOK, Space, BuffersDisjoint, UNCHANGED usedSize,
         \A b \in Buffers : chunkOf'[b] # NoChunk =>
           /\ chunkOf'[b] = chunkOf[b] /\ start'[b] = start[b] /\ size'[b] = size[b]
           /\ Written(b) => Written(b)'
  PROVE  Space' /\ BuffersDisjoint'
BY Zenon DEF Space, BuffersDisjoint, Fits, Used

\* Every buffer keeps its space.
LEMMA SpaceNext ==
  TypeOK /\ Stages /\ OwnBuffers /\ OwnChunks /\ Space /\ BuffersDisjoint /\ [Next]_vars =>
  Space' /\ BuffersDisjoint'
<1> SUFFICES ASSUME TypeOK, Stages, OwnBuffers, OwnChunks, Space, BuffersDisjoint,
                    [Next]_vars
             PROVE  Space' /\ BuffersDisjoint'
  OBVIOUS
<1>1. ASSUME NEW t \in Threads, Open(t) PROVE Space' /\ BuffersDisjoint'
  <2>1. UNCHANGED usedSize
    BY <1>1, Zenon DEF Open, Goto, bufferVars, chunkVars
  <2>2. \A b \in Buffers : chunkOf'[b] # NoChunk =>
          /\ chunkOf'[b] = chunkOf[b] /\ start'[b] = start[b] /\ size'[b] = size[b]
          /\ Written(b) => Written(b)'
    BY <1>1, SMT DEF Open, Goto, bufferVars, chunkVars, TypeOK, Stages, At, Unallocated,
       Written
  <2> QED
    BY <2>1, <2>2, SameSpace
<1>2. ASSUME NEW t \in Threads, Pop(t) PROVE Space' /\ BuffersDisjoint'
  <2>1. UNCHANGED usedSize
    BY <1>2, Zenon DEF Pop, Goto, bufferVars, chunkVars
  <2>2. \A b \in Buffers : chunkOf'[b] # NoChunk =>
          /\ chunkOf'[b] = chunkOf[b] /\ start'[b] = start[b] /\ size'[b] = size[b]
          /\ Written(b) => Written(b)'
    BY <1>2, SMT DEF Pop, Goto, bufferVars, chunkVars, TypeOK, Stages, At, Unallocated,
       Written
  <2> QED
    BY <2>1, <2>2, SameSpace
<1>3. ASSUME NEW t \in Threads, Replace(t) PROVE Space' /\ BuffersDisjoint'
  <2>1. /\ pc[t] = "replace" /\ popped[t] \in Chunks
        /\ usedSize' = [usedSize EXCEPT ![popped[t]] = 0]
        /\ UNCHANGED <<chunkOf, start, size, buffer>>
        /\ \E to \in {"pushing", "allocate"} : pc' = [pc EXCEPT ![t] = to]
    <3>1. pc[t] = "replace" /\ popped[t] \in Chunks
      BY <1>3, Zenon DEF Replace, Goto, TypeOK, Stages, At
    <3> QED
      BY <1>3, <3>1, Zenon DEF Replace, Goto, Reset, bufferVars
  <2>2. BuffersDisjoint'
    BY <2>1, Zenon DEF BuffersDisjoint
  <2>3. \A b \in Buffers : chunkOf[b] # NoChunk => usedSize'[chunkOf[b]] = usedSize[chunkOf[b]]
    BY <2>1, SMT DEF OwnChunks, TypeOK
  <2>4. \A b \in Buffers : Written(b) => Written(b)'
    BY <2>1, SMT DEF Written, TypeOK
  <2> QED
    BY <2>1, <2>2, <2>3, <2>4, Zenon DEF Space, Fits, Used
<1>4. ASSUME NEW t \in Threads, Allocate(t) PROVE Space' /\ BuffersDisjoint'
  <2>0. PICK c, b : c = currentChunk[t] /\ b = buffer[t]
    OBVIOUS
  <2>1. /\ b \in Buffers /\ c \in Chunks
        /\ allocSize[t] \in 1 .. ChunkSize /\ allocSize[t] <= ChunkSize - usedSize[c]
        /\ chunkOf' = [chunkOf EXCEPT ![b] = c]
        /\ start' = [start EXCEPT ![b] = usedSize[c]]
        /\ size' = [size EXCEPT ![b] = allocSize[t]]
        /\ pc' = [pc EXCEPT ![t] = "writing"]
        /\ pc[t] # "writing"
        /\ UNCHANGED <<usedSize, buffer>>
    BY <1>4, <2>0, SMT DEF Allocate, NeedsChunk, FreeSize, poolVars, TypeOK, Stages, At,
       Unallocated, Fresh
  <2>2. Written(b)' /\ Fits(b)'
    <3>1. pc'[t] = "writing" /\ buffer'[t] = b
      BY <2>0, <2>1, SMT DEF TypeOK
    <3>2. start'[b] = usedSize[c] /\ size'[b] = allocSize[t] /\ usedSize[c] \in 0 .. ChunkSize
      BY <2>1, SMT DEF TypeOK
    <3>3. start'[b] + size'[b] <= ChunkSize
      BY <2>1, <3>2, SendBufferAssumption, SMT
    <3> QED
      BY <3>1, <3>3, Zenon DEF Written, Fits
  <2>3. \A d \in Buffers : Written(d) => Written(d)'
    BY <2>1, SMT DEF Written, TypeOK
  <2>4. \A d \in Buffers : d # b =>
          chunkOf'[d] = chunkOf[d] /\ start'[d] = start[d] /\ size'[d] = size[d]
    BY <2>1, SMT DEF TypeOK
  <2>5. Space'
    BY <2>1, <2>2, <2>3, <2>4, Zenon DEF Space, Fits, Used
  <2>6. \A d \in Buffers : chunkOf[d] = c => Used(d)
    <3>1. \A d \in Buffers : chunkOf[d] = c => ~Written(d)
      <4> SUFFICES ASSUME NEW d \in Buffers, chunkOf[d] = c,
                          NEW u \in Threads, pc[u] = "writing", buffer[u] = d
                   PROVE  FALSE
        BY Zenon DEF Written
      <4>1. currentChunk[u] = c
        BY Zenon DEF Stages, At, AtTheEnd
      <4>2. u = t
        BY <2>0, <2>1, <4>1, Zenon DEF OwnChunks, Held
      <4> QED
        BY <2>1, <4>2
    <3> QED
      BY <2>1, <3>1, SendBufferAssumption, Zenon DEF Space
  <2>7. \A d \in Buffers : d # b /\ chunkOf'[d] = c => start'[d] + size'[d] <= start'[b]
    BY <2>1, <2>4, <2>6, SMT DEF Used, TypeOK
  <2>8. chunkOf'[b] = c
    BY <2>1, SMT DEF TypeOK
  <2>9. BuffersDisjoint'
    BY <2>4, <2>7, <2>8, Zenon DEF BuffersDisjoint
  <2> QED
    BY <2>5, <2>9
<1>5. ASSUME NEW t \in Threads, AllocateFails(t)
      PROVE  Space' /\ BuffersDisjoint'
  <2>1. UNCHANGED usedSize
    BY <1>5, Zenon DEF AllocateFails, bufferVars, chunkVars, threadVars
  <2>2. \A b \in Buffers : chunkOf'[b] # NoChunk =>
          /\ chunkOf'[b] = chunkOf[b] /\ start'[b] = start[b] /\ size'[b] = size[b]
          /\ Written(b) => Written(b)'
    BY <1>5, SMT DEF AllocateFails, bufferVars, chunkVars, threadVars, TypeOK, Stages, At,
       Unallocated, Written
  <2> QED
    BY <2>1, <2>2, SameSpace
<1>6. ASSUME NEW t \in Threads, WriteAndClose(t)
      PROVE  Space' /\ BuffersDisjoint'
  <2>0. PICK c, b : c = currentChunk[t] /\ b = buffer[t]
    OBVIOUS
  <2>1. /\ b \in Buffers /\ c \in Chunks /\ chunkOf[b] = c /\ start[b] = usedSize[c]
        /\ pc[t] = "writing" /\ pc' = [pc EXCEPT ![t] = "sending"]
        /\ UNCHANGED <<chunkOf, start, buffer>>
    BY <1>6, <2>0, SendBufferAssumption, SMT DEF WriteAndClose, Goto, threadVars, TypeOK,
       Stages, At, Allocated, AtTheEnd
  <2>2. PICK n \in 1 .. size[b] : /\ size' = [size EXCEPT ![b] = n]
                                  /\ usedSize' = [usedSize EXCEPT ![c] = @ + n]
    BY <1>6, <2>0, <2>1, Zenon DEF WriteAndClose, Close
  <2>3. Fits(b)' /\ Used(b)'
    <3>1. /\ start'[b] = usedSize[c] /\ size'[b] = n /\ chunkOf'[b] = c
          /\ usedSize'[c] = usedSize[c] + n
      BY <2>1, <2>2, SMT DEF TypeOK
    <3>2. start[b] + size[b] <= ChunkSize
      BY <2>1, SendBufferAssumption, Zenon DEF Space, Fits
    <3>3. usedSize[c] \in Int /\ size[b] \in Int /\ n \in Int /\ n <= size[b] /\ ChunkSize \in Int
      BY <2>1, <2>2, SendBufferAssumption, SMT DEF TypeOK
    <3>4. start'[b] + size'[b] <= ChunkSize /\ start'[b] + size'[b] <= usedSize'[chunkOf'[b]]
      BY <2>1, <3>1, <3>2, <3>3, SMT
    <3> QED
      BY <3>4, Zenon DEF Fits, Used
  <2>4. \A d \in Buffers : d # b => size'[d] = size[d]
    BY <2>2, SMT DEF TypeOK
  <2>5. \A d \in Buffers : d # b /\ Written(d) => Written(d)'
    BY <2>0, <2>1, SMT DEF Written, TypeOK
  <2>6. \A d \in Buffers : d # b /\ chunkOf[d] # NoChunk /\ Used(d) => Used(d)'
    <3>1. \A e \in Chunks :
            usedSize'[e] \in Int /\ usedSize[e] \in Int /\ usedSize[e] <= usedSize'[e]
      BY <2>1, <2>2, SMT DEF TypeOK
    <3>2. \A d \in Buffers : start[d] \in Int /\ size[d] \in Int
      BY SMT DEF TypeOK
    <3> QED
      BY <2>1, <2>4, <3>1, <3>2, SMT DEF Used, TypeOK
  <2>7. Space'
    BY <2>1, <2>3, <2>4, <2>5, <2>6, Zenon DEF Space, Fits
  <2>8. \A d \in Buffers : start'[d] = start[d] /\ size'[d] <= size[d]
    BY <2>1, <2>2, SMT DEF TypeOK
  <2>9. BuffersDisjoint'
    <3>1. \A d \in Buffers : start[d] \in Int /\ size[d] \in Int /\ size'[d] \in Int
      BY <2>2, SMT DEF TypeOK
    <3> QED
      BY <2>1, <2>8, <3>1, SMT DEF BuffersDisjoint
  <2> QED
    BY <2>7, <2>9
<1>7. ASSUME NEW t \in Threads, Send(t) PROVE Space' /\ BuffersDisjoint'
  <2>1. UNCHANGED usedSize
    BY <1>7, Zenon DEF Send, chunkVars, threadVars
  <2>2. \A b \in Buffers : chunkOf'[b] # NoChunk =>
          /\ chunkOf'[b] = chunkOf[b] /\ start'[b] = start[b] /\ size'[b] = size[b]
          /\ Written(b) => Written(b)'
    BY <1>7, SMT DEF Send, chunkVars, threadVars, TypeOK, Stages, At, Unallocated, Written
  <2> QED
    BY <2>1, <2>2, SameSpace
<1>8. ASSUME NEW t \in Threads, Drop(t) PROVE Space' /\ BuffersDisjoint'
  <2>1. /\ pc[t] = "sending" /\ buffer[t] \in Buffers /\ chunkOf[buffer[t]] # NoChunk
        /\ buffer' = [buffer EXCEPT ![t] = NoBuffer]
        /\ Released(t, buffer[t], sessions[buffer[t]] = 0, "run")
        /\ UNCHANGED <<sessions, opened, usedSize, sendBufferChunks, created, currentChunk,
                       popped, allocSize, crashed>>
    BY <1>8, DropCases
  <2>2. \A d \in Buffers : chunkOf'[d] # NoChunk =>
          chunkOf'[d] = chunkOf[d] /\ start'[d] = start[d] /\ size'[d] = size[d]
    BY <2>1, SMT DEF Released, Freed, TypeOK
  <2>3. \A u \in Threads : pc[u] = "writing" => pc'[u] = "writing"
    BY <2>1, SMT DEF Released, GoesOn, Emptied, TypeOK
  <2>4. \A u \in Threads : pc[u] = "writing" => buffer'[u] = buffer[u]
    BY <2>1, SMT DEF TypeOK
  <2>5. \A d \in Buffers : Written(d) => Written(d)'
    BY <2>1, <2>3, <2>4, Zenon DEF Written
  <2> QED
    BY <2>1, <2>2, <2>5, SameSpace
<1>9. ASSUME NEW t \in Threads, NEW b \in Buffers, SendDone(t, b)
      PROVE  Space' /\ BuffersDisjoint'
  <2>1. /\ pc[t] \in {"run", "sending"} /\ sessions[b] > 0 /\ chunkOf[b] # NoChunk
        /\ sessions' = [sessions EXCEPT ![b] = @ - 1]
        /\ Released(t, b, sessions[b] = 1 /\ \A u \in Threads : buffer[u] # b, pc[t])
        /\ UNCHANGED <<opened, usedSize, sendBufferChunks, created, currentChunk, popped,
                       buffer, allocSize, crashed>>
    BY <1>9, SendDoneCases
  <2>2. \A d \in Buffers : chunkOf'[d] # NoChunk =>
          chunkOf'[d] = chunkOf[d] /\ start'[d] = start[d] /\ size'[d] = size[d]
    BY <2>1, SMT DEF Released, Freed, TypeOK
  <2>3. \A u \in Threads : pc[u] = "writing" => pc'[u] = "writing"
    BY <2>1, SMT DEF Released, GoesOn, Emptied, TypeOK
  <2>4. \A d \in Buffers : Written(d) => Written(d)'
    BY <2>1, <2>3, Zenon DEF Written
  <2> QED
    BY <2>1, <2>2, <2>4, SameSpace
<1>10. ASSUME NEW t \in Threads, PushGlobal(t) PROVE Space' /\ BuffersDisjoint'
  <2>1. UNCHANGED usedSize
    BY <1>10, Zenon DEF PushGlobal, Goto, bufferVars, chunkVars
  <2>2. \A b \in Buffers : chunkOf'[b] # NoChunk =>
          /\ chunkOf'[b] = chunkOf[b] /\ start'[b] = start[b] /\ size'[b] = size[b]
          /\ Written(b) => Written(b)'
    BY <1>10, SMT DEF PushGlobal, Goto, bufferVars, chunkVars, TypeOK, Stages, At,
       Unallocated, Written
  <2> QED
    BY <2>1, <2>2, SameSpace
<1>11. CASE UNCHANGED vars
  BY <1>11, Zenon DEF vars, bufferVars, chunkVars, threadVars, Space, BuffersDisjoint, Fits,
     Used, Written
<1> QED
  BY <1>1, <1>2, <1>3, <1>4, <1>5, <1>6, <1>7, <1>8, <1>9, <1>10, <1>11, NextCases, Zenon

\* No assertion fires.
LEMMA CrashNext ==
  TypeOK /\ Stages /\ OwnBuffers /\ OwnChunks /\ OpenedByWriter /\ NoCrash /\ [Next]_vars =>
  NoCrash'
<1> SUFFICES ASSUME TypeOK, Stages, OwnBuffers, OwnChunks, OpenedByWriter, NoCrash,
                    [Next]_vars
             PROVE  NoCrash'
  OBVIOUS
<1> USE DEF TypeOK, Stages, At, Unallocated, Allocated, AtTheEnd, Fresh, Held, OwnChunks,
   OpenedByWriter, NoCrash
<1>1. ASSUME NEW t \in Threads, Open(t) PROVE NoCrash'
  BY <1>1, SendBufferAssumption, SMT DEF Open, Goto, bufferVars, chunkVars, poolVars
<1>2. ASSUME NEW t \in Threads, Pop(t) PROVE NoCrash'
  <2>1. crashed' = (crashed \/ (currentChunk[t] # NoChunk /\ opened[currentChunk[t]]))
    BY <1>2, Zenon DEF Pop
  <2>2. currentChunk[t] # NoChunk => ~opened[currentChunk[t]]
    BY <1>2, SMT DEF Pop, Goto
  <2> QED
    BY <2>1, <2>2, Zenon
<1>3. ASSUME NEW t \in Threads, Replace(t) PROVE NoCrash'
  BY <1>3, SendBufferAssumption, SMT DEF Replace, Goto, ChunkLeft, Reset, bufferVars,
     poolVars
<1>4. ASSUME NEW t \in Threads, Allocate(t) PROVE NoCrash'
  <2>1. /\ currentChunk[t] \in Chunks /\ pc[t] # "writing"
        /\ crashed' = (crashed \/ opened[currentChunk[t]])
    <3>1. /\ (pc[t] = "open" /\ currentChunk[t] # NoChunk) \/ pc[t] = "allocate"
          /\ crashed' = (crashed \/ opened[currentChunk[t]])
      BY <1>4, Zenon DEF Allocate, NeedsChunk
    <3> QED
      BY <3>1, Zenon
  <2>2. ~opened[currentChunk[t]]
    <3> SUFFICES ASSUME NEW u \in Threads, pc[u] = "writing",
                        currentChunk[u] = currentChunk[t]
                 PROVE  FALSE
      <4> HIDE DEF TypeOK, Stages, At, OwnChunks
      <4> QED
        BY <2>1, Zenon
    <3>1. u = t
      <4> HIDE DEF TypeOK, Stages, At, OpenedByWriter
      <4> QED
        BY <2>1, Zenon
    <3> QED
      BY <2>1, <3>1
  <2> QED
    BY <2>1, <2>2, Zenon
<1>5. ASSUME NEW t \in Threads, AllocateFails(t) PROVE NoCrash'
  <2>1. /\ pc[t] = "allocate" /\ allocSize[t] \in 1 .. ChunkSize
        /\ currentChunk[t] \in Chunks /\ usedSize[currentChunk[t]] = 0
    BY <1>5, Zenon DEF AllocateFails
  <2>2. allocSize[t] > ChunkSize - 0
    BY <1>5, <2>1, Zenon DEF AllocateFails, FreeSize
  <2> QED
    BY <2>1, <2>2, SendBufferAssumption, SMT
<1>6. ASSUME NEW t \in Threads, WriteAndClose(t) PROVE NoCrash'
  BY <1>6, SendBufferAssumption, SMT DEF WriteAndClose, Goto, Close, poolVars, threadVars
<1>7. ASSUME NEW t \in Threads, Send(t) PROVE NoCrash'
  BY <1>7, SendBufferAssumption, SMT DEF Send, chunkVars, poolVars, threadVars
<1>8. ASSUME NEW t \in Threads, Drop(t) PROVE NoCrash'
  <2>1. /\ pc[t] = "sending" /\ buffer[t] \in Buffers /\ chunkOf[buffer[t]] # NoChunk
        /\ buffer' = [buffer EXCEPT ![t] = NoBuffer]
        /\ Released(t, buffer[t], sessions[buffer[t]] = 0, "run")
        /\ UNCHANGED <<sessions, opened, usedSize, sendBufferChunks, created, currentChunk,
                       popped, allocSize, crashed>>
    BY <1>8, DropCases
  <2> QED
    BY <2>1, SendBufferAssumption, SMT DEF Released, GoesOn, Freed, Emptied, ChunkLeft
<1>9. ASSUME NEW t \in Threads, NEW b \in Buffers, SendDone(t, b) PROVE NoCrash'
  <2>1. /\ pc[t] \in {"run", "sending"} /\ sessions[b] > 0 /\ chunkOf[b] # NoChunk
        /\ sessions' = [sessions EXCEPT ![b] = @ - 1]
        /\ Released(t, b, sessions[b] = 1 /\ \A u \in Threads : buffer[u] # b, pc[t])
        /\ UNCHANGED <<opened, usedSize, sendBufferChunks, created, currentChunk, popped,
                       buffer, allocSize, crashed>>
    BY <1>9, SendDoneCases
  <2> QED
    BY <2>1, SendBufferAssumption, SMT DEF Released, GoesOn, Freed, Emptied, ChunkLeft
<1>10. ASSUME NEW t \in Threads, PushGlobal(t) PROVE NoCrash'
  BY <1>10, SendBufferAssumption, SMT DEF PushGlobal, Goto, Push, Interrupted, bufferVars,
     chunkVars
<1>11. CASE UNCHANGED vars
  BY <1>11, SendBufferAssumption, SMT DEF vars, bufferVars, chunkVars, poolVars, threadVars
<1> HIDE DEF TypeOK, Stages, At, Unallocated, Allocated, AtTheEnd, Fresh, Held, OwnChunks,
   OpenedByWriter, NoCrash
<1> QED
  BY <1>1, <1>2, <1>3, <1>4, <1>5, <1>6, <1>7, <1>8, <1>9, <1>10, <1>11, NextCases, Zenon

-----------------------------------------------------------------------------
SendBufferInv ==
  /\ TypeOK /\ Stages
  /\ OwnBuffers /\ OwnChunks /\ PoolUnreferenced /\ Made
  /\ OpenedByWriter /\ Space /\ BuffersDisjoint
  /\ NoCrash

\* At first there are neither chunks nor buffers.
LEMMA SendBufferInit == Init => SendBufferInv
<1> SUFFICES ASSUME Init PROVE SendBufferInv
  OBVIOUS
<1>1. TypeOK
  <2>1. <<>> \in Seq(Chunks)
    BY EmptySeq
  <2>2. 0 \in 0 .. ChunkSize /\ 0 \in 0 .. MaxSessions
    BY SendBufferAssumption, SMT
  <2> QED
    BY <2>1, <2>2, Zenon DEF Init, TypeOK, States
<1>2. Stages /\ OwnBuffers /\ OwnChunks /\ PoolUnreferenced /\ Made
  BY SendBufferAssumption, SMT DEF Init, Stages, At, OwnBuffers, OwnChunks, PoolUnreferenced,
     Made, Held
<1>3. OpenedByWriter /\ Space /\ BuffersDisjoint /\ NoCrash
  BY SendBufferAssumption, SMT DEF Init, OpenedByWriter, Space, BuffersDisjoint, NoCrash
<1> QED
  BY <1>1, <1>2, <1>3, Zenon DEF SendBufferInv

\* Every step leaves all in order.
LEMMA SendBufferNext == SendBufferInv /\ [Next]_vars => SendBufferInv'
BY TypeNext, StagesNext, OwnBuffersNext, OwnChunksNext, PoolNext, MadeNext, OpenedNext,
   SpaceNext, CrashNext, Zenon DEF SendBufferInv

\* Hence all is always in order.
LEMMA SendBufferInvariant == Spec => []SendBufferInv
BY SendBufferInit, SendBufferNext, PTL DEF Spec

\* Every variable always has its type.
THEOREM TypeCorrect == Spec => []TypeOK
<1>1. SendBufferInv => TypeOK
  BY Zenon DEF SendBufferInv
<1> QED
  BY <1>1, SendBufferInvariant, PTL

\* No byte of a buffer that anybody holds belongs to another.
THEOREM MemoryIsOwn == Spec => []BuffersDisjoint
<1>1. SendBufferInv => BuffersDisjoint
  BY Zenon DEF SendBufferInv
<1> QED
  BY <1>1, SendBufferInvariant, PTL

\* No assertion fires and Open never returns null.
THEOREM OpenSucceeds == Spec => []NoCrash
<1>1. SendBufferInv => NoCrash
  BY Zenon DEF SendBufferInv
<1> QED
  BY <1>1, SendBufferInvariant, PTL

-----------------------------------------------------------------------------
(***************************************************************************)
(* No chunk is lost: who lets go of the last reference puts it back.       *)
(***************************************************************************)

\* A step after which the pool and all who have a chunk still have it loses none.
LEMMA SameChunks ==
  ASSUME NothingLost,
         created' \subseteq created,
         \A c \in created :
           /\ InPool(c) => InPool(c)'
           /\ \A t \in Threads : Held(t, c) => Held(t, c)'
           /\ \A b \in Buffers : chunkOf[b] = c => chunkOf'[b] = c
  PROVE  NothingLost'
<1> SUFFICES ASSUME NEW c \in created'
             PROVE  \/ InPool(c)'
                    \/ \E t \in Threads : Held(t, c)'
                    \/ \E b \in Buffers : chunkOf'[b] = c
  BY Zenon DEF NothingLost
<1> HIDE DEF Held, InPool
<1> QED
  BY Zenon DEF NothingLost

\* Neither does Release: it keeps the chunk for the deleter if the buffer was its last.
LEMMA ReleaseKeeps ==
  ASSUME TypeOK, NothingLost, NEW t \in Threads, NEW b \in Buffers, NEW last, NEW then,
         chunkOf[b] # NoChunk, abandoned[t] = NoChunk, Release(t, b, last, then),
         UNCHANGED <<sendBufferChunks, created, currentChunk, popped>>
  PROVE  NothingLost'
<1> SUFFICES ASSUME NEW c \in created
             PROVE  \/ InPool(c)'
                    \/ \E u \in Threads : Held(u, c)'
                    \/ \E d \in Buffers : chunkOf'[d] = c
  BY Zenon DEF NothingLost
<1>1. c \in Chunks /\ c # NoChunk
  BY SendBufferAssumption, Zenon DEF TypeOK
<1>2. CASE InPool(c)
  BY <1>2, Zenon DEF InPool
<1>3. ASSUME NEW u \in Threads, Held(u, c) PROVE Held(u, c)'
  <2>1. abandoned[u] = c => abandoned'[u] = c
    BY <1>1, SMT DEF Release, TypeOK
  <2> QED
    BY <1>3, <2>1, Zenon DEF Held
<1>4. ASSUME NEW d \in Buffers, chunkOf[d] = c
      PROVE  \/ \E u \in Threads : Held(u, c)'
             \/ \E e \in Buffers : chunkOf'[e] = c
  <2>1. CASE d # b \/ ~last
    BY <1>4, <2>1, SMT DEF Release, TypeOK
  <2>2. CASE d = b /\ last /\ ChunkLeft(chunkOf[b], {}, {b})
    <3>1. abandoned'[t] = c
      BY <1>4, <2>2, SMT DEF Release, TypeOK
    <3> QED
      BY <3>1, Zenon DEF Held
  <2>3. CASE d = b /\ last /\ ~ChunkLeft(chunkOf[b], {}, {b})
    <3>1. CASE \E u \in Threads : currentChunk[u] = c
      BY <3>1, Zenon DEF Held
    <3>2. CASE \E e \in Buffers \ {b} : chunkOf[e] = c
      BY <3>2, SMT DEF Release, TypeOK
    <3> QED
      BY <1>4, <2>3, <3>1, <3>2, Zenon DEF ChunkLeft
  <2> QED
    BY <2>1, <2>2, <2>3
<1> QED
  BY <1>2, <1>3, <1>4, Zenon DEF NothingLost

\* No step loses a chunk.
LEMMA NothingLostNext ==
  SendBufferInv /\ NothingLost /\ [Next]_vars => NothingLost'
<1> SUFFICES ASSUME SendBufferInv, NothingLost, [Next]_vars PROVE NothingLost'
  OBVIOUS
<1>0. TypeOK /\ Stages /\ OwnBuffers /\ OwnChunks
  BY Zenon DEF SendBufferInv
<1>1. ASSUME NEW t \in Threads, Open(t) PROVE NothingLost'
  BY <1>1, SameChunks, Zenon DEF Open, bufferVars, poolVars, InPool, Held
<1>2. ASSUME NEW t \in Threads, Pop(t) PROVE NothingLost'
  <2>1. popped[t] = NoChunk /\ UNCHANGED <<chunkOf, currentChunk, abandoned>>
    BY <1>0, <1>2, Zenon DEF Pop, Goto, bufferVars, Stages, At
  <2>2. PICK c \in Chunks :
          /\ popped' = [popped EXCEPT ![t] = c]
          /\ \/ c \notin created /\ created' = created \cup {c} /\ UNCHANGED sendBufferChunks
             \/ /\ UNCHANGED created
                /\ sendBufferChunks' \in Seq(Chunks)
                /\ Len(sendBufferChunks) \in Nat \ {0}
                /\ Len(sendBufferChunks') = Len(sendBufferChunks) - 1
                /\ c = sendBufferChunks[Len(sendBufferChunks)]
                /\ \A i \in 1 .. Len(sendBufferChunks) - 1 :
                     sendBufferChunks'[i] = sendBufferChunks[i]
    BY <1>0, <1>2, PopTakes
  <2>3. Held(t, c)'
    <3>1. popped'[t] = c
      BY <1>0, <2>2, SMT DEF TypeOK
    <3> QED
      BY <3>1, Zenon DEF Held
  <2> SUFFICES ASSUME NEW e \in created', e # c
               PROVE  \/ InPool(e)'
                      \/ \E u \in Threads : Held(u, e)'
                      \/ \E d \in Buffers : chunkOf'[d] = e
    BY <2>3, Zenon DEF NothingLost
  <2>4. e \in created /\ e # NoChunk
    BY <1>0, <2>2, SendBufferAssumption, Zenon DEF TypeOK
  <2>5. ASSUME NEW u \in Threads, Held(u, e) PROVE Held(u, e)'
    <3>1. popped[u] = e => popped'[u] = e
      BY <1>0, <2>1, <2>2, <2>4, SMT DEF TypeOK
    <3> QED
      BY <2>1, <2>5, <3>1, Zenon DEF Held
  <2>6. CASE InPool(e)
    <3>1. PICK i \in 1 .. Len(sendBufferChunks) : sendBufferChunks[i] = e
      BY <2>6, Zenon DEF InPool
    <3>2. CASE UNCHANGED sendBufferChunks
      BY <2>6, <3>2, Zenon DEF InPool
    <3>3. CASE ~UNCHANGED sendBufferChunks
      <4>1. /\ Len(sendBufferChunks) \in Nat \ {0}
            /\ Len(sendBufferChunks') = Len(sendBufferChunks) - 1
            /\ c = sendBufferChunks[Len(sendBufferChunks)]
            /\ \A j \in 1 .. Len(sendBufferChunks) - 1 :
                 sendBufferChunks'[j] = sendBufferChunks[j]
        BY <2>2, <3>3, Zenon
      <4>2. i # Len(sendBufferChunks)
        BY <3>1, <4>1, Zenon
      <4>3. i \in 1 .. Len(sendBufferChunks) - 1
        BY <4>1, <4>2, SMT
      <4> QED
        BY <3>1, <4>1, <4>3, Zenon DEF InPool
    <3> QED
      BY <3>2, <3>3
  <2> QED
    BY <2>1, <2>4, <2>5, <2>6, Zenon DEF NothingLost
<1>3. ASSUME NEW t \in Threads, Replace(t) PROVE NothingLost'
  <2>0. PICK old : old = currentChunk[t]
    OBVIOUS
  <2>1. /\ abandoned[t] = NoChunk
        /\ currentChunk' = [currentChunk EXCEPT ![t] = popped[t]]
        /\ popped' = [popped EXCEPT ![t] = NoChunk]
        /\ UNCHANGED <<chunkOf, sendBufferChunks, created>>
    BY <1>0, <1>3, Zenon DEF Replace, Goto, bufferVars, poolVars, Stages, At
  <2>2. \/ /\ old # NoChunk /\ ChunkLeft(old, {t}, {})
           /\ abandoned' = [abandoned EXCEPT ![t] = old]
        \/ /\ old = NoChunk \/ ~ChunkLeft(old, {t}, {})
           /\ abandoned' = [abandoned EXCEPT ![t] = NoChunk]
    BY <1>3, <2>0, Zenon DEF Replace
  <2> SUFFICES ASSUME NEW e \in created
               PROVE  \/ InPool(e)'
                      \/ \E u \in Threads : Held(u, e)'
                      \/ \E d \in Buffers : chunkOf'[d] = e
    BY <2>1, Zenon DEF NothingLost
  <2>3. e # NoChunk
    BY <1>0, SendBufferAssumption, Zenon DEF TypeOK
  <2>4. CASE InPool(e)
    BY <2>1, <2>4, Zenon DEF InPool
  <2>5. ASSUME NEW d \in Buffers, chunkOf[d] = e PROVE chunkOf'[d] = e
    BY <2>1, <2>5, Zenon
  <2>6. ASSUME NEW u \in Threads, u # t, Held(u, e) PROVE Held(u, e)'
    BY <1>0, <2>1, <2>2, <2>6, SMT DEF Held, TypeOK
  <2>7. CASE popped[t] = e
    <3>1. currentChunk'[t] = e
      BY <1>0, <2>1, <2>7, SMT DEF TypeOK
    <3> QED
      BY <3>1, Zenon DEF Held
  <2>8. CASE old = e
    <3>1. CASE ChunkLeft(old, {t}, {})
      <4>1. abandoned' = [abandoned EXCEPT ![t] = old]
        BY <2>2, <2>3, <2>8, <3>1, Zenon
      <4>2. abandoned'[t] = e
        BY <1>0, <2>8, <4>1, SMT DEF TypeOK
      <4> QED
        BY <4>2, Zenon DEF Held
    <3>2. CASE ~ChunkLeft(old, {t}, {})
      <4>1. CASE \E u \in Threads \ {t} : currentChunk[u] = e
        BY <2>6, <4>1, Zenon DEF Held
      <4>2. CASE \E d \in Buffers : chunkOf[d] = e
        BY <2>5, <4>2, Zenon
      <4> QED
        BY <2>8, <3>2, <4>1, <4>2, Zenon DEF ChunkLeft
    <3> QED
      BY <3>1, <3>2
  <2>9. CASE Held(t, e)
    BY <2>0, <2>1, <2>3, <2>7, <2>8, <2>9, Zenon DEF Held
  <2> QED
    BY <2>4, <2>5, <2>6, <2>9, Zenon DEF NothingLost
<1>4. ASSUME NEW t \in Threads, Allocate(t) PROVE NothingLost'
  <2>1. buffer[t] \in Buffers /\ chunkOf[buffer[t]] = NoChunk
    BY <1>0, <1>4, Zenon DEF Allocate, Stages, At, Unallocated
  <2>2. /\ chunkOf' = [chunkOf EXCEPT ![buffer[t]] = currentChunk[t]]
        /\ UNCHANGED <<sendBufferChunks, created, currentChunk, popped, abandoned>>
    BY <1>4, Zenon DEF Allocate, poolVars
  <2>3. \A c \in created, b \in Buffers : chunkOf[b] = c => chunkOf'[b] = c
    BY <1>0, <2>1, <2>2, SendBufferAssumption, SMT DEF TypeOK
  <2> QED
    BY <2>2, <2>3, SameChunks, Zenon DEF InPool, Held
<1>5. ASSUME NEW t \in Threads, AllocateFails(t) PROVE NothingLost'
  BY <1>5, SameChunks, Zenon DEF AllocateFails, bufferVars, poolVars, threadVars, InPool, Held
<1>6. ASSUME NEW t \in Threads, WriteAndClose(t) PROVE NothingLost'
  BY <1>6, SameChunks, Zenon DEF WriteAndClose, poolVars, threadVars, InPool, Held
<1>7. ASSUME NEW t \in Threads, Send(t) PROVE NothingLost'
  BY <1>7, SameChunks, Zenon DEF Send, poolVars, threadVars, InPool, Held
<1>8. ASSUME NEW t \in Threads, Drop(t) PROVE NothingLost'
  <2>1. buffer[t] \in Buffers /\ chunkOf[buffer[t]] # NoChunk /\ abandoned[t] = NoChunk
    BY <1>0, <1>8, Zenon DEF Drop, Stages, At, Allocated
  <2> QED
    BY <1>0, <1>8, <2>1, ReleaseKeeps, Zenon DEF Drop, poolVars
<1>9. ASSUME NEW t \in Threads, NEW b \in Buffers, SendDone(t, b) PROVE NothingLost'
  <2>1. chunkOf[b] # NoChunk /\ abandoned[t] = NoChunk
    BY <1>0, <1>9, Zenon DEF SendDone, Stages, At, OwnBuffers
  <2> QED
    BY <1>0, <1>9, <2>1, ReleaseKeeps, Zenon DEF SendDone, poolVars
<1>10. ASSUME NEW t \in Threads, PushGlobal(t) PROVE NothingLost'
  <2>0. PICK c : c = abandoned[t]
    OBVIOUS
  <2>1. /\ sendBufferChunks' = Append(sendBufferChunks, c)
        /\ abandoned' = [abandoned EXCEPT ![t] = NoChunk]
        /\ UNCHANGED <<chunkOf, created, currentChunk, popped>>
    BY <1>10, <2>0, Zenon DEF PushGlobal, Push, bufferVars
  <2>2. c \in Chunks /\ sendBufferChunks \in Seq(Chunks)
    BY <1>0, <1>10, <2>0, Zenon DEF PushGlobal, Goto, Stages, At, TypeOK
  <2>3. /\ Len(sendBufferChunks') = Len(sendBufferChunks) + 1
        /\ \A i \in 1 .. Len(sendBufferChunks) : sendBufferChunks'[i] = sendBufferChunks[i]
        /\ sendBufferChunks'[Len(sendBufferChunks) + 1] = c
        /\ Len(sendBufferChunks) \in Nat
    BY <2>1, <2>2, AppendProperties, LenProperties
  <2>4. /\ Len(sendBufferChunks) + 1 \in 1 .. Len(sendBufferChunks')
        /\ \A i \in 1 .. Len(sendBufferChunks) : i \in 1 .. Len(sendBufferChunks')
    BY <2>3, SMT
  <2>5. InPool(c)'
    BY <2>3, <2>4, Zenon DEF InPool
  <2>6. \A e : InPool(e) => InPool(e)'
    BY <2>3, <2>4, Zenon DEF InPool
  <2>7. \A u \in Threads : abandoned'[u] = abandoned[u] \/ abandoned[u] = c
    BY <1>0, <2>0, <2>1, SMT DEF TypeOK
  <2> SUFFICES ASSUME NEW e \in created, e # c
               PROVE  \/ InPool(e)'
                      \/ \E u \in Threads : Held(u, e)'
                      \/ \E d \in Buffers : chunkOf'[d] = e
    BY <2>1, <2>5, Zenon DEF NothingLost
  <2>8. ASSUME NEW u \in Threads, Held(u, e) PROVE Held(u, e)'
    BY <2>1, <2>7, <2>8, Zenon DEF Held
  <2> QED
    BY <2>1, <2>6, <2>8, Zenon DEF NothingLost
<1>11. CASE UNCHANGED vars
  BY <1>11, SameChunks, Zenon DEF vars, bufferVars, poolVars, threadVars, InPool, Held
<1> QED
  BY <1>1, <1>2, <1>3, <1>4, <1>5, <1>6, <1>7, <1>8, <1>9, <1>10, <1>11, NextCases, Zenon

\* A chunk is in the pool, once, or somebody refers to it, and never both.
THEOREM PoolIsExact == Spec => []PoolExact
<1>1. Init => NothingLost
  BY Zenon DEF Init, NothingLost
<1>2. SendBufferInv /\ NothingLost => PoolExact
  BY Zenon DEF SendBufferInv, PoolExact
<1> QED
  BY <1>1, <1>2, SendBufferInvariant, NothingLostNext, PTL DEF Spec
-----------------------------------------------------------------------------
(***************************************************************************)
(* The pool implements BufferMemory.                                       *)
(***************************************************************************)

\* A buffer is not sent before it is closed.
WrittenUnsent == \A t \in Threads : pc[t] = "writing" => sessions[buffer[t]] = 0

\* That is so after every step.
LEMMA UnsentNext == SendBufferInv /\ WrittenUnsent /\ [Next]_vars => WrittenUnsent'
<1> SUFFICES ASSUME SendBufferInv, WrittenUnsent, [Next]_vars PROVE WrittenUnsent'
  OBVIOUS
<1>0. TypeOK /\ Stages /\ OwnBuffers
  BY Zenon DEF SendBufferInv
<1> SUFFICES ASSUME NEW u \in Threads, pc'[u] = "writing" PROVE sessions'[buffer'[u]] = 0
  BY Zenon DEF WrittenUnsent
<1>a. pc[u] = "writing" => buffer[u] \in Buffers /\ sessions[buffer[u]] = 0
  BY <1>0, Zenon DEF WrittenUnsent, Stages, At, Allocated
<1>b. ASSUME pc[u] = "writing", buffer'[u] = buffer[u], UNCHANGED sessions
      PROVE  sessions'[buffer'[u]] = 0
  BY <1>a, <1>b, Zenon
<1>1. ASSUME NEW t \in Threads, Open(t) PROVE sessions'[buffer'[u]] = 0
  BY <1>0, <1>1, <1>b, SMT DEF Open, Goto, bufferVars, TypeOK
<1>2. ASSUME NEW t \in Threads, Pop(t) PROVE sessions'[buffer'[u]] = 0
  BY <1>0, <1>2, <1>b, SMT DEF Pop, Goto, bufferVars, TypeOK
<1>3. ASSUME NEW t \in Threads, Replace(t) PROVE sessions'[buffer'[u]] = 0
  BY <1>0, <1>3, <1>b, SMT DEF Replace, Goto, bufferVars, TypeOK
<1>4. ASSUME NEW t \in Threads, Allocate(t) PROVE sessions'[buffer'[u]] = 0
  <2>1. sessions[buffer[t]] = 0 /\ UNCHANGED <<sessions, buffer>>
    BY <1>0, <1>4, Zenon DEF Allocate, Stages, At, Unallocated
  <2>2. u # t => pc[u] = "writing"
    BY <1>0, <1>4, SMT DEF Allocate, TypeOK
  <2> QED
    BY <1>a, <2>1, <2>2, Zenon
<1>5. ASSUME NEW t \in Threads, AllocateFails(t) PROVE sessions'[buffer'[u]] = 0
  BY <1>5, <1>b, Zenon DEF AllocateFails, bufferVars, threadVars
<1>6. ASSUME NEW t \in Threads, WriteAndClose(t) PROVE sessions'[buffer'[u]] = 0
  BY <1>0, <1>6, <1>b, SMT DEF WriteAndClose, Goto, threadVars, TypeOK
<1>7. ASSUME NEW t \in Threads, Send(t) PROVE sessions'[buffer'[u]] = 0
  <2>1. /\ pc[t] = "sending" /\ pc[u] = "writing" /\ UNCHANGED buffer
        /\ sessions' = [sessions EXCEPT ![buffer[t]] = @ + 1]
    BY <1>7, Zenon DEF Send, threadVars
  <2>2. buffer[u] \in Buffers /\ sessions[buffer[u]] = 0 /\ u # t
    BY <1>a, <2>1
  <2>3. buffer[u] # buffer[t]
    BY <1>0, <2>2, Zenon DEF OwnBuffers
  <2> QED
    BY <1>0, <2>1, <2>2, <2>3, SMT DEF TypeOK
<1>8. ASSUME NEW t \in Threads, Drop(t) PROVE sessions'[buffer'[u]] = 0
  <2>1. /\ pc[t] = "sending" /\ buffer' = [buffer EXCEPT ![t] = NoBuffer]
        /\ Released(t, buffer[t], sessions[buffer[t]] = 0, "run")
        /\ UNCHANGED sessions
    BY <1>0, <1>8, DropCases
  <2>2. u # t /\ pc[u] = "writing"
    BY <1>0, <2>1, SMT DEF Released, GoesOn, Emptied, TypeOK
  <2>3. buffer'[u] = buffer[u]
    BY <1>0, <2>1, <2>2, SMT DEF TypeOK
  <2> QED
    BY <1>b, <2>1, <2>2, <2>3
<1>9. ASSUME NEW t \in Threads, NEW b \in Buffers, SendDone(t, b)
      PROVE  sessions'[buffer'[u]] = 0
  <2>1. /\ pc[t] \in {"run", "sending"} /\ sessions[b] > 0
        /\ sessions' = [sessions EXCEPT ![b] = @ - 1]
        /\ Released(t, b, sessions[b] = 1 /\ \A w \in Threads : buffer[w] # b, pc[t])
        /\ UNCHANGED buffer
    BY <1>0, <1>9, SendDoneCases
  <2>2. pc[u] = "writing"
    BY <1>0, <2>1, SMT DEF Released, GoesOn, Emptied, TypeOK
  <2>3. buffer[u] \in Buffers /\ buffer[u] # b
    BY <1>a, <2>1, <2>2, SMT
  <2> QED
    BY <1>0, <1>a, <2>1, <2>2, <2>3, SMT DEF TypeOK
<1>10. ASSUME NEW t \in Threads, PushGlobal(t) PROVE sessions'[buffer'[u]] = 0
  <2>1. pc[u] = "writing"
    BY <1>0, <1>10, SMT DEF PushGlobal, Goto, Interrupted, TypeOK
  <2> QED
    BY <1>10, <1>b, <2>1, Zenon DEF PushGlobal, bufferVars
<1>11. CASE UNCHANGED vars
  BY <1>11, <1>b, Zenon DEF vars, bufferVars, threadVars
<1> QED
  BY <1>1, <1>2, <1>3, <1>4, <1>5, <1>6, <1>7, <1>8, <1>9, <1>10, <1>11, NextCases, Zenon

\* Whoever has a buffer: its caller, and so many sessions.
LEMMA RefsType ==
  ASSUME TypeOK, NEW b \in Buffers
  PROVE  sessions[b] \in Nat /\ Refs(b) \in Nat
BY SendBufferAssumption, SMT DEF Refs, TypeOK

\* To change the mapped state of one buffer is to change the mapped state there.
LEMMA PhaseChanges ==
  ASSUME NEW b \in Buffers, NEW to, Phase(b)' = to,
         \A d \in Buffers \ {b} : Phase(d)' = Phase(d)
  PROVE  Phases' = [Phases EXCEPT ![b] = to]
<1> HIDE DEF Phase
<1> QED
  BY Zenon DEF Phases

\* Likewise for the cells ...
LEMMA CellsChange ==
  ASSUME NEW b \in Buffers, NEW to, CellsOf(b)' = to,
         \A d \in Buffers \ {b} : CellsOf(d)' = CellsOf(d)
  PROVE  AllCells' = [AllCells EXCEPT ![b] = to]
<1> HIDE DEF CellsOf
<1> QED
  BY Zenon DEF AllCells

\* ... and for the number of those who have it.
LEMMA RefsChange ==
  ASSUME NEW b \in Buffers, NEW to, Refs(b)' = to,
         \A d \in Buffers \ {b} : Refs(d)' = Refs(d)
  PROVE  AllRefs' = [AllRefs EXCEPT ![b] = to]
<1> HIDE DEF Refs
<1> QED
  BY Zenon DEF AllRefs

\* Nothing changes if nothing does for any buffer.
LEMMA MemoryStutters ==
  ASSUME \A b \in Buffers :
           Phase(b)' = Phase(b) /\ CellsOf(b)' = CellsOf(b) /\ Refs(b)' = Refs(b)
  PROVE  UNCHANGED Memory!vars
<1> HIDE DEF Phase, CellsOf, Refs
<1>1. Phases' = Phases
  BY Zenon DEF Phases
<1>2. AllCells' = AllCells
  BY Zenon DEF AllCells
<1>3. AllRefs' = AllRefs
  BY Zenon DEF AllRefs
<1> QED
  BY <1>1, <1>2, <1>3, Zenon DEF Memory!vars

\* A buffer that nothing happens to is mapped as before.
LEMMA SameBuffer ==
  ASSUME NEW b,
         /\ chunkOf'[b] = chunkOf[b] /\ start'[b] = start[b] /\ size'[b] = size[b]
         /\ sessions'[b] = sessions[b],
         chunkOf[b] # NoChunk =>
           /\ Written(b)' <=> Written(b)
           /\ (\E t \in Threads : buffer'[t] = b) <=> (\E t \in Threads : buffer[t] = b)
  PROVE  Phase(b)' = Phase(b) /\ CellsOf(b)' = CellsOf(b) /\ Refs(b)' = Refs(b)
<1> HIDE DEF Written
<1>1. Phase(b)' = Phase(b)
  BY Zenon DEF Phase
<1>2. CellsOf(b)' = CellsOf(b)
  BY Zenon DEF CellsOf
<1>3. Refs(b)' = Refs(b)
  <2>1. CASE chunkOf[b] = NoChunk
    BY <2>1, Zenon DEF Refs
  <2>2. CASE chunkOf[b] # NoChunk /\ \E t \in Threads : buffer[t] = b
    <3>1. \E t \in Threads : buffer'[t] = b
      BY <2>2, Zenon
    <3> QED
      BY <2>2, <3>1, Zenon DEF Refs
  <2>3. CASE chunkOf[b] # NoChunk /\ ~\E t \in Threads : buffer[t] = b
    <3>1. ~\E t \in Threads : buffer'[t] = b
      BY <2>3, Zenon
    <3> QED
      BY <2>3, <3>1, Zenon DEF Refs
  <2> QED
    BY <2>1, <2>2, <2>3
<1> QED
  BY <1>1, <1>2, <1>3

\* Intervals that are apart, or of different chunks, have no cell in common.
LEMMA IntervalsApart ==
  ASSUME NEW c, NEW i \in Int, NEW m \in Int, NEW d, NEW j \in Int, NEW n \in Int,
         c = d => i + m <= j \/ j + n <= i
  PROVE  ({c} \X (i .. i + m - 1)) \cap ({d} \X (j .. j + n - 1)) = {}
<1> SUFFICES ASSUME NEW cell, cell \in {c} \X (i .. i + m - 1),
                    cell \in {d} \X (j .. j + n - 1)
             PROVE  FALSE
  OBVIOUS
<1>1. cell[1] = c /\ cell[2] \in i .. i + m - 1
  BY SMT
<1>2. cell[1] = d /\ cell[2] \in j .. j + n - 1
  BY SMT
<1> QED
  BY <1>1, <1>2, SMT

\* How far the caller of a buffer has come.
LEMMA CallersBuffer ==
  ASSUME TypeOK, Stages, OwnBuffers, NEW t \in Threads, NEW b \in Buffers, buffer[t] = b,
         chunkOf[b] # NoChunk
  PROVE  /\ \E u \in Threads : buffer[u] = b
         /\ Written(b) <=> pc[t] = "writing"
         /\ \A u \in Threads : u # t => buffer[u] # b
<1>1. \A u \in Threads : u # t => buffer[u] # b
  BY Zenon DEF OwnBuffers
<1> QED
  BY <1>1, Zenon DEF Written

\* Open is a step of the memory: the cells are those behind what is used of the chunk.
LEMMA AllocateOpens ==
  ASSUME SendBufferInv, SendBufferInv', NEW t \in Threads, Allocate(t)
  PROVE  Memory!Next
<1>0. TypeOK /\ Stages /\ OwnBuffers /\ TypeOK' /\ BuffersDisjoint' /\ Space'
  BY Zenon DEF SendBufferInv
<1>1. PICK c, b : c = currentChunk[t] /\ b = buffer[t]
  OBVIOUS
<1>2. /\ b \in Buffers /\ c \in Chunks /\ chunkOf[b] = NoChunk /\ sessions[b] = 0
      /\ allocSize[t] \in 1 .. ChunkSize
      /\ pc[t] # "writing"
      /\ pc' = [pc EXCEPT ![t] = "writing"]
      /\ chunkOf' = [chunkOf EXCEPT ![b] = c]
      /\ start' = [start EXCEPT ![b] = usedSize[c]]
      /\ size' = [size EXCEPT ![b] = allocSize[t]]
      /\ UNCHANGED <<sessions, buffer>>
  BY <1>0, <1>1, Zenon DEF Allocate, NeedsChunk, Stages, At, Unallocated, Fresh, TypeOK
<1>3. chunkOf'[b] = c /\ start'[b] = usedSize[c] /\ size'[b] = allocSize[t]
      /\ sessions'[b] = 0 /\ buffer'[t] = b /\ pc'[t] = "writing" /\ c # NoChunk
  BY <1>0, <1>1, <1>2, SendBufferAssumption, SMT DEF TypeOK
<1>4. Phase(b) = "free" /\ Phase(b)' = "written"
  BY <1>2, <1>3, Zenon DEF Phase, Written
<1>5. Refs(b)' = 1
  BY <1>3, SMT DEF Refs
<1>6. \A d \in Buffers \ {b} :
        Phase(d)' = Phase(d) /\ CellsOf(d)' = CellsOf(d) /\ Refs(d)' = Refs(d)
  <2> SUFFICES ASSUME NEW d \in Buffers \ {b}
               PROVE  Phase(d)' = Phase(d) /\ CellsOf(d)' = CellsOf(d) /\ Refs(d)' = Refs(d)
    OBVIOUS
  <2>1. /\ chunkOf'[d] = chunkOf[d] /\ start'[d] = start[d] /\ size'[d] = size[d]
        /\ sessions'[d] = sessions[d]
    BY <1>0, <1>2, SMT DEF TypeOK
  <2>2. Written(d)' <=> Written(d)
    BY <1>0, <1>1, <1>2, SMT DEF Written, TypeOK
  <2> QED
    BY <1>2, <2>1, <2>2, SameBuffer, Zenon
<1>7. /\ CellsOf(b)' \in SUBSET (Chunks \X (0 .. ChunkSize - 1))
      /\ CellsOf(b)' # {}
  <2>1. CellsOf(b)' = {c} \X (usedSize[c] .. usedSize[c] + allocSize[t] - 1)
    BY <1>3, Zenon DEF CellsOf
  <2>2. usedSize[c] \in Nat /\ usedSize[c] + allocSize[t] <= ChunkSize /\ ChunkSize \in Nat
    BY <1>0, <1>2, <1>3, SendBufferAssumption, SMT DEF Space, Fits, TypeOK
  <2>3. usedSize[c] \in usedSize[c] .. usedSize[c] + allocSize[t] - 1
    BY <1>2, <2>2, SMT
  <2>4. usedSize[c] .. usedSize[c] + allocSize[t] - 1 \subseteq 0 .. ChunkSize - 1
    BY <1>2, <2>2, SMT
  <2>5. <<c, usedSize[c]>> \in CellsOf(b)'
    BY <2>1, <2>3, SMT
  <2>6. CellsOf(b)' \subseteq Chunks \X (0 .. ChunkSize - 1)
    BY <1>2, <2>1, <2>4, SMT
  <2> QED
    BY <2>5, <2>6, Zenon
<1>8. \A d \in Buffers \ {b} : CellsOf(b)' \cap AllCells[d] = {}
  <2> SUFFICES ASSUME NEW d \in Buffers \ {b} PROVE CellsOf(b)' \cap AllCells[d] = {}
    OBVIOUS
  <2>1. CellsOf(b)' \cap CellsOf(d)' = {}
    <3>1. CASE chunkOf'[d] = NoChunk
      BY <3>1, Zenon DEF CellsOf
    <3>2. CASE chunkOf'[d] # NoChunk
      <4>1. /\ start'[b] \in Int /\ size'[b] \in Int
            /\ start'[d] \in Int /\ size'[d] \in Int
        BY <1>0, <1>2, SMT DEF TypeOK
      <4>2. chunkOf'[b] = chunkOf'[d] =>
              start'[b] + size'[b] <= start'[d] \/ start'[d] + size'[d] <= start'[b]
        BY <1>0, <1>2, <3>2, Zenon DEF BuffersDisjoint
      <4>3. ({chunkOf'[b]} \X (start'[b] .. start'[b] + size'[b] - 1))
              \cap ({chunkOf'[d]} \X (start'[d] .. start'[d] + size'[d] - 1)) = {}
        BY <4>1, <4>2, IntervalsApart
      <4> QED
        BY <1>3, <3>2, <4>3, Zenon DEF CellsOf
    <3> QED
      BY <3>1, <3>2
  <2>2. AllCells[d] = CellsOf(d) /\ CellsOf(d)' = CellsOf(d)
    BY <1>6, Zenon DEF AllCells
  <2> QED
    BY <2>1, <2>2, Zenon
<1> HIDE DEF Phase, CellsOf, Refs
<1>9. Phases' = [Phases EXCEPT ![b] = "written"]
  BY <1>2, <1>4, <1>6, PhaseChanges
<1>10. AllCells' = [AllCells EXCEPT ![b] = CellsOf(b)']
  BY <1>2, <1>6, CellsChange
<1>11. AllRefs' = [AllRefs EXCEPT ![b] = 1]
  BY <1>2, <1>5, <1>6, RefsChange
<1>12. Phases[b] = "free"
  BY <1>2, <1>4, Zenon DEF Phases
<1>13. Memory!Open(b)
  BY <1>7, <1>8, <1>9, <1>10, <1>11, <1>12, Zenon DEF Memory!Open, Memory!Becomes, Memory!Keeps
<1> QED
  BY <1>2, <1>13, Zenon DEF Memory!Next

\* So is Close.
LEMMA CloseCloses ==
  ASSUME SendBufferInv, NEW t \in Threads, WriteAndClose(t)
  PROVE  Memory!Next
<1>0. TypeOK /\ Stages /\ OwnBuffers
  BY Zenon DEF SendBufferInv
<1>1. PICK b : b = buffer[t]
  OBVIOUS
<1>2. /\ b \in Buffers /\ chunkOf[b] # NoChunk /\ pc[t] = "writing"
      /\ pc' = [pc EXCEPT ![t] = "sending"]
      /\ UNCHANGED <<chunkOf, start, sessions, buffer>>
  BY <1>0, <1>1, Zenon DEF WriteAndClose, Goto, threadVars, Stages, At, Allocated
<1>3. PICK n \in 1 .. size[b] : size' = [size EXCEPT ![b] = n]
  BY <1>1, Zenon DEF WriteAndClose
<1>4. /\ \A u \in Threads : u # t => buffer[u] # b
      /\ Written(b)
      /\ \E u \in Threads : buffer[u] = b
  BY <1>0, <1>1, <1>2, CallersBuffer
<1>5. ~Written(b)'
  BY <1>0, <1>2, <1>4, SMT DEF Written, TypeOK
<1>6. Phase(b) = "written" /\ Phase(b)' = "closed"
  BY <1>2, <1>4, <1>5, Zenon DEF Phase
<1>7. \A d \in Buffers : Refs(d)' = Refs(d)
  BY <1>2, Zenon DEF Refs
<1>8. \A d \in Buffers \ {b} : Phase(d)' = Phase(d) /\ CellsOf(d)' = CellsOf(d)
  <2> SUFFICES ASSUME NEW d \in Buffers \ {b}
               PROVE  Phase(d)' = Phase(d) /\ CellsOf(d)' = CellsOf(d)
    OBVIOUS
  <2>1. size'[d] = size[d]
    BY <1>0, <1>3, SMT DEF TypeOK
  <2>2. Written(d)' <=> Written(d)
    BY <1>0, <1>1, <1>2, SMT DEF Written, TypeOK
  <2> QED
    BY <1>2, <2>1, <2>2, SameBuffer, Zenon
<1>9. CellsOf(b)' \in SUBSET CellsOf(b) /\ CellsOf(b)' # {}
  <2>1. /\ CellsOf(b) = {chunkOf[b]} \X (start[b] .. start[b] + size[b] - 1)
        /\ CellsOf(b)' = {chunkOf[b]} \X (start[b] .. start[b] + n - 1)
    <3>1. size'[b] = n
      BY <1>0, <1>2, <1>3, SMT DEF TypeOK
    <3> QED
      BY <1>2, <3>1, Zenon DEF CellsOf
  <2>2. start[b] \in Nat /\ size[b] \in Nat
    BY <1>0, <1>2, SendBufferAssumption, SMT DEF TypeOK
  <2>3. start[b] \in start[b] .. start[b] + n - 1
    BY <1>3, <2>2, SMT
  <2>4. start[b] .. start[b] + n - 1 \subseteq start[b] .. start[b] + size[b] - 1
    BY <1>3, <2>2, SMT
  <2>5. <<chunkOf[b], start[b]>> \in CellsOf(b)'
    BY <2>1, <2>3, SMT
  <2>6. CellsOf(b)' \subseteq CellsOf(b)
    BY <2>1, <2>4, SMT
  <2> QED
    BY <2>5, <2>6, Zenon
<1> HIDE DEF Phase, CellsOf, Refs
<1>10. Phases' = [Phases EXCEPT ![b] = "closed"]
  BY <1>2, <1>6, <1>8, PhaseChanges
<1>11. AllCells' = [AllCells EXCEPT ![b] = CellsOf(b)']
  BY <1>2, <1>8, CellsChange
<1>12. UNCHANGED AllRefs
  BY <1>7, Zenon DEF AllRefs
<1>13. Phases[b] = "written" /\ AllCells[b] = CellsOf(b)
  BY <1>2, <1>6, Zenon DEF Phases, AllCells
<1>14. Memory!Close(b)
  BY <1>9, <1>10, <1>11, <1>12, <1>13, Zenon DEF Memory!Close, Memory!Becomes, Memory!Keeps
<1> QED
  BY <1>2, <1>14, Zenon DEF Memory!Next

\* A session that keeps a reference shares the buffer.
LEMMA SendShares ==
  ASSUME SendBufferInv, NEW t \in Threads, Send(t)
  PROVE  Memory!Next
<1>0. TypeOK /\ Stages /\ OwnBuffers
  BY Zenon DEF SendBufferInv
<1>1. PICK b : b = buffer[t]
  OBVIOUS
<1>2. /\ b \in Buffers /\ chunkOf[b] # NoChunk /\ pc[t] = "sending"
      /\ sessions' = [sessions EXCEPT ![b] = @ + 1]
      /\ UNCHANGED <<chunkOf, start, size, buffer, pc>>
  BY <1>0, <1>1, Zenon DEF Send, threadVars, Stages, At, Allocated
<1>3. ~Written(b) /\ \E u \in Threads : buffer[u] = b
  BY <1>0, <1>1, <1>2, CallersBuffer
<1>4. sessions[b] \in Nat /\ sessions'[b] = sessions[b] + 1
  BY <1>0, <1>2, RefsType, SMT DEF TypeOK
<1>5. Refs(b) = sessions[b] + 1 /\ Refs(b)' = Refs(b) + 1
  BY <1>2, <1>3, <1>4, Zenon DEF Refs
<1>6. Refs(b) > 0
  BY <1>4, <1>5, SMT
<1>7. Phase(b) = "closed"
  BY <1>2, <1>3, Zenon DEF Phase
<1>8. \A d \in Buffers : Phase(d)' = Phase(d) /\ CellsOf(d)' = CellsOf(d)
  BY <1>2, Zenon DEF Phase, CellsOf, Written
<1>9. \A d \in Buffers \ {b} : Refs(d)' = Refs(d)
  <2> SUFFICES ASSUME NEW d \in Buffers \ {b} PROVE Refs(d)' = Refs(d)
    OBVIOUS
  <2>1. sessions'[d] = sessions[d]
    BY <1>0, <1>2, SMT DEF TypeOK
  <2> QED
    BY <1>2, <1>8, <2>1, SameBuffer, Zenon DEF Written
<1> HIDE DEF Phase, CellsOf, Refs
<1>10. AllRefs' = [AllRefs EXCEPT ![b] = Refs(b) + 1]
  BY <1>2, <1>5, <1>9, RefsChange
<1>11. UNCHANGED <<Phases, AllCells>>
  BY <1>8, Zenon DEF Phases, AllCells
<1>12. Phases[b] = "closed" /\ AllRefs[b] = Refs(b)
  BY <1>2, <1>7, Zenon DEF Phases, AllRefs
<1>13. Memory!Share(b)
  BY <1>6, <1>10, <1>11, <1>12, Zenon DEF Memory!Share
<1> QED
  BY <1>2, <1>13, Zenon DEF Memory!Next

\* Who lets go of a closed buffer lets go of its memory if and only if he is the last.
LEMMA ReleaseLetsGo ==
  ASSUME TypeOK, NEW t \in Threads, NEW b \in Buffers, NEW last \in BOOLEAN, NEW then,
         Released(t, b, last, then),
         Phase(b) = "closed", Refs(b) \in Nat, last <=> Refs(b) = 1, Refs(b) > 0,
         ~last => Refs(b)' = Refs(b) - 1,
         last => sessions'[b] = 0,
         \A d \in Buffers : chunkOf[d] # NoChunk => (Written(d)' <=> Written(d)),
         \A d \in Buffers \ {b} :
           /\ sessions'[d] = sessions[d]
           /\ (\E u \in Threads : buffer'[u] = d) <=> (\E u \in Threads : buffer[u] = d)
  PROVE  Memory!Next
<1>1. \A d \in Buffers \ {b} :
        Phase(d)' = Phase(d) /\ CellsOf(d)' = CellsOf(d) /\ Refs(d)' = Refs(d)
  <2> SUFFICES ASSUME NEW d \in Buffers \ {b}
               PROVE  Phase(d)' = Phase(d) /\ CellsOf(d)' = CellsOf(d) /\ Refs(d)' = Refs(d)
    OBVIOUS
  <2>1. chunkOf'[d] = chunkOf[d] /\ start'[d] = start[d] /\ size'[d] = size[d]
    <3>1. UNCHANGED <<chunkOf, start, size>> \/ Freed(b)
      BY Zenon DEF Released
    <3> QED
      BY <3>1, SMT DEF Freed, TypeOK
  <2> HIDE DEF Written
  <2> QED
    BY <2>1, SameBuffer, Zenon
<1>2. Refs(b)' = Refs(b) - 1
  <2>1. CASE last
    <3>1. chunkOf'[b] = NoChunk
      BY <2>1, SMT DEF Released, Freed, TypeOK
    <3>2. Refs(b)' = 0
      BY <2>1, <3>1, Zenon DEF Refs
    <3>3. Refs(b) - 1 = 0
      <4> HIDE DEF Refs
      <4> QED
        BY <2>1, SMT
    <3> QED
      BY <3>2, <3>3
  <2> QED
    BY <2>1, Zenon
<1>3. AllRefs' = [AllRefs EXCEPT ![b] = Refs(b) - 1]
  <2> HIDE DEF Phase, CellsOf, Refs
  <2> QED
    BY <1>1, <1>2, RefsChange
<1>4. Phases[b] = "closed" /\ AllRefs[b] = Refs(b)
  BY Zenon DEF Phases, AllRefs
<1>5. CASE last
  <2>1. chunkOf'[b] = NoChunk
    BY <1>5, SMT DEF Released, Freed, TypeOK
  <2>2. Phase(b)' = "free" /\ CellsOf(b)' = {}
    BY <2>1, Zenon DEF Phase, CellsOf
  <2> HIDE DEF Phase, CellsOf, Refs
  <2>3. Phases' = [Phases EXCEPT ![b] = "free"]
    BY <1>1, <2>2, PhaseChanges
  <2>4. AllCells' = [AllCells EXCEPT ![b] = {}]
    BY <1>1, <2>2, CellsChange
  <2>5. Memory!LetGo(b)
    BY <1>3, <1>4, <1>5, <2>3, <2>4, Zenon DEF Memory!LetGo, Memory!Becomes, Memory!Keeps
  <2> QED
    BY <2>5, Zenon DEF Memory!Next
<1>6. CASE ~last
  <2>1. UNCHANGED <<chunkOf, start, size>>
    BY <1>6, Zenon DEF Released
  <2>2. Phase(b)' = Phase(b) /\ CellsOf(b)' = CellsOf(b)
    BY <2>1, Zenon DEF Phase, CellsOf
  <2> HIDE DEF Phase, CellsOf, Refs
  <2>3. UNCHANGED <<Phases, AllCells>>
    <3>1. \A d \in Buffers : Phase(d)' = Phase(d) /\ CellsOf(d)' = CellsOf(d)
      BY <1>1, <2>2, Zenon
    <3> QED
      BY <3>1, Zenon DEF Phases, AllCells
  <2>4. Refs(b) > 1
    BY <1>6, SMT
  <2>5. Memory!LetGo(b)
    BY <1>3, <1>4, <2>3, <2>4, Zenon DEF Memory!LetGo
  <2> QED
    BY <2>5, Zenon DEF Memory!Next
<1> QED
  BY <1>5, <1>6

\* The caller lets go.
LEMMA DropLetsGo ==
  ASSUME SendBufferInv, NEW t \in Threads, Drop(t)
  PROVE  Memory!Next
<1>0. TypeOK /\ Stages /\ OwnBuffers
  BY Zenon DEF SendBufferInv
<1>1. PICK b : b = buffer[t]
  OBVIOUS
<1>2. /\ pc[t] = "sending" /\ b \in Buffers /\ chunkOf[b] # NoChunk
      /\ buffer' = [buffer EXCEPT ![t] = NoBuffer]
      /\ Released(t, b, sessions[b] = 0, "run")
      /\ UNCHANGED sessions
  BY <1>0, <1>1, DropCases, Zenon
<1>3. /\ \E u \in Threads : buffer[u] = b
      /\ ~Written(b)
      /\ \A u \in Threads : u # t => buffer[u] # b
  BY <1>0, <1>1, <1>2, CallersBuffer
<1>4. Phase(b) = "closed"
  BY <1>2, <1>3, Zenon DEF Phase
<1>5. sessions[b] \in Nat /\ Refs(b) = sessions[b] + 1
  BY <1>0, <1>2, <1>3, RefsType, Zenon DEF Refs
<1>6. ~\E u \in Threads : buffer'[u] = b
  BY <1>0, <1>2, <1>3, SendBufferAssumption, SMT DEF TypeOK
<1>7. Refs(b)' = sessions[b]
  BY <1>2, <1>6, Zenon DEF Refs
<1>8. \A d \in Buffers \ {b} :
        (\E u \in Threads : buffer'[u] = d) <=> (\E u \in Threads : buffer[u] = d)
  <2>1. \A u \in Threads : u # t => buffer'[u] = buffer[u]
    BY <1>0, <1>2, SMT DEF TypeOK
  <2>2. buffer'[t] = NoBuffer
    BY <1>0, <1>2, SMT DEF TypeOK
  <2> QED
    BY <1>1, <2>1, <2>2, SendBufferAssumption, Zenon
<1>9. \A d \in Buffers : Written(d)' <=> Written(d)
  <2>1. \A u \in Threads : /\ pc'[u] = "writing" <=> pc[u] = "writing"
                           /\ pc[u] = "writing" => buffer'[u] = buffer[u]
    BY <1>0, <1>2, SMT DEF Released, GoesOn, Emptied, TypeOK
  <2> QED
    BY <2>1, Zenon DEF Written
<1>10. /\ Refs(b) \in Nat /\ Refs(b) > 0
       /\ (sessions[b] = 0) <=> Refs(b) = 1
       /\ Refs(b)' = Refs(b) - 1
  BY <1>5, <1>7, SMT
<1> HIDE DEF Phase, Refs, Written
<1> QED
  BY <1>0, <1>2, <1>4, <1>8, <1>9, <1>10, ReleaseLetsGo, Zenon

\* A session lets go.
LEMMA SendDoneLetsGo ==
  ASSUME SendBufferInv, WrittenUnsent, NEW t \in Threads, NEW b \in Buffers, SendDone(t, b)
  PROVE  Memory!Next
<1>0. TypeOK /\ Stages /\ OwnBuffers
  BY Zenon DEF SendBufferInv
<1>2. /\ pc[t] \in {"run", "sending"} /\ sessions[b] > 0 /\ chunkOf[b] # NoChunk
      /\ sessions' = [sessions EXCEPT ![b] = @ - 1]
      /\ Released(t, b, sessions[b] = 1 /\ \A u \in Threads : buffer[u] # b, pc[t])
      /\ UNCHANGED buffer
  BY <1>0, SendDoneCases
<1>3. sessions[b] \in Nat /\ sessions'[b] = sessions[b] - 1
  BY <1>0, <1>2, RefsType, SMT DEF TypeOK
<1>4. ~Written(b)
  BY <1>2, <1>3, SMT DEF Written, WrittenUnsent
<1>5. Phase(b) = "closed"
  BY <1>2, <1>4, Zenon DEF Phase
<1>6. \A d \in Buffers : Written(d)' <=> Written(d)
  <2>1. \A u \in Threads : pc'[u] = "writing" <=> pc[u] = "writing"
    BY <1>0, <1>2, SMT DEF Released, GoesOn, Emptied, TypeOK
  <2> QED
    BY <1>2, <2>1, Zenon DEF Written
<1>7. \A d \in Buffers \ {b} : sessions'[d] = sessions[d]
  BY <1>0, <1>2, SMT DEF TypeOK
<1>8. DEFINE last == sessions[b] = 1 /\ \A u \in Threads : buffer[u] # b
<1>9. /\ Refs(b) \in Nat /\ Refs(b) > 0
      /\ last <=> Refs(b) = 1
      /\ ~last => Refs(b)' = Refs(b) - 1
      /\ last => sessions'[b] = 0
  <2>1. CASE \E u \in Threads : buffer[u] = b
    <3>1. Refs(b) = sessions[b] + 1
      BY <1>2, <2>1, Zenon DEF Refs
    <3>2. ~last
      BY <2>1, Zenon
    <3>3. ~last => Refs(b)' = sessions'[b] + 1
      <4>1. ~last => UNCHANGED chunkOf
        BY <1>2, Zenon DEF Released
      <4> QED
        BY <1>2, <2>1, <4>1, Zenon DEF Refs
    <3> HIDE DEF last, Refs
    <3> QED
      BY <1>2, <1>3, <3>1, <3>2, <3>3, SMT
  <2>2. CASE ~\E u \in Threads : buffer[u] = b
    <3>1. Refs(b) = sessions[b] /\ Refs(b)' = sessions'[b]
      BY <1>2, <2>2, Zenon DEF Refs
    <3>2. last <=> sessions[b] = 1
      BY <2>2, Zenon
    <3> HIDE DEF last, Refs
    <3> QED
      BY <1>2, <1>3, <3>1, <3>2, SMT
  <2> QED
    BY <2>1, <2>2
<1>10. Released(t, b, last, pc[t]) /\ last \in BOOLEAN
  BY <1>2
<1>11. \A d \in Buffers :
         (\E u \in Threads : buffer'[u] = d) <=> (\E u \in Threads : buffer[u] = d)
  BY <1>2, Zenon
<1> HIDE DEF Phase, Refs, Written, last
<1> QED
  BY <1>0, <1>5, <1>6, <1>7, <1>9, <1>10, <1>11, ReleaseLetsGo, Zenon

\* Every step is one of the memory, or none.
LEMMA MemoryStep ==
  SendBufferInv /\ SendBufferInv' /\ WrittenUnsent /\ [Next]_vars => [Memory!Next]_(Memory!vars)
<1> SUFFICES ASSUME SendBufferInv, SendBufferInv', WrittenUnsent, [Next]_vars
             PROVE  Memory!Next \/ UNCHANGED Memory!vars
  OBVIOUS
<1>0. TypeOK /\ Stages
  BY Zenon DEF SendBufferInv
<1>1. ASSUME UNCHANGED bufferVars,
             \A b \in Buffers : chunkOf[b] # NoChunk =>
               /\ Written(b)' <=> Written(b)
               /\ (\E t \in Threads : buffer'[t] = b) <=> (\E t \in Threads : buffer[t] = b)
      PROVE  UNCHANGED Memory!vars
  <2>1. \A b \in Buffers : Phase(b)' = Phase(b) /\ CellsOf(b)' = CellsOf(b) /\ Refs(b)' = Refs(b)
    <3> HIDE DEF Written
    <3> QED
      BY <1>1, SameBuffer, Zenon DEF bufferVars
  <2> QED
    BY <2>1, MemoryStutters
<1>2. ASSUME UNCHANGED bufferVars, UNCHANGED buffer,
             \A t \in Threads : pc'[t] = "writing" <=> pc[t] = "writing"
      PROVE  UNCHANGED Memory!vars
  BY <1>1, <1>2, Zenon DEF Written
<1>3. ASSUME NEW t \in Threads, Open(t) PROVE UNCHANGED Memory!vars
  <2>1. PICK b \in Buffers : /\ chunkOf[b] = NoChunk /\ buffer' = [buffer EXCEPT ![t] = b]
                             /\ pc[t] = "run" /\ pc' = [pc EXCEPT ![t] = "open"]
    BY <1>3, Zenon DEF Open, Goto
  <2>2. buffer[t] = NoBuffer
    BY <1>0, <2>1, Zenon DEF Stages, At
  <2>3. \A d \in Buffers : d # b =>
          (\E u \in Threads : buffer'[u] = d) <=> (\E u \in Threads : buffer[u] = d)
    BY <1>0, <2>1, <2>2, SendBufferAssumption, SMT DEF TypeOK
  <2>4. \A d \in Buffers : Written(d)' <=> Written(d)
    <3>1. \A u \in Threads : /\ pc'[u] = "writing" <=> pc[u] = "writing"
                             /\ pc[u] = "writing" => buffer'[u] = buffer[u]
      BY <1>0, <2>1, SMT DEF TypeOK
    <3> QED
      BY <3>1, Zenon DEF Written
  <2> QED
    BY <1>1, <1>3, <2>1, <2>3, <2>4, Zenon DEF Open
<1>4. ASSUME NEW t \in Threads, Pop(t) PROVE UNCHANGED Memory!vars
  BY <1>0, <1>2, <1>4, SMT DEF Pop, Goto, TypeOK
<1>5. ASSUME NEW t \in Threads, Replace(t) PROVE UNCHANGED Memory!vars
  BY <1>0, <1>2, <1>5, SMT DEF Replace, Goto, TypeOK
<1>6. ASSUME NEW t \in Threads, AllocateFails(t) PROVE UNCHANGED Memory!vars
  BY <1>2, <1>6, Zenon DEF AllocateFails, threadVars
<1>7. ASSUME NEW t \in Threads, PushGlobal(t) PROVE UNCHANGED Memory!vars
  BY <1>0, <1>2, <1>7, SMT DEF PushGlobal, Goto, Interrupted, TypeOK
<1>8. CASE UNCHANGED vars
  BY <1>2, <1>8, Zenon DEF vars, threadVars
<1> QED
  BY <1>3, <1>4, <1>5, <1>6, <1>7, <1>8, AllocateOpens, CloseCloses, SendShares, DropLetsGo,
     SendDoneLetsGo, NextCases, Zenon

\* At first there is no memory to be had.
LEMMA MemoryInit == Init => Memory!Init
<1> SUFFICES ASSUME Init PROVE Memory!Init
  OBVIOUS
<1>1. \A b \in Buffers : Phase(b) = "free" /\ CellsOf(b) = {} /\ Refs(b) = 0
  BY Zenon DEF Init, Phase, CellsOf, Refs
<1> HIDE DEF Phase, CellsOf, Refs
<1> QED
  BY <1>1, Zenon DEF Memory!Init, Phases, AllCells, AllRefs

\* Chunks, pool and threads together are a memory whose buffers are apart, do not change
\* once they are shared, and last until the last who has one lets go.
THEOREM PoolImplementsMemory == Spec => ImplementsMemory
<1>1. Init => WrittenUnsent
  BY Zenon DEF Init, WrittenUnsent
<1> QED
  BY <1>1, SendBufferInvariant, UnsentNext, MemoryInit, MemoryStep, PTL
     DEF Spec, ImplementsMemory, Memory!Spec

-----------------------------------------------------------------------------
(***************************************************************************)
(* The SendBuffer objects themselves come from an ObjectPool, which shares *)
(* nothing with the chunks but the address space: for objects of any size  *)
(* and any choice of pages, memory is neither lost nor shared, and ends    *)
(* where pages end.                                                        *)
(***************************************************************************)
VARIABLES regions, objects, leaked, poolCrashed

Pool == INSTANCE ObjectPool WITH crashed <- poolCrashed

-----------------------------------------------------------------------------
(***************************************************************************)
(* The arithmetic of StompAllocator.                                       *)
(***************************************************************************)

\* Rounded up to pages, a size grows by less than a page.
LEMMA RoundUp ==
  ASSUME NEW bytes \in Nat, NEW page \in Nat \ {0}
  PROVE  /\ (bytes + page - 1) \div page \in Int
         /\ ((bytes + page - 1) \div page) * page >= bytes
         /\ ((bytes + page - 1) \div page) * page - bytes < page
  BY SMT

\* An offset of less than a page is what a multiple of pages leaves of an address.
LEMMA RoundDown ==
  ASSUME NEW page \in Nat \ {0}, NEW base \in Nat, base % page = 0,
         NEW offset \in 0 .. page - 1
  PROVE  (base + offset) % page = offset
  BY SMT

\* The size of a page is a positive number.
LEMMA PageSizeType == Pool!PAGE_SIZE \in Nat \ {0}
  BY SMT DEF Pool!PAGE_SIZE

\* So are the sizes that are allocated.
LEMMA AllocSizesType ==
  ASSUME NEW bytes \in Pool!AllocSizes
  PROVE  bytes \in Nat \ {0}
  BY PageSizeType, SMT DEF Pool!AllocSizes

\* The pages hold the memory, with less than a page to spare.
LEMMA PagesSuffice ==
  ASSUME NEW bytes \in Pool!AllocSizes
  PROVE  /\ Pool!PageCount(bytes) * Pool!PAGE_SIZE \in Nat
         /\ Pool!PageCount(bytes) * Pool!PAGE_SIZE >= bytes
         /\ Pool!DataOffset(bytes) \in 0 .. Pool!PAGE_SIZE - 1
         /\ Pool!DataOffset(bytes) = Pool!PageCount(bytes) * Pool!PAGE_SIZE - bytes
  <1>1. bytes \in Nat \ {0}
    BY AllocSizesType
  <1>2. /\ Pool!PageCount(bytes) \in Int
        /\ Pool!PageCount(bytes) * Pool!PAGE_SIZE >= bytes
        /\ Pool!PageCount(bytes) * Pool!PAGE_SIZE - bytes < Pool!PAGE_SIZE
    BY <1>1, PageSizeType, RoundUp DEF Pool!PageCount
  <1> QED
    BY <1>1, <1>2, PageSizeType, SMT DEF Pool!DataOffset

\* Release finds the address of the pages from that of the memory.
LEMMA BaseIsFound ==
  ASSUME NEW base \in Nat, base % Pool!PAGE_SIZE = 0, NEW bytes \in Pool!AllocSizes
  PROVE  Pool!BaseAddress(base + Pool!DataOffset(bytes)) = base
  <1>1. Pool!DataOffset(bytes) \in 0 .. Pool!PAGE_SIZE - 1
    BY PagesSuffice
  <1>2. (base + Pool!DataOffset(bytes)) % Pool!PAGE_SIZE = Pool!DataOffset(bytes)
    BY <1>1, PageSizeType, RoundDown
  <1> QED
    BY <1>1, <1>2, PageSizeType, SMT DEF Pool!BaseAddress

-----------------------------------------------------------------------------
(***************************************************************************)
(* The inductive invariant.  That objects are apart does not carry over a  *)
(* step by itself: what the kernel keeps apart are pages, and Push counts  *)
(* on the pages of an object being those its address leads to.             *)
(***************************************************************************)
Objects ==
  {o \in [base : Int, size : Nat \ {0}] : Pool!HeaderSize + o.size \in Pool!AllocSizes}

RegionsApart == \A o, p \in objects : o # p => Pool!Apart(Pool!Region(o), Pool!Region(p))

PoolInv ==
  /\ objects \subseteq Objects
  /\ Pool!NothingLeaks
  /\ RegionsApart
  /\ Pool!EndsAtPageEnd

\* The object that Pop returns, and its pages.
LEMMA NewObject ==
  ASSUME NEW base \in Nat, base % Pool!PAGE_SIZE = 0, NEW bytes \in Nat \ {0},
         bytes + Pool!HeaderSize \in Pool!AllocSizes,
         NEW o,
         o = [base |-> Pool!AttachHeader(base + Pool!DataOffset(bytes + Pool!HeaderSize)),
              size |-> bytes]
  PROVE  /\ o \in Objects
         /\ Pool!Region(o) =
              [base |-> base,
               size |-> Pool!PageCount(bytes + Pool!HeaderSize) * Pool!PAGE_SIZE]
         /\ o.base + o.size = Pool!Region(o).base + Pool!Region(o).size
  <1> DEFINE allBytes == bytes + Pool!HeaderSize
  <1>1. /\ Pool!PageCount(allBytes) * Pool!PAGE_SIZE \in Nat
        /\ Pool!DataOffset(allBytes) \in Nat
        /\ Pool!DataOffset(allBytes) = Pool!PageCount(allBytes) * Pool!PAGE_SIZE - allBytes
    BY PagesSuffice, PageSizeType
  <1>2. o \in Objects
    BY <1>1 DEF Objects, Pool!AttachHeader, Pool!HeaderSize
  <1>3. /\ Pool!Block(o).base = base + Pool!DataOffset(allBytes)
        /\ Pool!Block(o).size = allBytes
    BY <1>1 DEF Pool!Block, Pool!AttachHeader, Pool!DetachHeader, Pool!HeaderSize
  <1>4. Pool!BaseAddress(Pool!Block(o).base) = base
    BY <1>3, BaseIsFound
  <1>5. Pool!Region(o) =
          [base |-> base, size |-> Pool!PageCount(allBytes) * Pool!PAGE_SIZE]
    BY <1>3, <1>4 DEF Pool!Region
  <1>6. o.base + o.size = base + Pool!PageCount(allBytes) * Pool!PAGE_SIZE
    BY <1>1 DEF Pool!AttachHeader, Pool!HeaderSize
  <1> QED
    BY <1>2, <1>5, <1>6

\* The pages of an object in use begin at an integer and are not empty.
LEMMA RegionType ==
  ASSUME NEW o \in Objects
  PROVE  /\ Pool!Region(o).base \in Int
         /\ Pool!Region(o).size \in Nat
         /\ Pool!Region(o).size >= Pool!HeaderSize + o.size
  <1>1. Pool!HeaderSize + o.size \in Pool!AllocSizes /\ o.base \in Int
    BY DEF Objects
  <1>2. /\ Pool!PageCount(Pool!HeaderSize + o.size) * Pool!PAGE_SIZE \in Nat
        /\ Pool!PageCount(Pool!HeaderSize + o.size) * Pool!PAGE_SIZE
             >= Pool!HeaderSize + o.size
    BY <1>1, PagesSuffice
  <1> QED
    BY <1>1, <1>2, PageSizeType, SMT
    DEF Pool!Region, Pool!Block, Pool!BaseAddress, Pool!DetachHeader, Pool!HeaderSize

-----------------------------------------------------------------------------
\* The empty pool is in order.
LEMMA InitPoolInv == Pool!Init => PoolInv
  BY DEF Pool!Init, PoolInv, Pool!NothingLeaks, RegionsApart, Pool!EndsAtPageEnd

\* Pop keeps the pool in order.
LEMMA PopKeeps ==
  ASSUME PoolInv, NEW bytes \in Nat \ {0}, Pool!Pop(bytes)
  PROVE  PoolInv'
  <1> DEFINE allBytes == bytes + Pool!HeaderSize
             length == Pool!PageCount(allBytes) * Pool!PAGE_SIZE
  <1>1. PICK base \in Nat :
          /\ Pool!VirtualAlloc(base, length)
          /\ objects' = objects \cup
               {[base |-> Pool!AttachHeader(base + Pool!DataOffset(allBytes)), size |-> bytes]}
    BY DEF Pool!Pop
  <1> DEFINE new == [base |-> Pool!AttachHeader(base + Pool!DataOffset(allBytes)),
                     size |-> bytes]
  <1>2. /\ new \in Objects
        /\ Pool!Region(new) = [base |-> base, size |-> length]
        /\ new.base + new.size = Pool!Region(new).base + Pool!Region(new).size
    <2>1. base % Pool!PAGE_SIZE = 0 /\ allBytes \in Pool!AllocSizes
      BY <1>1 DEF Pool!VirtualAlloc, Pool!Pop
    <2> QED
      BY <2>1, NewObject
  <1>3. objects' = objects \cup {new}
    BY <1>1
  <1> HIDE DEF new, length
  <1>4. (objects \subseteq Objects)'
    BY <1>2, <1>3 DEF PoolInv
  <1>5. Pool!NothingLeaks'
    <2>1. regions' = regions \cup {Pool!Region(new)}
      BY <1>1, <1>2 DEF Pool!VirtualAlloc
    <2>2. ~leaked'
      BY DEF Pool!Pop, PoolInv, Pool!NothingLeaks
    <2> QED
      BY <1>3, <2>1, <2>2 DEF PoolInv, Pool!NothingLeaks, Pool!Region, Pool!Block
  <1>6. RegionsApart'
    <2>1. \A o \in objects : Pool!Apart(Pool!Region(o), Pool!Region(new))
      BY <1>1, <1>2 DEF Pool!VirtualAlloc, PoolInv, Pool!NothingLeaks
    <2>2. \A o \in objects : Pool!Apart(Pool!Region(new), Pool!Region(o))
      BY <2>1 DEF Pool!Apart
    <2> QED
      BY <1>3, <2>1, <2>2 DEF PoolInv, RegionsApart, Pool!Region, Pool!Block
  <1>7. Pool!EndsAtPageEnd'
    BY <1>2, <1>3 DEF PoolInv, Pool!EndsAtPageEnd, Pool!Region, Pool!Block
  <1> QED
    BY <1>4, <1>5, <1>6, <1>7 DEF PoolInv

\* Push keeps the pool in order.
LEMMA PushKeeps ==
  ASSUME PoolInv, NEW o \in objects, Pool!Push(o)
  PROVE  PoolInv'
  <1>1. objects' = objects \ {o}
    BY DEF Pool!Push
  <1>2. /\ regions' = {r \in regions : r.base # Pool!Region(o).base}
        /\ leaked' = (leaked \/ regions' = regions)
    BY DEF Pool!Push, Pool!VirtualFree, Pool!Region, Pool!Block
  <1>3. \A p \in objects : p # o => Pool!Region(p).base # Pool!Region(o).base
    <2> SUFFICES ASSUME NEW p \in objects, p # o
                 PROVE  Pool!Region(p).base # Pool!Region(o).base
      OBVIOUS
    <2>1. Pool!Apart(Pool!Region(p), Pool!Region(o))
      BY DEF PoolInv, RegionsApart
    <2>2. /\ Pool!Region(p).base \in Int /\ Pool!Region(o).base \in Int
          /\ Pool!Region(p).size \in Nat /\ Pool!Region(o).size \in Nat
          /\ Pool!Region(p).size > 0 /\ Pool!Region(o).size > 0
      BY RegionType DEF PoolInv, Objects, Pool!HeaderSize
    <2> QED
      BY <2>1, <2>2 DEF Pool!Apart
  <1>4. regions' = {Pool!Region(p) : p \in objects'}
    BY <1>1, <1>2, <1>3 DEF PoolInv, Pool!NothingLeaks
  <1>5. regions' # regions
    <2>1. Pool!Region(o) \in regions
      BY DEF PoolInv, Pool!NothingLeaks
    <2>2. Pool!Region(o) \notin regions'
      BY <1>2
    <2> QED
      BY <2>1, <2>2
  <1>6. Pool!NothingLeaks'
    BY <1>2, <1>4, <1>5 DEF PoolInv, Pool!NothingLeaks, Pool!Region, Pool!Block
  <1>7. RegionsApart' /\ Pool!EndsAtPageEnd' /\ (objects \subseteq Objects)'
    BY <1>1 DEF PoolInv, RegionsApart, Pool!EndsAtPageEnd, Pool!Region, Pool!Block
  <1> QED
    BY <1>6, <1>7 DEF PoolInv

\* Hence the pool is always in order.
LEMMA PoolInvInductive == Pool!Spec => []PoolInv
  <1>1. PoolInv /\ [Pool!Next]_Pool!vars => PoolInv'
    <2> SUFFICES ASSUME PoolInv, [Pool!Next]_Pool!vars
                 PROVE  PoolInv'
      OBVIOUS
    <2>1. CASE \E bytes \in Nat \ {0} : Pool!Pop(bytes)
      BY <2>1, PopKeeps
    <2>2. CASE Pool!PopFails
      BY <2>2 DEF Pool!PopFails, PoolInv, Pool!NothingLeaks, RegionsApart, Pool!EndsAtPageEnd,
                 Pool!Region, Pool!Block
    <2>3. CASE \E o \in objects : Pool!Push(o)
      BY <2>3, PushKeeps
    <2>4. CASE UNCHANGED Pool!vars
      BY <2>4 DEF Pool!vars, PoolInv, Pool!NothingLeaks, RegionsApart, Pool!EndsAtPageEnd,
                 Pool!Region, Pool!Block
    <2> QED
      BY <2>1, <2>2, <2>3, <2>4 DEF Pool!Next
  <1> QED
    BY <1>1, InitPoolInv, PTL DEF Pool!Spec

-----------------------------------------------------------------------------
\* Release always finds the pages Alloc reserved, and no pages stay behind.
THEOREM PagesComeBack == Pool!Spec => []Pool!NothingLeaks
  <1>1. PoolInv => Pool!NothingLeaks
    BY DEF PoolInv
  <1> QED
    BY <1>1, PoolInvInductive, PTL

\* Two objects never share a byte, nor an object and the header of another.
THEOREM ObjectsAreApart == Pool!Spec => []Pool!ObjectsApart
  <1>1. PoolInv => Pool!ObjectsApart
    <2> SUFFICES ASSUME PoolInv, NEW o \in objects, NEW p \in objects, o # p
                 PROVE  Pool!Apart(Pool!Block(o), Pool!Block(p))
      BY DEF Pool!ObjectsApart
    <2>1. Pool!Apart(Pool!Region(o), Pool!Region(p))
      BY DEF PoolInv, RegionsApart
    <2>2. \A q \in objects :
            /\ Pool!Region(q).base \in Int /\ Pool!Region(q).size \in Nat
            /\ q.base \in Int /\ q.size \in Nat
            /\ Pool!Region(q).size >= Pool!HeaderSize + q.size
            /\ q.base + q.size = Pool!Region(q).base + Pool!Region(q).size
      BY RegionType DEF PoolInv, Pool!EndsAtPageEnd, Objects
    <2> QED
      BY <2>1, <2>2 DEF Pool!Apart, Pool!Block, Pool!DetachHeader, Pool!HeaderSize
  <1> QED
    BY <1>1, PoolInvInductive, PTL

\* An object ends where its pages end, so that the byte behind it is not its own.
THEOREM OverrunsLeaveThePages == Pool!Spec => []Pool!EndsAtPageEnd
  <1>1. PoolInv => Pool!EndsAtPageEnd
    BY DEF PoolInv
  <1> QED
    BY <1>1, PoolInvInductive, PTL
=============================================================================
