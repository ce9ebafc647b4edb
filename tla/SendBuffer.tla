----------------------------- MODULE SendBuffer -----------------------------
(***************************************************************************)
(* The memory of the packets to be sent (IocpLib/NetCodes/SendBuffer.cpp). *)
(* A thread cuts buffers out of its current chunk, LSendBufferChunk; when  *)
(* the chunk is used up it takes another from the pool of the manager.     *)
(* Chunks and buffers are counted references: a buffer belongs to the      *)
(* thread that opened it and to the sessions it has been sent to, a chunk  *)
(* to the thread whose current chunk it is and to its buffers.  The last   *)
(* to let go of a chunk, on whatever thread, puts it back into the pool.   *)
(*                                                                         *)
(* The threads use buffers as all callers do: Open, write, Close, send to  *)
(* any number of sessions, let go.  A caller that keeps a buffer while it  *)
(* opens the next one, as SToCSession::OnConnected does, keeps it like one *)
(* more session: its first local variable is counted in sessions, and      *)
(* SendDone is its end.                                                    *)
(***************************************************************************)
EXTENDS Integers, Sequences

CONSTANTS
  Threads,
  Chunks,      \* bound of the model: the chunks that can be created
  Buffers,     \* bound of the model: the buffers there can be at a time
  NoChunk, NoBuffer,
  ChunkSize,   \* SEND_BUFFER_CHUNK_SIZE
  Sizes,       \* the sizes callers ask for
  MaxSessions  \* bound of the model: how many sessions a buffer is sent to

\* A packet may be larger than a chunk: Open then crashes, and this is not modelled.
ASSUME SendBufferAssumption ==
  /\ NoChunk \notin Chunks
  /\ NoBuffer \notin Buffers
  /\ ChunkSize \in Nat
  /\ Sizes \subseteq 1 .. ChunkSize
  /\ MaxSessions \in Nat

VARIABLES
  sendBufferChunks,  \* _sendBufferChunks of the manager
  created,           \* history: the chunks that have been created
  chunkOf,           \* _owner of each buffer
  start,             \* _buffer, as an offset in the chunk
  size,              \* how much of it is the buffer's: _allocSize, once closed _writeSize
  sessions,          \* how many sessions, and earlier locals of callers, refer to it
  opened,            \* _open
  usedSize,          \* _usedSize
  currentChunk,      \* LSendBufferChunk of each thread
  popped,            \* the result of Pop
  buffer,            \* the local variable sendBuffer of the caller
  allocSize,         \* the size the caller asks for
  abandoned,         \* the chunk whose deleter, PushGlobal, the thread runs
  crashed,           \* an ASSERT_CRASH fired, or the caller used a null buffer
  pc                 \* where each thread stands

bufferVars == <<chunkOf, start, size, sessions>>
chunkVars == <<opened, usedSize>>
poolVars == <<sendBufferChunks, created>>
threadVars == <<currentChunk, popped, buffer, allocSize, abandoned>>
vars == <<bufferVars, chunkVars, poolVars, threadVars, crashed, pc>>

Init ==
  /\ sendBufferChunks = <<>>
  /\ created = {}
  /\ chunkOf = [b \in Buffers |-> NoChunk]
  /\ start = [b \in Buffers |-> 0]
  /\ size = [b \in Buffers |-> 0]
  /\ sessions = [b \in Buffers |-> 0]
  /\ opened = [c \in Chunks |-> FALSE]
  /\ usedSize = [c \in Chunks |-> 0]
  /\ currentChunk = [t \in Threads |-> NoChunk]
  /\ popped = [t \in Threads |-> NoChunk]
  /\ buffer = [t \in Threads |-> NoBuffer]
  /\ allocSize = [t \in Threads |-> 0]
  /\ abandoned = [t \in Threads |-> NoChunk]
  /\ crashed = FALSE
  /\ pc = [t \in Threads |-> "run"]

Goto(t, from, to) ==
  /\ pc[t] = from
  /\ pc' = [pc EXCEPT ![t] = to]

FreeSize(c) == ChunkSize - usedSize[c]

-----------------------------------------------------------------------------
(***************************************************************************)
(* Plausible mistakes in the code below, each the wrong twin of the        *)
(* definition whose name it bears.                                         *)
(***************************************************************************)

\* Reset forgets the used size.
MutantReset(c) ==
  /\ opened' = [opened EXCEPT ![c] = FALSE]
  /\ UNCHANGED usedSize

\* Close does not advance the used size.
MutantClose(c, writeSize) ==
  /\ crashed' = (crashed \/ ~opened[c])
  /\ opened' = [opened EXCEPT ![c] = FALSE]
  /\ UNCHANGED usedSize

\* The deleter forgets to put the chunk into the pool.
MutantPush(c) == UNCHANGED poolVars

\* A chunk counts as left when its buffers are gone.
MutantChunkLeft(c, leavers, freed) == \A d \in Buffers \ freed : chunkOf[d] # c

-----------------------------------------------------------------------------
(***************************************************************************)
(* SendBufferManager::Open.                                                *)
(***************************************************************************)

\* A thread that is about to send calls Open.  (b is the model's name for the
\* buffer it will get.)
Open(t) ==
  \E b \in Buffers, n \in Sizes :
    /\ chunkOf[b] = NoChunk
    /\ \A u \in Threads : buffer[u] # b
    /\ Goto(t, "run", "open")
    /\ buffer' = [buffer EXCEPT ![t] = b]
    /\ allocSize' = [allocSize EXCEPT ![t] = n]
    /\ UNCHANGED <<bufferVars, chunkVars, poolVars, currentChunk, popped, abandoned, crashed>>

NeedsChunk(t) ==
  \/ currentChunk[t] = NoChunk
  \/ currentChunk[t] # NoChunk /\ FreeSize(currentChunk[t]) < allocSize[t]

\* Pop takes the last chunk of the pool ...
PopBack(t) ==
  /\ sendBufferChunks # <<>>
  /\ popped' = [popped EXCEPT ![t] = sendBufferChunks[Len(sendBufferChunks)]]
  /\ sendBufferChunks' = SubSeq(sendBufferChunks, 1, Len(sendBufferChunks) - 1)
  /\ UNCHANGED created

\* ... or creates one.
CreateChunk(t) ==
  /\ sendBufferChunks = <<>>
  /\ \E c \in Chunks \ created :
       /\ popped' = [popped EXCEPT ![t] = c]
       /\ created' = created \cup {c}
  /\ UNCHANGED sendBufferChunks

\* Open crashes if a buffer of the current chunk has not been closed.
Pop(t) ==
  /\ NeedsChunk(t)
  /\ Goto(t, "open", "replace")
  /\ crashed' = (crashed \/ (currentChunk[t] # NoChunk /\ opened[currentChunk[t]]))
  /\ PopBack(t) \/ CreateChunk(t)
  /\ UNCHANGED <<bufferVars, chunkVars, currentChunk, buffer, allocSize, abandoned>>

\* SendBufferChunk::Reset.
Reset(c) ==
  /\ opened' = [opened EXCEPT ![c] = FALSE]
  /\ usedSize' = [usedSize EXCEPT ![c] = 0]

\* Nobody refers to chunk c any more when these threads and buffers let go of it.
ChunkLeft(c, leavers, freed) ==
  /\ \A u \in Threads \ leavers : currentChunk[u] # c
  /\ \A d \in Buffers \ freed : chunkOf[d] # c

\* The new chunk replaces the current one.  If no buffer of that is left its
\* deleter runs; then the new one is reset, which nobody else can see.
Replace(t) ==
  LET old == currentChunk[t]
      last == old # NoChunk /\ ChunkLeft(old, {t}, {})
  IN  /\ Goto(t, "replace", IF last THEN "pushing" ELSE "allocate")
      /\ abandoned' = [abandoned EXCEPT ![t] = IF last THEN old ELSE NoChunk]
      /\ currentChunk' = [currentChunk EXCEPT ![t] = popped[t]]
      /\ popped' = [popped EXCEPT ![t] = NoChunk]
      /\ Reset(popped[t])
      /\ UNCHANGED <<bufferVars, poolVars, buffer, allocSize, crashed>>

\* SendBufferChunk::Open gives the caller a buffer ...
Allocate(t) ==
  LET c == currentChunk[t]
      b == buffer[t]
  IN  /\ \/ pc[t] = "open" /\ ~NeedsChunk(t)
         \/ pc[t] = "allocate"
      /\ allocSize[t] <= FreeSize(c)
      /\ pc' = [pc EXCEPT ![t] = "writing"]
      /\ crashed' = (crashed \/ opened[c])
      /\ opened' = [opened EXCEPT ![c] = TRUE]
      /\ chunkOf' = [chunkOf EXCEPT ![b] = c]
      /\ start' = [start EXCEPT ![b] = usedSize[c]]
      /\ size' = [size EXCEPT ![b] = allocSize[t]]
      /\ allocSize' = [allocSize EXCEPT ![t] = 0]
      /\ UNCHANGED <<sessions, usedSize, poolVars, currentChunk, popped, buffer, abandoned>>

\* ... or null if there is no room, which no caller tests.
AllocateFails(t) ==
  /\ pc[t] = "allocate"
  /\ allocSize[t] > FreeSize(currentChunk[t])
  /\ crashed' = TRUE
  /\ UNCHANGED <<bufferVars, chunkVars, poolVars, threadVars, pc>>

-----------------------------------------------------------------------------
\* SendBufferChunk::Close.
Close(c, writeSize) ==
  /\ crashed' = (crashed \/ ~opened[c])
  /\ opened' = [opened EXCEPT ![c] = FALSE]
  /\ usedSize' = [usedSize EXCEPT ![c] = @ + writeSize]

\* The caller writes no more than it has asked for and closes the buffer.
WriteAndClose(t) ==
  LET b == buffer[t]
  IN  /\ Goto(t, "writing", "sending")
      /\ \E writeSize \in 1 .. size[b] :
           /\ size' = [size EXCEPT ![b] = writeSize]
           /\ Close(chunkOf[b], writeSize)
      /\ UNCHANGED <<chunkOf, start, sessions, poolVars, threadVars>>

\* Session::Send keeps a reference, or the caller does in a local variable that
\* outlives its next Open.
Send(t) ==
  /\ pc[t] = "sending"
  /\ sessions[buffer[t]] < MaxSessions
  /\ sessions' = [sessions EXCEPT ![buffer[t]] = @ + 1]
  /\ UNCHANGED <<chunkOf, start, size, chunkVars, poolVars, threadVars, crashed, pc>>

\* Thread t gives up a reference to b and goes on elsewhere.  With the last one the
\* buffer goes, and with the last of its buffers the chunk, if it is no thread's
\* current one.
Release(t, b, last, then) ==
  LET left == last /\ ChunkLeft(chunkOf[b], {}, {b})
  IN  /\ chunkOf' = [chunkOf EXCEPT ![b] = IF last THEN NoChunk ELSE @]
      /\ start' = [start EXCEPT ![b] = IF last THEN 0 ELSE @]
      /\ size' = [size EXCEPT ![b] = IF last THEN 0 ELSE @]
      /\ abandoned' = [abandoned EXCEPT ![t] = IF left THEN chunkOf[b] ELSE NoChunk]
      /\ pc' = [pc EXCEPT ![t] = IF left THEN "pushing" ELSE then]

\* The caller is through with its sends, and its local variable goes.
Drop(t) ==
  /\ pc[t] = "sending"
  /\ buffer' = [buffer EXCEPT ![t] = NoBuffer]
  /\ Release(t, buffer[t], sessions[buffer[t]] = 0, "run")
  /\ UNCHANGED <<sessions, chunkVars, poolVars, currentChunk, popped, allocSize, crashed>>

\* A session gives its reference up: the send has completed, on a thread that came
\* for the completion, or has failed, in the middle of a caller's sends.
SendDone(t, b) ==
  /\ pc[t] \in {"run", "sending"}
  /\ sessions[b] > 0
  /\ sessions' = [sessions EXCEPT ![b] = @ - 1]
  /\ Release(t, b, sessions[b] = 1 /\ \A u \in Threads : buffer[u] # b, pc[t])
  /\ UNCHANGED <<chunkVars, poolVars, currentChunk, popped, buffer, allocSize, crashed>>

\* SendBufferManager::Push.
Push(c) ==
  /\ sendBufferChunks' = Append(sendBufferChunks, c)
  /\ UNCHANGED created

\* Where a thread was when the deleter of a chunk was called.
Interrupted(t) ==
  IF buffer[t] = NoBuffer THEN "run"
  ELSE IF chunkOf[buffer[t]] = NoChunk THEN "allocate" ELSE "sending"

\* The deleter.  The parameter of Push refers to the chunk for a moment longer than
\* the pool's lock is held.  If it is then the last to do so the deleter runs once
\* more, here as if the thread that let go before it had run it.
PushGlobal(t) ==
  /\ Goto(t, "pushing", Interrupted(t))
  /\ Push(abandoned[t])
  /\ abandoned' = [abandoned EXCEPT ![t] = NoChunk]
  /\ UNCHANGED <<bufferVars, chunkVars, currentChunk, popped, buffer, allocSize, crashed>>

Step(t) ==
  \/ Pop(t) \/ Replace(t) \/ Allocate(t) \/ AllocateFails(t)
  \/ WriteAndClose(t) \/ Drop(t) \/ PushGlobal(t)

Next ==
  /\ ~crashed
  /\ \E t \in Threads :
       \/ Open(t) \/ Send(t) \/ Step(t)
       \/ \E b \in Buffers : SendDone(t, b)

Spec == Init /\ [][Next]_vars

(***************************************************************************)
(* Threads run on, and sends complete: a worker that comes again and again *)
(* to a completion takes it.                                               *)
(***************************************************************************)
Fairness ==
  /\ \A t \in Threads : WF_vars(~crashed /\ Step(t))
  /\ \A b \in Buffers : SF_vars(\E t \in Threads : ~crashed /\ SendDone(t, b))

FairSpec == Spec /\ Fairness

-----------------------------------------------------------------------------
States == {"run", "open", "replace", "pushing", "allocate", "writing", "sending"}

\* Every variable has its type.
TypeOK ==
  /\ sendBufferChunks \in Seq(Chunks)
  /\ created \subseteq Chunks
  /\ chunkOf \in [Buffers -> Chunks \cup {NoChunk}]
  /\ start \in [Buffers -> 0 .. ChunkSize]
  /\ size \in [Buffers -> 0 .. ChunkSize]
  /\ sessions \in [Buffers -> 0 .. MaxSessions]
  /\ opened \in [Chunks -> BOOLEAN]
  /\ usedSize \in [Chunks -> 0 .. ChunkSize]
  /\ currentChunk \in [Threads -> Chunks \cup {NoChunk}]
  /\ popped \in [Threads -> Chunks \cup {NoChunk}]
  /\ buffer \in [Threads -> Buffers \cup {NoBuffer}]
  /\ allocSize \in [Threads -> 0 .. ChunkSize]
  /\ abandoned \in [Threads -> Chunks \cup {NoChunk}]
  /\ crashed \in BOOLEAN
  /\ pc \in [Threads -> States]

(***************************************************************************)
(* As long as anybody holds a buffer its memory is its own: no byte of it  *)
(* is given to another buffer while a send may still read it, though       *)
(* chunks are cut up, put back and reset by different threads.             *)
(***************************************************************************)
BuffersDisjoint ==
  \A b, d \in Buffers :
    b # d /\ chunkOf[b] # NoChunk /\ chunkOf[b] = chunkOf[d]
      => start[b] + size[b] <= start[d] \/ start[d] + size[d] <= start[b]

(***************************************************************************)
(* What the buffers are to those who have them (see BufferMemory).  The    *)
(* caller counts as one who has its buffer as soon as there is one.        *)
(***************************************************************************)
Written(b) == \E t \in Threads : pc[t] = "writing" /\ buffer[t] = b

Phase(b) ==
  IF chunkOf[b] = NoChunk THEN "free" ELSE IF Written(b) THEN "written" ELSE "closed"

CellsOf(b) ==
  IF chunkOf[b] = NoChunk THEN {}
  ELSE {chunkOf[b]} \X (start[b] .. start[b] + size[b] - 1)

Refs(b) ==
  IF chunkOf[b] # NoChunk /\ \E t \in Threads : buffer[t] = b
  THEN sessions[b] + 1 ELSE sessions[b]

Phases == [b \in Buffers |-> Phase(b)]
AllCells == [b \in Buffers |-> CellsOf(b)]
AllRefs == [b \in Buffers |-> Refs(b)]

Memory == INSTANCE BufferMemory WITH
  Cells <- Chunks \X (0 .. ChunkSize - 1),
  phase <- Phases, cells <- AllCells, refs <- AllRefs

(***************************************************************************)
(* However the chunks are cut up, passed on and reset, a buffer has cells  *)
(* of its own, the same for all who share it, until the last lets go.      *)
(***************************************************************************)
ImplementsMemory == Memory!Spec

InPool(c) == \E i \in 1 .. Len(sendBufferChunks) : sendBufferChunks[i] = c

\* A thread has the chunk, in one of three ways.
Held(t, c) == c \in {currentChunk[t], popped[t], abandoned[t]}

\* A chunk in the pool is there once and nobody refers to it any more ...
PoolUnreferenced ==
  \A i \in 1 .. Len(sendBufferChunks) :
    LET c == sendBufferChunks[i]
    IN  /\ \A j \in 1 .. Len(sendBufferChunks) : sendBufferChunks[j] = c => i = j
        /\ \A t \in Threads : ~Held(t, c)
        /\ \A b \in Buffers : chunkOf[b] # c

\* ... and one that nobody refers to any more is in the pool.
NothingLost ==
  \A c \in created :
    InPool(c) \/ (\E t \in Threads : Held(t, c)) \/ (\E b \in Buffers : chunkOf[b] = c)

(***************************************************************************)
(* Whoever lets go of a chunk last, and while others take chunks and give  *)
(* them back: a chunk that has been created is in the pool, once, or else  *)
(* somebody refers to it, and never both.                                  *)
(***************************************************************************)
PoolExact == PoolUnreferenced /\ NothingLost

(***************************************************************************)
(* No assertion fires, and Open never returns null: a chunk fresh from the *)
(* pool has room for any packet that is not larger than a chunk.           *)
(***************************************************************************)
NoCrash == ~crashed

(***************************************************************************)
(* No chunk is lost: one that is neither anybody's current chunk nor on    *)
(* its way is back in the pool in the end.                                 *)
(***************************************************************************)
ChunksReturn ==
  \A c \in Chunks :
    c \in created /\ (\A t \in Threads : c \notin {currentChunk[t], popped[t]})
      ~> InPool(c) \/ \E t \in Threads : c \in {currentChunk[t], popped[t]}
=============================================================================
