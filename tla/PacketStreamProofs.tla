------------------------- MODULE PacketStreamProofs -------------------------
(***************************************************************************)
(* Theorems about PacketStream: for every stream of packets, and however   *)
(* the kernel cuts it into receives, the packets come out whole and in     *)
(* order, the buffer never runs out of room, and the branches that guard   *)
(* against an overflow are dead.                                           *)
(***************************************************************************)
EXTENDS PacketStream, TLAPS

\* How far OnRecv has got beyond readPos, and what the kernel has put beyond
\* writePos.
Parsed == IF pc = "parsing" THEN processLen ELSE 0
Pending == IF pc = "received" THEN numOfBytes ELSE 0

\* Positions and counters are what their names say, and in range.
Positions ==
  /\ IsStream(ends)
  /\ arrived \in Nat /\ arrived <= ends[Packets]
  /\ buffer \in [Cells -> Nat]
  /\ readPos \in Nat /\ writePos \in Nat /\ numOfBytes \in Nat /\ processLen \in Nat
  /\ delivered \in 0 .. Packets
  /\ pc \in {"receiving", "received", "parsing", "cleaning"}
  /\ readPos + Parsed <= writePos
  /\ writePos + Pending <= Capacity
  /\ pc = "received" => numOfBytes > 0

(***************************************************************************)
(* The cells from where OnRecv looks next up to the last byte received     *)
(* hold the stream from the end of the last packet delivered.              *)
(***************************************************************************)
Content ==
  /\ arrived = ends[delivered] + (writePos + Pending) - (readPos + Parsed)
  /\ \A i \in Cells : readPos + Parsed <= i /\ i < writePos + Pending =>
       buffer[i] = ends[delivered] + 1 + (i - (readPos + Parsed))

\* Once OnRecv is through, less than a packet is left; after Clean, there is room.
Rest ==
  /\ pc = "cleaning" /\ delivered < Packets => arrived < ends[delivered + 1]
  /\ NoPacketWaits
  /\ RoomToReceive

Good == intact /\ ~overlapped

StreamInv == Positions /\ Content /\ Rest /\ Good

-----------------------------------------------------------------------------
\* Packets end at natural numbers.
LEMMA EndsNat ==
  ASSUME IsStream(ends), NEW k \in 0 .. Packets
  PROVE  ends[k] \in Nat
  BY SMT DEF IsStream

\* The size of the next packet, and what is known of its end.
LEMMA NextPacket ==
  ASSUME IsStream(ends), delivered \in 0 .. Packets, delivered < Packets
  PROVE  /\ ends[delivered] \in Nat /\ ends[delivered + 1] \in Nat
         /\ ends[delivered] + HeaderSize <= ends[delivered + 1]
         /\ ends[delivered + 1] - ends[delivered] <= MaxPacket
<1>1. delivered + 1 \in 1 .. Packets /\ delivered \in 0 .. Packets
  BY PacketStreamAssumption, SMT
<1> QED
  BY <1>1, PacketStreamAssumption, SMT DEF IsStream

\* At the boundary of a packet OnRecv reads the size of that packet.
LEMMA HeaderRead ==
  ASSUME Positions, Content, pc = "parsing", MorePackets
  PROVE  /\ delivered < Packets
         /\ HeaderSizes = {ends[delivered + 1] - ends[delivered]}
<1> USE DEF Positions
<1>1. /\ ends[delivered] \in Nat
      /\ arrived = ends[delivered] + writePos - (readPos + processLen)
  BY EndsNat, SMT DEF Content, Parsed, Pending
<1>2. delivered < Packets
  BY <1>1, PacketStreamAssumption, SMT DEF MorePackets, DataSize
<1>3. buffer[readPos + processLen] = ends[delivered] + 1
  <2>1. readPos + processLen \in Cells /\ readPos + processLen < writePos
    BY PacketStreamAssumption, SMT
       DEF Positions, MorePackets, DataSize, Parsed, Pending, Cells
  <2> QED
    BY <2>1, NextPacket, <1>2, SMT DEF Positions, Content, Parsed, Pending
<1>4. ASSUME NEW k \in 1 .. Packets
      PROVE  ends[k - 1] = ends[delivered] <=> k = delivered + 1
  <2>1. k - 1 \in 0 .. Packets /\ ends[k - 1] \in Nat
    BY EndsNat, PacketStreamAssumption, SMT
  <2>2. k - 1 < delivered => ends[k - 1] < ends[delivered]
    BY <1>1, <2>1, PacketStreamAssumption, SMT DEF IsStream
  <2>3. k - 1 > delivered => ends[k - 1] > ends[delivered]
    BY <1>1, <2>1, PacketStreamAssumption, SMT DEF IsStream
  <2>4. delivered \in Nat /\ ends[(delivered + 1) - 1] = ends[delivered]
    BY PacketStreamAssumption, SMT
  <2> HIDE DEF Positions
  <2> QED
    BY <1>1, <2>1, <2>2, <2>3, <2>4, SMT
<1>5. {k \in 1 .. Packets : ends[k - 1] + 1 = buffer[readPos + processLen]} = {delivered + 1}
  <2>1. delivered + 1 \in 1 .. Packets
    BY <1>2, PacketStreamAssumption, SMT
  <2>2. ASSUME NEW k \in 1 .. Packets
        PROVE  ends[k - 1] + 1 = buffer[readPos + processLen] <=> k = delivered + 1
    <3>1. k - 1 \in 0 .. Packets /\ ends[k - 1] \in Nat
      BY EndsNat, PacketStreamAssumption, SMT
    <3> QED
      BY <1>1, <1>3, <1>4, <3>1, SMT
  <2> QED
    BY <2>1, <2>2, Zenon
<1>6. (delivered + 1) - 1 = delivered
  BY SMT DEF Positions
<1> HIDE DEF Positions
<1>7. HeaderSizes = {ends[k] - ends[k - 1] : k \in {delivered + 1}}
  <2>1. {delivered + 1} # {}
    OBVIOUS
  <2> QED
    BY <1>5, <2>1, Zenon DEF HeaderSizes
<1>8. {ends[k] - ends[k - 1] : k \in {delivered + 1}}
        = {ends[delivered + 1] - ends[(delivered + 1) - 1]}
  BY Zenon
<1> QED
  BY <1>2, <1>6, <1>7, <1>8, Zenon

-----------------------------------------------------------------------------
\* The initial buffer is empty and has room.
LEMMA StreamInit == Init => StreamInv
<1> SUFFICES ASSUME Init PROVE StreamInv
  OBVIOUS
<1>1. IsStream(ends) /\ ends[0] = 0 /\ ends[Packets] \in Nat
  BY PacketStreamAssumption, SMT DEF Init, IsStream
<1>2. Positions
  BY <1>1, PacketStreamAssumption, SMT DEF Init, Positions, Cells, Parsed, Pending
<1>3. Content
  <2>1. Parsed = 0 /\ Pending = 0
    BY SMT DEF Init, Parsed, Pending
  <2> QED
    BY <1>1, <2>1, PacketStreamAssumption, SMT DEF Init, Content, Cells
<1>4. Rest
  <2>1. delivered < Packets => arrived < ends[delivered + 1]
    BY <1>1, <1>2, NextPacket, PacketStreamAssumption, SMT DEF Init, Positions
  <2> QED
    BY <2>1, PacketStreamAssumption, SMT DEF Init, Rest, NoPacketWaits, RoomToReceive, FreeSize
<1>5. Good
  BY SMT DEF Init, Good
<1> QED
  BY <1>2, <1>3, <1>4, <1>5 DEF StreamInv

\* The kernel writes the next bytes of the stream behind the last ones.
LEMMA ReceiveKeeps == ASSUME StreamInv, Receive PROVE StreamInv'
<1> USE DEF StreamInv
<1>1. PICK n \in 1 .. FreeSize :
        /\ arrived + n <= ends[Packets]
        /\ buffer' = [i \in Cells |-> IF i \in writePos .. writePos + n - 1
                                      THEN arrived + 1 + (i - writePos) ELSE buffer[i]]
        /\ numOfBytes' = n
        /\ arrived' = arrived + n
  BY Zenon DEF Receive, RoomOffered
<1>2. /\ pc = "receiving" /\ pc' = "received"
      /\ UNCHANGED <<ends, readPos, writePos, processLen, delivered, intact, overlapped>>
  BY Zenon DEF Receive, histVars
<1>3. n \in Nat /\ n > 0 /\ writePos + n <= Capacity
  BY PacketStreamAssumption, SMT DEF FreeSize, Positions
<1>4. Positions'
  BY <1>1, <1>2, <1>3, SMT DEF Positions, Parsed, Pending, Cells
<1>5. Content'
  <2>1. Parsed = 0 /\ Pending = 0 /\ Parsed' = 0 /\ Pending' = n
    BY <1>1, <1>2, SMT DEF Parsed, Pending
  <2>2. ends[delivered] \in Nat
    BY EndsNat, Zenon DEF Positions
  <2>3. /\ arrived = ends[delivered] + writePos - readPos
        /\ arrived \in Nat /\ readPos \in Nat /\ writePos \in Nat
    BY <2>1, SMT DEF Content, Positions
  <2>4. arrived' = ends'[delivered'] + (writePos' + Pending') - (readPos' + Parsed')
    BY <1>1, <1>2, <1>3, <2>1, <2>2, <2>3, SMT
  <2>5. ASSUME NEW i \in Cells, readPos' + Parsed' <= i, i < writePos' + Pending'
        PROVE  buffer'[i] = ends'[delivered'] + 1 + (i - (readPos' + Parsed'))
    <3>1. i \in Int /\ readPos <= i /\ i < writePos + n
      BY <1>2, <2>1, <2>3, <2>5, PacketStreamAssumption, SMT DEF Cells
    <3>2. CASE i < writePos
      <4>1. buffer[i] = ends[delivered] + 1 + (i - (readPos + Parsed))
        BY <2>1, <2>3, <3>1, <3>2, SMT DEF Content
      <4>2. buffer'[i] = buffer[i]
        BY <1>1, <2>3, <3>1, <3>2, SMT
      <4> QED
        BY <1>2, <2>1, <4>1, <4>2
    <3>3. CASE writePos <= i
      <4>1. buffer'[i] = arrived + 1 + (i - writePos)
        BY <1>1, <1>3, <2>3, <3>1, <3>3, SMT
      <4> QED
        BY <1>2, <2>1, <2>2, <2>3, <3>1, <4>1, SMT
    <3> QED
      BY <2>3, <3>1, <3>2, <3>3, SMT
  <2> QED
    BY <2>4, <2>5, Zenon DEF Content
<1>6. Rest'
  BY <1>2, SMT DEF Rest, NoPacketWaits, RoomToReceive
<1>7. Good'
  BY <1>2, SMT DEF Good
<1> QED
  BY <1>4, <1>5, <1>6, <1>7, Zenon DEF StreamInv

\* OnWrite takes them into account: there always is room for them.
LEMMA OnWriteKeeps == ASSUME StreamInv, OnWrite PROVE StreamInv'
<1> USE DEF StreamInv
<1>1. /\ pc = "received" /\ pc' = "parsing"
      /\ writePos' = writePos + numOfBytes
      /\ processLen' = 0
      /\ UNCHANGED <<ends, arrived, buffer, readPos, numOfBytes, delivered, intact, overlapped>>
  BY PacketStreamAssumption, SMT DEF OnWrite, histVars, Positions, Pending, FreeSize
<1>2. Positions'
  BY <1>1, SMT DEF Positions, Parsed, Pending
<1>3. Content'
  BY <1>1, SMT DEF Content, Positions, Parsed, Pending
<1>4. Rest'
  BY <1>1, SMT DEF Rest, NoPacketWaits, RoomToReceive
<1>5. Good'
  BY <1>1, SMT DEF Good
<1> QED
  BY <1>2, <1>3, <1>4, <1>5, Zenon DEF StreamInv

\* OnRecvPacket gets exactly the next packet.
LEMMA OnRecvPacketKeeps == ASSUME StreamInv, OnRecvPacket PROVE StreamInv'
<1> USE DEF StreamInv
<1> DEFINE size == ends[delivered + 1] - ends[delivered]
<1>1. pc = "parsing" /\ MorePackets
  BY Zenon DEF OnRecvPacket
<1>2. delivered < Packets /\ HeaderSizes = {size}
  BY <1>1, HeaderRead, Zenon
<1>3. /\ size <= DataSize - processLen
      /\ intact' = (/\ intact
                    /\ delivered < Packets
                    /\ size = ends[delivered + 1] - ends[delivered]
                    /\ \A i \in 0 .. size - 1 :
                         buffer[readPos + processLen + i] = ends[delivered] + 1 + i)
      /\ processLen' = processLen + size
      /\ delivered' = delivered + 1
      /\ UNCHANGED <<ends, arrived, buffer, readPos, writePos, numOfBytes, overlapped, pc>>
  BY <1>2, Zenon DEF OnRecvPacket, memVars
<1>4. ends[delivered] \in Nat /\ ends[delivered + 1] \in Nat /\ size \in Nat /\ size > 0
  BY <1>2, NextPacket, PacketStreamAssumption, SMT DEF Positions
<1> HIDE DEF size
<1>5. /\ Parsed = processLen /\ Pending = 0
      /\ Parsed' = processLen + size /\ Pending' = 0
  BY <1>1, <1>3, SMT DEF Parsed, Pending
<1>6. /\ Positions'
      /\ Content'
  <2>0. /\ processLen' = processLen + size /\ delivered' = delivered + 1
        /\ size <= DataSize - processLen
        /\ UNCHANGED <<ends, arrived, buffer, readPos, writePos, numOfBytes, pc>>
    BY <1>3
  <2>1. Positions'
    <3>1. readPos' + Parsed' <= writePos'
      BY <1>4, <1>5, <2>0, SMT DEF Positions, DataSize
    <3>2. delivered' \in 0 .. Packets
      BY <1>2, <2>0, PacketStreamAssumption, SMT DEF Positions
    <3>3. processLen' \in Nat
      BY <1>4, <2>0, SMT DEF Positions
    <3>4. writePos' + Pending' <= Capacity
      BY <1>5, <2>0, SMT DEF Positions
    <3> QED
      BY <2>0, <3>1, <3>2, <3>3, <3>4, SMT DEF Positions
  <2>2. ends'[delivered'] = ends[delivered] + size
    BY <1>2, <1>3, <1>4, SMT DEF size
  <2>3. Content'
    <3>1. arrived' = ends'[delivered'] + (writePos' + Pending') - (readPos' + Parsed')
      BY <1>4, <1>5, <2>0, <2>2, SMT DEF Content, Positions
    <3>2. ASSUME NEW i \in Cells, readPos' + Parsed' <= i, i < writePos' + Pending'
          PROVE  buffer'[i] = ends'[delivered'] + 1 + (i - (readPos' + Parsed'))
      <4>1. readPos + Parsed <= i /\ i < writePos + Pending /\ i \in Nat
        BY <1>4, <1>5, <2>0, <3>2, PacketStreamAssumption, SMT DEF Positions, Cells
      <4>2. buffer[i] = ends[delivered] + 1 + (i - (readPos + Parsed))
        BY <4>1, Zenon DEF Content
      <4> QED
        BY <1>4, <1>5, <2>0, <2>2, <4>1, <4>2, SMT DEF Positions
    <3> QED
      BY <3>1, <3>2, Zenon DEF Content
  <2> QED
    BY <2>1, <2>3
<1>7. Rest'
  BY <1>1, <1>3, SMT DEF Rest, NoPacketWaits, RoomToReceive
<1> USE DEF size
<1>8. \A i \in 0 .. size - 1 : buffer[readPos + processLen + i] = ends[delivered] + 1 + i
  <2> SUFFICES ASSUME NEW i \in 0 .. size - 1
               PROVE  buffer[readPos + processLen + i] = ends[delivered] + 1 + i
    OBVIOUS
  <2>1. /\ readPos + processLen + i \in Cells
        /\ readPos + processLen + i < writePos
        /\ readPos + processLen + i \in Nat
    <3>1. /\ readPos \in Nat /\ processLen \in Nat /\ writePos \in Nat
          /\ writePos <= Capacity
          /\ size <= writePos - readPos - processLen
      BY <1>3, <1>5, SMT DEF Positions, DataSize
    <3> HIDE DEF size, StreamInv
    <3> QED
      BY <1>4, <3>1, PacketStreamAssumption, SMT DEF Cells
  <2> QED
    BY <1>1, <1>4, <2>1, SMT DEF Content, Positions, Parsed, Pending
<1>9. Good'
  BY <1>2, <1>3, <1>8, Zenon DEF Good
<1> QED
  BY <1>6, <1>7, <1>9, Zenon DEF StreamInv

\* When OnRecv ends, what is left is less than a packet.
LEMMA OnReadKeeps == ASSUME StreamInv, OnRead PROVE StreamInv'
<1> USE DEF StreamInv
<1>1. /\ pc = "parsing" /\ pc' = "cleaning"
      /\ readPos' = readPos + processLen
      /\ UNCHANGED <<ends, arrived, buffer, writePos, numOfBytes, processLen, delivered, intact,
                     overlapped>>
  BY SMT DEF OnRead, histVars, Positions, Parsed, Pending, DataSize
<1>2. ASSUME delivered < Packets PROVE arrived < ends[delivered + 1]
  <2>1. /\ ends[delivered] \in Nat /\ ends[delivered + 1] \in Nat
        /\ ends[delivered] + HeaderSize <= ends[delivered + 1]
    BY <1>2, NextPacket, SMT DEF Positions
  <2>2. arrived = ends[delivered] + writePos - (readPos + processLen)
    BY <1>1, SMT DEF Content, Parsed, Pending, Positions
  <2>3. CASE MorePackets
    <3>1. ends[delivered + 1] - ends[delivered] > DataSize - processLen
      BY <1>1, <2>3, HeaderRead, Zenon DEF OnRead
    <3> QED
      BY <2>1, <2>2, <3>1, SMT DEF DataSize, Positions
  <2>4. CASE ~MorePackets
    BY <2>1, <2>2, <2>4, PacketStreamAssumption, SMT DEF MorePackets, DataSize, Positions
  <2> QED
    BY <2>3, <2>4
<1>3. Positions'
  BY <1>1, SMT DEF Positions, Parsed, Pending
<1>4. Content'
  BY <1>1, SMT DEF Content, Positions, Parsed, Pending
<1>5. Rest'
  BY <1>1, <1>2, SMT DEF Rest, NoPacketWaits, RoomToReceive
<1>6. Good'
  BY <1>1, SMT DEF Good
<1> QED
  BY <1>3, <1>4, <1>5, <1>6, Zenon DEF StreamInv

\* Clean makes room, and what it copies does not overlap its destination.
LEMMA CleanKeeps == ASSUME StreamInv, CleanAndRegister PROVE StreamInv'
<1> USE DEF StreamInv
<1>1. /\ pc = "cleaning" /\ pc' = "receiving"
      /\ UNCHANGED <<ends, arrived, numOfBytes, processLen, delivered, intact>>
  BY Zenon DEF CleanAndRegister
<1>2. arrived = ends[delivered] + DataSize /\ ends[delivered] \in Nat /\ DataSize \in Nat
  BY <1>1, SMT DEF Content, Positions, Parsed, Pending, DataSize, IsStream
<1>3. DataSize < BufferSize
  <2>1. CASE delivered < Packets
    BY <1>1, <1>2, <2>1, NextPacket, PacketStreamAssumption, SMT DEF Rest, Positions
  <2>2. CASE delivered = Packets
    BY <1>2, <2>2, PacketStreamAssumption, SMT DEF Positions
  <2> QED
    BY <2>1, <2>2, PacketStreamAssumption, SMT DEF Positions
<1>4. delivered < Packets => arrived < ends[delivered + 1]
  BY <1>1, SMT DEF Rest
<1>5. CASE DataSize = 0 /\ Rewind
  <2>1. Positions'
    BY <1>1, <1>5, PacketStreamAssumption, SMT DEF Rewind, Positions, Parsed, Pending
  <2>2. Content'
    <3>1. Parsed' = 0 /\ Pending' = 0
      BY <1>1, SMT DEF Parsed, Pending
    <3> QED
      BY <1>1, <1>2, <1>5, <3>1, PacketStreamAssumption, SMT DEF Rewind, Content, Cells
  <2>3. Rest'
    BY <1>1, <1>4, <1>5, PacketStreamAssumption, SMT
       DEF Rewind, Rest, NoPacketWaits, RoomToReceive, FreeSize
  <2>4. Good'
    BY <1>1, <1>5, SMT DEF Rewind, Good
  <2> QED
    BY <2>1, <2>2, <2>3, <2>4
<1>6. CASE DataSize # 0 /\ FreeSize >= BufferSize /\ UNCHANGED <<memVars, overlapped>>
  <2>1. Positions'
    BY <1>1, <1>6, SMT DEF memVars, Positions, Parsed, Pending
  <2>2. Content'
    BY <1>1, <1>6, SMT DEF memVars, Content, Parsed, Pending
  <2>3. Rest'
    BY <1>1, <1>4, <1>6, SMT DEF memVars, Rest, NoPacketWaits, RoomToReceive, FreeSize
  <2>4. Good'
    BY <1>1, <1>6, SMT DEF Good
  <2> QED
    BY <2>1, <2>2, <2>3, <2>4
<1>7. CASE DataSize # 0 /\ FreeSize < BufferSize /\ Compact
  <2>1. DataSize <= readPos
    BY <1>1, <1>3, <1>7, PacketStreamAssumption, SMT
       DEF Positions, Parsed, Pending, DataSize, FreeSize
  <2>2. Positions'
    BY <1>1, <1>2, <1>3, <1>7, PacketStreamAssumption, SMT
       DEF Compact, Positions, Parsed, Pending, Cells, DataSize
  <2>3. Content'
    BY <1>1, <1>2, <1>7, PacketStreamAssumption, SMT
       DEF Compact, Content, Positions, Parsed, Pending, Cells, DataSize
  <2>4. Rest'
    BY <1>1, <1>2, <1>3, <1>4, <1>7, PacketStreamAssumption, SMT
       DEF Compact, Rest, NoPacketWaits, RoomToReceive, FreeSize
  <2>5. Good'
    <3>1. ~(DataSize > readPos)
      BY <2>1, SMT DEF Positions, DataSize
    <3> QED
      BY <1>1, <1>7, <3>1, Zenon DEF Compact, Good
  <2> QED
    BY <2>2, <2>3, <2>4, <2>5
<1> QED
  BY <1>5, <1>6, <1>7, Zenon DEF CleanAndRegister, Clean

\* Every step keeps the invariant.
LEMMA StreamNext == StreamInv /\ [Next]_vars => StreamInv'
<1> SUFFICES ASSUME StreamInv, [Next]_vars PROVE StreamInv'
  OBVIOUS
<1>1. CASE UNCHANGED vars
  BY <1>1, SMT DEF vars, memVars, histVars, StreamInv, Positions, Content, Rest, Good,
     NoPacketWaits, RoomToReceive, FreeSize, Parsed, Pending
<1> QED
  BY <1>1, ReceiveKeeps, OnWriteKeeps, OnRecvPacketKeeps, OnReadKeeps, CleanKeeps, Zenon
     DEF Next, Handler

\* The invariant holds in every reachable state.
LEMMA StreamInvariant == Spec => []StreamInv
<1>1. Init => StreamInv
  BY StreamInit
<1>2. StreamInv /\ [Next]_vars => StreamInv'
  BY StreamNext
<1> QED
  BY <1>1, <1>2, PTL DEF Spec

-----------------------------------------------------------------------------
\* The two history flags are Boolean.
Flags == intact \in BOOLEAN /\ overlapped \in BOOLEAN

\* Every step keeps the Boolean types.
LEMMA FlagsNext == Flags /\ [Next]_vars => Flags'
<1> SUFFICES ASSUME Flags, [Next]_vars PROVE Flags'
  OBVIOUS
<1> USE DEF Flags, histVars
<1>1. CASE Receive
  BY <1>1, Zenon DEF Receive
<1>2. CASE OnWrite
  BY <1>2, Zenon DEF OnWrite
<1>3. CASE OnRecvPacket
  BY <1>3, Zenon DEF OnRecvPacket
<1>4. CASE OnRead
  BY <1>4, Zenon DEF OnRead
<1>5. CASE CleanAndRegister
  BY <1>5, Zenon DEF CleanAndRegister, Clean, Rewind, Compact
<1>6. CASE UNCHANGED vars
  BY <1>6, Zenon DEF vars
<1> QED
  BY <1>1, <1>2, <1>3, <1>4, <1>5, <1>6, Zenon DEF Next, Handler

\* Every variable always has its type, and positions stay within the buffer.
THEOREM TypeCorrect == Spec => []TypeOK
<1>1. Init => Flags
  BY Zenon DEF Init, Flags
<1>2. StreamInv /\ Flags => TypeOK
  <2> SUFFICES ASSUME StreamInv, Flags PROVE TypeOK
    OBVIOUS
  <2>1. intact \in BOOLEAN /\ overlapped \in BOOLEAN
    BY Zenon DEF Flags
  <2>2. /\ IsStream(ends) /\ buffer \in [Cells -> Nat]
        /\ numOfBytes \in Nat /\ processLen \in Nat /\ delivered \in 0 .. Packets
        /\ pc \in {"receiving", "received", "parsing", "cleaning", "disconnected"}
    BY SMT DEF StreamInv, Positions
  <2>3. readPos \in 0 .. writePos /\ writePos \in 0 .. Capacity
    BY PacketStreamAssumption, SMT DEF StreamInv, Positions, Parsed, Pending
  <2>4. arrived \in 0 .. ends[Packets]
    <3>1. ends[Packets] \in Nat
      BY EndsNat, PacketStreamAssumption, SMT DEF StreamInv, Positions
    <3> QED
      BY <3>1, SMT DEF StreamInv, Positions
  <2> QED
    BY <2>1, <2>2, <2>3, <2>4, Zenon DEF TypeOK
<1> QED
  BY <1>1, <1>2, FlagsNext, StreamInvariant, PTL DEF Spec

\* OnRecvPacket gets every packet whole, once and in order, however TCP cuts the
\* stream.
THEOREM PacketsComeOutIntact == Spec => []PacketsIntact
<1>1. StreamInv => PacketsIntact
  BY Zenon DEF StreamInv, Good, PacketsIntact
<1> QED
  BY <1>1, StreamInvariant, PTL

\* A receive is always posted with room for BUFFER_SIZE bytes.
THEOREM ThereIsRoom == Spec => []RoomToReceive
<1>1. StreamInv => RoomToReceive
  BY Zenon DEF StreamInv, Rest
<1> QED
  BY <1>1, StreamInvariant, PTL

\* The overflow branches of ProcessRecv are dead code.
THEOREM NoOverflow == Spec => []NeverOverflows
<1>1. StreamInv => NeverOverflows
  BY SMT DEF StreamInv, Positions, NeverOverflows
<1> QED
  BY <1>1, StreamInvariant, PTL

\* The memcpy in Clean never has overlapping operands.
THEOREM CopiesAreDisjoint == Spec => []CopiesDisjoint
<1>1. StreamInv => CopiesDisjoint
  BY Zenon DEF StreamInv, Good, CopiesDisjoint
<1> QED
  BY <1>1, StreamInvariant, PTL

\* No whole packet stays in the buffer while the session waits for bytes.
THEOREM NoPacketIsKeptBack == Spec => []NoPacketWaits
<1>1. StreamInv => NoPacketWaits
  BY Zenon DEF StreamInv, Rest
<1> QED
  BY <1>1, StreamInvariant, PTL
=============================================================================
