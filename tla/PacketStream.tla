---------------------------- MODULE PacketStream ----------------------------
(***************************************************************************)
(* The receive side of a session: Session::ProcessRecv, RecvBuffer and     *)
(* PacketSession::OnRecv turn the byte stream of a connection back into    *)
(* the packets the peer sent.                                              *)
(*                                                                         *)
(* A byte is its number in the stream, so that the buffer's content is     *)
(* known cell by cell.  A stream is the sequence of the offsets at which   *)
(* its packets end.  One receive is under way at a time (ReceiveChain of   *)
(* module Session), so the handler runs alone; its loop over the packets   *)
(* takes one step per packet, as each calls OnRecvPacket.                  *)
(***************************************************************************)
EXTENDS Integers

CONSTANTS
  BufferSize,  \* Session::BUFFER_SIZE, the free space Clean restores
  Capacity,    \* the size of the buffer: BUFFER_CAPACITY_MULTIPLIER times as much
  HeaderSize,  \* sizeof(PacketHeader)
  MaxPacket,   \* the largest packet: the maximum of header.size, a uint16
  Packets,     \* bound of the model: how many packets the peer sends
  Streams      \* the streams the peer may send

\* A stream ends its packets at s[1], s[2], ...; every packet has a header, and
\* its size field holds its size.
IsStream(s) ==
  /\ s \in [0 .. Packets -> Nat]
  /\ s[0] = 0
  /\ \A j, k \in 0 .. Packets : j < k => s[j] + HeaderSize <= s[k]
  /\ \A k \in 1 .. Packets : s[k] - s[k - 1] <= MaxPacket

ASSUME PacketStreamAssumption ==
  /\ BufferSize \in Nat
  /\ Capacity \in Nat /\ Capacity >= 3 * BufferSize
  /\ HeaderSize \in Nat \ {0}
  /\ MaxPacket \in Nat /\ MaxPacket < BufferSize
  /\ Packets \in Nat
  /\ \A s \in Streams : IsStream(s)

VARIABLES
  ends,        \* the stream of this connection
  arrived,     \* number of bytes the kernel has put into the buffer
  buffer,      \* _buffer
  readPos,     \* _readPos
  writePos,    \* _writePos
  numOfBytes,  \* the result of the completed receive
  processLen,  \* the local variable of OnRecv
  delivered,   \* history: number of calls of OnRecvPacket
  intact,      \* history: every one of them got the next packet of the stream
  overlapped,  \* history: Clean called memcpy on overlapping regions
  pc           \* where the handler stands

memVars == <<buffer, readPos, writePos>>
histVars == <<delivered, intact, overlapped>>
vars == <<ends, arrived, memVars, numOfBytes, processLen, histVars, pc>>

Cells == 0 .. Capacity - 1

DataSize == writePos - readPos
FreeSize == Capacity - writePos

Init ==
  /\ ends \in Streams
  /\ arrived = 0
  /\ buffer = [i \in Cells |-> 0]
  /\ readPos = 0
  /\ writePos = 0
  /\ numOfBytes = 0
  /\ processLen = 0
  /\ delivered = 0
  /\ intact = TRUE
  /\ overlapped = FALSE
  /\ pc = "receiving"

-----------------------------------------------------------------------------
(***************************************************************************)
(* Plausible mistakes in the code below, each the wrong twin of the        *)
(* definition whose name it bears.  No specification uses them;            *)
(* substituted for their twins they show what each property can catch.     *)
(***************************************************************************)

\* OnRecv stops after one packet.
MutantMorePackets == processLen = 0 /\ DataSize >= HeaderSize

\* The positions are moved but the bytes are not.
MutantCompact ==
  /\ readPos' = 0
  /\ writePos' = DataSize
  /\ UNCHANGED <<buffer, overlapped>>

\* Only an empty buffer is rewound.
MutantClean ==
  \/ DataSize = 0 /\ readPos' = 0 /\ writePos' = 0 /\ UNCHANGED <<buffer, overlapped>>
  \/ DataSize # 0 /\ UNCHANGED <<memVars, overlapped>>

\* The unread bytes are moved whenever there are any.
MutantCleanAlways ==
  \/ DataSize = 0 /\ readPos' = 0 /\ writePos' = 0 /\ UNCHANGED <<buffer, overlapped>>
  \/ /\ DataSize # 0
     /\ buffer' = [i \in Cells |-> IF i < DataSize THEN buffer[readPos + i] ELSE buffer[i]]
     /\ overlapped' = (overlapped \/ DataSize > readPos)
     /\ readPos' = 0
     /\ writePos' = DataSize

-----------------------------------------------------------------------------
\* wsaBuf.len of the receive that RegisterRecv posts.
RoomOffered == FreeSize

\* The kernel completes the receive with n bytes of the stream.
Receive ==
  /\ pc = "receiving"
  /\ \E n \in 1 .. RoomOffered :
       /\ arrived + n <= ends[Packets]
       /\ buffer' = [i \in Cells |-> IF i \in writePos .. writePos + n - 1
                                     THEN arrived + 1 + (i - writePos) ELSE buffer[i]]
       /\ numOfBytes' = n
       /\ arrived' = arrived + n
  /\ pc' = "received"
  /\ UNCHANGED <<ends, readPos, writePos, processLen, histVars>>

\* ProcessRecv takes the bytes into account; an overflow ends the connection.
OnWrite ==
  /\ pc = "received"
  /\ writePos' = IF numOfBytes <= FreeSize THEN writePos + numOfBytes ELSE writePos
  /\ pc' = IF numOfBytes <= FreeSize THEN "parsing" ELSE "disconnected"
  /\ processLen' = 0
  /\ UNCHANGED <<ends, arrived, buffer, readPos, numOfBytes, histVars>>

\* The bytes OnRecv has not looked at yet hold a header ...
MorePackets == DataSize - processLen >= HeaderSize

\* ... whose size field is this.  (Where no packet starts it may be anything.)
HeaderSizes ==
  LET first == buffer[readPos + processLen]
      at == {k \in 1 .. Packets : ends[k - 1] + 1 = first}
  IN  IF at = {} THEN HeaderSize .. MaxPacket ELSE {ends[k] - ends[k - 1] : k \in at}

\* One turn of the loop in OnRecv: a whole packet goes to OnRecvPacket.
OnRecvPacket ==
  /\ pc = "parsing"
  /\ MorePackets
  /\ \E size \in HeaderSizes :
       /\ size <= DataSize - processLen
       /\ intact' = (/\ intact
                     /\ delivered < Packets
                     /\ size = ends[delivered + 1] - ends[delivered]
                     /\ \A i \in 0 .. size - 1 :
                          buffer[readPos + processLen + i] = ends[delivered] + 1 + i)
       /\ processLen' = processLen + size
  /\ delivered' = delivered + 1
  /\ UNCHANGED <<ends, arrived, memVars, numOfBytes, overlapped, pc>>

\* OnRecv ends: no header, or not the whole of its packet.  OnRead then drops
\* what OnRecv has processed, unless that is more than there is.
OnRead ==
  /\ pc = "parsing"
  /\ MorePackets => \A size \in HeaderSizes : size > DataSize - processLen
  /\ readPos' = IF processLen <= DataSize THEN readPos + processLen ELSE readPos
  /\ pc' = IF processLen <= DataSize THEN "cleaning" ELSE "disconnected"
  /\ UNCHANGED <<ends, arrived, buffer, writePos, numOfBytes, processLen, histVars>>

\* memcpy of the unread bytes to the start of the buffer; it is undefined
\* behaviour if the two regions overlap.
Compact ==
  /\ buffer' = [i \in Cells |-> IF i < DataSize THEN buffer[readPos + i] ELSE buffer[i]]
  /\ overlapped' = (overlapped \/ DataSize > readPos)
  /\ readPos' = 0
  /\ writePos' = DataSize

\* An empty buffer starts over.
Rewind == readPos' = 0 /\ writePos' = 0 /\ UNCHANGED <<buffer, overlapped>>

\* Clean, then RegisterRecv for the next receive.
Clean ==
  \/ DataSize = 0 /\ Rewind
  \/ DataSize # 0 /\ FreeSize >= BufferSize /\ UNCHANGED <<memVars, overlapped>>
  \/ DataSize # 0 /\ FreeSize < BufferSize /\ Compact

CleanAndRegister ==
  /\ pc = "cleaning"
  /\ Clean
  /\ pc' = "receiving"
  /\ UNCHANGED <<ends, arrived, numOfBytes, processLen, delivered, intact>>

Handler == OnWrite \/ OnRecvPacket \/ OnRead \/ CleanAndRegister

Next == Receive \/ Handler

Spec == Init /\ [][Next]_vars

\* The worker that took the completion runs its handler to the end.  Nothing
\* makes the peer send.
FairSpec == Spec /\ WF_vars(Handler)

-----------------------------------------------------------------------------
\* Every variable has its type.
TypeOK ==
  /\ IsStream(ends)
  /\ arrived \in 0 .. ends[Packets]
  /\ buffer \in [Cells -> Nat]
  /\ readPos \in 0 .. writePos
  /\ writePos \in 0 .. Capacity
  /\ numOfBytes \in Nat
  /\ processLen \in Nat
  /\ delivered \in 0 .. Packets
  /\ intact \in BOOLEAN
  /\ overlapped \in BOOLEAN
  /\ pc \in {"receiving", "received", "parsing", "cleaning", "disconnected"}

(***************************************************************************)
(* However the stream is cut into receives, OnRecvPacket gets the packets  *)
(* the peer sent, whole, each once, in their order.                        *)
(***************************************************************************)
PacketsIntact == intact

(***************************************************************************)
(* A receive is never posted with less free space than BUFFER_SIZE; with   *)
(* none at all it would complete with zero bytes and disconnect the peer.  *)
(***************************************************************************)
RoomToReceive == pc = "receiving" => FreeSize >= BufferSize

\* The overflow branches of ProcessRecv, which disconnect, are never taken.
NeverOverflows == pc # "disconnected"

\* Clean never calls memcpy on overlapping regions.
CopiesDisjoint == ~overlapped

(***************************************************************************)
(* When the handler waits for more bytes, the buffer holds no whole        *)
(* packet: none is kept back until the peer happens to send again.         *)
(***************************************************************************)
NoPacketWaits ==
  pc = "receiving" /\ delivered < Packets => arrived < ends[delivered + 1]

\* Every packet whose bytes have arrived is handed to OnRecvPacket.
PacketsDelivered == \A k \in 1 .. Packets : arrived >= ends[k] ~> delivered >= k
=============================================================================
