----------------------------- MODULE ObjectPool -----------------------------
(***************************************************************************)
(* Where the SendBuffer objects live: ObjectPool (IocpLib/Memory), built,  *)
(* as Macros.h has it, on StompAllocator.  Each object has pages of its    *)
(* own and ends where they end, so that a write behind it faults.  Release *)
(* is told nothing but the address of the object, from which it has to     *)
(* find the address the pages were reserved at.                            *)
(*                                                                         *)
(* Any thread may take an object or give one back; what they share is the  *)
(* address space, which the kernel keeps.  An object is given back by the  *)
(* deleter of its shared_ptr, once.                                        *)
(***************************************************************************)
EXTENDS Integers

PAGE_SIZE == 4096
HeaderSize == 32  \* sizeof(MemoryHeader): an SLIST_ENTRY and a size, aligned to 16

\* The sizes for which the int32 addition in PageCount does not overflow.
AllocSizes == 1 .. 2147483647 - PAGE_SIZE

VARIABLES
  regions,  \* the reserved pages: address and length
  objects,  \* the objects in use: the address of each and the size of its type
  leaked,   \* a VirtualFree failed
  crashed   \* a null pointer was written through

vars == <<regions, objects, leaked, crashed>>

Init ==
  /\ regions = {}
  /\ objects = {}
  /\ leaked = FALSE
  /\ crashed = FALSE

\* Two pieces of the address space have no byte in common.
Apart(p, q) == p.base + p.size <= q.base \/ q.base + q.size <= p.base

-----------------------------------------------------------------------------
PageCount(size) == (size + PAGE_SIZE - 1) \div PAGE_SIZE
DataOffset(size) == PageCount(size) * PAGE_SIZE - size
BaseAddress(address) == address - (address % PAGE_SIZE)

AttachHeader(header) == header + HeaderSize
DetachHeader(object) == object - HeaderSize

\* The kernel finds free pages.
VirtualAlloc(base, size) ==
  /\ base > 0
  /\ base % PAGE_SIZE = 0
  /\ \A r \in regions : Apart(r, [base |-> base, size |-> size])
  /\ regions' = regions \cup {[base |-> base, size |-> size]}

\* It releases the pages that were reserved at this very address.
VirtualFree(base) ==
  /\ regions' = {r \in regions : r.base # base}
  /\ leaked' = (leaked \/ regions' = regions)

\* Pop makes room for a header and an object of the given size.
Pop(size) ==
  LET allocSize == size + HeaderSize
  IN  /\ allocSize \in AllocSizes
      /\ \E base \in Nat :
           /\ VirtualAlloc(base, PageCount(allocSize) * PAGE_SIZE)
           /\ objects' = objects \cup
                {[base |-> AttachHeader(base + DataOffset(allocSize)), size |-> size]}
      /\ UNCHANGED <<leaked, crashed>>

\* There are no pages, and nobody looks: the header is written behind address 0.
PopFails ==
  /\ crashed' = TRUE
  /\ UNCHANGED <<regions, objects, leaked>>

Push(o) ==
  /\ objects' = objects \ {o}
  /\ VirtualFree(BaseAddress(DetachHeader(o.base)))
  /\ UNCHANGED crashed

\* A crash is the end of the program.
Next ==
  /\ ~crashed
  /\ \/ \E size \in Nat \ {0} : Pop(size)
     \/ PopFails
     \/ \E o \in objects : Push(o)

Spec == Init /\ [][Next]_vars

-----------------------------------------------------------------------------
\* The pages and the memory, header included, of an object.
Block(o) == [base |-> DetachHeader(o.base), size |-> HeaderSize + o.size]
Region(o) == [base |-> BaseAddress(Block(o).base),
              size |-> PageCount(Block(o).size) * PAGE_SIZE]

(***************************************************************************)
(* Every VirtualFree finds its pages: the pages reserved are those of the  *)
(* objects in use, whatever was taken and given back before.               *)
(***************************************************************************)
NothingLeaks == ~leaked /\ regions = {Region(o) : o \in objects}

\* No byte belongs to two objects or their headers.
ObjectsApart == \A o, p \in objects : o # p => Apart(Block(o), Block(p))

\* An object ends where its pages end: what the allocator is for.
EndsAtPageEnd ==
  \A o \in objects : o.base + o.size = Region(o).base + Region(o).size
=============================================================================
