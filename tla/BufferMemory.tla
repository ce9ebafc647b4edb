---------------------------- MODULE BufferMemory ----------------------------
(***************************************************************************)
(* What the send buffer pool promises to those who send: memory, with no   *)
(* chunk, no pool and no thread in sight.                                  *)
(*                                                                         *)
(* A buffer that is opened is given cells nobody else has.  Its writer     *)
(* keeps some of them when it closes it; from then on it can be shared.    *)
(* Its cells are the same for all who have it, and are given back when the *)
(* last of them lets go, and then only.                                    *)
(***************************************************************************)
EXTENDS Naturals

CONSTANTS
  Buffers,
  Cells

VARIABLES
  phase,  \* of each buffer: free, being written or closed
  cells,  \* the memory of each buffer
  refs    \* how many have it

vars == <<phase, cells, refs>>

Init ==
  /\ phase = [b \in Buffers |-> "free"]
  /\ cells = [b \in Buffers |-> {}]
  /\ refs = [b \in Buffers |-> 0]

Becomes(b, from, to) == phase[b] = from /\ phase' = [phase EXCEPT ![b] = to]

Keeps(b, kept) == cells' = [cells EXCEPT ![b] = kept]

Open(b) ==
  /\ Becomes(b, "free", "written")
  /\ refs' = [refs EXCEPT ![b] = 1]
  /\ \E given \in SUBSET Cells :
       /\ given # {}
       /\ \A d \in Buffers \ {b} : given \cap cells[d] = {}
       /\ Keeps(b, given)

Close(b) ==
  /\ Becomes(b, "written", "closed")
  /\ \E kept \in SUBSET cells[b] : kept # {} /\ Keeps(b, kept)
  /\ UNCHANGED refs

Share(b) ==
  /\ phase[b] = "closed" /\ refs[b] > 0
  /\ refs' = [refs EXCEPT ![b] = @ + 1]
  /\ UNCHANGED <<phase, cells>>

LetGo(b) ==
  /\ refs' = [refs EXCEPT ![b] = @ - 1]
  /\ \/ phase[b] = "closed" /\ refs[b] > 1 /\ UNCHANGED <<phase, cells>>
     \/ refs[b] = 1 /\ Becomes(b, "closed", "free") /\ Keeps(b, {})

Next == \E b \in Buffers : Open(b) \/ Close(b) \/ Share(b) \/ LetGo(b)

Spec == Init /\ [][Next]_vars
=============================================================================
