----------------------------- MODULE ScriptHeap -----------------------------
(***************************************************************************)
(* GCAlloc of QtScriptClassic: the blocks of the script objects, in a list *)
(* of those in use, in the order of their allocation, and a list of the    *)
(* free ones.  Lists are chained through the blocks; 0 is the null         *)
(* pointer.  The memory pool below has MaxBlocks blocks.                   *)
(***************************************************************************)
EXTENDS Integers, Sequences

CONSTANTS
    MaxBlocks,           \* blocks the pool can give (bound of the model)
    MaxNumberOfBlocks    \* new blocks after which poll() asks for a collection

ASSUME ScriptHeapAssumption == MaxBlocks \in Nat /\ MaxNumberOfBlocks \in Nat

Block == 1 .. MaxBlocks

(* A heap with one block, the global object.  Generations are counted from *)
(* that of the engine (m_objectGeneration) on: a new block has 0, and 1    *)
(* when it is marked; a free one has none to speak of, which is 0 too.     *)
NewHeap ==
    [m_head |-> 1, m_current |-> 1, m_free |-> 0,
     next |-> [b \in Block |-> 0], generation |-> [b \in Block |-> 0],
     pool |-> 1,                 \* blocks the pool has given
     m_new_allocated_blocks |-> 1, m_force_gc |-> FALSE]

CanAllocate(h, blocks) == h.m_free # 0 \/ h.pool < blocks

(* The block operator() returns for heap h, and the heap then.             *)
Where(h) == IF h.m_free = 0 THEN h.pool + 1 ELSE h.m_free

Chained(h, b) ==
    [h EXCEPT !.m_head = IF h.m_current = 0 THEN b ELSE @,
              !.m_current = b,
              !.next = [x \in Block |-> CASE x = b -> 0
                                          [] x # b /\ x = h.m_current -> b
                                          [] OTHER -> h.next[x]]]

Allocated(h) ==
    LET b == Where(h)
        taken == IF h.m_free = 0
                 THEN [h EXCEPT !.pool = @ + 1, !.m_new_allocated_blocks = @ + 1]
                 ELSE [h EXCEPT !.m_free = h.next[b],
                                !.m_force_gc = @ \/ h.next[b] = 0]
    IN  [Chained(taken, b) EXCEPT !.generation[b] = 0]

(* poll(), of a heap that is not blocked; much says that the objects have  *)
(* allocated MaxNumberOfExtraBytes elsewhere since the last sweep.         *)
poll(h, much) ==
    h.m_head # 0 /\ \/ h.m_force_gc
                    \/ h.m_free # 0 /\ h.next[h.m_free] = 0
                    \/ h.m_new_allocated_blocks >= MaxNumberOfBlocks
                    \/ much /\ h.m_new_allocated_blocks > 0

Polled(h) == [h EXCEPT !.m_force_gc = FALSE]

\* Mutant: the next block is read when the freed one is on the free list already.
FreedLosesNext(h, b) ==
    [h EXCEPT !.next = [x \in Block |-> CASE x = b -> h.m_free
                                          [] x # b /\ x = h.m_current -> h.m_free
                                          [] OTHER -> h.next[x]],
              !.m_free = b,
              !.m_head = IF @ = b THEN h.next[b] ELSE @]

(* The sweep takes block b, behind m_current, out of the list.             *)
Freed(h, b) ==
    [h EXCEPT !.next = [x \in Block |-> CASE x = b -> h.m_free
                                          [] x # b /\ x = h.m_current -> h.next[b]
                                          [] OTHER -> h.next[x]],
              !.m_free = b,
              !.m_head = IF @ = b THEN h.next[b] ELSE @]

RECURSIVE SweepFrom(_, _)
SweepFrom(h, b) ==
    IF b = 0 THEN [h EXCEPT !.m_head = IF h.m_current = 0 THEN 0 ELSE @]
    ELSE IF h.generation[b] # 1 THEN SweepFrom(Freed(h, b), h.next[b])
    ELSE SweepFrom([h EXCEPT !.m_current = b], h.next[b])

(* The blocks on the list that starts with b; it may be broken.            *)
RECURSIVE ListFrom(_, _, _)
ListFrom(next, b, seen) ==
    IF b = 0 \/ b \in seen THEN <<>> ELSE <<b>> \o ListFrom(next, next[b], seen \cup {b})

InUse(h) == ListFrom(h.next, h.m_head, {})
Free(h)  == ListFrom(h.next, h.m_free, {})

(* sweep(), and the generation of the marked blocks becomes the engine's.  *)
sweep(h) ==
    LET swept == SweepFrom([h EXCEPT !.m_current = 0, !.m_new_allocated_blocks = 0], h.m_head)
        left  == {InUse(swept)[i] : i \in DOMAIN InUse(swept)}
    IN  [swept EXCEPT !.generation = [b \in Block |-> IF b \in left THEN @[b] - 1 ELSE 0]]
=============================================================================
