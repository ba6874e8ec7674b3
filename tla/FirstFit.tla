------------------------------ MODULE FirstFit ------------------------------
(***************************************************************************)
(* The allocator of kernel/k_mem.c: a first-fit list of free blocks inside *)
(* the memory it manages.  Addresses and block sizes are in units of eight *)
(* bytes, the size of a header and the alignment of every block.  A block  *)
(* begins with a header of two words: `size' and `link', the latter being  *)
(* the next free block's address in a free block and the owner's task id   *)
(* in an allocated one.  The kernel runs one call at a time; each          *)
(* iteration of a loop is a step.  `live' is a history variable.           *)
(***************************************************************************)
EXTENDS Integers, FiniteSets

CONSTANTS
  MEM,       \* the last unit below RAM_END
  Heads,     \* where the image may end
  Owners,    \* task ids; 0 is the kernel, which owns stacks and mailboxes
  Sizes,     \* the sizes asked for, in bytes
  WORD,      \* 2^32: sizes are computed modulo this
  JUNK       \* what a word holds that the tasks, not the allocator, wrote

ASSUME MemAssumption ==
  /\ MEM \in Nat /\ Heads \subseteq 1..MEM /\ Sizes \subseteq 1..(WORD - 1)
  /\ 0 \in Owners /\ JUNK \notin Owners
  /\ WORD \in Nat /\ WORD % 8 = 0 /\ 8 * MEM < WORD

NULL == 0
END == MEM + 1     \* RAM_END1

VARIABLES size, link, head, free_head,
          call,    \* the call in progress and its locals
          live     \* the blocks allocated and not freed: what their owners know

vars == <<size, link, head, free_head, call, live>>

Addresses == head..MEM

Idle == [op |-> "idle"]

\* k_mem_init.
Init ==
  /\ head \in Heads
  /\ size = [a \in Addresses |-> IF a = head THEN END - head ELSE JUNK]
  /\ link = [a \in Addresses |-> IF a = head THEN NULL ELSE JUNK]
  /\ free_head = head
  /\ call = Idle
  /\ live = {}

-----------------------------------------------------------------------------
\* Fault: a size already a multiple of eight rounded down.
WantShort(n) == n \div 8 + 1

\* (size + 7) & ~0x7, and the header.
Want(n) == (((n + 7) % WORD) \div 8 + 1) % (WORD \div 8)

Alloc(n, o) ==
  /\ call = Idle
  /\ call' = [op |-> "find", curr |-> free_head, prev |-> NULL,
              want |-> Want(n), bytes |-> n, owner |-> o]
  /\ UNCHANGED <<size, link, head, free_head, live>>

\* Faults: a block that fits exactly passed over, and the search begun again.
FindStrict ==
  /\ call.op = "find"
  /\ IF call.curr = NULL THEN call' = Idle
     ELSE /\ size[call.curr] <= call.want
          /\ call' = [call EXCEPT !.prev = call.curr, !.curr = link[call.curr]]
  /\ UNCHANGED <<size, link, head, free_head, live>>
FindAgain ==
  /\ call.op = "find"
  /\ IF call.curr = NULL THEN call' = Idle
     ELSE /\ size[call.curr] < call.want
          /\ call' = [call EXCEPT !.prev = call.curr, !.curr = free_head]
  /\ UNCHANGED <<size, link, head, free_head, live>>

\* The search goes on past a block that is too small, or ends without any.
Find ==
  /\ call.op = "find"
  /\ IF call.curr = NULL THEN call' = Idle
     ELSE /\ size[call.curr] < call.want
          /\ call' = [call EXCEPT !.prev = call.curr, !.curr = link[call.curr]]
  /\ UNCHANGED <<size, link, head, free_head, live>>

\* The block after the one taken in the free list: what is left of it, if that
\* has room for a header, or the one that followed it.
Remainder(curr, want) ==
  IF size[curr] - want >= 1 THEN curr + want ELSE link[curr]

\* The block is split, unlinked and given its owner; its owner writes to it.
Take ==
  /\ call.op = "find" /\ call.curr # NULL
  /\ size[call.curr] >= call.want
  /\ LET curr == call.curr
         want == call.want
         left == size[curr] - want
         next == Remainder(curr, want)
         taken == IF left >= 1 THEN want ELSE size[curr]
     IN /\ size' = [a \in Addresses |->
                      IF a = curr THEN taken
                      ELSE IF left >= 1 /\ a = curr + want THEN left
                      ELSE IF a > curr /\ a < curr + taken THEN JUNK
                      ELSE size[a]]
        /\ link' = [a \in Addresses |->
                      IF a = curr THEN call.owner
                      ELSE IF left >= 1 /\ a = curr + want THEN link[curr]
                      ELSE IF a = call.prev THEN next
                      ELSE IF a > curr /\ a < curr + taken THEN JUNK
                      ELSE link[a]]
        /\ free_head' = IF call.prev = NULL THEN next ELSE free_head
        /\ live' = live \cup {[at |-> curr, bytes |-> call.bytes, owner |-> call.owner]}
  /\ call' = Idle /\ UNCHANGED head

-----------------------------------------------------------------------------
\* Fault: the owner not compared.
DeallocAny(p, o) ==
  /\ call = Idle
  /\ call' = [op |-> "seek", node |-> p, owner |-> o,
              start |-> head, stop |-> free_head]
  /\ UNCHANGED <<size, link, head, free_head, live>>

\* k_mem_dealloc_internals of the block whose header is at p, for any aligned
\* p in the memory: its owner word must be the caller's id, which a word that
\* a task wrote may always be.
Dealloc(p, o) ==
  /\ call = Idle
  /\ link[p] \in {o, JUNK}
  /\ call' = [op |-> "seek", node |-> p, owner |-> o,
              start |-> head, stop |-> free_head]
  /\ UNCHANGED <<size, link, head, free_head, live>>

\* The free blocks on either side of the node.
Seek ==
  /\ call.op = "seek"
  /\ call' = IF call.stop # NULL /\ call.stop < call.node
             THEN [call EXCEPT !.start = call.stop, !.stop = link[call.stop]]
             ELSE [op |-> "walk", node |-> call.node, owner |-> call.owner,
                   start |-> call.start, stop |-> call.stop, temp |-> call.start]
  /\ UNCHANGED <<size, link, head, free_head, live>>

\* From block to block between them, until the node is found to be one.
Walk ==
  /\ call.op = "walk"
  /\ call.temp # call.node \/ call.temp = call.stop
  /\ call' = IF call.temp < END /\ call.temp # call.stop
             THEN [call EXCEPT !.temp = @ + size[call.temp]]
             ELSE Idle
  /\ UNCHANGED <<size, link, head, free_head, live>>

\* Fault: adjacent blocks compared without the first one's size.
AdjacentNever(a, b, sizes) == b # NULL /\ a = b
Adjacent(a, b, sizes) == b # NULL /\ a + sizes[a] = b

\* Faults: the block before looked at even when there is none; and not looked
\* at when it is the first of the memory.
MergesAlways(start, first, node, sizes) == Adjacent(start, node, sizes)
MergesNotFirst(start, first, node, sizes) == start # head /\ Adjacent(start, node, sizes)

\* Whether the block before the node is free and ends where the node begins.
MergesBack(start, first, node, sizes) ==
  (start # head \/ start = first) /\ Adjacent(start, node, sizes)

\* Found: it enters the list and is merged with its neighbours.
Free ==
  /\ call.op = "walk"
  /\ call.temp = call.node /\ call.temp # call.stop
  /\ LET node == call.node
         start == call.start
         stop == call.stop
         isFirst == start = head /\ free_head # head
         first == IF isFirst THEN node ELSE free_head
         linked == IF isFirst THEN [link EXCEPT ![node] = stop]
                   ELSE [link EXCEPT ![node] = stop, ![start] = node]
         ahead == Adjacent(node, stop, size)
         size1 == IF ahead THEN [size EXCEPT ![node] = @ + size[stop]] ELSE size
         link1 == IF ahead THEN [linked EXCEPT ![node] = linked[stop]] ELSE linked
     IN /\ free_head' = first
        /\ IF MergesBack(start, first, node, size1)
           THEN /\ size' = [size1 EXCEPT ![start] = @ + size1[node]]
                /\ link' = [link1 EXCEPT ![start] = link1[node]]
           ELSE size' = size1 /\ link' = link1
        /\ live' = {b \in live : b.at # node}
  /\ call' = Idle /\ UNCHANGED head

\* A task's stack is rounded up to whole units before
\* the kernel asks for it.
StackBytes(n) == IF n % 8 = 0 THEN n ELSE ((n + 8) \div 8) * 8
k_alloc_p_stack(n) == Alloc(StackBytes(n), 0)

Call == \/ \E n \in Sizes : k_alloc_p_stack(n) \/ \E o \in Owners : Alloc(n, o)
        \/ \E p \in Addresses, o \in Owners : Dealloc(p, o)

Step == Find \/ Take \/ Seek \/ Walk \/ Free

Next == Call \/ Step

Spec == Init /\ [][Next]_vars

-----------------------------------------------------------------------------
\* The free blocks, from one on, as far as their links lead upwards.
FreeFrom[a \in 0..MEM] ==
  IF a = NULL THEN {}
  ELSE IF link[a] \in (a + 1)..MEM THEN {a} \cup FreeFrom[link[a]] ELSE {a}
FreeBlocks == FreeFrom[free_head]
Allocated == {b.at : b \in live}

\* The allocated and the free blocks tile the memory: they follow each other
\* without a gap or an overlap from its first unit to its last, so that nothing
\* leaks (ae_mem.c, heap_leakage_test) and the walk over sizes stays on headers.
Tiled ==
  /\ Allocated \cap FreeBlocks = {}
  /\ Cardinality(Allocated) = Cardinality(live)
  /\ head \in Allocated \cup FreeBlocks
  /\ \A a \in Allocated \cup FreeBlocks :
       /\ a + size[a] = END \/ a + size[a] \in Allocated \cup FreeBlocks
       /\ \A c \in Allocated \cup FreeBlocks : c > a => c >= a + size[a]

\* Free blocks are linked in the order of their addresses and no two of them
\* touch: every deallocation has merged what it could (ae_mem.c,
\* test_coalescing_free_regions_using_count_extfrag).
Coalesced ==
  \A a \in FreeBlocks :
    link[a] = NULL \/ (link[a] \in FreeBlocks /\ a + size[a] < link[a])

\* A block has the bytes its owner asked for, and bears its owner's id.
RoomForAll ==
  \A b \in live : /\ b.bytes <= 8 * (size[b.at] - 1)
                  /\ link[b.at] = b.owner

\* First fit: the search has passed only blocks that are too small, so that it
\* fails only when no free block is big enough (k_mem.c:200).
PassedAreTooSmall ==
  call.op = "find" =>
    \A a \in FreeBlocks : call.curr = NULL \/ a < call.curr => size[a] < call.want

\* Only its owner's call frees a block, and only the block that was named; a
\* pointer into a block, or to a block already free, frees nothing.
OwnersFree ==
  [][\A b \in live \ live' : call.op = "walk" /\ call.node = b.at /\ call.owner = b.owner]_vars

\* Freeing a live block by its owner succeeds: the walk reaches it.
LiveIsFound ==
  call.op = "walk" /\ (\E b \in live : b.at = call.node /\ b.owner = call.owner)
    => call.temp <= call.node /\ (call.stop = NULL \/ call.node < call.stop)

\* Every call returns: no list and no walk goes round in circles.
CallsReturn == call # Idle ~> call = Idle
=============================================================================
