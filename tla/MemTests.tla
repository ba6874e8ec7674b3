------------------------------ MODULE MemTests ------------------------------
(***************************************************************************)
(* The allocator under its callers: tasks that call it in any order, or    *)
(* one task that runs a memory test of app/ae_mem.c, which nothing in the  *)
(* repository calls, on the memory k_mem_init has just set up.  A test is  *)
(* the sequence of what it has still to do; a pointer is a block's second  *)
(* unit.                                                                   *)
(***************************************************************************)
EXTENDS FirstFit, Sequences

CONSTANTS
  Tester,     \* the task that runs the test
  Scenarios,  \* the test, or "none", for each place the image may end
  BLOCKS,     \* N of heap_leakage_test
  STEP        \* and the multiple, 256, by which its blocks grow

ASSUME TestAssumption ==
  /\ Tester \in Owners
  /\ Scenarios \in [Heads -> {"none", "coalescing", "leakage"}]
  /\ BLOCKS \in Nat \ {0} /\ STEP \in Nat \ {0} /\ STEP % 8 = 0

VARIABLES todo,    \* what the test has still to do
          p,       \* what k_mem_alloc returned to it: p1..p9, or p_old and p_new
          result   \* "running", and then what the test returned

test == Scenarios[head]
mem == vars
testing == <<todo, p, result>>

RTX_OK == 0
RTX_ERR == -1

-----------------------------------------------------------------------------
Allocates(sizes) == [i \in 1..Len(sizes) |-> [do |-> "alloc", bytes |-> sizes[i]]]
Frees(which) == [i \in 1..Len(which) |-> [do |-> "free", which |-> which[i]]]
Counts(stage) == <<[do |-> "count", stage |-> stage]>>
Compares == <<[do |-> "compare"]>>

Coalescing ==
  Allocates([i \in 1..9 |-> 32])   \o Counts(1) \o
  Frees(<<2, 4, 6, 8>>)            \o Counts(2) \o
  Frees(<<3, 7>>)                  \o Counts(3) \o
  Frees(<<1, 5, 9>>)               \o Counts(4)

\* The blocks not freed before a stage, which it frees when it fails.
Remaining == <<[i \in 1..9 |-> i], <<1, 3, 5, 7, 9>>, <<1, 5, 9>>, <<>>>>

Leakage ==
  Allocates([i \in 1..BLOCKS |-> STEP * i - 1])                \o
  Frees([i \in 1..BLOCKS |-> i])                               \o
  Allocates([i \in 1..BLOCKS |-> STEP * (BLOCKS - i + 1) - 1]) \o
  Compares \o Frees([i \in 1..BLOCKS |-> BLOCKS + i])

TestInit ==
  /\ Init
  /\ todo = CASE test = "none" -> <<>>
              [] test = "coalescing" -> Coalescing
              [] test = "leakage" -> Leakage
  /\ p = <<>>
  /\ result = "running"

-----------------------------------------------------------------------------
\* A test that has nothing more to do has passed, unless it failed before.
Proceeds(rest, verdict) ==
  /\ todo' = rest
  /\ result' = IF verdict # "running" THEN verdict
               ELSE IF rest = <<>> THEN "passed" ELSE "running"

\* heap_leakage_test checks that a pointer is not NULL and is far enough from
\* the one before.
FarEnough(ptr) ==
  LET n == Len(p)
      i == n % BLOCKS      \* i of the loop
      gap == IF n < BLOCKS THEN STEP * i ELSE STEP * (BLOCKS - i + 1)
  IN ptr # NULL /\ (i > 0 => 8 * p[n] + gap < 8 * ptr)

AllocReturns(ptr) ==
  /\ p' = Append(p, ptr)
  /\ IF test = "leakage" /\ ~FarEnough(ptr)
     THEN Proceeds(<<>>, IF Len(p) < BLOCKS THEN "CODE_MEM_ALLOC"
                                            ELSE "CODE_HEAP_LEAKAGE_1")
     ELSE Proceeds(Tail(todo), result)

DeallocReturns(code) ==
  /\ UNCHANGED p
  /\ IF test = "leakage" /\ Len(p) = BLOCKS /\ code = RTX_ERR
     THEN Proceeds(<<>>, "CODE_MEM_DEALLOC")
     ELSE Proceeds(Tail(todo), result)

-----------------------------------------------------------------------------
\* The test's next statement.
Does(what) == call = Idle /\ todo # <<>> /\ Head(todo).do = what

k_mem_alloc == /\ Does("alloc")
               /\ Alloc(Head(todo).bytes, Tester)
               /\ UNCHANGED testing

\* What k_mem_dealloc refuses at once, and what it looks for.
Ptr == p[Head(todo).which]
Refuses(ptr) == ptr = NULL \/ link[ptr - 1] \notin {Tester, JUNK}
k_mem_dealloc == /\ Does("free")
                 /\ IF Refuses(Ptr)
                    THEN DeallocReturns(RTX_ERR) /\ UNCHANGED mem
                    ELSE Dealloc(Ptr - 1, Tester) /\ UNCHANGED testing

\* The free blocks smaller than that.
k_mem_count_extfrag(bytes) == Cardinality({a \in FreeBlocks : 8 * size[a] < bytes})

\* The test learns the size of a header from the distance of two blocks.
CountTwice ==
  LET header == 8 * (p[2] - p[1]) - 32
      stage == Head(todo).stage
      count(blocks) == k_mem_count_extfrag(blocks * (32 + header) + 1)
      asExpected == CASE stage = 1 -> count(1) = 0 /\ count(3) = 0
                      [] stage = 2 -> count(1) = 4 /\ count(3) = 4
                      [] stage = 3 -> count(1) = 0 /\ count(3) = 2
                      [] stage = 4 -> count(9) = 0
  IN /\ Does("count")
     /\ IF asExpected THEN Proceeds(Tail(todo), result)
        ELSE Proceeds(Frees(Remaining[stage]), "failed")
     /\ UNCHANGED <<mem, p>>

\* "the total occupied area in the re-allocation should be the same as in the
\* initial allocation"
Compare ==
  /\ Does("compare")
  /\ IF /\ p[1] = p[BLOCKS + 1]
        /\ 8 * p[BLOCKS] + BLOCKS * STEP = 8 * p[2 * BLOCKS] + STEP
     THEN Proceeds(Tail(todo), result)
     ELSE Proceeds(<<>>, "CODE_HEAP_LEAKAGE_2")
  /\ UNCHANGED <<mem, p>>

\* The allocator's own steps, the last of which returns to the test.
Steps ==
  /\ Step
  /\ IF test = "none" \/ call' # Idle THEN UNCHANGED testing
     ELSE IF call.op = "find"
     THEN AllocReturns(IF call.curr = NULL THEN NULL ELSE call.curr + 1)
     ELSE DeallocReturns(IF call.temp = call.node /\ call.temp # call.stop
                         THEN RTX_OK ELSE RTX_ERR)

\* Any task's call.
AnyCall == test = "none" /\ Call /\ UNCHANGED testing

TestNext == \/ AnyCall \/ Steps
            \/ k_mem_alloc \/ k_mem_dealloc \/ CountTwice \/ Compare

\* A call runs to its end, and a test goes on.
TestSpec == /\ TestInit /\ [][TestNext]_<<mem, testing>>
            /\ WF_<<mem, testing>>(Steps)

-----------------------------------------------------------------------------
\* What is left of the memory beyond the test's blocks.
Rest(units) == END - head - units
EnoughFor ==
  CASE test = "coalescing" -> 8 * Rest(9 * 5) > 3 * 40
    [] test = "leakage" -> Rest(BLOCKS + (STEP * BLOCKS * (BLOCKS + 1)) \div 16) >= 0

\* Both tests report what they are for: splitting, first fit and merging are
\* right whenever the memory was large enough for the test to tell
\* (ae_mem.c:58-133, 155-212).
TestsPass ==
  test # "none" /\ result # "running" => (result = "passed" <=> EnoughFor)
=============================================================================
