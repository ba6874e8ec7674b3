# A TLA+ development of the ARM RTX kernel

The repository is a small real-time executive for the DE1-SoC (Cortex-A9):
tasks with strict priorities, first-come-first-served among equals, mailboxes,
a first-fit allocator, and a console task (KCD) fed by the UART interrupt.
This directory holds TLA+ models of it, configurations for TLC, and proofs
checked by TLAPS. `PROJECT.json` relates every definition to the lines it
models (`map`) and lists the runs, the faults each property is known to catch
(`mutants`), the disagreements found (`findings`), the hazards and the theorems.

Source paths below are relative to `src/RTX/src/`.

## 1. The system

| Component | State | Operations | Correct when |
|---|---|---|---|
| Task management, `kernel/k_task.c` | `g_tcbs`, `g_kcd_tcb`, `gp_current_task`, the ring `U_TID_Q` of free ids, `g_num_active_tasks` | `k_tsk_init`, `create`, `exit`, `yield`, `set_prio`, `run_new` | the running task is the one the policy names; no id is given twice or lost; task states and queue agree |
| Scheduler queue, `kernel/prio_heap.c` | `sched_heap`, `heap_size`, the counters `countL`, `countH`, and `heap_idx`, `tcountL`, `tcountH` in the TCBs | `sched_insert`, `sched_remove`, `sched_peak` | it behaves as a queue ordered by priority, then by age |
| Messages, `kernel/k_msg.c` | per task: the mailbox ring, its size, head and tail; who is blocked | `k_mbx_create`, `k_send_msg`, `k_recv_msg` | messages arrive whole, once, in order; no wake-up is lost or false; no mailbox overflows |
| Allocator, `kernel/k_mem.c` | headers in memory, the free list | `k_mem_init`, `alloc`, `dealloc` | blocks tile the memory, never overlap, neighbours merge, only owners free |
| SVC entry and interrupts, `kernel/HAL_CA.c` | `UART_IRQ_flag`, the processor's mode and mask | SVC dispatch, the UART drain loop, rescheduling | an interrupt never corrupts a call, and costs nobody its turn |
| KCD task, `app/kcd_task.c` | the registration table, the command being typed | receive, register, decode, dispatch | what is typed reaches the task that registered it, and only whole commands do |
| Boot tables and tests, `app/ae*.c` | the tests' own variables: whose turn it is, counts of what went right, sequence numbers | the programs of the boot tasks | each test comes to its verdict, and the verdict is the full score |
| Board support, `board/DE1_SoC_A9/` | the interrupt controller's and the devices' registers | `GIC_DistInit`, `GIC_CPUInterfaceInit`, `SystemInit`, `UART0_Init`, the timers' set-up, acknowledging and ending interrupts | only interrupts the handler knows are signalled, and each is ended before a task runs |

**How they interact.** Tasks call the kernel through SVCs (`HAL_CA.c:168`);
the kernel calls `prio_heap.c` for every change of who may run and `k_mem.c`
for stacks and mailboxes. The UART handler calls `k_send_msg` to `TID_KCD`
character by character and reschedules once, at its end. The KCD task is an
ordinary receiver that also reads `g_tcbs`. `k_tsk_switch` ends every call that
changes the running task; the rest of the call runs when the task is switched
back in.

**What is hard.** The kernel is cooperative, but four things interleave:
several tasks blocked or waiting inside calls, the interrupt between any two
calls, characters arriving while the handler drains the UART, and, with
privileged tasks, the interrupt in the middle of a call. Each task has a kernel
stack of 512 bytes on which an SVC, an interrupt and a switch nest. Ids are
reused, and several places keep an id, a heap position or a buffer's content
longer than what it stood for. Counters and rings wrap. An allocation may fail
halfway through a creation. The list is in `PROJECT.json` under `hazards`.

## 2. The modules

    ReadyQueue   <-- Kernel <-- KernelLiveness <-- MCKernel
        ^             ^
        |             +-- KernelProofs
    SchedQueue <--implements-- PrioHeap <-- MCPrioHeap, PrioHeapProofs
    MailFifo   <--implements-- Mailbox  <-- MCMailbox, MailboxProofs
    Console    <--implements-- KCD      <-- MCKCD, KCDProofs
    FirstFit   <-- MemTests <-- MCMemTests
        ^             ^
        |             +-- MemTestsProofs (on FirstFitProofs)
        +-- FirstFitProofs
    Kernel     <-- AutoTests
    ReadyQueue <-- Interrupts <-- InterruptsProofs
    SetInduction: used by PrioHeapProofs, FirstFitProofs, MailboxProofs

*ReadyQueue* has operators only: the queue as `prio_heap.c` promises it to its
callers, a set of ids with, for each, the members that are older. *Kernel*
schedules with it, *SchedQueue* is it as a state machine, and *PrioHeap* shows
that the array heap and its counters implement that state machine. So the
kernel's properties do not depend on the heap's layout, and the heap's do not
depend on what the kernel does with it.

*Kernel* is the core: the task table, the ring of ids, boot, scheduling,
message passing between tasks, and the UART interrupt. A call of an
unprivileged task is one action, because the SVC masks IRQs until the switch
that ends it. `k_recv_msg` on an empty mailbox is two (`RecvBlocks`,
`RecvResumes`), because other tasks run between them. The interrupt is
`IrqEnter`, one `IrqChar` for each character, and `IrqExit`, because characters
arrive meanwhile. A mailbox is the sequence of its messages with their lengths
in words. A call that returns `RTX_ERR` without changing anything is no action.

| Code | Action |
|---|---|
| `k_tsk_init` and `main` | `Init`, `BootTask`, `Start` |
| `k_tsk_yield` | `Yield` (and `DoYield` inside others) |
| `k_tsk_create` | `Create`, `CreateFails` |
| `k_tsk_exit`, `k_tsk_set_prio` | `Exit`, `SetPrio` |
| `k_mbx_create`, `k_send_msg`, `k_recv_msg` | `MbxCreate`, `Send`, `Recv`, `RecvBlocks`, `RecvResumes` |
| `c_IRQ_Handler` | `IrqEnter`, `IrqChar`, `IrqExit`; the device is `UartRx` |

*KernelLiveness* adds fairness and what must eventually happen.

*PrioHeap* has every iteration of `up_heap` and `down_heap` as a step, the pair
of counters with their wrap, and `sched_remove` as the code does it, the
comparison with a slot outside the heap included.

*Mailbox* is one mailbox as a ring of symbolic bytes (byte k of message m),
with the code's positions, padding and test; *MailFifo* is the bounded queue of
whole messages it implements. *Kernel* uses the latter's view of a mailbox.

*FirstFit* is the allocator, every loop iteration a step, addresses in units of
eight bytes. Memory the tasks write to is `JUNK`, which may equal any owner id.
Where the program's image ends (`head`) is chosen once, from `Heads`. A task's
stack is rounded up by `k_alloc_p_stack` before the allocator rounds it again.

*MemTests* puts callers on top of it: tasks that call in any order, or one task
that runs a test of `app/ae_mem.c`. A test is the sequence of what it still has
to do (`todo`); the allocator's last step hands its result back to it. In the
source `test_mem` is called by nobody; here it runs.

*AutoTests* runs the boot tables of `ae.c` and the programs of
`ae_priv_tasks.c`, `ae_usr_tasks.c` and `kcd_task.c` on *Kernel*, which it
instantiates once per value of `TEST`. `pc` says what each task does next; an
action is one kernel call with the task's own computation around it, and is
taken only if *Kernel* allows the call. *Kernel* knows only the lengths of
messages, so `content` has what is in them. The operator of TEST 2 types each
command when it is asked for; in TEST 3 anybody may type anything.

| Code | Actions |
|---|---|
| `ktask1`, `ktask2`, `task_null` | `YieldForEver`, `Ktask2Creates`, `Ktask2Lowers` |
| `utask1` of TEST 1 | `LooksForKcd` |
| `utask1`, `utask2` of TEST 2 | `U1Mailbox2` to `U1Result`, `U2Waits` to `U2Reports` |
| `utask1`, `utask2` of TEST 3 | `U1Mailbox3` to `U1Lowers`, `U2Finds` to `U2Refilled` |
| `kcd_task` | `KcdMailbox`, `KcdReceives`, `KcdSends` |

*Interrupts* is one level below *Kernel*: what *Kernel* takes for granted when
it makes a call one step. The processor is at one place (`at`), on one kernel
stack (`cpu`), with IRQs masked or not. `SVC_Handler`, `IRQ_Handler` and
`k_tsk_switch` push a context and take one off again; `k_tsk_yield` and
`k_tsk_run_new` are in steps; an interrupt may come at any place where the I bit
is clear. The interrupt controller and the devices start in any state a boot
loader may leave them in, and are then set up as the code does. What *Kernel*
treats in full (creation, exit, priorities, other messages) is left out here:
tasks yield, and the KCD task receives.

| Code | Actions |
|---|---|
| `GIC_DistInit`, `GIC_CPUInterfaceInit`, `SystemInit`, `UART0_Init`, `k_rtx_init` | actions of these names, `ConfigTimers` |
| `k_tsk_init`, `k_tsk_create_new` | `k_tsk_init`, with the contexts made up for a new task (`FirstContext`) |
| `SVC_Handler`, `SVC_RESTORE`, `EXIT_IRQ` | `Calls` (in `YieldCalled`, `MbxCalled`, `RecvCalled`), `Returns` |
| `k_tsk_yield`, `k_tsk_run_new`, `k_tsk_switch` | `SchedRemove`, `SchedInsert`, `Scheduler`, `States`, `Switch` |
| `IRQ_Handler`, `c_IRQ_Handler` | `IrqTaken`, `Drain`, `Drained`, `TimerCleared`, `EndInterrupt` |

*KCD* is the console task's loop, with tasks that register, exit and give their
ids to others; *Console* is the line discipline it implements, stated without
table, buffer index or flag.

## 3. Runs

Every property of a passing run has a fault (a definition next to the one it
falsifies, marked "Fault") that TLC finds.

| Run | Instance | Shows |
|---|---|---|
| `kernel_kcd` | 4 ids: two equal user tasks, an urgent KCD task; messages of 3 words, mailboxes of 7, a UART FIFO of 1 | StrictPriority, QueueMatchesStates, NoLostWakeup, ActiveIsNonDormant, EqualsShare, InputServed, PreemptionKeepsPlace |
| `kernel_pool` | 4 ids, privileged and user boot entries without a KCD entry, creations that fail, priorities change | TypeOK, TidPool, OnlySelfLeaves, NoReadyMoreUrgent, QueueContract |
| `heap` | six tasks, counters modulo 3 | TypeOK, IndexRight, TopRight, SiftLocal, ImplementsQueue |
| `mailbox` | capacities 4, 16, 32 and 36 bytes, messages of 1, 8, 8 and 9 | WordsAligned, RingHoldsMail, NeverRefusesRoom, ImplementsFifo |
| `first_fit` | nine units of memory and two owners that make any call; the coalescing test on 61, 45 and 44 units; the leakage test, with its own ten blocks up to 2559 bytes, on 1770 and 1769 | Tiled, Coalesced, RoomForAll, PassedAreTooSmall, LiveIsFound, TestsPass, OwnersFree, CallsReturn |
| `kcd` | two ids, lines over `%`, `9`, `A`, three characters at most | TypeOK, ImplementsConsole |
| `tests` | TEST 0, 2 and 3 with the source's priorities, sizes and numbers of rounds; 5 ids | VerdictRight, TestEnds, TakeTurns |
| `interrupts` | two unprivileged tasks and a KCD task, six interrupts of 256, every set of them enabled, active or running at first | KnownInterrupts, EndedBeforeTasks, ContextsRight, OnlyNullMasked, NoneLost, UartServed |

*The bounds and why they are enough.* Four ids are the null task, TID_KCD and
two more: with them the ring of ids is empty, full and wraps, a third party
exists in every exchange of two, and two equals queue behind a more urgent
task. Two priorities below the null task's are what a comparison can tell
apart. In `kernel_kcd` priorities stay as the boot table gives them and no
creation fails; creations that fail and priorities that change are
`kernel_pool`'s, which checks the policy as NoReadyMoreUrgent and the queue as
QueueContract. For both together StrictPriority and QueueMatchesStates are
proved (section 4). A FIFO of one character with `RxInIrq` lets characters arrive both
before and inside the handler; a second place only repeats that, and is there in
`interrupts`, whose KCD mailbox also fills up. Mailboxes are
small enough to be empty, to hold one message or two, and to refuse one that
misses by its metadata only. Six
tasks make a heap of three levels, in which a node has one child, two or none,
and the last element may be more urgent than the parent of the hole it is put
in, which takes at least six; the insertion counters wrap during the run
(`EPOCHS` bounds how often, so the run ends there: hence `CHECK_DEADLOCK
FALSE`). Messages of 8 and 9 bytes in a ring
of 36 start at every aligned offset and wrap in the middle of metadata, header
and body. Nine units hold four smallest blocks, so that a block has free and
allocated neighbours on both sides and a remainder is zero, one or more units.
The tests of `ae_mem.c` run with the source's own numbers, on the smallest
memory on which they can pass and on one unit less. The coalescing test needs
more than its nine blocks: the rest must be too large for the test to count it
with the small ones (120 bytes).
Memory runs to its end in `MCMemTests` because the tests return (`CHECK_DEADLOCK
FALSE`). Of the six interrupts of `interrupts` four are the ones the code knows,
two are the first and the last the loop of `GIC_DistInit` must reach.
Lines of three characters are empty, too short, complete, and overlong; `9` and
`A` have neighbouring slots. `kcd` looks at what later steps can read only
(`VIEW`), and treats task ids alike (`SYMMETRY`); so does `heap`.

*Fairness.* `KernelLiveness!Fairness` assumes that the processor executes: code
of the kernel runs to its end (weak fairness: nothing disables it), and a
pending interrupt is taken as soon as it is unmasked (strong, since every call
masks it). Of tasks it assumes that they keep yielding, and that the KCD task
keeps serving its mailbox, which is its loop (strong, since interrupts come
between). It says nothing of messages sent or of tasks created. The kernel has
no time slices, so a task that never yields starves its equals by design.
`MemTests` only assumes that a call in progress goes on. `AutoTests` assumes the
same of the kernel, that the program of the task that runs goes on, and that the
operator of TEST 2 types what it is asked for. `Interrupts` assumes that the
processor executes, and that a UART interrupt signalled again and again is
taken: the controller prefers it to timer 1's, whose number is higher.

*Disagreements.* Four runs end in a violation that the code really produces:

- `tests_t01`: without a KCD entry the last boot task gets `TID_KCD`; TEST 1
  says there should be no task under it, and fails from its own boot table.
- `kernel_phantom`: a creation that fails for lack of memory leaves its TCB
  `READY` (so `g_num_active_tasks` is no longer the number of non-dormant
  tasks), and `tsk_set_prio` on that id removes another task from the heap,
  because `sched_remove` trusts a stale `heap_idx`. That task is `READY` for
  ever and never runs.
- `priv_preempt`: a privileged task calls `k_tsk_yield` with IRQs enabled. A
  character typed after its `sched_remove` makes the handler switch away from a
  task that is in no queue: it is `READY`, and never runs again. The default
  build (TEST 0) has two such tasks.
- `kcd_reuse`: a command reaches a later task with the registrant's id.

*Seen while modelling, with no run.* A command that begins with neither a digit
nor a letter is reported invalid and sent all the same, to whatever an
uninitialized variable holds (`app/kcd_task.c:103`). A size within seven bytes
of 2^32 is rounded up to zero (`kernel/k_mem.c:171`). `heap_leakage_test` keeps
its blocks when it fails. `ae_usr_tasks.c:327` asks the operator for `%dGROUP`
and checks for `dGTA`. `UART0_SetBaudRate` writes the divisor's high byte to the
FIFO control register (`Serial.c:100`), harmless for a divisor below 256.

## 4. Proofs

Each theorem holds for every value of the constants that satisfies the named
assumptions of the component's module and those listed here.

| Module | What is proved of every behaviour | Beyond the constants' assumptions |
|---|---|---|
| `KernelProofs` | TypeOK, StrictPriority, QueueMatchesStates, NoLostWakeup, TidPool, NoReadyMoreUrgent, OnlySelfLeaves, PreemptionKeepsPlace, QueueContract | `PhantomFree` |
| | ActiveIsNonDormant | `~MemMayFail` |
| `PrioHeapProofs` | TypeOK, IndexRight, SiftLocal, TopRight, ImplementsQueue | none |
| `FirstFitProofs` | Tiled, Coalesced, RoomForAll, PassedAreTooSmall, LiveIsFound, OwnersFree | `SaneSizes` |
| `MemTestsProofs` | the same under the tests, and TestsPass | `SaneSizes`, `SaneTests` |
| `MailboxProofs` | WordsAligned, RingHoldsMail, NeverRefusesRoom, ImplementsFifo | none |
| `KCDProofs` | TypeOK, ImplementsConsole | none |
| `InterruptsProofs` | KnownInterrupts, EndedBeforeTasks, ContextsRight, OnlyNullMasked, NoneLost | `NonePrivileged` |

`SetInduction` holds lemmas these share.

**Kernel.** *Assumptions.* The constants' assumptions in *Kernel*, and
`PhantomFree`: if creations may fail, tasks call `tsk_set_prio` only with ids of
tasks. Without it the theorems are false; `kernel_phantom` is the
counterexample. `BootAssumption` says that the boot table has fewer entries than
there are ids, at most one KCD entry, and priorities strictly between `PRIO_RT`
and `PRIO_NULL`. `ActiveIsNonDormant` needs that no creation fails: one that
does leaves a TCB that is `READY` and not counted (the same finding).

*The argument.* The invariant `IInv` is the conjunction of

- `TypeOK`, which includes that the queue's age is a strict total order;
- `BootInv`: until the system runs the null task is current, and the count of
  tasks follows the loop;
- `RingInv`: head, tail and the number of free ids fit together, and the ids in
  the ring's used slots are distinct and not the null task's. `TidPool` alone
  is not inductive: what a push does depends on the tail, which it does not
  mention;
- `StateInv`: a free id's TCB is unused, or left by a failed creation; every
  other id has a task; and of the two TCBs that can stand for `TID_KCD` the one
  `k_tsk_get_tcb` does not return is unused;
- `ReceiveInv`: whoever is inside `k_recv_msg` is a task in use;
- `QueueMatchesStates`, `NoLostWakeup` and `StrictPriority` themselves.

There is one lemma per action (`YieldStep`, `CreateStep`, ...), over lemmas on
what the actions share: rescheduling (`Rescheduled`, `Settled`), leaving the
queue (`Left`), waking (`Woken`), taking and returning ids (`PopId`, `PushId`).
First come the facts about the queue: `Insert` and `Remove` keep
`QueueOK`, a non-empty finite queue has exactly one top, and who it is after an
insertion or a removal. `ActiveIsNonDormant` then follows from `RingInv` and
`StateInv` by counting: the used TCBs are in bijection with the ids that are
not in the ring (`UsedTcbs`).

`QueueCalled` joins *Kernel* and *PrioHeap*. The code of the heap checks nothing:
inserting a task twice, removing one that is out, or changing a member's key in
place would break it, and *PrioHeap*'s actions do none of these. `QueueContract`
says that the kernel's calls do none either, and the theorem says so for every
boot table and number of ids; what is proved of the heap is therefore proved of
it in this kernel. The last case needs most of `IInv`: a `k_tsk_set_prio` that finds
a task neither dormant nor blocked must find it queued.

**PrioHeap.** The heap implements *SchedQueue* for any set of tasks and any
width of the counters, in the middle of a sift and across the wrap of the low
counter. `SiftLocal` says that at most the element on its way is out of order.
It is not inductive: when the element has moved, its old parent and its old
children are compared for the first time. `Bridged` adds that its children would
be in order under its parent, `CountInv` that the queued tasks' counters differ
and lie below the global ones, `AgainInv` that what is taken out to be put back
with a new priority is outside the heap meanwhile. `TopRight` follows from the
first place that would go before the root: its parent would, too. The refinement
maps the queue to the heap's elements, and age to the pair of counters;
`sched_remove` up to its sift and `sched_insert` up to `up_heap` are the queue's
steps, an iteration of a sift is a stutter. The high counter does not wrap in
the model: that takes 2^64 insertions.

**FirstFit.** *Assumption.* `SaneSizes`: no size asked for is within 24 bytes of
2^32, where the rounding of `kernel/k_mem.c:171` wraps. The theorems are about
`FirstFit!Spec`: any caller, any sizes, any pointers, frees of blocks that are
not live included.

The invariant has one part for the memory between calls and one for each loop.
`HeapInv` says it by three predicates: `Tiling` (allocated and free blocks
follow each other from the image's end to the memory's), `Linked` (the free list
goes upwards through exactly the free blocks) and `Apart` (no two of these
touch). `FindInv` keeps a search's `prev` next to its `curr`; `SeekInv` and
`WalkInv` keep the two free blocks around a node that is being freed (`Between`)
and that the walk is on a header. The set of free blocks is defined in
*FirstFit* by following the links, so a change of one link could change all of
it: `LinkedIsFree` shows that whatever set satisfies `Linked` is that set, so
each step only has to exhibit the new one. The definition follows a link only
upwards within the memory, which makes it total; `Coalesced` requires that every
link of a free block is such a link.

Two facts about tasks that overwrite headers are part of the model: the words
inside a block hold `JUNK`, which a pointer into a block may meet in place of
any owner's id, and `JUNK` is no owner's id itself, so that the header the
allocator wrote is told apart from it.

**MemTests.** *Assumption.* `SaneTests`: the tests' own sizes do not wrap.
`TestsKeepMemory` states FirstFit's properties of `MemTests!TestSpec`, which the
run checks and whose calls are either any task's or a test's: a test's pointers
are blocks, and what is left of its script (`Runs`) only frees pointers it will
have by then.

`TestsTell` states `TestsPass`: a test of `app/ae_mem.c` that has ended passed if
and only if the memory was large enough, wherever the image ends and for any
`BLOCKS` and `STEP`. That is an induction along the script. The plan gives each
block a test asks for its width, the place it would begin at (`Offset`), and the
numbers of the statements that ask for it and free it (`AllocAt`, `FreedAt`);
`CoalescingPlan` and `LeakagePlan` show that the scripts do what is planned,
statement by statement. `RunInv(n)` says of a running test that has done n
statements which pointers it has (NULL for a block there is no room for), that
exactly the planned blocks are allocated, at the planned places, what its call
under way is about, and what its counts have shown so far. `NextBlock` is where
the allocator comes in: when all blocks since the beginning of a half are held,
`Coalesced` leaves one free block, right after them, and first fit takes it
exactly if it is large enough. The leakage test then passes because its two
halves have the same sum, and fails with the first block there is no room for
(`LeakageNeeds`). The coalescing test counts free blocks four times:
`StageOne` to `StageFour` work out the free blocks between those that are held, at
each stage, from `Tiled` and `Coalesced`. The memory's remainder is a free block, too,
and counted if it is small, so memories that are too small fail at different
stages: with 46 to 60 units at the first, below 10, where the test has not even
two blocks to learn the header's size from, at the second, and with 10 to 45 at
the last. The last stage alone would pass 46 to 60; `Counted` keeps what the
earlier counts have excluded, and `VerdictInv` is not inductive without it.

**Mailbox.** The invariant says that head, tail and size are aligned and fit
(`head` is `tail + size` around the ring), and that from the tail on each
message lies at its offset, with its metadata, length, body and padding, modulo
the capacity (`Holds`). The offset of message i is the sum of the padded sizes
before it, a recursive function of *MailFifo*; `OffsetIs` identifies it with
`Sums`, about which `SetInduction` has the recurrence, and `OffFacts`,
`OffAgree` and `OffOfTail` say what appending and removing a message do to it.
`k_send_msg` tests the length before it is padded; capacity and size are
multiples of four, so what passes the test fits padded as well (`FitsPadded`),
which the refinement needs, and nothing that fits is refused
(`NeverRefusesRoom`).

**KCD.** *KCD* implements *Console* for every set of characters, every number of
tasks and every length of a command. The invariant is `TypeOK` with the type of
the mailbox's content (what comes from the interrupt is a character and nothing
else); `SlotsDistinct` says that two identifiers never share a slot of the
table, and there is one lemma for each kind of step.

**Interrupts.** Any number of tasks, any interrupts of the controller, and
whatever the boot loader leaves enabled, active or running. *Assumption.*
`NonePrivileged`, that no task is privileged; `priv_preempt` is the
counterexample to `NoneLost` without it. None of the properties is inductive:
what an interrupt finds depends on what the contexts below it will restore. The
invariant adds

- `BoardInv`: how far each step of the boot has got, and that the interrupt
  being handled is the UART's or timer 1's and no other is active;
- `StackInv`: which contexts each stack holds. A task that is in the kernel has
  the context of its own code (`Base`), and on it an interrupt of the return
  from its SVC at most (`Inner`), the one place of the kernel that runs with
  IRQs enabled: a new task's first context resumes there unmasked. A task that
  is not on the processor has the switch's context on that. So at most three
  contexts, of different kinds, lie on a stack;
- `CurrentInv`: the task on the processor is the current one, except between
  the choice of the next and the switch;
- `SchedInv`: the queue holds the tasks that are ready, except inside
  `k_tsk_yield`, and the current task is one unless it is giving way.

*Induction.* Several of these lemmas are inductions: along a free list, along a
ring, up a heap. The library states induction with an operator as parameter,
which the provers here cannot instantiate. `SetInduction` states it for sets
instead (a set of naturals that holds 0 and with n also n + 1 holds them all),
proved from the well-foundedness of `<` through least elements; a proof defines
the set of n for which its claim holds. The same gives that a recursive function
satisfies its equation.

*Only model-checked:*

- the liveness properties `EqualsShare`, `InputServed`, `TestEnds`,
  `CallsReturn` and `UartServed`: liveness under fairness is out of TLAPS's
  reach;
- `VerdictRight` and `TakeTurns`: they are about the programs of
  `ae_usr_tasks.c`, so TLC runs these, with the source's own numbers;
- the four runs that end in a violation.

## 5. Not modelled

- In *Kernel*, and so in *AutoTests*, a privileged task's call is one step.
  *Interrupts* has such calls in steps, except inside a sift of the heap, and
  no creation, exit or change of priority in them; TEST 0 of *AutoTests*
  therefore runs without typing.
- Boot entries that fail; priority `PRIO_RT` in the boot table; a KCD task that
  cannot create its mailbox and exits.
- What the timers count: both are set up with their interrupt disabled
  (`kernel/k_rtx_init.c:51-55`), and their handlers only print. Serial output,
  the baud rate, `printf.c` (vendored), start-up code and the MMU.
- The unexpected-interrupt-type branch of the handler: with a FIFO trigger of
  one character, data received is the only type enabled.
- In *Mailbox*, lengths within five bytes of 2^32; in *FirstFit*, memory that is
  not a multiple of eight bytes, and what becomes of a task's blocks when it
  exits without freeing them.
- `tsk_get_info` and `tsk_get_tid`, which only read; the
  calls that are empty in the source (`tsk_suspend`, the real-time ones,
  `recv_msg_nb`, `tsk_ls`, `mbx_ls`).

## 6. Plan

1. Done: *Kernel*; the heap, the mailbox, the allocator and the KCD task, each
   against an abstract specification or its invariants; the board's interrupts
   and privileged calls in steps; the automated tests; the safety properties of
   all of them but `VerdictRight` proved.
2. Proofs left: that the programs of *AutoTests* take turns whatever the number
   of rounds.
3. A composition of task management and allocator: stacks and mailboxes
   allocated and freed by `create` and `exit`, creations that fail halfway,
   blocks that outlive their owner; boot entries that fail; the KCD task's exit.
4. Interrupts within a sift, and in a privileged task's creation of another.
