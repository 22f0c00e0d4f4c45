# A verification of the Lab5 kernel

`Lab5/c` is a bare-metal kernel for the Raspberry Pi 3 (AArch64, one core): a
shell on the boot thread, preemptive kernel and user threads with fork, exec,
kill and signals, deferred interrupt work, a timer, an interrupt-driven UART, a
buddy page allocator with a heap on top, and a mailbox to the firmware. It reads
a device tree and an initramfs when it boots, and gets into memory through a
boot loader (`BootLoader`) that a script on the host (`KernelUploader.py`) talks
to over the serial line. Lab1 to Lab4 are earlier versions of the kernel. This
directory holds TLA+ models of the parts
that are hard to test, TLC configurations that check them on small instances,
and TLAPS proofs for all values of the constants.

## Inventory

| Part | State | Operations | What makes it hard |
| --- | --- | --- | --- |
| Threads (`thread.c`) | run queue, zombie list, current thread, ID pool, outstanding count, user images with reference counts, per-thread handlers, pending signals and saved context | create, schedule, preempt, fork, exec, exit, kill, reap, signal, sigreturn | preemption between any two unmasked instructions, termination of a thread anywhere, every allocation may fail, resources given up in stages by different threads |
| ID pool (`id_pool.c`) | an array of 16-bit links | create, alloc, release | the tail is unspecified when the list is empty; double release |
| System calls (`syscall.c`) | none | dispatch | run with interrupts unmasked, so a caller can be preempted or killed inside |
| Exceptions (`exception.c`, `exception.S`) | nesting depth | synchronous, IRQ, return path | nesting; switching threads only at the exit of the outermost interrupt |
| Task queue (`task_queue.c`) | pending tasks by priority, the running priority, a node cache | push, run | nested runs inside callbacks, at most 64 tasks |
| Timer (`timer.c`) | ordered events, events being run, the compare register | add, stop, interrupt | callbacks run unmasked and may stop their own event; 64-bit overflow |
| Mini UART (`mini_uart.c`) | RX and TX rings, interrupt sources | interrupt, receive and transmit tasks, get, put | sources are disabled and enabled in different contexts; full rings |
| Buddy allocator (`buddy.c`) | page descriptors, free lists by order | reserve, build, allocate, free | splitting, trimming to a page count, merging |
| Heap (`allocator.c`) | pools of size classes over pages | malloc, free | pages change lists as they fill and empty |
| Mailbox (`mailbox.c`) | a pending request | call, property call | an answer after the timeout |
| Device tree and initramfs (`fdt.c`, `initramfs.c`) | a traversal's open nodes; a position in the archive | lookups of a property and of memory; walking the archive | malformed or cut-off input; one lookup builds on another one's result |
| Boot and shell (`main.c`, `shell.c`) | the ranges found, what is reserved; the boot thread's position | boot stages, commands | what boot reads and the shell uses later must not be handed out |
| Boot loader and uploader (`BootLoader`, `KernelUploader.py`) | the line, the word and the image being received; the answer being waited for | upload, boot | lost bytes, one end gives up and the other one does not |
| printf, strings, register access | none | formatting, copying | nothing that lasts |

The parts meet in a few places. The timer's interrupt handler runs the
callbacks of expired events, with interrupts unmasked. One of them,
`scheduling_tick`, asks for a reschedule, and `exception_dispatch` calls
`thread_preempt` when no other handler is active. The UART's handler pushes its
work to the task queue, which runs it, unmasked too, at the end of the
dispatch. A system call is a synchronous exception in thread
context. Every return to EL0 passes `restore_exception_frame`, which delivers
signals. Threads and timer events take their IDs from pools, and everything
takes memory from the heap. The mailbox shares a block of the heap with the
firmware for as long as a request is unanswered. What boot finds in the device
tree decides which pages the heap can ever get.

There is one core, so the only concurrency is preemption and nested
interrupts. A function that masks interrupts for its whole body is atomic; this
is what the models call a step.

## Modules

### `IdPool`, `IdPoolFifo`

`IdPool` is the array of `id_pool.c` as it is: slot 0 links to the first free
ID, slot 1 names the last one, a free ID links to the next one, an allocated ID
holds 0. `AllocOldest`, `AllocNone` and `Release` are `id_pool_alloc` (both
returns) and `id_pool_release` (both early returns and the append). The
callers' integers come from the constant `Requests`, which includes metadata
slots, -1 and values past the end.

`IdPoolFifo` says what `id_pool.h` promises, with a sequence of free IDs.
`IdPool!ImplementsFifo` is the refinement: the free list is the walk along the
links from the head, and every call returns what the FIFO returns.

### `Thread`, `ProcessTable`

`Thread` is `thread.c` with the part of `syscall.c` and `exception.c` that
drives it.

* `thread[t]` is the `thread_t` of heap block `t`: state, ID, whether it has a
  user stack (`user`), its image, the registered handlers, the pending bitmap
  (a set), the saved pre-handler context, and `frame`, the exception frame it
  will resume from, reduced to the code it runs and whether that is the program
  or the handler of a signal.
* `thread[t].phase` is where the thread is suspended or running: in a kernel
  thread function, at EL0, in a system call before or after its effect, or on
  the masked way back to EL0. `Preempt` is possible in the unmasked phases
  only. A thread interrupted at EL0 resumes on the way back, where signals are
  delivered.
* `run_queue` and `zombies` are the two lists, `thread_ids` the pool (as the
  FIFO that `IdPool` implements), `allocated_threads` the counter behind
  `thread_count()`, `image_refs` the reference counts, `heap` the allocated
  blocks that belong to created threads, `reaped` the loop counter of
  `reap_zombies`.

Each function is an action of the same name or an operator that an action
uses: `Publish` and `Discard` are the success and the error paths of every
creation, `Exit` and `Terminate` the two ways to end, `Schedule` the switch.
An allocation may fail at every stage; `Discard` is `thread_discard`, which frees what
the fields of the object name at that stage (`BlocksOf`) and not what the caller
took, so an error path that leaves the object and the allocations out of step
loses a block, a reference or an ID. `ContextFails` has the two allocations of
`signal_context_create`. `thread_kill_all_users` runs masked and
is modelled one list element per step; no other thread can run in between.
The boot thread and created kernel threads make any calls in any order, and a
user thread any system call with any argument, so the demos of the shell are
among the behaviours.

The tick and the switch at the interrupt's exit are one step: with depth zero,
the exit follows the callback without returning to the thread. What happens
between them, nested interrupts included, is in `Interrupts`, whose
`RequestsServed` and `TicksNeverStop` are what `Thread` assumes of `Preempt`.

`ProcessTable` is the view of a caller of `thread.h`: which IDs are live, which
one runs, how many threads are outstanding. `Thread!ImplementsProcessTable`
checks that each step is one of its operations or invisible; among others, that
only user threads can be killed, that boot and idle never end, that only idle
reclaims, and that an ID is given out only while no live thread has it.

### `Interrupts`

`Interrupts` is one module for `exception_dispatch`, the task queue, and what
the timer and the UART do inside an interrupt, because each of them is
interrupted in the others' callbacks. The state is the stack of active
handlers, each with its position in the dispatch, plus the variables of the
source: `exception_depth`, the task queue and its counters, `waiting_events` and
`running_events`, the enabled sources, the rings. Interrupts can be taken in
threads and in the two unmasked places, the callback of a timer event
(`RunExpired` to `EventReturn`) and of a task (`RunTask` to `TaskReturn`).
Everything else is masked and stepped through in the order of the code:
`TakeIrq`, `HandleTimer`, the loop over expired events, `ProgramTimer`, the
UART's handler (`HandleReceive`, `HandleTransmit`, `NoUartIrq`), the loop of
`task_queue_run`, `Leave`.

Threads read and print at any time, add timeouts as the shell does, and raise
the kernel's own `svc`, whose report is printed with interrupts masked. The
devices are the three actions `TimerFires`, `ByteArrives` and `FifoDrains`.
Deadlines are abstracted: any waiting event may have expired when the handler
looks, and the compare register may match at any time while it is enabled; the
deadlines themselves are in `Timer`. The rings are the numbers of their bytes.
A task is stepped through as far as it can be interrupted: each turn of its copying
loop, the look at the ring after the loop, and the enabling of its source are steps
(`ReceiveCopy`, `ReceiveTest`, `ReceiveEnable`, `TransmitCopy`, ...), with the devices,
nested handlers and the callbacks of events between any two of them. Run by the
handler itself because the queue is full (`PushFails`), the same code is masked and
one step, `Receive` or `Transmit`. Which bytes move is left to `MiniUart`. The branch that reports an unhandled IRQ is not
modelled; `EveryIrqHandled`, a part of `TasksNest`, shows that it is not reached.

### `Timer`

`Timer` is `timer.c` with its clock. `waiting_events` is the list in the order
of deadlines, `running_events` the events whose callbacks are active, and
`free_ids` and `cached_count` are the ID pool and the cache of event objects.
`TimerAddTimeout` and `AddFails` are the two outcomes of `timer_add_timeout`,
with the conversion of a request to ticks (`Ticks`) computed as in the code;
`TimerStopPeriodic` is all of that function, with any ID. `TakeIrq`,
`RunExpired`, `CallbackReturns`, `NoneExpired` and `ProgramAndReturn` go through
the handler; the counter (`TimePasses`) moves on between any two of them. Adding
an event reads the counter twice, for the deadline and for the countdown, and it
may move on in between. The reading for a countdown and the write of the
register are one moment. The countdown register holds at most `MaxTval` ticks,
so a distant deadline takes several countdowns. A callback runs unmasked and may
add and stop events as `timer.h` offers it to every caller, its own event
included, and another interrupt may be taken before it returns. In the kernel as
it is, the callbacks do less: nothing calls `timer_stop_periodic` and none of
them adds an event. The model checks the interface. It starts with the kernel
heap ready, because before that every freed event object is cached, whatever the
limit.

`EventsExact` and `StopIsFinal` are about ownership: who holds an ID, an object
and an argument, and when each is given up. `ArmedInTime` relates the countdown
to all the deadlines, and `DeadlinesExact` the 64-bit arithmetic to the exact
result.

### `MiniUart`

`MiniUart` is `mini_uart.c` again, byte by byte, for what happens inside the two
tasks. The rings are arrays with `head` and `tail`; each access of a task to
them is a step (`TxCheck` to `TxPut`; `RxRead`, `RxStore`, `RxAdvance`), since
the indices are volatile and the tasks unmasked, and so are the second look at
the ring, the enabling of the source and the return (`TxTest`, `TxEnable`,
`TxReturn`, and the same for `Rx`).

`active` is the stack of what interrupted the thread, and `queued` how many
tasks of each kind wait. An interrupt pushes a task, and `Dispatch` is
`task_queue_run`: it starts the most urgent one if nothing on the stack has its
own or a higher priority, now or when what is on top returns. If the push fails
(`PushFails`), the handler runs the task itself with interrupts masked, a byte
per step of `InlineTransmit` or `InlineReceive`. A timer callback may interrupt
everything that is not masked. Threads and callbacks print, and threads read,
with interrupts masked (`Putb`, `Getb`); a print that finds the ring full moves
its oldest byte to the FIFO itself. The n-th byte printed or received is the
number n, so order, loss and duplication can be told.

### `Allocator`, `Mailbox`

`Allocator` is `allocator.c`: the startup heap, whose blocks are permanent, and
the kernel heap, which makes size-class pages and large blocks of pages of the
buddy system. `pool_pages` and `large_blocks` are the headers in those pages,
`available_pages` the list of each class, `blocks` what the clients hold. Every
operation is masked for its whole body and is one step. Of the buddy system it
assumes what `Buddy` checks: an allocation is any run of pages that nobody has,
and giving back exactly that run succeeds.

`Mailbox` is `mailbox_call` on top of it. The processor polls with interrupts
masked, so during a call only the firmware moves (`Answer`), and clients
allocate and free between calls (`Clients`). A wait may end at any point,
because the number of polls has no relation to the firmware's speed. A request
that timed out keeps its block (`ReadTimeout`), and the next call first waits
for its answer (`DrainRead`, `DrainTimeout`). The property tags, and requests so
malformed that the call returns before it changes anything, are left out.

### `Fdt`, `Boot`

`Fdt` is `fdt.c` as operators: `Traverse` is one turn of the loop of
`fdt_traverse` with the callback of the lookup that listens, on a structure
block that is a sequence of tokens, `Bad` standing for what is no token or is
cut off. It has no variables; `Boot` does the turns.

`Boot` is `main.c` from `fdt_init` to the shell and the commands that walk the
initramfs. A lookup is a series of steps (`TraverseTree`); which lookup follows is
decided as in `main` and `fdt_get_memory_range` (cell counts of the root, then
memory, then the two ends of the initrd). `BuddyInit`, `BuddyReserve` and
`BuddyBuild` are `buddy_initialize`, each of whose steps may fail and leave the
kernel without a page allocator. From then on pages are taken and given back while `ls`, `cat` and `svc` go from
entry to entry. Headers and names of the archive are chosen when they are read,
so every archive with sizes from the given sets is among the behaviours,
well-formed or not.

### `Loader`, `PowerOn`

`Loader` is both ends of an upload. The host's actions are the steps of
`upload_kernel`: it opens the port, waits for each answer, sends the command,
the magic, the size and the image; it can time out at every wait and be
interrupted anywhere, in the middle of the image too. In the end it gives the
command to boot, or with `--no-boot` nothing. The loader's actions are its
command line and `receive_kernel` (`ReadMagic`, `ReadSize`, `ReadData`), which
waits for the bytes promised to it for ever. `ReadLine` reads a line as
`read_line` does: a carriage return counts as a newline (`Getc`), backspace and
delete take the last byte back, other unprintable bytes are dropped (`Edited`),
and a line that does not fit is dropped without being executed (`TooLong`). This
matters because the rest of a size word may be read as a line after a byte has
been lost. The line loses bytes (`LineLoses`). Echoes and prose are left out
because the host skips what is not an answer it waits for. An attempt starts
when the line is quiet: a person starts it, what the last one wrote has been
flushed and read by the loader, and opening the port drops old answers. The
protocol has no checksum and no number that tells attempts apart; if an attempt
could read the answers to the one before it, `UploadExact` would be false.

`PowerOn` composes `Loader` and `Boot`: once the boot command has been given,
`EnterKernel` starts `main` on any of the device trees. Without it the loader
stays at its prompt.

### `Buddy`

`Buddy` is `buddy.c` over page numbers: `pages` is the descriptor array,
`free_list` and `free_count` the free areas. Each iteration of each loop is a
step, and `work` holds the loop's variables, so the invariants hold in the
middle of splitting, trimming and merging as well. `owned` is what the callers
have: it grows when an allocation returns and shrinks once a request to free
has been validated. `Size` is the constant function of powers of two; stating
it as a function with an assumption keeps the module within reach of the
provers.

## Runs

| Run | Instance | Shows |
| --- | --- | --- |
| `id_pool` | 6 slots (4 IDs), requests -1 .. 6 | all interleavings of allocations and releases, every order of the four free IDs, refinement of the FIFO |
| `thread_lifecycle` | 3 blocks, 3 IDs, 2 images, no signals, reap limit 2 | lists, IDs, reference counts, freed stacks, refinement of the process table |
| `thread_signals` | 2 blocks, 2 IDs, 1 image, signals 1 and 9, reap limit 1 | delivery, nesting, fork and exec in a handler, allocation failures, ownership of heap blocks |
| `thread_liveness` | 2 blocks, 2 IDs, 1 image, signal 9, reap limit 1 | reclamation and absence of starvation |
| `interrupts` | the tick, 2 timeouts, 3 tasks, a cache of 1, rings of 2 bytes | nesting of handlers and tasks, urgency of tasks, when threads are switched, no lost wakeup of timer and UART |
| `interrupts_liveness` | the tick, 1 timeout, 1 task without cache, rings of 1 byte | ticks keep coming, requests are served, full rings drain |
| `buddy` | 9 pages, orders 0 to 3, pages 0 and 5 reservable | tiling, exact lists, maximal merging, exact ownership |
| `timer` | a counter of 0 .. 7 looked at up to 4, 3 IDs, a cache of 1, 1 argument block | the countdown never misses an event, exact ownership of IDs and arguments, stopping is final, no deadline wraps |
| `mailbox` | 3 pages of 256 bytes for the kernel heap and 1 for the startup heap, clients that ask for 12 or 31 units, calls of 9 | disjoint blocks, exact pools, the firmware writes only to blocks the mailbox holds, exactly one request outstanding |
| `power_on` | a 16-byte image, words of 5 bytes, lines of 1, 3 interruptions, 2 lost bytes; 12 pages of 16 units, 2 in use, some 300 device trees | the image arrives whole, an upload succeeds in the end, lookups are exact, what boot uses is never given out, walks of the archive stay in it |
| `uart` (violation) | rings of 4 slots, FIFO of 2, 2 queued tasks, a cache of 1, 5 bytes printed, 1 received | bytes leave the transmit task out of order |
| `svc` (violation) | the layout and trees of `power_on` | `svc` uses pages of other owners |

Bounds. Three created threads let one run, one wait and one be dead at the same
time, with an unused block left for a creation at other times, and as many IDs as
blocks let an ID be reused while the zombie that had it waits. Two images let a
parent, its forked child and a program started by exec differ; in
`thread_signals` one image suffices because the kernel text is a second code
region. Two signals, one of them SIGKILL, are enough for a pending signal during
a handler and for an order between signals. The reap limit 2 with three threads
reaches both exits of the loop. The blocks of threads and of images are
symmetric; the liveness runs use no symmetry.

In `interrupts` the queue can hold both kinds of task twice over and still be
full, so a push may take a cached node, a new one, or fail at the limit; with
two timeouts an event can wait while another one is run. In
`interrupts_liveness` one pending task fills the queue, so the inline form of
the UART's tasks is taken whenever one of them is deferred. In `buddy` nine
pages leave a last page whose buddy does not exist, and a block of the largest
order whose pieces take three merges. Reserving page 0 or 5 gives memory that
is whole, fragmented at the edge or in the middle.

In `timer` seven ticks a second and two "milliseconds" a second make a request
that must be rounded up and one that overflows, and the countdown of at most two
ticks makes distant deadlines take several. With three IDs one event waits, one
runs and one is added; a fourth addition fails. Periods that reach the end of
the counter start within the bound. `DeadlinesExact` evaluates the conversion on
every request of this width, not only on those made.

In `mailbox` clients and calls share a size class with two chunks to a page, so a
freed request block is at once someone else's; 31 units fit in a page without a
header but not with one, so it takes two. Three pages let a large block and a
pool page exist together, and let either allocation fail.

In `power_on` the image contains a newline and the first byte of the
magic, so that a loader that waits for the rest of a lost image consumes a
command as data, and the other way round. Behind its first byte the size word
has two printable bytes, one that erases and one that is dropped, and a line
holds one byte: what a loss leaves of the word exercises every branch of
`ReadLine`. Three interruptions and two losses let
the attempt after a failed one fail in another way. The device trees combine
right and wrong cell counts, memory nodes at the root, elsewhere and nested,
initrd ranges that are good, reversed, half there and outside memory, and blocks
that end well, too early, or in something malformed. Four kinds of entries
(empty and long names; files that are empty, not aligned, aligned and longer
than what is left) reach each check of the archive walk.

In `uart` a ring of four holds three bytes; a fourth printed while the transmit
task is in the middle of its dequeue finds it full. With a queue of two a push
fails for want of a node or of room.

There is no other bound: all variables are finite on such an instance, and TLC
visits every reachable state. Deadlock is checked except in `power_on` and
`svc`: the EL0 program of `svc` runs with interrupts masked and returns only
through a reset, so the kernel stops there.

Fairness of threads (`Thread!LiveSpec`). The periodic tick is registered. A tick that
arrives while interrupts are masked stays pending in the interrupt controller
and is taken at the first unmasked instruction, hence strong fairness of
`Preempt`. Masked code runs to its end, hence weak fairness of the masked
loop of `thread_kill_all_users` and of the return path. Idle finishes an
iteration of `reap_zombies` between two ticks (a tick is 1/32 s), hence strong
fairness of its steps. Nothing is assumed of user code or of kernel threads:
they may loop for ever.

Fairness of interrupts (`Interrupts!LiveSpec`). Masked code runs to its end
and the devices go on (weak fairness of `Masked`, `TimerFires`, `FifoDrains`).
A pending interrupt is taken when interrupts are unmasked again and again, and
a callback, which is a finite piece of code, goes on whenever no nested handler
is in the way (strong fairness of `TakeIrq` and of the callbacks' steps and
returns). Because deadlines are abstract, two facts about time enter as strong
fairness: the tick is at times among the expired events, and the loop over
expired events ends (a tick expires 1/32 s after its last callback has
returned). `HandleTransmit` is fair because a handler that finds received data
disables that source, so the next interrupt is the transmitter's. Threads may
stop reading and printing, and data may never arrive.

Fairness of the upload (`Loader!LoaderFairness`). The loader polls the line and
the line carries what it is given; each wait of the host ends, with the answer or
by its timeout, which is much longer than the line needs; and whoever wants the
kernel on the board tries again. That is weak fairness of the loader's reads, of
the host's waits, and of starting. Interruptions and losses may happen or not;
there are finitely many of them. The rest of `power_on` has no fairness.

Every property of a passing run has a mutation of the model, listed under "mutants" in
`PROJECT.json`, that changes one definition the way a plausible bug would and
makes TLC find the property violated.

## Findings

`uart`. `mini_uart_transmit_task` takes the oldest byte, advances `head` and
writes the byte to the FIFO with interrupts unmasked. A timer callback that
prints (as `setTimeout` of the shell has one) to a full ring in between dequeues
too. If it does so after the task has taken its byte, the newer byte reaches the
FIFO first; if it does so between the task's reading and writing of `head`, one
advance is lost. A callback can also do it without a full ring: each byte it
prints enables the source, so an interrupt comes and pushes another transmit
task, which waits for the one below; when the queue takes no more, the handler
runs the task itself, inside the dequeue of the one it interrupted.
`OutputCorrect` proves that these two are the only causes, and
`ThreadOutputCorrect` that there is none as long as callbacks do not print. The
receive direction has no such case: its two ends are written by one side each,
and nobody enables the receive source while a receive task is at work, which is
what `InputCorrect` proves.

`svc`. The shell's `svc` copies a program to a fixed address and runs it with a
stack at another one. Neither is among the regions `main` reserves, so pages of
that area may belong to the heap, for instance to a thread's stack. Everything
else boot uses is reserved (`InUseNotFree`).

## Proofs

Every safety invariant, action property and refinement that a passing run checks
is a theorem of its specification, for every value of the constants that the
named assumptions allow. Eight modules hold them. Each states its inductive
invariant at the top, proves one lemma per action, and derives the properties at
the end. The counts of a run (bounds like `MaxPrinted`, `Horizon`, `MaxUsed`)
are constants without an upper limit, so the theorems cover every bound too.

| Module | Inductive invariant | Theorems (property) |
| --- | --- | --- |
| `IdPoolProofs` | `TypeOK`, `LinkInv` | `TypeCorrect`, `LinksCorrect`, `NoIdIsLost` (`ExhaustedOnlyWhenAllAllocated`), `Refinement` (`ImplementsFifo`) |
| `ThreadProofs` | `IInv`, then `FullInv` = `IInv` and `Sound` | `TypeCorrect`, `QueuesCorrect`, `IdsCorrect`, `ImagesCorrect`, `MemoryCorrect` (`MemoryAccounting`), `ContextsCorrect` (`OwnContext`), `SignalsHandledFirst` (`NothingPendingAtEl0`), `FreesCorrect` (`OnlyIdleFrees`), `SignalsKept` (`PendingKept`), `Refinement` (`ImplementsProcessTable`) |
| `InterruptsProofs` | what the stack of handlers looks like | `NestingCorrect` (`TasksNest`), `UrgentFirst` (`NothingUrgentWaits`), `WakeupsKept` (`NoLostWakeup`), `SwitchesCorrect` (`SwitchesOutermost`) |
| `MiniUartProofs` | where the bytes on their way are, for each direction; who works on a ring | `InputCorrect` (`InputExact`), `OutputCorrect` and `ThreadOutputCorrect` (when `OutputExact` holds) |
| `TimerProofs` | owners, order of deadlines, the armed countdown | `ArmedCorrect`, `EventsCorrect`, `StopsAreFinal`, `ConversionExact` (`TicksExact`), `DeadlinesCorrect` |
| `BuddyProofs` | `Tiles`, `Lists`, `Owning`, `Joinless`, `Loops` | `TilingCorrect` (`BlocksTile`), `ListsCorrect`, `OwnersCorrect`, `MergedCorrect` (`MaximallyMerged`) |
| `MailboxProofs` | `HeapInv`, `BlocksHeld`, `FifosExact` | `DisjointCorrect`, `PoolsCorrect`, `FreesCorrect` (`FreesSucceed`), `OutstandingCorrect`, `BuffersCorrect` (`VcOwnsItsBuffer`) |
| `PowerOnProofs` | `LoaderInv`, `BootInv`, `LookupInv` | `UploadCorrect`, `RegionsCorrect` (`InUseNotFree`), `ReadsCorrect` (`ArchiveReadsOwned`), `LookupsCorrect` |

### ID pool

That no free ID is lost needs the last part of `LinkInv`, that no ring of free
IDs exists beside the list: every nonempty set of free IDs has a link out of it.
It holds initially because of a greatest element, an allocation only shrinks the
sets, and a release adds an ID whose link is the end. If the head says the list
is empty, the set of all free IDs would be such a ring.

The refinement maps the links to the sequence `Walk` collects from the head. The
proof carries a sequence of its own: `Holds(links, s)` says that `s` is linked
one element to the next and holds all free IDs, and `WalkVisits`, that the walk
is then exactly `s` (a first position where they part would have a position
before it where they agree). Creating, allocating and releasing take such a
sequence to the one the FIFO has next (`CreateHolds`, `AllocTakes`,
`ReleaseAppends`). `WalkExists` shows that the recursive function is defined, by
giving it outright.

### Threads

`IInv` is `TypeOK`, `QueueIntegrity`, `IdAccounting`, `ImageAccounting` and
`Modes` (boot and idle are kernel threads, and only user threads are in user
phases):

* reclaiming keeps the counter exact because what is in `zombies` is dead,
* an exit finds a nonempty run queue because boot and idle are live and do not
  exit, which is so because only user threads make system calls and
  `thread_exit` of kernel threads excludes boot,
* a released ID is not in the pool because it belonged to a live thread,
* a loaded image has no user because its count was zero.

`Sound` adds ownership: the heap holds the blocks of the objects in use and
nothing else (`Owns`); a thread is in a handler exactly while it has a saved context, and
frame and context resume code of its own program (`Proper`); and only the running thread is at EL0. The last part is
what `NothingPendingAtEl0` rests on: a signal from another thread always finds
its receiver on the kernel side, so it will pass `thread_signal_deliver` before
it reaches user code again.

Most actions change only what a thread is doing: `Same` says that a step keeps
state, ID, kind and image of every thread, and the lemmas `KeepInv` and
`ScheduleInv` dispose of these. The others are `PublishInv`, `FailsInv`,
`EndInv` (with `ExitInv` and `TerminateInv`), `ReapInv` and `ExecInv`. The
refinement maps each action to the operation of `ProcessTable` of that name or
to a stutter, with both invariants as hypotheses of the step.

### Interrupts

The invariant describes the stack. Only callbacks are interrupted
(`CallbacksBelow`). The timer is disabled while its handler is active, so that
handler is active once (`TimerHandledOnce`) and `running_events` is its event.
Tasks that run are of ever higher priority (`TasksDescend`), and each remembers
what it will restore, which is the state of the tasks below it (`TasksRestore`):
without it, `task_queue_run` would not put back the right priority when it
returns into the middle of another run. `QueueAccounting` keeps the queue in
order and its counter exact, `CauseKept` says that the cause of a dispatch does not go away before
the handler looks, and `NoneUrgent` that outside its loop the queue holds
nothing of higher priority than what runs.

### UART

`InputCorrect`: what has arrived is, in this order and nowhere else, returned, in
the ring from `head` on (`RingInOrder`), held by the receive task
(`HeldInOrder`), in the FIFO (`FifoInOrder`). The task stores at `tail` before it
moves `tail`, a reader takes at `head` and moves only `head`; so the two never
touch the same slot. That no handler stores at `tail` in between is `Orderly`: of
the enabled source, a queued task, a task at work and a handler that runs it
itself there is at most one (`OneHolds`). It rests on what the stack looks like
(`StackOK`): no frame is on it twice, a masked one only on top, and every queued
task waits for one on the stack, so threads, which enable the source as they
read, run with an empty queue. TLC finds `InputExact` and these invariants to
hold on rings of two slots with one task queued; they are no properties of
`uart`, which ends with the finding.

`OutputCorrect` is the other half of the finding `uart`. `Overtakes` are the
steps that dequeue while the transmit task is inside its own dequeue: a print on
a full ring, and a turn of the task in a handler. Every behaviour without them has exact
output, for all sizes; so the finding has no other cause, and masking interrupts
around the task's dequeue and write would remove it. The invariant is that of the
receive side, with `StillThere` for what the task has checked: the room in the
FIFO and the byte in the ring are still there when it uses them.
`ThreadOutputCorrect` has a hypothesis about the environment instead: no callback
prints. Then `Orderly` holds of the transmit ring as well, and nobody overtakes
(`NobodyOvertakes`).

### Timer

`Owners` says that the events linked in the two lists have IDs and argument
blocks of their own and the rest is free. With the order of deadlines, the first
waiting event decides the countdown, so `ArmedInTime` is kept by every insertion
and by reprogramming. `StoppedOnce` says that each event in the history of stopped
ones is still linked with an interval of zero, from which `StopIsFinal` follows.
`ConversionExact` is about arithmetic alone: for every counter width and
frequency, `timer_duration_to_ticks`, which converts whole seconds and the
fraction of one apart and uses quotient and remainder of the frequency for the
latter, gives the exact number of ticks rounded up, and fails exactly when that
does not fit. The nonlinear steps (products and quotients) are
lemmas of their own.

### Buddy allocator

`Tiles` says that blocks are aligned, disjoint and inside the range, and that
tails lie in blocks. `Lists` says that each list holds the free blocks of its
order, except what the running loop has in hand; `Owning`, that callers and the
running operation own whole allocated blocks and together all of them;
`Joinless`, that no two free halves of a block are apart behind the sweep of
`buddy_build`, or later; and `Loops`, what the variables of each loop are.
`MaximallyMerged` is stronger than `Joinless`: it speaks of any aligned stretch
of free pages. The proof takes the smallest order at which some stretch does not
lie in one block; each of its halves does, so each is a block, and `Joinless`
excludes that.
`InductiveInvariant` is proved per iteration of each loop, so the theorems hold
in the middle of an operation where the properties say so.

### Heap and mailbox

`HeapInv` places every block: in the part of the startup heap given out, in a
chunk of a pool page, or alone in a run of pages with a header; pool pages hold
their chunks in use and their free ones, and nothing else; runs are apart; each
class lists its pages with a free chunk. That a block never overlaps a header
needs the size classes: `ClassFor` returns one that fits, and any class leaves
room for a chunk next to the header (`HeaderAssumption`). On top of it,
`BlocksHeld` says which blocks the mailbox holds, and `FifosExact` that the
outstanding request is in exactly one of the two FIFOs. `VcOwnsItsBuffer` needs
both: the block that the firmware may write to is held, and a block that is held
is not handed out again.

### Upload, boot, lookups

`LoaderInv` says what an answer the host waits for tells it about the loader. If
the answer is on the line or can still be sent, the loader is in the state the
protocol means it to be in and has what was sent (`Prompting`, `Readying`,
`Starting`, `Finishing`, `Finished`), after any history of losses and
interruptions. `NoSurplus` and `NoBoot` say that what an earlier attempt left
behind neither answers for this one nor boots.

`BootInv` says what the boot thread's position implies: what the lookups have
found so far (`Finding`); that at step n the first n reservations have been made
(`Reserving`); that pages given out are not reserved (`Using`); and that an
archive walk reads inside the archive (`Reading`), which is among what is
reserved.

`LookupInv` compares a lookup with the specification in `Boot`, which says of a
tree which token ends which lookup. The traversal has open what the tree has
open at its position (`Placed`), has passed nothing that should have stopped it
(`Passed`), and its flags say of each open node whether it is on the path and
whether the memory node is open (`Matching`, `Flagged`). The nodes open at each
token are a recursive function; `OpenUnfolds` shows by a smallest missing prefix
that it satisfies its equation.

### Assumptions

The assumptions are named in the modules, and TLC evaluates them on every run.

| Assumption | Why the code justifies it |
| --- | --- |
| `SlotCountAssumption`, `IdCountAssumption` | `id_pool_create` refuses fewer than 3 and more than 65536 slots |
| `ThreadsAssumption`, `ImagesAssumption`, `FiniteAssumption` | boot and idle are static objects, not heap blocks; memory is finite |
| `SignalsAssumption`, `ReapLimitAssumption` | signals are bits 1 to 63 of a 64-bit word; the limit is a positive constant |
| `EventsAssumption`, `TasksAssumption`, `RingAssumption` | the tick is an event of its own; the limits are those of `config.h` |
| `RingSizes` (hypothesis) | the `#error` checks of `config.h` |
| `FifoSize \in Nat` (hypothesis) | a size |
| `CounterAssumption`, `FrequencyAssumption` | registers have a width; the frequency is not zero and fits in it, and so does the square of the number of milliseconds in a second, by far for 64 bits |
| `IdsAssumption`, `CacheAssumption`, `ArgumentsAssumption`, `RequestsAssumption` | IDs start after the pool's metadata; arguments of callers are blocks |
| `PageCountAssumption`, `MaxOrderAssumption`, `SizeAssumption` | `Size` is the table of powers of two |
| `PageAssumption`, `PowerAssumption`, `HeaderAssumption`, `MemoryAssumption`, `SizesAssumption` | pages of at least 256 bytes; a header is at most a quarter of a page; requests of 0 bytes return at once |
| `DepthAssumption`, `CellAssumption`, `LayoutAssumption`, `TreeAssumption`, `ArchiveAssumption` | addresses and sizes are numbers, and a property is made of cells |
| `WordAssumption`, `CommandAssumption` | the commands differ, are printable and fit in a line; a command is one byte in the model, and the last byte of a size the loader accepts is at most 4 (64 MiB), so a size word does not spell `boot` |

`PowerAssumption` states arithmetic of powers of two that holds for every
`PageShift` the module allows, but that the provers cannot show (it takes an
induction). `SizeAssumption` gives the powers as a function for the same reason.

### Only model-checked

* Liveness under fairness (`ZombiesReclaimed`, `NoStarvation`, `TicksNeverStop`,
  `RequestsServed`, `OutputMoves`, `UploadsRecover`): the proof system handles
  neither fairness nor ENABLED.
* The two findings, which are violations.
* That the models are not vacuous: that every action is taken, and that a
  plausible mistake in a definition breaks the property, is shown by the runs.

Induction over data is out of the provers' reach as well. Where a proof needs it
(the walk of the ID pool, the open nodes of a tree, the largest merged order,
cardinalities), it takes the smallest counterexample of a set of numbers, for
which the library has a theorem without an operator parameter.

## Plan

1. `Thread` takes IDs from a FIFO and `Timer` from a list; both could be composed
   with `IdPoolFifo` by name, so that `IdPoolProofs!Refinement` applies to them
   directly.
2. `Allocator` assumes of the page allocator that it gives out runs nobody has.
   An abstract specification of runs of pages, which `Buddy` implements
   (`OwnersCorrect` is its invariant) and `Allocator` uses, would connect them.
3. In the same way, what `Thread` assumes of `Preempt` could be an abstract
   module that `Interrupts` implements.
4. The shell's `syscall_demo` loop could be put on top of `Thread` to check
   whether the ID it waits for can be taken over. Its comment argues from what
   the demo's programs do, so such a model has to restrict the user programs.

## Not modelled

*Earlier labs.* Lab1 to Lab4 are earlier versions of the kernel. Many of their
files are equal to those of Lab5 (`fdt.c`, `mini_uart.c`, `initramfs.c`,
`printf.c`, `string.c`) or differ in a few lines (`buddy.c`, `allocator.c`,
`task_queue.c`, `main.c`), the others are simpler forms of what is modelled.
Models of them would repeat these ones; about two thirds of the repository's code
are there.

*Library routines.* Formatting and memory primitives keep no state and are used
as such. The wording of output is no part of any property.

*Parts of modelled components.* The register and stack contents copied by fork
and switch; the validation of user pointers; the polling mode of the UART before
`mini_uart_enable_async`, and the setup of its registers; the property tags of
the mailbox; the shell's line editor, its printing commands and demos, whose
calls to the thread system are among those `Thread` allows. A fault of a kernel
thread is left out: the kernel reports it, returns to the faulting instruction
and repeats. So are the EL0 demo of the shell beyond entering it, FIQ and
SError, which stay masked, and the thread system before `thread_init`.
