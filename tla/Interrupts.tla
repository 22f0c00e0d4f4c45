------------------------------ MODULE Interrupts ------------------------------
(***************************************************************************)
(* The interrupt side of Lab5/c: the dispatcher of exception.c, the        *)
(* deferred tasks of task_queue.c, and as much of timer.c, mini_uart.c and *)
(* thread.c as decides when an interrupt is taken, what runs unmasked      *)
(* inside it, and when a thread is switched.                               *)
(*                                                                         *)
(* One core.  Masked code is never interrupted, so a stretch of it up to   *)
(* the next decision is one step.  Callbacks run with interrupts unmasked  *)
(* on the stack of the interrupted thread: handlers is that stack.  The    *)
(* timers' deadlines are abstracted to whether they are due and the UART's *)
(* rings to how many bytes they hold.  The kernel heap is ready, as it is  *)
(* once main has started it.                                               *)
(***************************************************************************)
EXTENDS Integers, Sequences, FiniteSets

CONSTANTS Tick,       \* the periodic event whose callback is scheduling_tick
          Timeouts,   \* the events the shell's set_timeout command can have active
          MaxTasks,   \* CONFIG_TASK_QUEUE_MAX_TASKS
          CacheSize,  \* CONFIG_TASK_QUEUE_CACHE_SIZE
          RxSize,     \* CONFIG_MINI_UART_RX_BUFFER_SIZE - 1, the bytes the ring can hold
          TxSize      \* CONFIG_MINI_UART_TX_BUFFER_SIZE - 1

ASSUME EventsAssumption == Tick \notin Timeouts
ASSUME TasksAssumption == MaxTasks \in Nat \ {0} /\ CacheSize \in 0 .. MaxTasks
ASSUME RingAssumption == RxSize \in Nat \ {0} /\ TxSize \in Nat \ {0}

Events == Timeouts \cup {Tick}

\* task_priority_t; nothing is pushed with TASK_PRIORITY_TIMER.  A priority also tells
\* which callback the task has: mini_uart_receive_task or mini_uart_transmit_task.
UART_RX == 1
UART_TX == 2
Priorities == {UART_RX, UART_TX}

(***************************************************************************)
(* Where a handler is:                                                     *)
(*   entered   masked, the timer not checked yet                           *)
(*   expiring  masked, in the loop of timer_run_expired_events             *)
(*   event     unmasked, in the callback of a timer event                  *)
(*   uart      masked, the Mini UART not checked yet                       *)
(*   running   masked, in the loop of task_queue_run                       *)
(*   task      unmasked, in the callback of a task                         *)
(*   sync      masked, printing the report of a kernel exception           *)
(* and done tells whether the callback has had its effect; stage, how far  *)
(* a task has come: its loop, the look at the ring after it, the source.   *)
(***************************************************************************)
Places == {"entered", "expiring", "event", "uart", "running", "task", "sync"}
Stages == {"copy", "test", "enable"}
Handlers == [at : Places, done : BOOLEAN, handled : BOOLEAN, event : Events, stage : Stages,
             priority : Priorities, previous : [running : BOOLEAN, priority : {0} \cup Priorities]]

VARIABLES
    handlers,               \* the active interrupt handlers, the innermost one last
    exception_depth,
    pending_queue,          \* the priorities of the pending tasks
    active_count, cached_count, task_running, current_task_priority,
    waiting_events, running_events,   \* of timer.c; the latter in the order of nesting
    timer_enabled, timer_due,         \* CNTP_CTL_EL0, and whether it asserts its interrupt
    rx_enabled, tx_enabled,           \* the sources in AUX_MU_IER
    rx_ready, tx_ready,               \* AUX_MU_LSR: received data, room in the FIFO
    rx_count, tx_count,               \* the bytes in rx_buffer and tx_buffer
    reschedule_pending

tasks == <<pending_queue, active_count, cached_count>>
nesting == <<task_running, current_task_priority>>
events == <<waiting_events, running_events>>
timer == <<timer_enabled, timer_due>>
receiver == <<rx_enabled, rx_ready, rx_count>>
transmitter == <<tx_enabled, tx_ready, tx_count>>
uart == <<receiver, transmitter>>
vars == <<handlers, exception_depth, tasks, nesting, events, timer, uart, reschedule_pending>>

top == handlers[Len(handlers)]
At(place) == handlers # <<>> /\ top.at = place
InThread == handlers = <<>>
Unmasked == InThread \/ At("event") \/ At("task")

TimerPending == timer_due
UartPending == (rx_enabled /\ rx_ready) \/ (tx_enabled /\ tx_ready)

\* A handler outside callbacks.
Handler(place, handled) ==
    [at |-> place, done |-> FALSE, handled |-> handled, event |-> Tick, stage |-> "copy",
     priority |-> UART_RX, previous |-> [running |-> FALSE, priority |-> 0]]

\* The handlers inside the callback of a task, and of an event.
TaskAt == {i \in DOMAIN handlers : handlers[i].at = "task"}
EventAt == {i \in DOMAIN handlers : handlers[i].at = "event"}

\* list_remove: the other events keep their order.
Unlink(list, e) == LET p == CHOOSE i \in DOMAIN list : list[i] = e
                   IN  [i \in 1 .. Len(list) - 1 |-> IF i < p THEN list[i] ELSE list[i + 1]]

\* The innermost handler goes on as h.
Becomes(h) == handlers' = [handlers EXCEPT ![Len(handlers)] = h]
-------------------------------------------------------------------------------
(* The hardware *)

TimerFires == /\ timer_enabled /\ ~timer_due
              /\ timer_due' = TRUE
              /\ UNCHANGED <<handlers, exception_depth, tasks, nesting, events, timer_enabled,
                             uart, reschedule_pending>>

ByteArrives == /\ ~rx_ready
               /\ rx_ready' = TRUE
               /\ UNCHANGED <<handlers, exception_depth, tasks, nesting, events, timer,
                              rx_enabled, rx_count, transmitter, reschedule_pending>>

FifoDrains == /\ ~tx_ready
              /\ tx_ready' = TRUE
              /\ UNCHANGED <<handlers, exception_depth, tasks, nesting, events, timer,
                             receiver, tx_enabled, tx_count, reschedule_pending>>
-------------------------------------------------------------------------------
(* The Mini UART as the rest of the kernel sees it *)

\* Mutation: the writer only waits for the interrupt to make room.
PutbWaits == /\ tx_enabled' = TRUE
             /\ tx_count' = IF tx_count < TxSize THEN tx_count + 1 ELSE tx_count
             /\ UNCHANGED <<tx_ready, receiver>>

\* mini_uart_putb_async, one turn of its loop: the byte is queued, or a queued byte goes
\* to the FIFO to make room, or the FIFO is full as well.
Putb == /\ tx_enabled' = TRUE
        /\ IF tx_count < TxSize THEN tx_count' = tx_count + 1 /\ UNCHANGED tx_ready
           ELSE IF tx_ready THEN tx_count' = tx_count - 1 /\ tx_ready' \in BOOLEAN
           ELSE UNCHANGED <<tx_count, tx_ready>>
        /\ UNCHANGED receiver

\* mini_uart_receive_task with interrupts masked: reads until there is no data or no room,
\* and enables the source if there is room.
Receive ==
    /\ rx_count' \in rx_count .. RxSize
    /\ rx_ready' \in {rx_ready, FALSE}
    /\ IF rx_count' = rx_count THEN rx_ready' = rx_ready ELSE rx_ready
    /\ rx_count' < RxSize => ~rx_ready'
    /\ rx_enabled' = (rx_count' < RxSize)

\* mini_uart_transmit_task with interrupts masked: writes until there is no byte or no
\* room, and enables the source if a byte is left.
Transmit ==
    /\ tx_count' \in 0 .. tx_count
    /\ tx_ready' \in {tx_ready, FALSE}
    /\ IF tx_count' = tx_count THEN tx_ready' = tx_ready ELSE tx_ready
    /\ tx_count' > 0 => ~tx_ready'
    /\ tx_enabled' = (tx_count' > 0)
-------------------------------------------------------------------------------
(* Threads, while no handler is active *)

\* mini_uart_getb_async, one turn of its loop.
Getc == /\ InThread
        /\ rx_count' = IF rx_count > 0 THEN rx_count - 1 ELSE rx_count
        /\ rx_enabled' = TRUE
        /\ UNCHANGED <<handlers, exception_depth, tasks, nesting, events, timer, rx_ready,
                       transmitter, reschedule_pending>>

Putc == /\ InThread
        /\ Putb
        /\ UNCHANGED <<handlers, exception_depth, tasks, nesting, events, timer,
                       reschedule_pending>>

\* timer_add_timeout, whose event may or may not be the first to expire.
AddEvent(e) ==
    /\ InThread
    /\ e \notin waiting_events
    /\ waiting_events' = waiting_events \cup {e}
    /\ \/ timer_enabled' = TRUE /\ timer_due' = FALSE
       \/ waiting_events # {} /\ UNCHANGED timer
    /\ UNCHANGED <<handlers, exception_depth, tasks, nesting, running_events, uart,
                   reschedule_pending>>

\* cmd_set_timeout.
SetTimeout == \E e \in Timeouts : AddEvent(e)

\* thread_start_preemption, if the attempt in main failed.
StartPreemption == AddEvent(Tick)
-------------------------------------------------------------------------------
(* exception_dispatch *)

\* A synchronous exception of the kernel: the shell's svc command.
TakeSync ==
    /\ InThread
    /\ handlers' = Append(handlers, Handler("sync", TRUE))
    /\ exception_depth' = exception_depth + 1
    /\ UNCHANGED <<tasks, nesting, events, timer, uart, reschedule_pending>>

\* handle_svc_demo prints with interrupts masked; one byte stands for its report.
PrintSync ==
    /\ At("sync") /\ ~top.done
    /\ Putb
    /\ Becomes([top EXCEPT !.done = tx_count < TxSize])
    /\ UNCHANGED <<exception_depth, tasks, nesting, events, timer, reschedule_pending>>

\* Only interrupts preempt.
LeaveSync ==
    /\ At("sync") /\ top.done
    /\ handlers' = SubSeq(handlers, 1, Len(handlers) - 1)
    /\ exception_depth' = exception_depth - 1
    /\ UNCHANGED <<tasks, nesting, events, timer, uart, reschedule_pending>>

TakeIrq ==
    /\ Unmasked
    /\ TimerPending \/ UartPending
    /\ handlers' = Append(handlers, Handler("entered", FALSE))
    /\ exception_depth' = exception_depth + 1
    /\ UNCHANGED <<tasks, nesting, events, timer, uart, reschedule_pending>>

\* The call of timer_handle_irq, up to its loop.
HandleTimer ==
    /\ At("entered")
    /\ IF TimerPending
       THEN /\ timer_enabled' = FALSE
            /\ timer_due' = FALSE
            /\ Becomes(Handler("expiring", TRUE))
       ELSE /\ Becomes(Handler("uart", top.handled))
            /\ UNCHANGED timer
    /\ UNCHANGED <<exception_depth, tasks, nesting, events, uart, reschedule_pending>>

\* timer_run_expired_events: the first waiting event has expired.
RunExpired(e) ==
    /\ At("expiring")
    /\ e \in waiting_events
    /\ waiting_events' = waiting_events \ {e}
    /\ running_events' = Append(running_events, e)
    /\ Becomes([Handler("event", top.handled) EXCEPT !.event = e])
    /\ UNCHANGED <<exception_depth, tasks, nesting, timer, uart, reschedule_pending>>

\* The callback scheduling_tick.
SchedulingTick ==
    /\ At("event") /\ top.event = Tick /\ ~top.done
    /\ reschedule_pending' = TRUE
    /\ Becomes([top EXCEPT !.done = TRUE])
    /\ UNCHANGED <<exception_depth, tasks, nesting, events, timer, uart>>

\* The callback shell_print_timeout_message, a byte at a time.
PrintTimeout ==
    /\ At("event") /\ top.event \in Timeouts
    /\ Putb
    /\ Becomes([top EXCEPT !.done = @ \/ tx_count < TxSize])
    /\ UNCHANGED <<exception_depth, tasks, nesting, events, timer, reschedule_pending>>

\* Mutation: the periodic event is recycled like a one-shot.
EventReturnForgets ==
    /\ At("event") /\ top.done
    /\ running_events' = Unlink(running_events, top.event)
    /\ Becomes(Handler("expiring", top.handled))
    /\ UNCHANGED <<exception_depth, tasks, nesting, waiting_events, timer, uart,
                   reschedule_pending>>

\* The callback returns: a periodic event waits again, a one-shot is recycled.
EventReturn ==
    /\ At("event") /\ top.done
    /\ running_events' = Unlink(running_events, top.event)
    /\ waiting_events' = waiting_events \cup ({top.event} \cap {Tick})
    /\ Becomes(Handler("expiring", top.handled))
    /\ UNCHANGED <<exception_depth, tasks, nesting, timer, uart, reschedule_pending>>

\* No other event has expired: timer_program_next_event.
ProgramTimer ==
    /\ At("expiring")
    /\ timer_enabled' = (waiting_events # {})
    /\ timer_due' = FALSE
    /\ Becomes(Handler("uart", top.handled))
    /\ UNCHANGED <<exception_depth, tasks, nesting, events, uart, reschedule_pending>>
-------------------------------------------------------------------------------
(* The task queue *)

\* The search of task_queue_push: before the first task of a larger number.
Insert(queue, p) ==
    LET before == {i \in DOMAIN queue : queue[i] <= p /\ \A j \in 1 .. i : queue[j] <= p}
    IN  SubSeq(queue, 1, Cardinality(before)) \o <<p>>
        \o SubSeq(queue, Cardinality(before) + 1, Len(queue))

\* task_queue_push, with a node from the cache or from the heap.
Push(p) ==
    /\ active_count < MaxTasks
    /\ pending_queue' = Insert(pending_queue, p)
    /\ active_count' = active_count + 1
    /\ cached_count' = IF cached_count > 0 THEN cached_count - 1 ELSE cached_count

\* task_alloc finds no node: the limit is reached, or the cache empty and the heap full.
PushFails == /\ active_count >= MaxTasks \/ cached_count = 0
             /\ UNCHANGED tasks

\* mini_uart_handle_irq for received data: disables the source and defers the work, or
\* does it at once.
HandleReceive ==
    /\ At("uart") /\ rx_enabled /\ rx_ready
    /\ Becomes(Handler("running", TRUE))
    /\ \/ /\ Push(UART_RX)
          /\ rx_enabled' = FALSE
          /\ UNCHANGED <<rx_ready, rx_count>>
       \/ PushFails /\ Receive
    /\ UNCHANGED <<exception_depth, nesting, events, timer, transmitter, reschedule_pending>>

\* The same for room in the transmit FIFO.
HandleTransmit ==
    /\ At("uart") /\ tx_enabled /\ tx_ready
    /\ Becomes(Handler("running", TRUE))
    /\ \/ /\ Push(UART_TX)
          /\ tx_enabled' = FALSE
          /\ UNCHANGED <<tx_ready, tx_count>>
       \/ PushFails /\ Transmit
    /\ UNCHANGED <<exception_depth, nesting, events, timer, receiver, reschedule_pending>>

NoUartIrq ==
    /\ At("uart") /\ ~UartPending
    /\ Becomes(Handler("running", TRUE))
    /\ UNCHANGED <<exception_depth, tasks, nesting, events, timer, uart, reschedule_pending>>

\* task_queue_run: what may preempt the active task.
Urgent == /\ pending_queue # <<>>
          /\ task_running => Head(pending_queue) < current_task_priority

RunTask ==
    /\ At("running") /\ Urgent
    /\ pending_queue' = Tail(pending_queue)
    /\ active_count' = active_count - 1
    /\ cached_count' = IF cached_count < CacheSize THEN cached_count + 1 ELSE cached_count
    /\ task_running' = TRUE
    /\ current_task_priority' = Head(pending_queue)
    /\ Becomes([Handler("task", TRUE) EXCEPT !.priority = Head(pending_queue),
                   !.previous = [running |-> task_running, priority |-> current_task_priority]])
    /\ UNCHANGED <<exception_depth, events, timer, uart, reschedule_pending>>

\* The callback of a task goes on to the next stage, or has had its effect.
InTask(p, stage) == At("task") /\ top.priority = p /\ ~top.done /\ top.stage = stage
Goes(stage) == Becomes([top EXCEPT !.stage = stage])
Done == Becomes([top EXCEPT !.done = TRUE, !.stage = "copy"])

\* mini_uart_receive_task: one turn of its loop.
ReceiveCopy ==
    /\ InTask(UART_RX, "copy")
    /\ IF rx_count < RxSize /\ rx_ready
         THEN rx_count' = rx_count + 1 /\ rx_ready' \in BOOLEAN /\ UNCHANGED handlers
         ELSE Goes("test") /\ UNCHANGED <<rx_count, rx_ready>>
    /\ UNCHANGED <<rx_enabled, transmitter, exception_depth, tasks, nesting, events, timer,
                   reschedule_pending>>

\* After the loop it looks at the ring again, and enables the source if there is room.
ReceiveTest ==
    /\ InTask(UART_RX, "test")
    /\ IF rx_count < RxSize THEN Goes("enable") ELSE Done
    /\ UNCHANGED <<exception_depth, tasks, nesting, events, timer, uart, reschedule_pending>>

ReceiveEnable ==
    /\ InTask(UART_RX, "enable")
    /\ rx_enabled' = TRUE
    /\ Done
    /\ UNCHANGED <<rx_ready, rx_count, transmitter, exception_depth, tasks, nesting, events, timer,
                   reschedule_pending>>

\* mini_uart_transmit_task: one turn of its loop.
TransmitCopy ==
    /\ InTask(UART_TX, "copy")
    /\ IF tx_count > 0 /\ tx_ready
         THEN tx_count' = tx_count - 1 /\ tx_ready' \in BOOLEAN /\ UNCHANGED handlers
         ELSE Goes("test") /\ UNCHANGED <<tx_count, tx_ready>>
    /\ UNCHANGED <<tx_enabled, receiver, exception_depth, tasks, nesting, events, timer,
                   reschedule_pending>>

\* Mutation: the source is left disabled although bytes remain.
TransmitTestForgets ==
    /\ InTask(UART_TX, "test")
    /\ Done
    /\ UNCHANGED <<exception_depth, tasks, nesting, events, timer, uart, reschedule_pending>>

\* After the loop it looks at the ring again, and enables the source if a byte is left.
TransmitTest ==
    /\ InTask(UART_TX, "test")
    /\ IF tx_count > 0 THEN Goes("enable") ELSE Done
    /\ UNCHANGED <<exception_depth, tasks, nesting, events, timer, uart, reschedule_pending>>

TransmitEnable ==
    /\ InTask(UART_TX, "enable")
    /\ tx_enabled' = TRUE
    /\ Done
    /\ UNCHANGED <<tx_ready, tx_count, receiver, exception_depth, tasks, nesting, events, timer,
                   reschedule_pending>>

\* Mutation: the state of the interrupted run is cleared instead of restored.
TaskReturnClears ==
    /\ At("task") /\ top.done
    /\ task_running' = FALSE
    /\ current_task_priority' = 0
    /\ Becomes(Handler("running", TRUE))
    /\ UNCHANGED <<exception_depth, tasks, events, timer, uart, reschedule_pending>>

TaskReturn ==
    /\ At("task") /\ top.done
    /\ task_running' = top.previous.running
    /\ current_task_priority' = top.previous.priority
    /\ Becomes(Handler("running", TRUE))
    /\ UNCHANGED <<exception_depth, tasks, events, timer, uart, reschedule_pending>>

\* Mutation: the depth is compared before it is decremented.
PreemptsNever(depth) == depth + 1 = 0

\* Mutation: a nested handler serves the request as well.
Preempts(depth) == TRUE

\* exception_dispatch: only the outermost handler may switch threads.  The interrupted
\* code had interrupts unmasked, and the shell's EL0 demo has not been entered.
MayPreempt(depth) == depth = 0

\* Mutation: task_queue_run does not look for further tasks.
LeaveEarly ==
    /\ At("running")
    /\ handlers' = SubSeq(handlers, 1, Len(handlers) - 1)
    /\ exception_depth' = exception_depth - 1
    /\ reschedule_pending' = (reschedule_pending /\ ~MayPreempt(exception_depth - 1))
    /\ UNCHANGED <<tasks, nesting, events, timer, uart>>

\* The end of task_queue_run and of exception_dispatch, with thread_preempt, whose
\* schedule() serves the request.
Leave ==
    /\ At("running") /\ ~Urgent
    /\ handlers' = SubSeq(handlers, 1, Len(handlers) - 1)
    /\ exception_depth' = exception_depth - 1
    /\ reschedule_pending' = (reschedule_pending /\ ~MayPreempt(exception_depth - 1))
    /\ UNCHANGED <<tasks, nesting, events, timer, uart>>
-------------------------------------------------------------------------------
Init ==
    /\ handlers = <<>> /\ exception_depth = 0
    /\ pending_queue = <<>> /\ active_count = 0 /\ cached_count = 0
    /\ task_running = FALSE /\ current_task_priority = 0
    /\ waiting_events \in {{}, {Tick}} /\ running_events = <<>>
    /\ timer_enabled = (waiting_events # {}) /\ timer_due = FALSE
    /\ rx_enabled = TRUE /\ tx_enabled = FALSE   \* mini_uart_enable_async
    /\ rx_ready \in BOOLEAN /\ tx_ready = TRUE
    /\ rx_count = 0 /\ tx_count = 0
    /\ reschedule_pending = FALSE

Hardware == TimerFires \/ ByteArrives \/ FifoDrains
ThreadStep == Getc \/ Putc \/ SetTimeout \/ StartPreemption \/ TakeSync
Masked == HandleTimer \/ (\E e \in Events : RunExpired(e)) \/ ProgramTimer
          \/ HandleReceive \/ HandleTransmit \/ NoUartIrq \/ RunTask \/ Leave
          \/ PrintSync \/ LeaveSync
EventCallback == SchedulingTick \/ PrintTimeout
TaskCallback == ReceiveCopy \/ ReceiveTest \/ ReceiveEnable
                \/ TransmitCopy \/ TransmitTest \/ TransmitEnable

Next == Hardware \/ ThreadStep \/ TakeIrq \/ Masked
        \/ EventCallback \/ EventReturn \/ TaskCallback \/ TaskReturn

Spec == Init /\ [][Next]_vars

(***************************************************************************)
(* Masked code runs to its end.  A pending interrupt is taken when         *)
(* interrupts are unmasked often enough.  A callback goes on whenever no   *)
(* nested handler is in the way: callbacks are finite and the devices are  *)
(* slow.  Time passes, so the tick is among the expired events at times;   *)
(* and the loop over the expired events ends, because the tick expires     *)
(* 1/32 s after its callback has returned.  With the receive source        *)
(* disabled by its handler, the next interrupt is for the transmitter if   *)
(* it is ready.  Nothing is assumed of threads and of received data.       *)
(***************************************************************************)
LiveSpec ==
    /\ Spec
    /\ WF_vars(Masked) /\ WF_vars(TimerFires) /\ WF_vars(FifoDrains)
    /\ SF_vars(TakeIrq) /\ SF_vars(RunExpired(Tick)) /\ SF_vars(HandleTransmit)
    /\ SF_vars(EventCallback) /\ SF_vars(EventReturn) /\ SF_vars(ProgramTimer)
    /\ SF_vars(TaskCallback \/ TaskReturn)
-------------------------------------------------------------------------------
(* Properties *)

\* The variables keep their types, and exception_depth counts the active handlers.
TypeOK ==
    /\ handlers \in Seq(Handlers) /\ exception_depth = Len(handlers)
    /\ pending_queue \in Seq(Priorities)
    /\ active_count \in 0 .. MaxTasks /\ cached_count \in 0 .. CacheSize
    /\ task_running \in BOOLEAN /\ current_task_priority \in {0} \cup Priorities
    /\ waiting_events \subseteq Events /\ running_events \in Seq(Events)
    /\ {timer_enabled, timer_due, rx_enabled, tx_enabled, rx_ready, tx_ready} \subseteq BOOLEAN
    /\ rx_count \in 0 .. RxSize /\ tx_count \in 0 .. TxSize
    /\ reschedule_pending \in BOOLEAN

\* An interrupted stack holds at most four handlers: timer callbacks do not nest and
\* tasks nest by priority.
NestingBounded == Len(handlers) <= 4 /\ \A i, j \in EventAt : i = j

\* dispatch_irq_exception reports no interrupt as unhandled.
EveryIrqHandled == At("uart") /\ ~top.handled => UartPending

\* exception_dispatch and task_queue_run: a nested interrupt does not harm the one below.
\* It starts only tasks that are more urgent than every task below, leaves task_running
\* and current_task_priority as it found them, does not exhaust the stack, and does not
\* consume the cause of an interrupt that has been taken.
TasksNest ==
    /\ TypeOK
    /\ \A i, j \in TaskAt : i < j => handlers[j].priority < handlers[i].priority
    /\ task_running = (TaskAt # {})
    /\ \A i \in TaskAt : (\A j \in TaskAt : j <= i) => current_task_priority = handlers[i].priority
    /\ NestingBounded
    /\ EveryIrqHandled

\* task_alloc and task_free: the number of active nodes is the length of the queue, which
\* is in order, whatever the order of pushes and nested runs.
QueueAccounting ==
    /\ active_count = Len(pending_queue)
    /\ \A i, j \in DOMAIN pending_queue : i < j => pending_queue[i] <= pending_queue[j]

\* task_queue_run: wherever interrupts are unmasked, every pending task waits for a
\* running task of at least its urgency (so threads run with an empty queue), and the
\* queue is in order and counted exactly.
NothingUrgentWaits ==
    /\ QueueAccounting
    /\ Unmasked => \A i \in DOMAIN pending_queue :
                      task_running /\ pending_queue[i] >= current_task_priority

\* A task with this priority has yet to look at its ring.
Deferred(p) == \/ \E i \in DOMAIN pending_queue : pending_queue[i] = p
               \/ \E i \in TaskAt : handlers[i].priority = p /\ ~handlers[i].done

\* mini_uart.c and timer.c: a source that is switched off has somebody who will switch it
\* on.  While bytes are queued, the transmit interrupt is enabled or a transmit task is
\* yet to run; while the receive interrupt is disabled, a receive task is yet to run or
\* the ring is full, and its reader will enable it; while an event waits, the timer is
\* enabled or its handler has yet to program it.
NoLostWakeup ==
    /\ tx_count > 0 => tx_enabled \/ Deferred(UART_TX)
    /\ ~rx_enabled => rx_count = RxSize \/ Deferred(UART_RX)
    /\ waiting_events # {} =>
          \/ timer_enabled
          \/ \E i \in DOMAIN handlers : handlers[i].at \in {"expiring", "event"}

\* exception_dispatch and thread_preempt: threads are switched only by the outermost
\* handler, when no task and no event is being run.
SwitchesOutermost ==
    [][reschedule_pending /\ ~reschedule_pending' =>
          handlers' = <<>> /\ ~task_running' /\ running_events' = <<>>]_vars

\* Once preemption has started, ticks never stop requesting switches, and every request
\* is served: what module Thread assumes of Preempt.
TicksNeverStop == [](Tick \in waiting_events => []<>reschedule_pending)
RequestsServed == reschedule_pending ~> ~reschedule_pending

\* A writer that finds the ring full gets room, also with interrupts masked and in a
\* callback that keeps the transmit task from running.
OutputMoves == (tx_count = TxSize) ~> (tx_count < TxSize)
===============================================================================
