------------------------------- MODULE MiniUart -------------------------------
(***************************************************************************)
(* The rings of mini_uart.c of Lab5/c, byte by byte: the foreground and    *)
(* the timer callbacks print and read with interrupts masked, the receive  *)
(* and the transmit task move bytes between the rings and the FIFOs with   *)
(* interrupts unmasked, so each of their accesses to a ring is a step.     *)
(* (Interrupts models when they run and how many bytes there are, this     *)
(* module which ones.)                                                     *)
(*                                                                         *)
(* One core.  active is the stack of what interrupted the thread: tasks,   *)
(* of which task_queue_run starts none over one of its own or a higher     *)
(* priority; a timer callback, which may interrupt any; and, masked and    *)
(* hence on top, a task that the interrupt handler runs itself because the *)
(* queue takes no more.  The n-th byte printed is n, and so is the n-th    *)
(* that arrives.                                                           *)
(***************************************************************************)
EXTENDS Integers, Sequences

CONSTANTS TxCapacity, RxCapacity,   \* CONFIG_MINI_UART_TX_BUFFER_SIZE, _RX_
          FifoSize,                 \* of the hardware
          MaxTasks, CacheSize,      \* CONFIG_TASK_QUEUE_MAX_TASKS, _CACHE_SIZE
          MaxPrinted, MaxReceived   \* bytes, of the model

\* The #error checks of config.h.
RingSizes == TxCapacity \in Nat \ {0, 1} /\ RxCapacity \in Nat \ {0, 1}

VARIABLES
    active, queued, cached,                 \* how many tasks of each kind wait; spare nodes
    tx_data, tx_head, tx_tail,              \* tx_buffer
    tx_enabled, tx_room,                    \* AUX_MU_IER, and the room in the FIFO
    tx_task,                                \* where the transmit task is, and its locals
    printed, output,                        \* bytes queued so far, bytes in the FIFO so far
    rx_data, rx_head, rx_tail,              \* rx_buffer
    rx_enabled, rx_fifo,
    rx_task,
    arrived, returned                       \* bytes received so far, returned by getc so far

tasks == <<active, queued, cached>>
transmitter == <<tx_data, tx_head, tx_tail, tx_enabled, tx_room, tx_task, printed, output>>
receiver == <<rx_data, rx_head, rx_tail, rx_enabled, rx_fifo, rx_task, arrived, returned>>
vars == <<tasks, transmitter, receiver>>

\* (index + 1) & (capacity - 1): the capacities are powers of two.
Successor(index, capacity) == IF index + 1 = capacity THEN 0 ELSE index + 1

Full(head, tail, capacity) == head = Successor(tail, capacity)
TxFull == Full(tx_head, tx_tail, TxCapacity)
RxFull == Full(rx_head, rx_tail, RxCapacity)
TxEmpty == tx_head = tx_tail
RxEmpty == rx_head = rx_tail

Runs(task) == active # <<>> /\ active[Len(active)] = task
IsActive(task) == \E i \in 1 .. Len(active) : active[i] = task
Unmasked == ~Runs("rx_inline") /\ ~Runs("tx_inline")

\* The tasks that keep one from running: those of its own and of a higher priority.
Blocking(task) == IF task = "rx" THEN {"rx"} ELSE {"rx", "tx"}
Urgent(stack, queue) ==
    {task \in {"rx", "tx"} : queue[task] > 0
                             /\ \A i \in 1 .. Len(stack) : stack[i] \notin Blocking(task)}

\* task_queue_run: the most urgent task, if it may run, gives its node back and begins.
Dispatch(stack, queue, nodes) ==
    LET urgent == Urgent(stack, queue)
        next == IF "rx" \in urgent THEN "rx" ELSE "tx"
    IN  IF urgent = {} THEN active' = stack /\ queued' = queue /\ cached' = nodes
        ELSE /\ active' = Append(stack, next)
             /\ queued' = [queue EXCEPT ![next] = @ - 1]
             /\ cached' = IF nodes < CacheSize THEN nodes + 1 ELSE nodes

\* What is on top returns to the handler below it, which looks at the queue.
Return == Dispatch(SubSeq(active, 1, Len(active) - 1), queued, cached)

\* A byte written to a FIFO without room is lost.
Put(c) == IF tx_room = 0 THEN UNCHANGED <<tx_room, output>>
          ELSE tx_room' = tx_room - 1 /\ output' = Append(output, c)

NoLocals(at) == [at |-> at, c |-> 0, head |-> 0]

\* mini_uart_enable_async
Init ==
    /\ active = <<>> /\ queued = [task \in {"rx", "tx"} |-> 0] /\ cached = 0
    /\ tx_data = [i \in 0 .. TxCapacity - 1 |-> 0] /\ tx_head = 0 /\ tx_tail = 0
    /\ tx_enabled = FALSE /\ tx_room = FifoSize /\ tx_task = NoLocals("check")
    /\ printed = 0 /\ output = <<>>
    /\ rx_data = [i \in 0 .. RxCapacity - 1 |-> 0] /\ rx_head = 0 /\ rx_tail = 0
    /\ rx_enabled = TRUE /\ rx_fifo = <<>> /\ rx_task = [at |-> "check", c |-> 0]
    /\ arrived = 0 /\ returned = <<>>
-------------------------------------------------------------------------------
(* The foreground and the callbacks, masked *)

\* One turn of the loop of mini_uart_putb_async for the next byte, in the thread or a callback.
Putb ==
    /\ active = <<>> \/ Runs("callback")
    /\ printed < MaxPrinted
    /\ tx_enabled' = TRUE
    /\ IF ~TxFull
         THEN /\ tx_data' = [tx_data EXCEPT ![tx_tail] = printed + 1]
              /\ tx_tail' = Successor(tx_tail, TxCapacity)
              /\ printed' = printed + 1
              /\ UNCHANGED <<tx_head, tx_room, output>>
         ELSE /\ IF tx_room > 0
                   THEN Put(tx_data[tx_head]) /\ tx_head' = Successor(tx_head, TxCapacity)
                   ELSE UNCHANGED <<tx_room, output, tx_head>>
              /\ UNCHANGED <<tx_data, tx_tail, printed>>
    /\ UNCHANGED <<tasks, tx_task, receiver>>

\* One turn of the loop of mini_uart_getb_async; only threads read.
Getb ==
    /\ active = <<>>
    /\ rx_enabled' = TRUE
    /\ IF RxEmpty THEN UNCHANGED <<rx_head, returned>>
       ELSE /\ returned' = Append(returned, rx_data[rx_head])
            /\ rx_head' = Successor(rx_head, RxCapacity)
    /\ UNCHANGED <<tasks, transmitter, rx_data, rx_tail, rx_fifo, rx_task, arrived>>

\* A timer event whose callback prints (shell_print_timeout_message).
CallbackBegins ==
    /\ Unmasked /\ ~IsActive("callback")
    /\ active' = Append(active, "callback")
    /\ UNCHANGED <<queued, cached, transmitter, receiver>>
CallbackEnds == Runs("callback") /\ Return /\ UNCHANGED <<transmitter, receiver>>
-------------------------------------------------------------------------------
(* mini_uart_handle_irq *)

\* task_queue_push, with a spare node or one from the heap, and then task_queue_run.
Push(task) ==
    /\ queued["rx"] + queued["tx"] < MaxTasks
    /\ Dispatch(active, [queued EXCEPT ![task] = @ + 1], IF cached > 0 THEN cached - 1 ELSE 0)

\* task_alloc finds no node: the limit is reached, or no node is spare and the heap is full.
\* The handler runs the task itself.
PushFails(inline) ==
    /\ queued["rx"] + queued["tx"] >= MaxTasks \/ cached = 0
    /\ active' = Append(active, inline)
    /\ UNCHANGED <<queued, cached>>

TxIrq ==
    /\ Unmasked /\ tx_enabled /\ tx_room > 0
    /\ tx_enabled' = FALSE
    /\ Push("tx") \/ PushFails("tx_inline")
    /\ UNCHANGED <<tx_data, tx_head, tx_tail, tx_room, tx_task, printed, output, receiver>>

RxIrq ==
    /\ Unmasked /\ rx_enabled /\ rx_fifo # <<>>
    /\ rx_enabled' = FALSE
    /\ Push("rx") \/ PushFails("rx_inline")
    /\ UNCHANGED <<transmitter, rx_data, rx_head, rx_tail, rx_fifo, rx_task, arrived, returned>>

\* One turn of mini_uart_transmit_task in the handler, and its end.
InlineTransmit ==
    /\ Runs("tx_inline") /\ ~TxEmpty /\ tx_room > 0
    /\ Put(tx_data[tx_head])
    /\ tx_head' = Successor(tx_head, TxCapacity)
    /\ UNCHANGED <<tasks, tx_data, tx_tail, tx_enabled, tx_task, printed, receiver>>

InlineTransmitEnds ==
    /\ Runs("tx_inline") /\ (TxEmpty \/ tx_room = 0)
    /\ tx_enabled' = (tx_enabled \/ ~TxEmpty)
    /\ Return
    /\ UNCHANGED <<tx_data, tx_head, tx_tail, tx_room, tx_task, printed, output, receiver>>

\* One turn of mini_uart_receive_task in the handler, and its end.
InlineReceive ==
    /\ Runs("rx_inline") /\ ~RxFull /\ rx_fifo # <<>>
    /\ rx_fifo' = Tail(rx_fifo)
    /\ rx_data' = [rx_data EXCEPT ![rx_tail] = Head(rx_fifo)]
    /\ rx_tail' = Successor(rx_tail, RxCapacity)
    /\ UNCHANGED <<tasks, transmitter, rx_head, rx_enabled, rx_task, arrived, returned>>

InlineReceiveEnds ==
    /\ Runs("rx_inline") /\ (RxFull \/ rx_fifo = <<>>)
    /\ rx_enabled' = (rx_enabled \/ ~RxFull)
    /\ Return
    /\ UNCHANGED <<transmitter, rx_data, rx_head, rx_tail, rx_fifo, rx_task, arrived, returned>>
-------------------------------------------------------------------------------
(* mini_uart_transmit_task: while there is a byte and room, dequeue it and put it. *)

TxStep(at, next) ==
    /\ Runs("tx") /\ tx_task.at = at
    /\ tx_task' = next
    /\ UNCHANGED <<tx_data, tx_tail, printed, receiver>>

\* The loop's condition: a byte in the ring, and then room in the FIFO.
TxCheck == /\ TxStep("check", NoLocals(IF TxEmpty THEN "test" ELSE "ready"))
           /\ UNCHANGED <<tasks, tx_enabled, tx_head, tx_room, output>>
TxReady == /\ TxStep("ready", NoLocals(IF tx_room > 0 THEN "load" ELSE "test"))
           /\ UNCHANGED <<tasks, tx_enabled, tx_head, tx_room, output>>

\* c = data[head]
TxLoad == /\ TxStep("load", [at |-> "read_head", c |-> tx_data[tx_head], head |-> 0])
          /\ UNCHANGED <<tasks, tx_enabled, tx_head, tx_room, output>>

\* head = (head + 1) & (capacity - 1): head is volatile, read and written.
TxReadHead == /\ TxStep("read_head", [tx_task EXCEPT !.at = "write_head", !.head = tx_head])
              /\ UNCHANGED <<tasks, tx_enabled, tx_head, tx_room, output>>
TxWriteHead == /\ TxStep("write_head", [tx_task EXCEPT !.at = "put"])
               /\ tx_head' = Successor(tx_task.head, TxCapacity)
               /\ UNCHANGED <<tasks, tx_enabled, tx_room, output>>

TxPut == /\ TxStep("put", NoLocals("check"))
         /\ Put(tx_task.c)
         /\ UNCHANGED <<tasks, tx_enabled, tx_head>>

\* After the loop: a second look at the ring, the source is enabled, the task returns.
TxTest == /\ TxStep("test", NoLocals(IF TxEmpty THEN "return" ELSE "enable"))
          /\ UNCHANGED <<tasks, tx_enabled, tx_head, tx_room, output>>
TxEnable == /\ TxStep("enable", NoLocals("return"))
            /\ tx_enabled' = TRUE
            /\ UNCHANGED <<tasks, tx_head, tx_room, output>>
TxReturn == /\ TxStep("return", NoLocals("check"))
            /\ Return
            /\ UNCHANGED <<tx_enabled, tx_head, tx_room, output>>

FifoDrains ==
    /\ tx_room < FifoSize
    /\ tx_room' = tx_room + 1
    /\ UNCHANGED <<tasks, tx_data, tx_head, tx_tail, tx_enabled, tx_task, printed, output, receiver>>
-------------------------------------------------------------------------------
(* mini_uart_receive_task: while there is room and data, enqueue it. *)

RxStep(at, next) ==
    /\ Runs("rx") /\ rx_task.at = at
    /\ rx_task' = next
    /\ UNCHANGED <<transmitter, rx_head, arrived, returned>>

RxRead == /\ ~RxFull /\ rx_fifo # <<>>
          /\ RxStep("check", [at |-> "store", c |-> Head(rx_fifo)])
          /\ rx_fifo' = Tail(rx_fifo)
          /\ UNCHANGED <<tasks, rx_enabled, rx_data, rx_tail>>

RxStore == /\ RxStep("store", [at |-> "advance", c |-> 0])
           /\ rx_data' = [rx_data EXCEPT ![rx_tail] = rx_task.c]
           /\ UNCHANGED <<tasks, rx_enabled, rx_fifo, rx_tail>>

RxAdvance == /\ RxStep("advance", [at |-> "check", c |-> 0])
             /\ rx_tail' = Successor(rx_tail, RxCapacity)
             /\ UNCHANGED <<tasks, rx_enabled, rx_fifo, rx_data>>

\* After the loop: the source is enabled if the ring has room, and the task returns.
RxCheck == /\ RxFull \/ rx_fifo = <<>>
           /\ RxStep("check", [at |-> "test", c |-> 0])
           /\ UNCHANGED <<tasks, rx_enabled, rx_fifo, rx_data, rx_tail>>
RxTest == /\ RxStep("test", [at |-> IF RxFull THEN "return" ELSE "enable", c |-> 0])
          /\ UNCHANGED <<tasks, rx_enabled, rx_fifo, rx_data, rx_tail>>
RxEnable == /\ RxStep("enable", [at |-> "return", c |-> 0])
            /\ rx_enabled' = TRUE
            /\ UNCHANGED <<tasks, rx_fifo, rx_data, rx_tail>>
RxReturn == /\ RxStep("return", [at |-> "check", c |-> 0])
            /\ Return
            /\ UNCHANGED <<rx_enabled, rx_fifo, rx_data, rx_tail>>

\* A byte that finds the FIFO full is lost before anyone sees it.
ByteArrives ==
    /\ arrived < MaxReceived /\ Len(rx_fifo) < FifoSize
    /\ arrived' = arrived + 1 /\ rx_fifo' = Append(rx_fifo, arrived + 1)
    /\ UNCHANGED <<tasks, transmitter, rx_data, rx_head, rx_tail, rx_enabled, rx_task, returned>>

Transmitting == \/ TxCheck \/ TxReady \/ TxLoad \/ TxReadHead \/ TxWriteHead \/ TxPut
                \/ TxTest \/ TxEnable \/ TxReturn
Receiving == \/ RxRead \/ RxStore \/ RxAdvance \/ RxCheck \/ RxTest \/ RxEnable \/ RxReturn
Inline == InlineTransmit \/ InlineTransmitEnds \/ InlineReceive \/ InlineReceiveEnds

Next ==
    \/ Putb \/ Getb \/ CallbackBegins \/ CallbackEnds
    \/ TxIrq \/ RxIrq \/ Inline \/ Transmitting \/ Receiving \/ FifoDrains \/ ByteArrives

Spec == Init /\ [][Next]_vars
-------------------------------------------------------------------------------
(* "Move queued software TX bytes into the hardware TX FIFO": every byte printed reaches the  *)
(* FIFO once and in order, whatever prints while the transmit task dequeues                   *)
(* (mini_uart_transmit_task).                                                                 *)
OutputExact == \A i \in 1 .. Len(output) : output[i] = i

(* Every byte that entered the receive FIFO is returned by mini_uart_getc once and in order,  *)
(* whatever interrupts the receive task (mini_uart_receive_task, mini_uart_getb_async).       *)
InputExact == \A i \in 1 .. Len(returned) : returned[i] = i
===============================================================================
