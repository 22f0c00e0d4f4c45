-------------------------- MODULE InterruptsProofs --------------------------
(***************************************************************************)
(* Theorems about Interrupts for every number of events, tasks and bytes.  *)
(***************************************************************************)
EXTENDS Interrupts, FiniteSetTheorems, TLAPS

-------------------------------------------------------------------------------
(* The inductive invariant: what the stack of handlers looks like *)

\* The places in timer_handle_irq, where the timer is disabled.
Timing == {"expiring", "event"}
\* The handlers that walk the list of events.
TimingAt == {i \in DOMAIN handlers : handlers[i].at \in Timing}

\* Only callbacks are interrupted; a kernel exception is taken by a thread only.
CallbacksBelow ==
    /\ \A i \in DOMAIN handlers : i < Len(handlers) => handlers[i].at \in {"event", "task"}
    /\ Len(handlers) > 1 => handlers[Len(handlers)].at # "sync"

\* While timer_handle_irq is active the timer is disabled, so it is active once.
TimerHandledOnce ==
    /\ timer_due => timer_enabled
    /\ \A i, j \in TimingAt : i = j
    /\ \A i \in TimingAt : ~timer_enabled /\ handlers[i].handled

\* running_events is the event whose callback is active.
RunningEvent ==
    /\ EventAt = {} => running_events = <<>>
    /\ \A i \in EventAt : running_events = <<handlers[i].event>>

\* The last index of a set of handlers.
LastOf(S, i) == i \in S /\ \A j \in S : j <= i

\* Every task found what it will restore: the state of the tasks below it.
TasksRestore ==
    \A i \in TaskAt :
       LET below == {j \in TaskAt : j < i}
       IN  /\ handlers[i].previous.running = (below # {})
           /\ \A j \in below :
                 /\ handlers[i].previous.priority <= handlers[j].priority
                 /\ LastOf(below, j) => handlers[i].previous.priority = handlers[j].priority

\* The tasks that run are of ever higher priority, and the variables say so.
TasksDescend ==
    /\ \A i, j \in TaskAt : i < j => handlers[j].priority < handlers[i].priority
    /\ task_running = (TaskAt # {})
    /\ \A i \in TaskAt :
          /\ current_task_priority <= handlers[i].priority
          /\ LastOf(TaskAt, i) => current_task_priority = handlers[i].priority

\* The interrupt that is being dispatched keeps its cause.
CauseKept ==
    /\ At("entered") => timer_due \/ UartPending
    /\ EveryIrqHandled

\* Outside the loop of task_queue_run, no pending task may preempt the running one.
NoneUrgent == \A i \in DOMAIN pending_queue :
                 task_running /\ pending_queue[i] >= current_task_priority

\* The inductive invariant.
IInv == /\ TypeOK
        /\ CallbacksBelow /\ TimerHandledOnce /\ RunningEvent
        /\ TasksRestore /\ TasksDescend
        /\ CauseKept
        /\ QueueAccounting
        /\ At("running") \/ NoneUrgent
        /\ NoLostWakeup
-------------------------------------------------------------------------------
(* The stack of handlers: what a call, a return and a step of the top do to it *)

\* What IInv says of the types, in the form the steps need.
LEMMA Types ==
    ASSUME IInv
    PROVE  /\ handlers \in Seq(Handlers) /\ exception_depth = Len(handlers)
           /\ Len(handlers) \in Nat /\ DOMAIN handlers = 1 .. Len(handlers)
           /\ \A i \in DOMAIN handlers : handlers[i] \in Handlers
           /\ handlers # <<>> => top \in Handlers /\ Len(handlers) \in DOMAIN handlers
BY DEF IInv, TypeOK, top

\* The records that become handlers.
LEMMA HandlerType ==
    ASSUME NEW place \in Places, NEW handled \in BOOLEAN
    PROVE  /\ Handler(place, handled) \in Handlers
           /\ Handler(place, handled).at = place
           /\ Handler(place, handled).handled = handled
           /\ Handler(place, handled).done = FALSE
BY DEF Handler, Handlers, Events, Priorities, Stages

\* The innermost handler goes on as h.
LEMMA BecomesStack ==
    ASSUME IInv, handlers # <<>>, NEW h \in Handlers, Becomes(h)
    PROVE  LET n == Len(handlers) IN
           /\ handlers' \in Seq(Handlers) /\ Len(handlers') = n /\ DOMAIN handlers' = DOMAIN handlers
           /\ handlers' # <<>> /\ handlers'[n] = h /\ top' = h
           /\ \A i \in DOMAIN handlers : i # n => handlers'[i] = handlers[i]
           /\ TaskAt' = IF h.at = "task" THEN TaskAt \cup {n} ELSE TaskAt \ {n}
           /\ EventAt' = IF h.at = "event" THEN EventAt \cup {n} ELSE EventAt \ {n}
           /\ TimingAt' = IF h.at \in Timing THEN TimingAt \cup {n} ELSE TimingAt \ {n}
           /\ \A place : At(place)' <=> h.at = place
<1> DEFINE n == Len(handlers)
<1>1. /\ handlers \in Seq(Handlers) /\ n \in Nat /\ DOMAIN handlers = 1 .. n /\ n \in DOMAIN handlers
  BY Types
<1>2. handlers' = [handlers EXCEPT ![n] = h]
  BY DEF Becomes
<1>3. handlers' \in Seq(Handlers) /\ Len(handlers') = n /\ DOMAIN handlers' = 1 .. n
  BY <1>1, <1>2
<1>4. handlers'[n] = h /\ \A i \in 1 .. n : i # n => handlers'[i] = handlers[i]
  BY <1>1, <1>2
<1>5. handlers' # <<>>
  BY <1>1, <1>3
<1> HIDE DEF n
<1>6. TaskAt' = IF h.at = "task" THEN TaskAt \cup {n} ELSE TaskAt \ {n}
  BY <1>1, <1>3, <1>4 DEF TaskAt
<1>7. EventAt' = IF h.at = "event" THEN EventAt \cup {n} ELSE EventAt \ {n}
  BY <1>1, <1>3, <1>4 DEF EventAt
<1>8. TimingAt' = IF h.at \in Timing THEN TimingAt \cup {n} ELSE TimingAt \ {n}
  BY <1>1, <1>3, <1>4 DEF TimingAt
<1>9. top' = h
  BY <1>3, <1>4 DEF top
<1> QED BY <1>1, <1>3, <1>4, <1>5, <1>6, <1>7, <1>8, <1>9 DEF n, At

\* An exception is taken: h is the new innermost handler, outside callbacks.
LEMMA EnterStack ==
    ASSUME IInv, NEW h \in Handlers, handlers' = Append(handlers, h), h.at \in {"entered", "sync"}
    PROVE  /\ handlers' \in Seq(Handlers) /\ Len(handlers') = Len(handlers) + 1
           /\ DOMAIN handlers' = 1 .. Len(handlers) + 1
           /\ handlers' # <<>> /\ handlers'[Len(handlers) + 1] = h /\ top' = h
           /\ \A i \in DOMAIN handlers : handlers'[i] = handlers[i]
           /\ TaskAt' = TaskAt /\ EventAt' = EventAt /\ TimingAt' = TimingAt
           /\ \A place : At(place)' <=> h.at = place
<1> DEFINE n == Len(handlers)
<1>1. handlers \in Seq(Handlers) /\ n \in Nat /\ DOMAIN handlers = 1 .. n
  BY Types
<1>2. handlers' \in Seq(Handlers) /\ Len(handlers') = n + 1 /\ DOMAIN handlers' = 1 .. n + 1
  BY <1>1
<1>3. handlers'[n + 1] = h /\ \A i \in 1 .. n : handlers'[i] = handlers[i]
  BY <1>1
<1>4. handlers' # <<>>
  BY <1>1, <1>2
<1> HIDE DEF n
<1>5. TaskAt' = TaskAt
  BY <1>1, <1>2, <1>3 DEF TaskAt
<1>6. EventAt' = EventAt
  BY <1>1, <1>2, <1>3 DEF EventAt
<1>7. TimingAt' = TimingAt
  BY <1>1, <1>2, <1>3 DEF TimingAt, Timing
<1>8. top' = h
  BY <1>2, <1>3 DEF top
<1> QED BY <1>1, <1>2, <1>3, <1>4, <1>5, <1>6, <1>7, <1>8 DEF n, At

\* A handler that is not in a callback returns.
LEMMA LeaveStack ==
    ASSUME IInv, handlers # <<>>, top.at \in {"running", "sync"},
           handlers' = SubSeq(handlers, 1, Len(handlers) - 1)
    PROVE  /\ handlers' \in Seq(Handlers) /\ Len(handlers') = Len(handlers) - 1
           /\ DOMAIN handlers' = 1 .. Len(handlers) - 1
           /\ \A i \in DOMAIN handlers' : i \in DOMAIN handlers /\ handlers'[i] = handlers[i]
           /\ TaskAt' = TaskAt /\ EventAt' = EventAt /\ TimingAt' = TimingAt
           /\ Unmasked'
<1> DEFINE n == Len(handlers)
<1>1. /\ handlers \in Seq(Handlers) /\ n \in Nat /\ DOMAIN handlers = 1 .. n /\ n \in 1 .. n
      /\ handlers[n].at \in {"running", "sync"}
  BY Types DEF top
<1>2. handlers' \in Seq(Handlers) /\ Len(handlers') = n - 1 /\ DOMAIN handlers' = 1 .. n - 1
  BY <1>1
<1>3. \A i \in 1 .. n - 1 : i \in 1 .. n /\ handlers'[i] = handlers[i]
  BY <1>1
<1> HIDE DEF n
<1>4. \A i \in 1 .. n : i # n => i \in 1 .. n - 1
  BY <1>1
<1>5. TaskAt' = TaskAt
  BY <1>1, <1>2, <1>3, <1>4 DEF TaskAt
<1>6. EventAt' = EventAt
  BY <1>1, <1>2, <1>3, <1>4 DEF EventAt
<1>7. TimingAt' = TimingAt
  BY <1>1, <1>2, <1>3, <1>4 DEF TimingAt, Timing
<1>8. Unmasked'
  <2>1. CASE n = 1
    <3>1. handlers' = <<>>
      BY <1>2, <2>1
    <3> QED BY <3>1 DEF Unmasked, InThread
  <2>2. CASE n # 1
    <3>1. n - 1 \in 1 .. n /\ n - 1 < n /\ n - 1 \in 1 .. n - 1
      BY <1>1, <2>2
    <3>2. handlers[n - 1].at \in {"event", "task"}
      BY <1>1, <3>1 DEF IInv, CallbacksBelow, n
    <3>3. handlers' # <<>>
      BY <1>2, <3>1
    <3>4. handlers'[n - 1] = handlers[n - 1] /\ Len(handlers') = n - 1
      BY <1>2, <1>3, <3>1
    <3>5. top' = handlers[n - 1]
      BY <3>4 DEF top
    <3> QED BY <3>2, <3>3, <3>5 DEF Unmasked, At
  <2> QED BY <2>1, <2>2
<1> QED BY <1>1, <1>2, <1>3, <1>5, <1>6, <1>7, <1>8 DEF n
-------------------------------------------------------------------------------
(* Steps that leave the tasks alone *)

\* The tasks keep their order, what they restore, and what is yet to be done.
LEMMA TasksKept ==
    ASSUME IInv, TaskAt' = TaskAt, UNCHANGED nesting,
           \A i \in TaskAt : /\ handlers'[i].priority = handlers[i].priority
                             /\ handlers'[i].previous = handlers[i].previous
    PROVE  TasksRestore' /\ TasksDescend'
<1>1. TasksRestore'
  BY DEF IInv, TasksRestore, LastOf
<1>2. TasksDescend'
  BY DEF IInv, TasksDescend, LastOf, nesting
<1> QED BY <1>1, <1>2

\* A step that leaves the running events alone keeps what is known of them.
LEMMA EventsKept ==
    ASSUME IInv, EventAt' = EventAt, UNCHANGED running_events,
           \A i \in EventAt : handlers'[i].event = handlers[i].event
    PROVE  RunningEvent'
BY DEF IInv, RunningEvent

\* A step that leaves the timer alone keeps what is known of its handlers.
LEMMA TimingKept ==
    ASSUME IInv, TimingAt' \subseteq TimingAt, UNCHANGED timer,
           \A i \in TimingAt' : handlers'[i].handled = handlers[i].handled
    PROVE  TimerHandledOnce'
BY DEF IInv, TimerHandledOnce, timer

\* What is left when the tasks and the queue are as they were.
LEMMA QuietStep ==
    ASSUME IInv, TaskAt' = TaskAt, UNCHANGED <<tasks, nesting>>,
           \A i \in TaskAt : handlers'[i] = handlers[i],
           At("running") => At("running")'
    PROVE  /\ TasksRestore' /\ TasksDescend' /\ QueueAccounting'
           /\ At("running")' \/ NoneUrgent'
           /\ \A p : Deferred(p)' <=> Deferred(p)
<1>1. TasksRestore' /\ TasksDescend'
  BY TasksKept
<1>2. QueueAccounting'
  BY DEF IInv, QueueAccounting, tasks
<1>3. NoneUrgent' <=> NoneUrgent
  BY DEF NoneUrgent, tasks, nesting
<1>4. At("running")' \/ NoneUrgent'
  BY <1>3 DEF IInv
<1>5. \A p : Deferred(p)' <=> Deferred(p)
  BY DEF Deferred, tasks
<1> QED BY <1>1, <1>2, <1>4, <1>5

\* What is left when the stack is as it was.
LEMMA SameStack ==
    ASSUME IInv, UNCHANGED handlers
    PROVE  /\ TaskAt' = TaskAt /\ EventAt' = EventAt /\ TimingAt' = TimingAt
           /\ CallbacksBelow'
           /\ \A place : At(place)' <=> At(place)
           /\ top' = top
BY DEF TaskAt, EventAt, TimingAt, IInv, CallbacksBelow, At, top

\* The pending causes only grow unless a handler consumes them.
LEMMA CauseSame ==
    ASSUME IInv, UNCHANGED handlers, timer_due => timer_due', UartPending => UartPending'
    PROVE  CauseKept'
BY DEF IInv, CauseKept, EveryIrqHandled, At, top

\* Devices raise their lines and change nothing a handler has.
LEMMA HardwareInv == IInv /\ Hardware => IInv'
<1> SUFFICES ASSUME IInv, Hardware PROVE IInv'
  OBVIOUS
<1>1. UNCHANGED <<handlers, exception_depth, tasks, nesting, events>>
  BY DEF Hardware, TimerFires, ByteArrives, FifoDrains
<1>2. /\ TaskAt' = TaskAt /\ EventAt' = EventAt /\ TimingAt' = TimingAt
      /\ CallbacksBelow' /\ (At("running") => At("running")')
  BY <1>1, SameStack
<1>3. /\ TasksRestore' /\ TasksDescend' /\ QueueAccounting'
      /\ At("running")' \/ NoneUrgent'
      /\ \A p : Deferred(p)' <=> Deferred(p)
  BY <1>1, <1>2, QuietStep
<1>4. RunningEvent'
  BY <1>1, <1>2, EventsKept DEF events
<1>5. TypeOK'
  BY <1>1 DEF IInv, TypeOK, tasks, nesting, events, timer, receiver, transmitter, uart,
              Hardware, TimerFires, ByteArrives, FifoDrains
<1>6. TimerHandledOnce'
  BY <1>1, <1>2 DEF IInv, TimerHandledOnce, timer, Hardware, TimerFires, ByteArrives, FifoDrains
<1>7. CauseKept'
  <2>1. timer_due => timer_due'
    BY DEF timer, Hardware, TimerFires, ByteArrives, FifoDrains
  <2>2. UartPending => UartPending'
    BY DEF UartPending, receiver, transmitter, uart, Hardware, TimerFires, ByteArrives, FifoDrains
  <2> QED BY <1>1, <2>1, <2>2, CauseSame
<1>8. NoLostWakeup'
  BY <1>1, <1>3 DEF IInv, NoLostWakeup, timer, events, receiver, transmitter, uart,
                    Hardware, TimerFires, ByteArrives, FifoDrains
<1> QED BY <1>2, <1>3, <1>4, <1>5, <1>6, <1>7, <1>8 DEF IInv

\* What one turn of a writer does to the UART.
LEMMA PutbStep ==
    ASSUME IInv, Putb
    PROVE  /\ tx_enabled' = TRUE /\ tx_ready' \in BOOLEAN /\ tx_count' \in 0 .. TxSize
           /\ UNCHANGED receiver
BY RingAssumption DEF IInv, TypeOK, Putb

\* What the thread does between interrupts keeps the invariant.
LEMMA ThreadStepInv == IInv /\ (Getc \/ Putc \/ SetTimeout \/ StartPreemption) => IInv'
<1> SUFFICES ASSUME IInv, Getc \/ Putc \/ SetTimeout \/ StartPreemption PROVE IInv'
  OBVIOUS
<1>1. /\ UNCHANGED <<handlers, exception_depth, tasks, nesting, running_events, reschedule_pending>>
      /\ InThread
  BY DEF Getc, Putc, SetTimeout, StartPreemption, AddEvent, events
<1>2. /\ TaskAt' = TaskAt /\ EventAt' = EventAt /\ TimingAt' = TimingAt /\ TimingAt = {}
      /\ CallbacksBelow' /\ (At("running") => At("running")')
  BY <1>1, SameStack DEF InThread, TimingAt
<1>3. /\ TasksRestore' /\ TasksDescend' /\ QueueAccounting'
      /\ At("running")' \/ NoneUrgent'
      /\ \A p : Deferred(p)' <=> Deferred(p)
  BY <1>1, <1>2, QuietStep
<1>4. RunningEvent'
  BY <1>1, <1>2, EventsKept
<1>5. CauseKept'
  BY <1>1 DEF InThread, CauseKept, EveryIrqHandled, At
<1>6. CASE Getc
  <2>1. TypeOK'
    BY <1>1, <1>6, RingAssumption DEF IInv, TypeOK, tasks, nesting, events, timer, transmitter, Getc
  <2>2. TimerHandledOnce'
    BY <1>2, <1>6, TimingKept DEF Getc
  <2>3. NoLostWakeup'
    BY <1>1, <1>3, <1>6 DEF IInv, NoLostWakeup, timer, events, transmitter, Getc
  <2> QED BY <1>2, <1>3, <1>4, <1>5, <2>1, <2>2, <2>3 DEF IInv
<1>7. CASE Putc
  <2>1. TypeOK'
    BY <1>1, <1>7, PutbStep DEF IInv, TypeOK, tasks, nesting, events, timer, receiver, Putc
  <2>2. TimerHandledOnce'
    BY <1>2, <1>7, TimingKept DEF Putc
  <2>3. NoLostWakeup'
    BY <1>1, <1>3, <1>7, PutbStep DEF IInv, NoLostWakeup, timer, events, receiver, Putc
  <2> QED BY <1>2, <1>3, <1>4, <1>5, <2>1, <2>2, <2>3 DEF IInv
<1>8. ASSUME NEW e \in Events, AddEvent(e) PROVE IInv'
  <2>1. TypeOK'
    BY <1>1, <1>8 DEF IInv, TypeOK, tasks, nesting, timer, receiver, transmitter, uart, AddEvent
  <2>2. TimerHandledOnce'
    BY <1>2, <1>8 DEF IInv, TimerHandledOnce, timer, AddEvent
  <2>3. waiting_events # {} => timer_enabled
    BY <1>1 DEF InThread, IInv, NoLostWakeup
  <2>4. NoLostWakeup'
    BY <1>1, <1>3, <1>8, <2>3 DEF IInv, NoLostWakeup, timer, receiver, transmitter, uart, AddEvent
  <2> QED BY <1>2, <1>3, <1>4, <1>5, <2>1, <2>2, <2>4 DEF IInv
<1> QED BY <1>6, <1>7, <1>8 DEF SetTimeout, StartPreemption, Events
-------------------------------------------------------------------------------
(* Exceptions are taken and dispatched *)

\* Wherever interrupts are unmasked, the whole stack consists of callbacks.
LEMMA UnmaskedStack ==
    ASSUME IInv, Unmasked
    PROVE  /\ \A i \in DOMAIN handlers : handlers[i].at \in {"event", "task"}
           /\ ~At("running")
<1>1. /\ handlers \in Seq(Handlers) /\ Len(handlers) \in Nat /\ DOMAIN handlers = 1 .. Len(handlers)
  BY Types
<1>2. CASE InThread
  BY <1>2 DEF InThread, At
<1>3. CASE handlers # <<>> /\ top.at \in {"event", "task"}
  <2> DEFINE n == Len(handlers)
  <2>1. n \in Nat /\ DOMAIN handlers = 1 .. n
    BY <1>1
  <2>2. handlers[n].at \in {"event", "task"}
    BY <1>3 DEF top
  <2>3. \A i \in 1 .. n : i < n => handlers[i].at \in {"event", "task"}
    BY <1>1 DEF IInv, CallbacksBelow
  <2>4. ~At("running")
    BY <1>3 DEF At
  <2> HIDE DEF n
  <2>5. \A i \in 1 .. n : i < n \/ i = n
    BY <2>1
  <2> QED BY <2>1, <2>2, <2>3, <2>4, <2>5
<1> QED BY <1>2, <1>3 DEF Unmasked, At

\* An exception is taken on top of those in progress.
LEMMA TakeInv == IInv /\ (TakeSync \/ TakeIrq) => IInv'
<1> SUFFICES ASSUME IInv, TakeSync \/ TakeIrq PROVE IInv'
  OBVIOUS
<1>1. PICK h \in {Handler("sync", TRUE), Handler("entered", FALSE)} :
        /\ handlers' = Append(handlers, h)
        /\ h.at = "sync" => handlers = <<>>
        /\ h.at = "entered" => timer_due \/ UartPending
  BY HandlerType DEF TakeSync, TakeIrq, InThread, Places, TimerPending
<1>2. h \in Handlers /\ h.at \in {"sync", "entered"}
  BY HandlerType DEF Places
<1>3. /\ exception_depth' = exception_depth + 1
      /\ UNCHANGED <<tasks, nesting, events, timer, uart, reschedule_pending>>
      /\ Unmasked
  BY DEF TakeSync, TakeIrq, Unmasked
<1> HIDE DEF Handler
<1>4. /\ handlers' \in Seq(Handlers) /\ Len(handlers') = Len(handlers) + 1
      /\ DOMAIN handlers' = 1 .. Len(handlers) + 1
      /\ handlers' # <<>> /\ handlers'[Len(handlers) + 1] = h /\ top' = h
      /\ \A i \in DOMAIN handlers : handlers'[i] = handlers[i]
      /\ TaskAt' = TaskAt /\ EventAt' = EventAt /\ TimingAt' = TimingAt
      /\ \A place : At(place)' <=> h.at = place
  BY <1>1, <1>2, EnterStack
<1>5. /\ handlers \in Seq(Handlers) /\ exception_depth = Len(handlers)
      /\ Len(handlers) \in Nat /\ DOMAIN handlers = 1 .. Len(handlers)
  BY Types
<1>6. /\ \A i \in DOMAIN handlers : handlers[i].at \in {"event", "task"}
      /\ ~At("running")
  BY <1>3, UnmaskedStack
<1>7. /\ TaskAt \subseteq DOMAIN handlers /\ EventAt \subseteq DOMAIN handlers
      /\ TimingAt \subseteq DOMAIN handlers
  BY DEF TaskAt, EventAt, TimingAt
<1>8. /\ TasksRestore' /\ TasksDescend' /\ QueueAccounting'
      /\ At("running")' \/ NoneUrgent'
      /\ \A p : Deferred(p)' <=> Deferred(p)
  BY <1>3, <1>4, <1>6, <1>7, QuietStep
<1>9. RunningEvent'
  BY <1>3, <1>4, <1>7, EventsKept DEF events
<1>10. TimerHandledOnce'
  BY <1>3, <1>4, <1>7, TimingKept
<1>11. TypeOK'
  BY <1>3, <1>4, <1>5 DEF IInv, TypeOK, tasks, nesting, events, timer, receiver, transmitter, uart
<1>12. CallbacksBelow'
  <2>1. \A i \in 1 .. Len(handlers) + 1 : i < Len(handlers) + 1 => i \in 1 .. Len(handlers)
    BY <1>5
  <2>2. h.at = "sync" => Len(handlers) + 1 = 1
    BY <1>1, <1>5
  <2> QED BY <1>4, <1>5, <1>6, <2>1, <2>2 DEF CallbacksBelow
<1>13. CauseKept'
  BY <1>1, <1>2, <1>3, <1>4 DEF CauseKept, EveryIrqHandled, timer, uart, receiver, transmitter, UartPending
<1>14. NoLostWakeup'
  <2>1. (\E i \in DOMAIN handlers : handlers[i].at \in {"expiring", "event"})
           => \E i \in DOMAIN handlers' : handlers'[i].at \in {"expiring", "event"}
    BY <1>4, <1>5
  <2> QED BY <1>3, <1>8, <2>1 DEF IInv, NoLostWakeup, timer, events, uart, receiver, transmitter
<1> QED BY <1>8, <1>9, <1>10, <1>11, <1>12, <1>13, <1>14 DEF IInv

\* A step of the innermost handler keeps the shape of the stack.
LEMMA TopShape ==
    ASSUME IInv, handlers # <<>>, NEW h \in Handlers, Becomes(h), h.at = "sync" => top.at = "sync",
           UNCHANGED exception_depth
    PROVE  LET n == Len(handlers) IN
           /\ CallbacksBelow'
           /\ handlers' \in Seq(Handlers) /\ exception_depth' = Len(handlers')
           /\ n \in DOMAIN handlers /\ DOMAIN handlers' = DOMAIN handlers
           /\ n \in Nat /\ DOMAIN handlers = 1 .. n /\ top = handlers[n] /\ top \in Handlers
           /\ handlers'[n] = h /\ top' = h /\ handlers' # <<>>
           /\ \A i \in DOMAIN handlers : i # n => handlers'[i] = handlers[i]
           /\ TaskAt' = IF h.at = "task" THEN TaskAt \cup {n} ELSE TaskAt \ {n}
           /\ EventAt' = IF h.at = "event" THEN EventAt \cup {n} ELSE EventAt \ {n}
           /\ TimingAt' = IF h.at \in Timing THEN TimingAt \cup {n} ELSE TimingAt \ {n}
           /\ \A place : At(place)' <=> h.at = place
           /\ n \in TaskAt <=> top.at = "task"
           /\ n \in EventAt <=> top.at = "event"
           /\ n \in TimingAt <=> top.at \in Timing
           /\ TaskAt \subseteq DOMAIN handlers
           /\ EventAt \subseteq TimingAt /\ TimingAt \subseteq DOMAIN handlers
<1> DEFINE n == Len(handlers)
<1>1. /\ exception_depth = n /\ n \in Nat /\ DOMAIN handlers = 1 .. n /\ n \in DOMAIN handlers
      /\ top \in Handlers
  BY Types
<1>2. /\ handlers' \in Seq(Handlers) /\ Len(handlers') = n /\ DOMAIN handlers' = DOMAIN handlers
      /\ handlers' # <<>> /\ handlers'[n] = h /\ top' = h
      /\ \A i \in DOMAIN handlers : i # n => handlers'[i] = handlers[i]
      /\ TaskAt' = IF h.at = "task" THEN TaskAt \cup {n} ELSE TaskAt \ {n}
      /\ EventAt' = IF h.at = "event" THEN EventAt \cup {n} ELSE EventAt \ {n}
      /\ TimingAt' = IF h.at \in Timing THEN TimingAt \cup {n} ELSE TimingAt \ {n}
      /\ \A place : At(place)' <=> h.at = place
  BY BecomesStack
<1>3. top = handlers[n]
  BY DEF top
<1> HIDE DEF n
<1>4. /\ n \in TaskAt <=> top.at = "task"
      /\ n \in EventAt <=> top.at = "event"
      /\ n \in TimingAt <=> top.at \in Timing
  BY <1>1, <1>3 DEF TaskAt, EventAt, TimingAt
<1>5. /\ TaskAt \subseteq DOMAIN handlers
      /\ EventAt \subseteq TimingAt /\ TimingAt \subseteq DOMAIN handlers
  BY DEF TaskAt, EventAt, TimingAt, Timing
<1>6. CallbacksBelow'
  <2>1. \A i \in DOMAIN handlers : i < n => i # n /\ handlers[i].at \in {"event", "task"}
    BY <1>1 DEF IInv, CallbacksBelow, n
  <2>2. n > 1 => h.at # "sync"
    BY <1>1, <1>3 DEF IInv, CallbacksBelow, n
  <2> QED BY <1>2, <2>1, <2>2 DEF CallbacksBelow
<1> QED BY <1>1, <1>2, <1>3, <1>4, <1>5, <1>6 DEF n

\* A step of the innermost handler that leaves the tasks alone.
LEMMA TopStep ==
    ASSUME IInv, handlers # <<>>, NEW h \in Handlers, Becomes(h),
           top.at \notin {"task", "running"}, h.at # "task",
           h.at = "sync" => top.at = "sync",
           UNCHANGED <<exception_depth, tasks, nesting>>
    PROVE  /\ TasksRestore' /\ TasksDescend' /\ QueueAccounting'
           /\ At("running")' \/ NoneUrgent'
           /\ \A p : Deferred(p)' <=> Deferred(p)
<1> DEFINE n == Len(handlers)
<1>1. /\ DOMAIN handlers' = DOMAIN handlers
      /\ \A i \in DOMAIN handlers : i # n => handlers'[i] = handlers[i]
      /\ TaskAt' = IF h.at = "task" THEN TaskAt \cup {n} ELSE TaskAt \ {n}
      /\ n \in TaskAt <=> top.at = "task"
      /\ TaskAt \subseteq DOMAIN handlers
  BY TopShape
<1> HIDE DEF n
<1>2. TaskAt' = TaskAt /\ \A i \in TaskAt : handlers'[i] = handlers[i]
  BY <1>1
<1>3. ~At("running")
  BY DEF At
<1> QED BY <1>2, <1>3, QuietStep

\* The shape of a step of the innermost handler outside tasks, for what follows.
LEMMA QuietTop ==
    ASSUME IInv, handlers # <<>>, NEW h \in Handlers, Becomes(h),
           top.at \notin {"task", "running"}, h.at # "task",
           h.at = "sync" => top.at = "sync",
           UNCHANGED <<exception_depth, tasks, nesting>>,
           TypeOK', RunningEvent', TimerHandledOnce', CauseKept', NoLostWakeup'
    PROVE  IInv'
BY TopShape, TopStep DEF IInv

\* Inside timer_handle_irq, in terms of the places.
LEMMA TimingExists ==
    ASSUME TRUE
    PROVE  (\E i \in DOMAIN handlers : handlers[i].at \in {"expiring", "event"}) <=> TimingAt # {}
BY DEF TimingAt, Timing

\* The handler of a synchronous exception keeps the invariant.
LEMMA PrintSyncInv == IInv /\ PrintSync => IInv'
<1> SUFFICES ASSUME IInv, PrintSync PROVE IInv'
  OBVIOUS
<1> PICK d \in BOOLEAN : Becomes([top EXCEPT !.done = d])
  <2>1. (tx_count < TxSize) \in BOOLEAN
    OBVIOUS
  <2> QED BY <2>1 DEF PrintSync
<1> DEFINE h == [top EXCEPT !.done = d]
<1>1. /\ handlers # <<>> /\ top.at = "sync" /\ Putb /\ Becomes(h)
      /\ UNCHANGED <<exception_depth, tasks, nesting, events, timer, reschedule_pending>>
  BY DEF PrintSync, At
<1>2. h \in Handlers /\ h.at = "sync"
  BY <1>1, Types DEF Handlers
<1> HIDE DEF h
<1>3. /\ handlers' \in Seq(Handlers) /\ exception_depth' = Len(handlers')
      /\ EventAt' = EventAt /\ TimingAt' = TimingAt
      /\ \A i \in TimingAt : handlers'[i] = handlers[i]
      /\ EventAt \subseteq TimingAt
      /\ \A place : At(place)' <=> place = "sync"
  <2> DEFINE n == Len(handlers)
  <2>1. /\ handlers' \in Seq(Handlers) /\ exception_depth' = Len(handlers')
        /\ EventAt' = (IF h.at = "event" THEN EventAt \cup {n} ELSE EventAt \ {n})
        /\ TimingAt' = (IF h.at \in Timing THEN TimingAt \cup {n} ELSE TimingAt \ {n})
        /\ \A i \in DOMAIN handlers : i # n => handlers'[i] = handlers[i]
        /\ n \in EventAt <=> top.at = "event"
        /\ n \in TimingAt <=> top.at \in Timing
        /\ EventAt \subseteq TimingAt /\ TimingAt \subseteq DOMAIN handlers
        /\ \A place : At(place)' <=> h.at = place
    BY <1>1, <1>2, TopShape
  <2>2. h.at = "sync" /\ top.at = "sync" /\ "sync" \notin Timing
    BY <1>1, <1>2 DEF Timing
  <2> HIDE DEF n
  <2>3. n \notin EventAt /\ n \notin TimingAt
    BY <2>1, <2>2
  <2> QED BY ONLY <2>1, <2>2, <2>3
<1>4. \A p : Deferred(p)' <=> Deferred(p)
  BY <1>1, <1>2, TopStep
<1>5. TypeOK'
  BY <1>1, <1>3, PutbStep DEF IInv, TypeOK, tasks, nesting, events, timer, receiver
<1>6. RunningEvent'
  BY <1>1, <1>3, EventsKept DEF events
<1>7. TimerHandledOnce'
  BY <1>1, <1>3, TimingKept
<1>8. CauseKept'
  BY <1>3 DEF CauseKept, EveryIrqHandled
<1>9. NoLostWakeup'
  <2>1. TimingAt' # {} <=> TimingAt # {}
    BY <1>3
  <2> QED BY <1>1, <1>4, <2>1, PutbStep DEF IInv, NoLostWakeup, TimingAt, Timing, events, timer, receiver
<1> QED BY <1>1, <1>2, <1>5, <1>6, <1>7, <1>8, <1>9, QuietTop

\* The timer interrupt keeps the invariant.
LEMMA HandleTimerInv == IInv /\ HandleTimer => IInv'
<1> SUFFICES ASSUME IInv, HandleTimer PROVE IInv'
  OBVIOUS
<1> DEFINE n == Len(handlers)
<1>1. /\ handlers # <<>> /\ top.at = "entered"
      /\ UNCHANGED <<exception_depth, tasks, nesting, events, uart, reschedule_pending>>
  BY DEF HandleTimer, At
<1>2. top \in Handlers /\ top.handled \in BOOLEAN
  BY <1>1, Types DEF Handlers
<1>3. CASE timer_due
  <2> DEFINE h == Handler("expiring", TRUE)
  <2>1. Becomes(h) /\ timer_enabled' = FALSE /\ timer_due' = FALSE
    BY <1>3 DEF HandleTimer, TimerPending
  <2>2. h \in Handlers /\ h.at = "expiring" /\ h.handled = TRUE
    BY HandlerType DEF Places
  <2> HIDE DEF h
  <2>3. /\ handlers' \in Seq(Handlers) /\ exception_depth' = Len(handlers')
        /\ EventAt' = EventAt \ {n} /\ TimingAt' = TimingAt \cup {n}
        /\ EventAt \subseteq TimingAt /\ handlers'[n] = h
        /\ \A place : At(place)' <=> place = "expiring"
    BY <1>1, <2>1, <2>2, TopShape DEF Timing
  <2>4. TimingAt = {}
    BY <1>3 DEF IInv, TimerHandledOnce
  <2> HIDE DEF n
  <2>5. \A p : Deferred(p)' <=> Deferred(p)
    BY <1>1, <2>1, <2>2, TopStep
  <2>6. TypeOK'
    BY <1>1, <2>1, <2>3 DEF IInv, TypeOK, tasks, nesting, events, uart, receiver, transmitter
  <2>7. RunningEvent'
    BY <1>1, <2>3, <2>4 DEF IInv, RunningEvent, events
  <2>8. TimerHandledOnce'
    BY <2>1, <2>2, <2>3, <2>4 DEF TimerHandledOnce
  <2>9. CauseKept'
    BY <2>3 DEF CauseKept, EveryIrqHandled
  <2>10. NoLostWakeup'
    <3>1. TimingAt' # {}
      BY <2>3
    <3> QED BY <1>1, <2>5, <3>1 DEF IInv, NoLostWakeup, TimingAt, Timing, uart, receiver, transmitter
  <2> QED BY <1>1, <2>1, <2>2, <2>6, <2>7, <2>8, <2>9, <2>10, QuietTop
<1>4. CASE ~timer_due
  <2> DEFINE h == Handler("uart", top.handled)
  <2>1. Becomes(h) /\ UNCHANGED timer
    BY <1>4 DEF HandleTimer, TimerPending
  <2>2. h \in Handlers /\ h.at = "uart"
    BY <1>2, HandlerType DEF Places
  <2> HIDE DEF h
  <2>3. /\ handlers' \in Seq(Handlers) /\ exception_depth' = Len(handlers')
        /\ EventAt' = EventAt /\ TimingAt' = TimingAt
        /\ EventAt \subseteq TimingAt
        /\ \A i \in TimingAt : handlers'[i] = handlers[i]
        /\ \A place : At(place)' <=> place = "uart"
    BY <1>1, <2>1, <2>2, TopShape DEF Timing
  <2> HIDE DEF n
  <2>4. \A p : Deferred(p)' <=> Deferred(p)
    BY <1>1, <2>1, <2>2, TopStep
  <2>5. TypeOK'
    BY <1>1, <2>1, <2>3 DEF IInv, TypeOK, tasks, nesting, events, timer, uart, receiver, transmitter
  <2>6. RunningEvent'
    BY <1>1, <2>3, EventsKept DEF events
  <2>7. TimerHandledOnce'
    BY <1>1, <2>1, <2>3, TimingKept
  <2>8. UartPending'
    BY <1>1, <1>4 DEF IInv, CauseKept, At, UartPending, uart, receiver, transmitter
  <2>9. CauseKept'
    BY <2>3, <2>8 DEF CauseKept, EveryIrqHandled
  <2>10. NoLostWakeup'
    <3>1. TimingAt' # {} <=> TimingAt # {}
      BY <2>3
    <3> QED BY <1>1, <2>1, <2>4, <3>1 DEF IInv, NoLostWakeup, TimingAt, Timing, timer, events,
                                          uart, receiver, transmitter
  <2> QED BY <1>1, <2>1, <2>2, <2>5, <2>6, <2>7, <2>9, <2>10, QuietTop
<1> QED BY <1>3, <1>4

\* The loop of timer_run_expired_events is in one handler, which runs one callback.
LEMMA RunExpiredInv == ASSUME NEW e \in Events PROVE IInv /\ RunExpired(e) => IInv'
<1> SUFFICES ASSUME IInv, RunExpired(e) PROVE IInv'
  OBVIOUS
<1> DEFINE n == Len(handlers)
<1> DEFINE h == [Handler("event", top.handled) EXCEPT !.event = e]
<1>1. /\ handlers # <<>> /\ top.at = "expiring" /\ Becomes(h)
      /\ waiting_events' = waiting_events \ {e} /\ running_events' = Append(running_events, e)
      /\ UNCHANGED <<exception_depth, tasks, nesting, timer, uart, reschedule_pending>>
  BY DEF RunExpired, At
<1>2. top \in Handlers /\ top.handled \in BOOLEAN
  BY <1>1, Types DEF Handlers
<1>3. h \in Handlers /\ h.at = "event" /\ h.handled = top.handled /\ h.event = e
  <2> DEFINE g == Handler("event", top.handled)
  <2>1. g \in Handlers /\ g.at = "event" /\ g.handled = top.handled
    BY <1>2, HandlerType DEF Places
  <2>2. h = [g EXCEPT !.event = e]
    OBVIOUS
  <2> HIDE DEF g, h
  <2> QED BY <2>1, <2>2 DEF Handlers
<1> HIDE DEF h
<1>4. /\ handlers' \in Seq(Handlers) /\ exception_depth' = Len(handlers')
      /\ EventAt' = EventAt \cup {n} /\ TimingAt' = TimingAt \cup {n} /\ n \in TimingAt /\ n \notin EventAt
      /\ EventAt \subseteq TimingAt /\ handlers'[n] = h /\ top = handlers[n]
      /\ \A place : At(place)' <=> place = "event"
  BY <1>1, <1>3, TopShape DEF Timing
<1> HIDE DEF n
<1>5. EventAt = {} /\ TimingAt = {n} /\ top.handled /\ ~timer_enabled
  BY <1>4 DEF IInv, TimerHandledOnce
<1>6. \A p : Deferred(p)' <=> Deferred(p)
  BY <1>1, <1>3, TopStep
<1>7. running_events' = <<e>>
  BY <1>1, <1>5 DEF IInv, RunningEvent
<1>8. TypeOK'
  BY <1>1, <1>4, <1>7 DEF IInv, TypeOK, tasks, nesting, timer, uart, receiver, transmitter
<1>9. RunningEvent'
  BY <1>3, <1>4, <1>5, <1>7 DEF RunningEvent
<1>10. TimerHandledOnce'
  BY <1>1, <1>3, <1>4, <1>5 DEF IInv, TimerHandledOnce, timer
<1>11. CauseKept'
  BY <1>4 DEF CauseKept, EveryIrqHandled
<1>12. NoLostWakeup'
  <2>1. TimingAt' # {}
    BY <1>4
  <2> QED BY <1>1, <1>6, <2>1 DEF IInv, NoLostWakeup, TimingAt, Timing, uart, receiver, transmitter
<1> QED BY <1>1, <1>3, <1>8, <1>9, <1>10, <1>11, <1>12, QuietTop

\* The callback of an event keeps the invariant.
LEMMA EventCallbackInv == IInv /\ EventCallback => IInv'
<1> SUFFICES ASSUME IInv, EventCallback PROVE IInv'
  OBVIOUS
<1> DEFINE n == Len(handlers)
<1>1. /\ handlers # <<>> /\ top.at = "event"
      /\ UNCHANGED <<exception_depth, tasks, nesting, events, timer, receiver>>
      /\ reschedule_pending' \in {reschedule_pending, TRUE}
      /\ Putb \/ UNCHANGED transmitter
  BY DEF EventCallback, SchedulingTick, PrintTimeout, At, uart, Putb
<1>2. PICK d \in BOOLEAN : Becomes([top EXCEPT !.done = d])
  <2>1. top.done \in BOOLEAN
    BY <1>1, Types DEF Handlers
  <2>2. CASE SchedulingTick
    BY <2>2 DEF SchedulingTick
  <2>3. CASE PrintTimeout
    <3>1. (top.done \/ tx_count < TxSize) \in BOOLEAN
      OBVIOUS
    <3>2. Becomes([top EXCEPT !.done = (top.done \/ tx_count < TxSize)])
      BY <2>3 DEF PrintTimeout
    <3> QED BY <3>1, <3>2
  <2> QED BY <2>2, <2>3 DEF EventCallback
<1> DEFINE h == [top EXCEPT !.done = d]
<1>3. h \in Handlers /\ h.at = "event" /\ h.event = top.event /\ h.handled = top.handled
  BY <1>1, Types DEF Handlers
<1>4. Becomes(h)
  BY <1>2
<1> HIDE DEF h
<1>5. /\ handlers' \in Seq(Handlers) /\ exception_depth' = Len(handlers')
      /\ EventAt' = EventAt /\ TimingAt' = TimingAt
      /\ EventAt \subseteq TimingAt /\ TimingAt \subseteq DOMAIN handlers
      /\ handlers'[n] = h /\ top = handlers[n]
      /\ \A i \in DOMAIN handlers : i # n => handlers'[i] = handlers[i]
      /\ \A place : At(place)' <=> place = "event"
  BY <1>1, <1>3, <1>4, TopShape, ZenonT(30) DEF Timing
<1> HIDE DEF n
<1>6. \A i \in TimingAt : handlers'[i].event = handlers[i].event /\ handlers'[i].handled = handlers[i].handled
  BY <1>3, <1>5
<1>7. \A p : Deferred(p)' <=> Deferred(p)
  BY <1>1, <1>3, <1>4, TopStep
<1>8. TypeOK'
  BY <1>1, <1>5, PutbStep DEF IInv, TypeOK, tasks, nesting, events, timer, receiver, transmitter
<1>9. RunningEvent'
  BY <1>1, <1>5, <1>6, EventsKept DEF events
<1>10. TimerHandledOnce'
  BY <1>1, <1>5, <1>6, TimingKept
<1>11. CauseKept'
  BY <1>5 DEF CauseKept, EveryIrqHandled
<1>12. NoLostWakeup'
  <2>1. TimingAt' # {} <=> TimingAt # {}
    BY <1>5
  <2>2. tx_enabled' = TRUE \/ (tx_enabled' = tx_enabled /\ tx_count' = tx_count)
    BY <1>1, PutbStep DEF transmitter
  <2> QED BY <1>1, <1>7, <2>1, <2>2 DEF IInv, NoLostWakeup, TimingAt, Timing, timer, events, receiver
<1> QED BY <1>1, <1>3, <1>4, <1>8, <1>9, <1>10, <1>11, <1>12, QuietTop

\* Unlinking an event keeps the invariant.
LEMMA EventReturnInv == IInv /\ EventReturn => IInv'
<1> SUFFICES ASSUME IInv, EventReturn PROVE IInv'
  OBVIOUS
<1> DEFINE n == Len(handlers)
<1> DEFINE h == Handler("expiring", top.handled)
<1>1. /\ handlers # <<>> /\ top.at = "event" /\ Becomes(h)
      /\ running_events' = Unlink(running_events, top.event)
      /\ waiting_events' = waiting_events \cup ({top.event} \cap {Tick})
      /\ UNCHANGED <<exception_depth, tasks, nesting, timer, uart, reschedule_pending>>
  BY DEF EventReturn, At
<1>2. top \in Handlers /\ top.handled \in BOOLEAN /\ top.event \in Events
  BY <1>1, Types DEF Handlers
<1>3. h \in Handlers /\ h.at = "expiring" /\ h.handled = top.handled
  BY <1>2, HandlerType DEF Places
<1> HIDE DEF h
<1>4. /\ handlers' \in Seq(Handlers) /\ exception_depth' = Len(handlers')
      /\ EventAt' = EventAt \ {n} /\ TimingAt' = TimingAt \cup {n} /\ n \in TimingAt /\ n \in EventAt
      /\ EventAt \subseteq TimingAt /\ handlers'[n] = h /\ top = handlers[n]
      /\ \A place : At(place)' <=> place = "expiring"
  BY <1>1, <1>3, TopShape DEF Timing
<1> HIDE DEF n
<1>5. EventAt = {n} /\ TimingAt = {n} /\ top.handled /\ ~timer_enabled
  BY <1>4 DEF IInv, TimerHandledOnce
<1>6. \A p : Deferred(p)' <=> Deferred(p)
  BY <1>1, <1>3, TopStep
<1>7. running_events' = <<>>
  <2>1. running_events = <<top.event>>
    BY <1>4 DEF IInv, RunningEvent
  <2> DEFINE l == <<top.event>>
  <2>2. Len(l) = 1 /\ DOMAIN l = {1}
    OBVIOUS
  <2>3. Unlink(l, top.event) = [i \in 1 .. 0 |-> IF i < (CHOOSE k \in DOMAIN l : l[k] = top.event)
                                                THEN l[i] ELSE l[i + 1]]
    BY <2>2 DEF Unlink
  <2> QED BY <1>1, <2>1, <2>3
<1>8. TypeOK'
  <2>1. waiting_events' \subseteq Events
    BY <1>1, <1>2 DEF IInv, TypeOK
  <2>2. running_events' \in Seq(Events)
    BY <1>7
  <2> QED BY <1>1, <1>4, <2>1, <2>2 DEF IInv, TypeOK, tasks, nesting, timer, uart, receiver, transmitter
<1>9. RunningEvent'
  BY <1>4, <1>5, <1>7 DEF RunningEvent
<1>10. TimerHandledOnce'
  BY <1>1, <1>3, <1>4, <1>5 DEF IInv, TimerHandledOnce, timer
<1>11. CauseKept'
  BY <1>4 DEF CauseKept, EveryIrqHandled
<1>12. NoLostWakeup'
  <2>1. TimingAt' # {}
    BY <1>4
  <2> QED BY <1>1, <1>6, <2>1 DEF IInv, NoLostWakeup, TimingAt, Timing, uart, receiver, transmitter
<1> QED BY <1>1, <1>3, <1>8, <1>9, <1>10, <1>11, <1>12, QuietTop

\* Programming the timer keeps the invariant.
LEMMA ProgramTimerInv == IInv /\ ProgramTimer => IInv'
<1> SUFFICES ASSUME IInv, ProgramTimer PROVE IInv'
  OBVIOUS
<1> DEFINE n == Len(handlers)
<1> DEFINE h == Handler("uart", top.handled)
<1>1. /\ handlers # <<>> /\ top.at = "expiring" /\ Becomes(h)
      /\ timer_enabled' = (waiting_events # {}) /\ timer_due' = FALSE
      /\ UNCHANGED <<exception_depth, tasks, nesting, events, uart, reschedule_pending>>
  BY DEF ProgramTimer, At
<1>2. top \in Handlers /\ top.handled \in BOOLEAN
  BY <1>1, Types DEF Handlers
<1>3. h \in Handlers /\ h.at = "uart" /\ h.handled = top.handled
  BY <1>2, HandlerType DEF Places
<1> HIDE DEF h
<1>4. /\ handlers' \in Seq(Handlers) /\ exception_depth' = Len(handlers')
      /\ EventAt' = EventAt /\ TimingAt' = TimingAt \ {n} /\ n \in TimingAt /\ n \notin EventAt
      /\ EventAt \subseteq TimingAt /\ top' = h /\ top = handlers[n]
      /\ \A place : At(place)' <=> place = "uart"
  BY <1>1, <1>3, TopShape, ZenonT(30) DEF Timing
<1> HIDE DEF n
<1>5. EventAt = {} /\ TimingAt = {n} /\ top.handled
  BY <1>4 DEF IInv, TimerHandledOnce
<1>6. \A p : Deferred(p)' <=> Deferred(p)
  BY <1>1, <1>3, TopStep
<1>7. TypeOK'
  BY <1>1, <1>4 DEF IInv, TypeOK, tasks, nesting, events, uart, receiver, transmitter
<1>8. RunningEvent'
  BY <1>1, <1>4, <1>5 DEF IInv, RunningEvent, events
<1>9. TimerHandledOnce'
  BY <1>1, <1>4, <1>5 DEF TimerHandledOnce
<1>10. CauseKept'
  <2>1. top'.handled
    BY <1>3, <1>4, <1>5
  <2> QED BY <1>4, <2>1 DEF CauseKept, EveryIrqHandled
<1>11. NoLostWakeup'
  BY <1>1, <1>6 DEF IInv, NoLostWakeup, events, uart, receiver, transmitter
<1> QED BY <1>1, <1>3, <1>7, <1>8, <1>9, <1>10, <1>11, QuietTop
-------------------------------------------------------------------------------
(* The pending queue *)

\* A list in the order of its elements.
Sorted(queue) == \A i, j \in DOMAIN queue : i < j => queue[i] <= queue[j]

\* The search of task_queue_push stops at the first task of a larger number.
LEMMA BeforeInterval ==
    ASSUME NEW queue \in Seq(Priorities), NEW p \in Priorities
    PROVE  LET before == {i \in DOMAIN queue : queue[i] <= p /\ \A j \in 1 .. i : queue[j] <= p}
           IN  /\ Cardinality(before) \in 0 .. Len(queue)
               /\ before = 1 .. Cardinality(before)
<1> DEFINE n == Len(queue)
           before == {i \in DOMAIN queue : queue[i] <= p /\ \A j \in 1 .. i : queue[j] <= p}
           c == Cardinality(before)
<1>1. n \in Nat /\ DOMAIN queue = 1 .. n /\ \A i \in 1 .. n : queue[i] \in Int /\ p \in Int
  BY DEF Priorities, UART_RX, UART_TX
<1>2. \A i \in Nat : IsFiniteSet(1 .. i) /\ Cardinality(1 .. i) = i
  BY FS_Interval
<1>3. before \subseteq 1 .. n
  BY <1>1
<1>4. IsFiniteSet(before) /\ c \in Nat /\ c <= n
  BY <1>1, <1>2, <1>3, FS_Subset, FS_CardinalityType
<1>5. \A i \in before : 1 .. i \subseteq before
  <2> SUFFICES ASSUME NEW i \in before, NEW k \in 1 .. i PROVE k \in before
    OBVIOUS
  <2>1. i \in 1 .. n /\ \A j \in 1 .. i : queue[j] <= p
    BY <1>1
  <2>2. k \in 1 .. n /\ \A j \in 1 .. k : j \in 1 .. i
    BY <1>1, <2>1
  <2> QED BY <1>1, <2>1, <2>2
<1> HIDE DEF before, n
<1>6. \A i \in before : i \in 1 .. c
  <2> SUFFICES ASSUME NEW i \in before PROVE i \in 1 .. c
    OBVIOUS
  <2>1. i \in 1 .. n /\ i \in Nat
    BY <1>1, <1>3
  <2>2. Cardinality(1 .. i) <= c
    BY <1>4, <1>5, <2>1, FS_Subset
  <2> QED BY <1>2, <1>4, <2>1, <2>2
<1>7. \A i \in 1 .. c : i \in before
  <2> SUFFICES ASSUME NEW i \in 1 .. c, i \notin before PROVE FALSE
    OBVIOUS
  <2>1. i \in Nat /\ i - 1 \in Nat
    BY <1>4
  <2>2. before \subseteq 1 .. (i - 1)
    <3> SUFFICES ASSUME NEW k \in before, k \notin 1 .. (i - 1) PROVE FALSE
      OBVIOUS
    <3>1. k \in 1 .. n
      BY <1>3
    <3>2. i \in 1 .. k
      BY <1>1, <2>1, <3>1
    <3> QED BY <1>5, <3>2
  <2>3. c <= Cardinality(1 .. (i - 1))
    BY <1>2, <2>1, <2>2, FS_Subset
  <2> QED BY <1>2, <1>4, <2>1, <2>3
<1>8. before = 1 .. c
  BY <1>6, <1>7
<1> QED BY <1>1, <1>4, <1>8, SMTT(30) DEF before, n

\* What a concatenation holds.
LEMMA ConcatFacts ==
    ASSUME NEW S, NEW s \in Seq(S), NEW t \in Seq(S)
    PROVE  /\ s \o t \in Seq(S) /\ Len(s \o t) = Len(s) + Len(t)
           /\ \A i \in 1 .. Len(s) + Len(t) :
                 (s \o t)[i] = IF i <= Len(s) THEN s[i] ELSE t[i - Len(s)]
OBVIOUS

\* task_queue_push keeps the order, adds one task, and loses none.
LEMMA InsertFacts ==
    ASSUME NEW queue \in Seq(Priorities), NEW p \in Priorities, Sorted(queue)
    PROVE  /\ Insert(queue, p) \in Seq(Priorities)
           /\ Len(Insert(queue, p)) = Len(queue) + 1
           /\ Sorted(Insert(queue, p))
           /\ \E i \in DOMAIN Insert(queue, p) : Insert(queue, p)[i] = p
           /\ \A k \in DOMAIN queue : \E i \in DOMAIN Insert(queue, p) : Insert(queue, p)[i] = queue[k]
<1> DEFINE n == Len(queue)
           before == {i \in DOMAIN queue : queue[i] <= p /\ \A j \in 1 .. i : queue[j] <= p}
           c == Cardinality(before)
           q == Insert(queue, p)
<1>1. /\ n \in Nat /\ DOMAIN queue = 1 .. n /\ \A i \in 1 .. n : queue[i] \in Priorities
      /\ \A i \in 1 .. n : queue[i] \in Int /\ p \in Int
  BY DEF Priorities, UART_RX, UART_TX
<1>2. c \in 0 .. n /\ before = 1 .. c
  BY BeforeInterval
<1>3. q = SubSeq(queue, 1, c) \o <<p>> \o SubSeq(queue, c + 1, n)
  BY DEF Insert
<1>4. \A i \in 1 .. c : queue[i] <= p
  BY <1>2
<1>5. \A i \in 1 .. n : i > c => queue[i] > p
  <2> SUFFICES ASSUME NEW i \in 1 .. n, i > c PROVE queue[i] > p
    OBVIOUS
  <2>1. i \notin before
    <3> HIDE DEF before, c, n
    <3> QED BY <1>1, <1>2
  <2>2. \E j \in 1 .. i : ~(queue[j] <= p)
    BY <1>1, <2>1
  <2>3. \A j \in 1 .. i : queue[j] <= queue[i] /\ queue[j] \in Int
    BY <1>1 DEF Sorted
  <2> QED BY <1>1, <2>2, <2>3
<1> HIDE DEF before, c, n, q
<1> DEFINE a == SubSeq(queue, 1, c)
           b == SubSeq(queue, c + 1, n)
<1>6. /\ a \in Seq(Priorities) /\ Len(a) = c /\ \A i \in 1 .. c : a[i] = queue[i]
      /\ b \in Seq(Priorities) /\ Len(b) = n - c /\ \A i \in 1 .. n - c : b[i] = queue[c + i]
  <2>1. /\ c \in Nat /\ c <= n /\ c + 1 \in 1 .. n + 1 /\ n - (c + 1) + 1 = n - c
        /\ \A i \in 1 .. c : i \in 1 .. n /\ 1 + i - 1 = i
        /\ \A i \in 1 .. n - c : c + i \in 1 .. n /\ (c + 1) + i - 1 = c + i
    BY <1>1, <1>2
  <2>2. a \in Seq(Priorities) /\ Len(a) = c /\ \A i \in 1 .. c : a[i] = queue[i]
    BY <1>1, <2>1
  <2>3. b \in Seq(Priorities) /\ Len(b) = n - c /\ \A i \in 1 .. n - c : b[i] = queue[c + i]
    BY <1>1, <2>1
  <2> QED BY <2>2, <2>3
<1> HIDE DEF a, b
<1>7. q = a \o <<p>> \o b
  BY <1>3 DEF a, b
<1>8. /\ q \in Seq(Priorities) /\ Len(q) = n + 1 /\ DOMAIN q = 1 .. n + 1
      /\ \A i \in 1 .. n + 1 : q[i] = IF i <= c THEN queue[i] ELSE IF i = c + 1 THEN p ELSE queue[i - 1]
  <2> DEFINE d == a \o <<p>>
  <2>1. /\ d \in Seq(Priorities) /\ Len(d) = c + 1 /\ \A i \in 1 .. c : d[i] = queue[i]
        /\ d[c + 1] = p
    BY <1>2, <1>6
  <2> HIDE DEF d
  <2>2. q = d \o b
    BY <1>7 DEF d
  <2>3. q \in Seq(Priorities) /\ Len(q) = n + 1 /\ DOMAIN q = 1 .. n + 1
    <3>1. q \in Seq(Priorities) /\ Len(q) = Len(d) + Len(b)
      BY <1>6, <2>1, <2>2, ConcatFacts
    <3>2. Len(d) + Len(b) = n + 1
      BY <1>1, <1>2, <1>6, <2>1
    <3> QED BY <3>1, <3>2
  <2>4. \A i \in 1 .. n + 1 : q[i] = IF i <= c + 1 THEN d[i] ELSE b[i - (c + 1)]
    <3>1. \A i \in 1 .. Len(d) + Len(b) : q[i] = IF i <= Len(d) THEN d[i] ELSE b[i - Len(d)]
      <4>1. d \in Seq(Priorities) /\ b \in Seq(Priorities)
        BY <1>6, <2>1
      <4>2. \A i \in 1 .. Len(d) + Len(b) : (d \o b)[i] = IF i <= Len(d) THEN d[i] ELSE b[i - Len(d)]
        BY <4>1, ConcatFacts
      <4> QED BY <2>2, <4>2
    <3>2. Len(d) = c + 1 /\ Len(d) + Len(b) = n + 1
      BY <1>1, <1>2, <1>6, <2>1
    <3> QED BY <3>1, <3>2
  <2>5. \A i \in 1 .. n + 1 : i > c + 1 => b[i - (c + 1)] = queue[i - 1]
    <3> SUFFICES ASSUME NEW i \in 1 .. n + 1, i > c + 1 PROVE b[i - (c + 1)] = queue[i - 1]
      OBVIOUS
    <3>1. i - (c + 1) \in 1 .. n - c /\ c + (i - (c + 1)) = i - 1
      BY <1>1, <1>2
    <3> QED BY <1>6, <3>1
  <2>6. ASSUME NEW i \in 1 .. n + 1
        PROVE  q[i] = IF i <= c THEN queue[i] ELSE IF i = c + 1 THEN p ELSE queue[i - 1]
    <3>1. CASE i <= c
      BY <1>1, <1>2, <2>1, <2>4, <3>1
    <3>2. CASE i = c + 1
      BY <1>1, <1>2, <2>1, <2>4, <3>2
    <3>3. CASE i > c + 1
      BY <1>1, <1>2, <2>4, <2>5, <3>3
    <3> QED BY <1>1, <1>2, <3>1, <3>2, <3>3
  <2> QED BY <2>3, <2>6
<1>9. Sorted(q)
  <2> SUFFICES ASSUME NEW i \in 1 .. n + 1, NEW j \in 1 .. n + 1, i < j PROVE q[i] <= q[j]
    BY <1>8 DEF Sorted
  <2>1. \A k, l \in 1 .. n : k < l => queue[k] <= queue[l]
    BY <1>1 DEF Sorted
  <2>2. CASE j <= c
    BY <1>1, <1>2, <1>8, <2>1, <2>2
  <2>3. CASE j = c + 1
    BY <1>1, <1>2, <1>4, <1>8, <2>3
  <2>4. CASE j > c + 1
    <3>1. j - 1 \in 1 .. n /\ j - 1 > c /\ q[j] = queue[j - 1]
      BY <1>1, <1>2, <1>8, <2>4
    <3>2. CASE i <= c
      BY <1>1, <1>2, <1>8, <2>1, <3>1, <3>2
    <3>3. CASE i = c + 1
      BY <1>1, <1>2, <1>5, <1>8, <3>1, <3>3
    <3>4. CASE i > c + 1
      <4>1. i - 1 \in 1 .. n /\ i - 1 < j - 1 /\ q[i] = queue[i - 1]
        BY <1>1, <1>2, <1>8, <3>4
      <4> QED BY <2>1, <3>1, <4>1
    <3> QED BY <1>2, <3>2, <3>3, <3>4
  <2> QED BY <1>2, <2>2, <2>3, <2>4
<1>10. \E i \in DOMAIN q : q[i] = p
  <2>1. c + 1 \in 1 .. n + 1
    BY <1>1, <1>2
  <2> QED BY <1>8, <2>1, <1>2
<1>11. \A k \in 1 .. n : \E i \in DOMAIN q : q[i] = queue[k]
  <2> SUFFICES ASSUME NEW k \in 1 .. n PROVE \E i \in DOMAIN q : q[i] = queue[k]
    OBVIOUS
  <2>1. CASE k <= c
    BY <1>1, <1>2, <1>8, <2>1
  <2>2. CASE k > c
    <3>1. k + 1 \in 1 .. n + 1 /\ q[k + 1] = queue[k]
      BY <1>1, <1>2, <1>8, <2>2
    <3> QED BY <1>8, <3>1
  <2> QED BY <1>1, <1>2, <2>1, <2>2
<1> QED BY <1>1, <1>8, <1>9, <1>10, <1>11 DEF q, n

\* A task is pushed: the queue stays in order and is counted, and no task is forgotten.
LEMMA PushFacts ==
    ASSUME IInv, NEW p \in Priorities, Push(p),
           TaskAt' = TaskAt, \A i \in TaskAt : handlers'[i] = handlers[i]
    PROVE  /\ pending_queue' \in Seq(Priorities)
           /\ active_count' \in 0 .. MaxTasks /\ cached_count' \in 0 .. CacheSize
           /\ QueueAccounting'
           /\ Deferred(p)'
           /\ \A r : Deferred(r) => Deferred(r)'
<1>1. /\ pending_queue \in Seq(Priorities) /\ Sorted(pending_queue)
      /\ active_count = Len(pending_queue)
  BY DEF IInv, TypeOK, QueueAccounting, Sorted
<1>2. pending_queue' = Insert(pending_queue, p)
  BY DEF Push
<1>3. /\ pending_queue' \in Seq(Priorities) /\ Len(pending_queue') = Len(pending_queue) + 1
      /\ Sorted(pending_queue')
      /\ \E i \in DOMAIN pending_queue' : pending_queue'[i] = p
      /\ \A k \in DOMAIN pending_queue : \E i \in DOMAIN pending_queue' :
            pending_queue'[i] = pending_queue[k]
  BY <1>1, <1>2, InsertFacts
<1>4. active_count' \in 0 .. MaxTasks /\ cached_count' \in 0 .. CacheSize
  BY TasksAssumption DEF IInv, TypeOK, Push
<1>5. QueueAccounting'
  BY <1>1, <1>3 DEF QueueAccounting, Sorted, Push
<1>6. Deferred(p)'
  BY <1>3 DEF Deferred
<1>7. \A r : Deferred(r) => Deferred(r)'
  BY <1>3 DEF Deferred
<1> QED BY <1>3, <1>4, <1>5, <1>6, <1>7

\* The Mini UART has been checked: task_queue_run is entered.
LEMMA EnterRun ==
    ASSUME IInv, handlers # <<>>, top.at = "uart", Becomes(Handler("running", TRUE)),
           UNCHANGED <<exception_depth, nesting, events, timer, reschedule_pending>>
    PROVE  /\ TaskAt' = TaskAt /\ \A i \in TaskAt : handlers'[i] = handlers[i]
           /\ TimingAt' = TimingAt
           /\ CallbacksBelow' /\ TimerHandledOnce' /\ RunningEvent'
           /\ TasksRestore' /\ TasksDescend' /\ CauseKept' /\ At("running")'
           /\ handlers' \in Seq(Handlers) /\ exception_depth' = Len(handlers')
<1> DEFINE n == Len(handlers)
<1> DEFINE h == Handler("running", TRUE)
<1>1. h \in Handlers /\ h.at = "running"
  BY HandlerType DEF Places
<1>2. Becomes(h)
  OBVIOUS
<1> HIDE DEF h
<1>3. /\ handlers' \in Seq(Handlers) /\ exception_depth' = Len(handlers')
      /\ CallbacksBelow'
      /\ EventAt' = EventAt /\ TimingAt' = TimingAt /\ TaskAt' = TaskAt
      /\ EventAt \subseteq TimingAt
      /\ \A i \in TimingAt : handlers'[i] = handlers[i]
      /\ \A i \in TaskAt : handlers'[i] = handlers[i]
      /\ \A place : At(place)' <=> place = "running"
  BY <1>1, <1>2, TopShape DEF Timing
<1>4. TasksRestore' /\ TasksDescend'
  BY <1>3, TasksKept
<1>5. RunningEvent'
  BY <1>3, EventsKept DEF events
<1>6. TimerHandledOnce'
  BY <1>3, TimingKept
<1>7. CauseKept'
  BY <1>3 DEF CauseKept, EveryIrqHandled
<1> QED BY <1>3, <1>4, <1>5, <1>6, <1>7

\* What mini_uart_receive_task leaves behind where it cannot be interrupted, and
\* mini_uart_transmit_task.
LEMMA ReceiveFacts ==
    ASSUME IInv, Receive
    PROVE  /\ rx_enabled' \in BOOLEAN /\ rx_ready' \in BOOLEAN /\ rx_count' \in 0 .. RxSize
           /\ ~rx_enabled' => rx_count' = RxSize
<1>1. rx_count \in 0 .. RxSize /\ rx_ready \in BOOLEAN /\ RxSize \in Nat
  BY RingAssumption DEF IInv, TypeOK
<1>2. rx_count' \in 0 .. RxSize
  BY <1>1 DEF Receive
<1>3. rx_ready' \in BOOLEAN
  BY <1>1 DEF Receive
<1>4. rx_enabled' = (rx_count' < RxSize)
  BY DEF Receive
<1>5. rx_enabled' \in BOOLEAN /\ (rx_count' < RxSize => rx_enabled')
  <2> DEFINE needed == rx_count' < RxSize
  <2>1. needed \in BOOLEAN
    OBVIOUS
  <2>2. rx_enabled' = needed
    BY <1>4
  <2> HIDE DEF needed
  <2>3. rx_enabled' \in BOOLEAN /\ (needed => rx_enabled')
    BY <2>1, <2>2
  <2> QED BY <2>3 DEF needed
<1>6. ~(rx_count' < RxSize) => rx_count' = RxSize
  BY <1>1, <1>2
<1> QED BY <1>2, <1>3, <1>5, <1>6

\* Filling the FIFO keeps the ring and its interrupt typed.
LEMMA TransmitFacts ==
    ASSUME IInv, Transmit
    PROVE  /\ tx_enabled' \in BOOLEAN /\ tx_ready' \in BOOLEAN /\ tx_count' \in 0 .. TxSize
           /\ tx_count' > 0 => tx_enabled'
<1>1. tx_count \in 0 .. TxSize /\ tx_ready \in BOOLEAN /\ TxSize \in Nat
  BY RingAssumption DEF IInv, TypeOK
<1>2. tx_count' \in 0 .. TxSize
  BY <1>1 DEF Transmit
<1>3. tx_ready' \in BOOLEAN
  BY <1>1 DEF Transmit
<1>4. tx_enabled' = (tx_count' > 0)
  BY DEF Transmit
<1>5. tx_enabled' \in BOOLEAN /\ (tx_count' > 0 => tx_enabled')
  <2> DEFINE needed == tx_count' > 0
  <2>1. needed \in BOOLEAN
    OBVIOUS
  <2>2. tx_enabled' = needed
    BY <1>4
  <2> HIDE DEF needed
  <2>3. tx_enabled' \in BOOLEAN /\ (needed => tx_enabled')
    BY <2>1, <2>2
  <2> QED BY <2>3 DEF needed
<1> QED BY <1>2, <1>3, <1>5

\* The mini UART interrupt keeps the invariant.
LEMMA UartIrqInv == IInv /\ (HandleReceive \/ HandleTransmit \/ NoUartIrq) => IInv'
<1> SUFFICES ASSUME IInv, HandleReceive \/ HandleTransmit \/ NoUartIrq PROVE IInv'
  OBVIOUS
<1>1. /\ handlers # <<>> /\ top.at = "uart" /\ Becomes(Handler("running", TRUE))
      /\ UNCHANGED <<exception_depth, nesting, events, timer, reschedule_pending>>
  BY DEF HandleReceive, HandleTransmit, NoUartIrq, At
<1>2. /\ TaskAt' = TaskAt /\ \A i \in TaskAt : handlers'[i] = handlers[i]
      /\ TimingAt' = TimingAt
      /\ CallbacksBelow' /\ TimerHandledOnce' /\ RunningEvent'
      /\ TasksRestore' /\ TasksDescend' /\ CauseKept' /\ At("running")'
      /\ handlers' \in Seq(Handlers) /\ exception_depth' = Len(handlers')
  BY <1>1, EnterRun
<1>3. /\ TypeOK => task_running' \in BOOLEAN /\ current_task_priority' \in {0} \cup Priorities
      /\ waiting_events' = waiting_events /\ running_events' = running_events
      /\ timer_enabled' = timer_enabled /\ timer_due' = timer_due
      /\ reschedule_pending' = reschedule_pending
  BY <1>1 DEF TypeOK, nesting, events, timer
<1>4. TimingAt' # {} <=> TimingAt # {}
  BY <1>2
<1>5. CASE UNCHANGED tasks /\ (HandleReceive \/ HandleTransmit \/ NoUartIrq)
  <2>1. QueueAccounting'
    BY <1>5 DEF IInv, QueueAccounting, tasks
  <2>2. \A p : Deferred(p)' <=> Deferred(p)
    BY <1>2, <1>5 DEF Deferred, tasks
  <2>3. /\ pending_queue' = pending_queue /\ active_count' = active_count
        /\ cached_count' = cached_count
    BY <1>5 DEF tasks
  <2>4. CASE HandleReceive /\ ~Push(UART_RX)
    <3>1. Receive /\ UNCHANGED transmitter
      BY <2>4 DEF HandleReceive
    <3>2. /\ rx_count' \in 0 .. RxSize /\ rx_ready' \in BOOLEAN /\ rx_enabled' \in BOOLEAN
          /\ ~rx_enabled' => rx_count' = RxSize
      BY <3>1, ReceiveFacts
    <3>3. TypeOK'
      BY <1>2, <1>3, <2>3, <3>1, <3>2 DEF IInv, TypeOK, transmitter
    <3>4. NoLostWakeup'
      BY <1>3, <1>4, <2>2, <3>1, <3>2 DEF IInv, NoLostWakeup, TimingAt, Timing, transmitter
    <3> QED BY <1>2, <2>1, <3>3, <3>4 DEF IInv
  <2>5. CASE HandleTransmit /\ ~Push(UART_TX)
    <3>1. Transmit /\ UNCHANGED receiver
      BY <2>5 DEF HandleTransmit
    <3>2. /\ tx_count' \in 0 .. TxSize /\ tx_ready' \in BOOLEAN /\ tx_enabled' \in BOOLEAN
          /\ tx_count' > 0 => tx_enabled'
      BY <3>1, TransmitFacts
    <3>3. TypeOK'
      BY <1>2, <1>3, <2>3, <3>1, <3>2 DEF IInv, TypeOK, receiver
    <3>4. NoLostWakeup'
      BY <1>3, <1>4, <2>2, <3>1, <3>2 DEF IInv, NoLostWakeup, TimingAt, Timing, receiver
    <3> QED BY <1>2, <2>1, <3>3, <3>4 DEF IInv
  <2>6. CASE NoUartIrq
    <3>1. TypeOK'
      BY <1>2, <1>3, <2>3, <2>6 DEF IInv, TypeOK, NoUartIrq, uart, receiver, transmitter
    <3>2. NoLostWakeup'
      BY <1>3, <1>4, <2>2, <2>6 DEF IInv, NoLostWakeup, TimingAt, Timing, NoUartIrq, uart, receiver,
                                    transmitter
    <3> QED BY <1>2, <2>1, <3>1, <3>2 DEF IInv
  <2>7. ASSUME NEW p, Push(p) PROVE FALSE
    <3>1. active_count' = active_count + 1 /\ active_count' = active_count
      BY <2>3, <2>7 DEF Push
    <3>2. active_count \in Int
      BY DEF IInv, TypeOK
    <3> QED BY <3>1, <3>2
  <2> QED BY <1>5, <2>4, <2>5, <2>6, <2>7
<1>6. CASE HandleReceive /\ Push(UART_RX)
  <2>1. /\ pending_queue' \in Seq(Priorities)
        /\ active_count' \in 0 .. MaxTasks /\ cached_count' \in 0 .. CacheSize
        /\ QueueAccounting' /\ Deferred(UART_RX)' /\ \A r : Deferred(r) => Deferred(r)'
    BY <1>2, <1>6, PushFacts DEF Priorities
  <2>2. /\ rx_enabled' \in BOOLEAN /\ rx_ready' \in BOOLEAN /\ rx_count' \in 0 .. RxSize
        /\ UNCHANGED transmitter
    <3>1. /\ UNCHANGED transmitter
          /\ (rx_enabled' = FALSE /\ UNCHANGED <<rx_ready, rx_count>>) \/ Receive
      BY <1>6 DEF HandleReceive
    <3>2. CASE Receive
      BY <3>1, <3>2, ReceiveFacts
    <3>3. CASE rx_enabled' = FALSE /\ UNCHANGED <<rx_ready, rx_count>>
      BY <3>1, <3>3 DEF IInv, TypeOK
    <3> QED BY <3>1, <3>2, <3>3
  <2>3. TypeOK'
    BY <1>2, <1>3, <2>1, <2>2 DEF IInv, TypeOK, transmitter
  <2>4. NoLostWakeup'
    BY <1>3, <1>4, <2>1, <2>2 DEF IInv, NoLostWakeup, TimingAt, Timing, transmitter
  <2> QED BY <1>2, <2>1, <2>3, <2>4 DEF IInv
<1>7. CASE HandleTransmit /\ Push(UART_TX)
  <2>1. /\ pending_queue' \in Seq(Priorities)
        /\ active_count' \in 0 .. MaxTasks /\ cached_count' \in 0 .. CacheSize
        /\ QueueAccounting' /\ Deferred(UART_TX)' /\ \A r : Deferred(r) => Deferred(r)'
    BY <1>2, <1>7, PushFacts DEF Priorities
  <2>2. /\ tx_enabled' \in BOOLEAN /\ tx_ready' \in BOOLEAN /\ tx_count' \in 0 .. TxSize
        /\ UNCHANGED receiver
    <3>1. /\ UNCHANGED receiver
          /\ (tx_enabled' = FALSE /\ UNCHANGED <<tx_ready, tx_count>>) \/ Transmit
      BY <1>7 DEF HandleTransmit
    <3>2. CASE Transmit
      BY <3>1, <3>2, TransmitFacts
    <3>3. CASE tx_enabled' = FALSE /\ UNCHANGED <<tx_ready, tx_count>>
      BY <3>1, <3>3 DEF IInv, TypeOK
    <3> QED BY <3>1, <3>2, <3>3
  <2>3. TypeOK'
    BY <1>2, <1>3, <2>1, <2>2 DEF IInv, TypeOK, receiver
  <2>4. NoLostWakeup'
    BY <1>3, <1>4, <2>1, <2>2 DEF IInv, NoLostWakeup, TimingAt, Timing, receiver
  <2> QED BY <1>2, <2>1, <2>3, <2>4 DEF IInv
<1> QED BY <1>5, <1>6, <1>7 DEF HandleReceive, HandleTransmit, NoUartIrq, PushFails
-------------------------------------------------------------------------------
(* task_queue_run *)

\* Running a task keeps the invariant.
LEMMA RunTaskInv == IInv /\ RunTask => IInv'
<1> SUFFICES ASSUME IInv, RunTask PROVE IInv'
  OBVIOUS
<1> DEFINE n == Len(handlers)
           first == Head(pending_queue)
           saved == [running |-> task_running, priority |-> current_task_priority]
           h == [Handler("task", TRUE) EXCEPT !.priority = first, !.previous = saved]
<1>1. /\ handlers # <<>> /\ top.at = "running" /\ Becomes(h)
      /\ pending_queue # <<>> /\ task_running => first < current_task_priority
      /\ pending_queue' = Tail(pending_queue)
      /\ active_count' = active_count - 1
      /\ cached_count' = IF cached_count < CacheSize THEN cached_count + 1 ELSE cached_count
      /\ task_running' = TRUE /\ current_task_priority' = first
      /\ UNCHANGED <<exception_depth, events, timer, uart, reschedule_pending>>
  BY DEF RunTask, At, Urgent
<1>2. /\ pending_queue \in Seq(Priorities) /\ Len(pending_queue) \in Nat /\ Len(pending_queue) > 0
      /\ DOMAIN pending_queue = 1 .. Len(pending_queue)
      /\ first \in Priorities /\ first = pending_queue[1]
      /\ task_running \in BOOLEAN /\ current_task_priority \in {0} \cup Priorities
  <2>1. /\ pending_queue \in Seq(Priorities) /\ task_running \in BOOLEAN
        /\ current_task_priority \in {0} \cup Priorities
    BY DEF IInv, TypeOK
  <2>2. pending_queue # <<>>
    BY DEF RunTask, Urgent
  <2> HIDE DEF h, saved, n
  <2>3. /\ Len(pending_queue) \in Nat /\ Len(pending_queue) > 0
        /\ DOMAIN pending_queue = 1 .. Len(pending_queue)
        /\ first \in Priorities /\ first = pending_queue[1]
    BY <2>1, <2>2
  <2> QED BY <2>1, <2>3
<1>3. /\ h \in Handlers /\ h.at = "task" /\ h.priority = first /\ ~h.done
      /\ h.previous.running = task_running /\ h.previous.priority = current_task_priority
  <2> DEFINE g == Handler("task", TRUE)
  <2>1. g \in Handlers /\ g.at = "task" /\ g.done = FALSE
    BY HandlerType DEF Places
  <2>2. h = [g EXCEPT !.priority = first, !.previous = saved]
    OBVIOUS
  <2>3. /\ saved \in [running : BOOLEAN, priority : {0} \cup Priorities]
        /\ saved.running = task_running /\ saved.priority = current_task_priority
    BY <1>2
  <2> HIDE DEF g, h, saved, first
  <2>4. h \in Handlers
    BY <1>2, <2>1, <2>2, <2>3 DEF Handlers
  <2>5. h.at = "task" /\ h.priority = first /\ h.done = FALSE /\ h.previous = saved
    BY <2>1, <2>2 DEF Handlers
  <2> QED BY <2>3, <2>4, <2>5
<1> HIDE DEF h, saved, first
<1>4. /\ CallbacksBelow'
      /\ handlers' \in Seq(Handlers) /\ exception_depth' = Len(handlers')
      /\ n \in DOMAIN handlers /\ n \in Nat /\ DOMAIN handlers = 1 .. n
      /\ handlers'[n] = h
      /\ \A i \in DOMAIN handlers : i # n => handlers'[i] = handlers[i]
      /\ TaskAt' = TaskAt \cup {n} /\ n \notin TaskAt /\ TaskAt \subseteq DOMAIN handlers
      /\ EventAt' = EventAt /\ TimingAt' = TimingAt
      /\ n \notin TimingAt /\ EventAt \subseteq TimingAt /\ TimingAt \subseteq DOMAIN handlers
      /\ \A place : At(place)' <=> place = "task"
  BY <1>1, <1>3, TopShape DEF Timing
<1> HIDE DEF n
<1>5. \A i \in TaskAt : i \in Nat /\ i < n /\ handlers'[i] = handlers[i] /\ handlers[i].priority \in Int
  <2>1. \A i \in DOMAIN handlers : handlers[i].priority \in Int
    BY Types DEF Handlers, Priorities, UART_RX, UART_TX
  <2> QED BY <1>4, <2>1
<1>6. \A i \in TaskAt : first < handlers[i].priority
  <2>1. first \in Int /\ current_task_priority \in Int
    BY <1>2 DEF Priorities, UART_RX, UART_TX
  <2>2. ASSUME NEW i \in TaskAt PROVE first < handlers[i].priority
    <3>1. task_running /\ current_task_priority <= handlers[i].priority
      BY <2>2 DEF IInv, TasksDescend
    <3>2. task_running => first < current_task_priority
      BY DEF RunTask, Urgent, first
    <3> QED BY <1>5, <2>1, <2>2, <3>1, <3>2
  <2> QED BY <2>2
<1>7. TasksRestore'
  <2> SUFFICES ASSUME NEW i \in TaskAt'
               PROVE  LET below == {j \in TaskAt' : j < i}
                      IN  /\ handlers'[i].previous.running = (below # {})
                          /\ \A j \in below :
                                /\ handlers'[i].previous.priority <= handlers'[j].priority
                                /\ LastOf(below, j)
                                      => handlers'[i].previous.priority = handlers'[j].priority
    BY DEF TasksRestore, LastOf
  <2>1. CASE i = n
    <3>1. {j \in TaskAt' : j < i} = TaskAt
      BY <1>4, <1>5, <2>1
    <3>2. /\ task_running = (TaskAt # {})
          /\ \A j \in TaskAt : /\ current_task_priority <= handlers[j].priority
                               /\ LastOf(TaskAt, j) => current_task_priority = handlers[j].priority
      BY DEF IInv, TasksDescend
    <3>3. /\ handlers'[i].previous.running = (TaskAt # {})
          /\ handlers'[i].previous.priority = current_task_priority
      BY <1>3, <1>4, <2>1, <3>2
    <3>4. ASSUME NEW j \in TaskAt
          PROVE  /\ handlers'[i].previous.priority <= handlers'[j].priority
                 /\ LastOf(TaskAt, j) => handlers'[i].previous.priority = handlers'[j].priority
      BY <1>5, <3>2, <3>3, <3>4
    <3>5. handlers'[i].previous.running = ({j \in TaskAt' : j < i} # {})
      BY <3>1, <3>3
    <3>6. ASSUME NEW j \in {k \in TaskAt' : k < i}
          PROVE  /\ handlers'[i].previous.priority <= handlers'[j].priority
                 /\ LastOf({k \in TaskAt' : k < i}, j)
                       => handlers'[i].previous.priority = handlers'[j].priority
      <4>1. j \in TaskAt
        BY <3>1
      <4>2. LastOf({k \in TaskAt' : k < i}, j) => LastOf(TaskAt, j)
        BY <3>1
      <4> QED BY <3>4, <4>1, <4>2
    <3> QED BY <3>5, <3>6
  <2>2. CASE i \in TaskAt
    <3>1. {j \in TaskAt' : j < i} = {j \in TaskAt : j < i}
      BY <1>4, <1>5, <2>2
    <3> QED BY <1>5, <2>2, <3>1 DEF IInv, TasksRestore, LastOf
  <2> QED BY <1>4, <2>1, <2>2
<1>8. TasksDescend'
  <2>1. first \in Int
    BY <1>2 DEF Priorities, UART_RX, UART_TX
  <2>2. \A i, j \in TaskAt' : i < j => handlers'[j].priority < handlers'[i].priority
    BY <1>3, <1>4, <1>5, <1>6 DEF IInv, TasksDescend
  <2>3. task_running' = (TaskAt' # {})
    BY <1>1, <1>4
  <2>4. \A i \in TaskAt' : current_task_priority' <= handlers'[i].priority
    BY <1>1, <1>3, <1>4, <1>5, <1>6, <2>1
  <2>5. \A i \in TaskAt' : LastOf(TaskAt', i) => i = n
    BY <1>4, <1>5 DEF LastOf
  <2>6. current_task_priority' = handlers'[n].priority
    BY <1>1, <1>3, <1>4
  <2> QED BY <2>2, <2>3, <2>4, <2>5, <2>6 DEF TasksDescend, LastOf
<1>9. RunningEvent'
  BY <1>1, <1>4, EventsKept DEF events
<1>10. TimerHandledOnce'
  BY <1>1, <1>4, TimingKept
<1>11. CauseKept'
  BY <1>4 DEF CauseKept, EveryIrqHandled
<1>12. /\ pending_queue' \in Seq(Priorities) /\ Len(pending_queue') = Len(pending_queue) - 1
       /\ DOMAIN pending_queue' = 1 .. Len(pending_queue) - 1
       /\ \A i \in DOMAIN pending_queue' : /\ i + 1 \in DOMAIN pending_queue /\ 1 < i + 1
                                           /\ pending_queue'[i] = pending_queue[i + 1]
  BY <1>1, <1>2
<1>13. QueueAccounting'
  BY <1>1, <1>2, <1>12 DEF IInv, QueueAccounting
<1>14. NoneUrgent'
  <2>1. \A i \in DOMAIN pending_queue' : pending_queue'[i] >= first
    BY <1>2, <1>12 DEF IInv, QueueAccounting, Priorities, UART_RX, UART_TX
  <2> QED BY <1>1, <2>1 DEF NoneUrgent
<1>15. TypeOK'
  <2>1. active_count' \in 0 .. MaxTasks /\ cached_count' \in 0 .. CacheSize
    BY <1>1, <1>2, TasksAssumption DEF IInv, TypeOK, QueueAccounting
  <2> QED BY <1>1, <1>2, <1>4, <1>12, <2>1 DEF IInv, TypeOK, events, timer, uart, receiver, transmitter
<1>16. \A p : Deferred(p) => Deferred(p)'
  <2> SUFFICES ASSUME NEW p, Deferred(p) PROVE Deferred(p)'
    OBVIOUS
  <2>1. CASE \E i \in TaskAt : handlers[i].priority = p /\ ~handlers[i].done
    BY <1>4, <1>5, <2>1 DEF Deferred
  <2>2. ASSUME NEW i \in DOMAIN pending_queue, pending_queue[i] = p PROVE Deferred(p)'
    <3>1. CASE i = 1
      BY <1>2, <1>3, <1>4, <2>2, <3>1 DEF Deferred
    <3>2. CASE i # 1
      <4>1. i - 1 \in DOMAIN pending_queue' /\ pending_queue'[i - 1] = pending_queue[i]
        BY <1>2, <1>12, <3>2
      <4> QED BY <2>2, <4>1 DEF Deferred
    <3> QED BY <3>1, <3>2
  <2> QED BY <2>1, <2>2 DEF Deferred
<1>17. NoLostWakeup'
  <2>1. TimingAt' # {} <=> TimingAt # {}
    BY <1>4
  <2> QED BY <1>1, <1>16, <2>1 DEF IInv, NoLostWakeup, TimingAt, Timing, timer, events, uart,
                                   receiver, transmitter
<1> QED BY <1>4, <1>7, <1>8, <1>9, <1>10, <1>11, <1>13, <1>14, <1>15, <1>17 DEF IInv

\* A step of the callback of a task leaves the stack in order, and the task is still to
\* look at its ring unless it has had its effect.
LEMMA TaskStage ==
    ASSUME IInv, handlers # <<>>, top.at = "task", ~top.done,
           NEW h \in Handlers, h.at = "task", h.priority = top.priority,
           h.previous = top.previous, Becomes(h),
           UNCHANGED <<exception_depth, tasks, nesting, events, timer>>
    PROVE  /\ CallbacksBelow' /\ TasksRestore' /\ TasksDescend' /\ RunningEvent'
           /\ TimerHandledOnce' /\ CauseKept' /\ QueueAccounting' /\ NoneUrgent'
           /\ handlers' \in Seq(Handlers) /\ exception_depth' = Len(handlers')
           /\ \A p : p # top.priority \/ ~h.done => (Deferred(p) => Deferred(p)')
           /\ TimingAt' # {} <=> TimingAt # {}
<1> DEFINE n == Len(handlers)
<1>1. /\ CallbacksBelow'
      /\ handlers' \in Seq(Handlers) /\ exception_depth' = Len(handlers')
      /\ n \in DOMAIN handlers /\ handlers'[n] = h /\ top = handlers[n]
      /\ \A i \in DOMAIN handlers : i # n => handlers'[i] = handlers[i]
      /\ TaskAt' = TaskAt /\ TaskAt \subseteq DOMAIN handlers
      /\ EventAt' = EventAt /\ TimingAt' = TimingAt
      /\ n \notin TimingAt /\ EventAt \subseteq TimingAt /\ TimingAt \subseteq DOMAIN handlers
      /\ \A place : At(place)' <=> place = "task"
  <2>1. UNCHANGED exception_depth
    OBVIOUS
  <2>2. /\ CallbacksBelow'
        /\ handlers' \in Seq(Handlers) /\ exception_depth' = Len(handlers')
        /\ n \in DOMAIN handlers /\ top = handlers[n] /\ handlers'[n] = h
        /\ \A i \in DOMAIN handlers : i # n => handlers'[i] = handlers[i]
        /\ TaskAt' = TaskAt \cup {n} /\ EventAt' = EventAt \ {n} /\ TimingAt' = TimingAt \ {n}
        /\ \A place : At(place)' <=> place = "task"
    BY <2>1, TopShape DEF Timing
  <2>3. n \in TaskAt /\ n \notin TimingAt /\ n \notin EventAt
    BY <2>2 DEF TaskAt, TimingAt, EventAt, Timing
  <2>4. EventAt \subseteq TimingAt /\ TimingAt \subseteq DOMAIN handlers
    BY DEF EventAt, TimingAt, Timing
  <2>5. TaskAt \subseteq DOMAIN handlers
    BY DEF TaskAt
  <2> QED BY <2>2, <2>3, <2>4, <2>5
<1> HIDE DEF n
<1>2. \A i \in TaskAt : /\ handlers'[i].priority = handlers[i].priority
                        /\ handlers'[i].previous = handlers[i].previous
  BY <1>1
<1>3. TasksRestore' /\ TasksDescend'
  BY <1>1, <1>2, TasksKept
<1>4. RunningEvent'
  BY <1>1, EventsKept DEF events
<1>5. TimerHandledOnce'
  BY <1>1, TimingKept
<1>6. CauseKept'
  BY <1>1 DEF CauseKept, EveryIrqHandled
<1>7. QueueAccounting' /\ NoneUrgent'
  BY DEF IInv, QueueAccounting, NoneUrgent, At, tasks, nesting
<1>8. ASSUME NEW p, p # top.priority \/ ~h.done, Deferred(p) PROVE Deferred(p)'
  <2>1. CASE \E i \in DOMAIN pending_queue : pending_queue[i] = p
    BY <2>1 DEF Deferred, tasks
  <2>2. ASSUME NEW i \in TaskAt, handlers[i].priority = p, ~handlers[i].done PROVE Deferred(p)'
    <3>1. handlers'[i].priority = p /\ ~handlers'[i].done
      BY <1>1, <1>2, <1>8, <2>2
    <3> QED BY <1>1, <3>1 DEF Deferred
  <2> QED BY <1>8, <2>1, <2>2 DEF Deferred
<1> QED BY <1>1, <1>3, <1>4, <1>5, <1>6, <1>7, <1>8

\* mini_uart_receive_task, a step at a time: until it has seen a full ring or enabled the
\* source, it is yet to do so.
LEMMA ReceiveTaskInv == IInv /\ (ReceiveCopy \/ ReceiveTest \/ ReceiveEnable) => IInv'
<1> SUFFICES ASSUME IInv, ReceiveCopy \/ ReceiveTest \/ ReceiveEnable PROVE IInv'
  OBVIOUS
<1>1. /\ handlers # <<>> /\ top.at = "task" /\ ~top.done /\ top.priority = UART_RX
      /\ UNCHANGED <<exception_depth, tasks, nesting, events, timer, transmitter,
                     reschedule_pending>>
  BY DEF ReceiveCopy, ReceiveTest, ReceiveEnable, InTask, At, uart
<1>2. /\ rx_enabled \in BOOLEAN /\ rx_ready \in BOOLEAN /\ rx_count \in 0 .. RxSize
      /\ RxSize \in Nat /\ top \in Handlers
      /\ handlers \in Seq(Handlers) /\ Len(handlers) \in DOMAIN handlers
  BY <1>1, Types, RingAssumption DEF IInv, TypeOK
<1>3. ASSUME NEW h \in Handlers, h.at = "task", h.priority = UART_RX, h.previous = top.previous,
             Becomes(h),
             rx_enabled' \in BOOLEAN, rx_ready' \in BOOLEAN, rx_count' \in 0 .. RxSize,
             rx_enabled => rx_enabled',
             h.done => rx_enabled' \/ rx_count' = RxSize,
             rx_count' >= rx_count
      PROVE  IInv'
  <2>1. /\ CallbacksBelow' /\ TasksRestore' /\ TasksDescend' /\ RunningEvent'
        /\ TimerHandledOnce' /\ CauseKept' /\ QueueAccounting' /\ NoneUrgent'
        /\ handlers' \in Seq(Handlers) /\ exception_depth' = Len(handlers')
        /\ \A p : p # top.priority \/ ~h.done => (Deferred(p) => Deferred(p)')
        /\ TimingAt' # {} <=> TimingAt # {}
    BY <1>1, <1>3, TaskStage
  <2>2. TypeOK'
    BY <1>1, <1>3, <2>1 DEF IInv, TypeOK, tasks, nesting, events, timer, transmitter
  <2>3. Deferred(UART_TX) => Deferred(UART_TX)'
    BY <1>1, <2>1 DEF UART_RX, UART_TX
  <2>4. ~rx_enabled' => rx_count' = RxSize \/ Deferred(UART_RX)'
    <3>1. CASE h.done
      BY <1>3, <3>1
    <3>2. CASE ~h.done
      <4>1. Deferred(UART_RX) => Deferred(UART_RX)'
        BY <2>1, <3>2
      <4>2. ~rx_enabled' => rx_count = RxSize \/ Deferred(UART_RX)
        BY <1>3 DEF IInv, NoLostWakeup
      <4> QED BY <1>2, <1>3, <4>1, <4>2
    <3> QED BY <3>1, <3>2
  <2>5. NoLostWakeup'
    BY <1>1, <2>1, <2>3, <2>4 DEF IInv, NoLostWakeup, TimingAt, Timing, events, timer, transmitter
  <2> QED BY <2>1, <2>2, <2>5 DEF IInv
<1>4. ASSUME NEW stage \in Stages, Goes(stage),
             rx_enabled' = rx_enabled, rx_ready' \in BOOLEAN,
             rx_count' \in 0 .. RxSize, rx_count' >= rx_count
      PROVE  IInv'
  <2> DEFINE h == [top EXCEPT !.stage = stage]
  <2>1. /\ h \in Handlers /\ h.at = "task" /\ h.priority = UART_RX /\ h.previous = top.previous
        /\ ~h.done
    BY <1>1, <1>2, <1>4 DEF Handlers
  <2>2. Becomes(h)
    BY <1>4 DEF Goes
  <2> QED BY <1>2, <1>3, <1>4, <2>1, <2>2
<1>5. ASSUME Done, rx_enabled' \in BOOLEAN, rx_enabled => rx_enabled',
             rx_enabled' \/ rx_count = RxSize, UNCHANGED <<rx_ready, rx_count>>
      PROVE  IInv'
  <2> DEFINE h == [top EXCEPT !.done = TRUE, !.stage = "copy"]
  <2>1. /\ h \in Handlers /\ h.at = "task" /\ h.priority = UART_RX /\ h.previous = top.previous
        /\ h.done
    BY <1>1, <1>2 DEF Handlers, Stages
  <2>2. Becomes(h)
    BY <1>5 DEF Done
  <2>3. rx_count' >= rx_count /\ rx_count' \in 0 .. RxSize /\ rx_ready' \in BOOLEAN
    BY <1>2, <1>5
  <2> QED BY <1>3, <1>5, <2>1, <2>2, <2>3
<1>6. CASE ReceiveCopy
  <2>1. CASE rx_count < RxSize /\ rx_ready
    <3>1. /\ rx_count' = rx_count + 1 /\ rx_ready' \in BOOLEAN /\ handlers' = handlers
          /\ rx_enabled' = rx_enabled
      BY <1>6, <2>1 DEF ReceiveCopy
    <3>2. Becomes(top)
      BY <1>2, <3>1 DEF Becomes, top
    <3>3. rx_count' \in 0 .. RxSize /\ rx_count' >= rx_count
      BY <1>2, <2>1, <3>1
    <3> QED BY <1>1, <1>2, <1>3, <3>1, <3>2, <3>3
  <2>2. CASE ~(rx_count < RxSize /\ rx_ready)
    <3>1. Goes("test") /\ UNCHANGED <<rx_count, rx_ready, rx_enabled>>
      BY <1>6, <2>2 DEF ReceiveCopy
    <3> QED BY <1>2, <1>4, <3>1 DEF Stages
  <2> QED BY <2>1, <2>2
<1>7. CASE ReceiveTest
  <2>1. UNCHANGED <<rx_count, rx_ready, rx_enabled>>
    BY <1>7 DEF ReceiveTest, uart, receiver
  <2>2. CASE rx_count < RxSize
    BY <1>2, <1>4, <1>7, <2>1, <2>2 DEF ReceiveTest, Stages
  <2>3. CASE ~(rx_count < RxSize)
    BY <1>2, <1>5, <1>7, <2>1, <2>3 DEF ReceiveTest
  <2> QED BY <2>2, <2>3
<1>8. CASE ReceiveEnable
  BY <1>5, <1>8 DEF ReceiveEnable
<1> QED BY <1>6, <1>7, <1>8

\* mini_uart_transmit_task, a step at a time: until it has seen an empty ring or enabled
\* the source, it is yet to do so.
LEMMA TransmitTaskInv == IInv /\ (TransmitCopy \/ TransmitTest \/ TransmitEnable) => IInv'
<1> SUFFICES ASSUME IInv, TransmitCopy \/ TransmitTest \/ TransmitEnable PROVE IInv'
  OBVIOUS
<1>1. /\ handlers # <<>> /\ top.at = "task" /\ ~top.done /\ top.priority = UART_TX
      /\ UNCHANGED <<exception_depth, tasks, nesting, events, timer, receiver,
                     reschedule_pending>>
  BY DEF TransmitCopy, TransmitTest, TransmitEnable, InTask, At, uart
<1>2. /\ tx_enabled \in BOOLEAN /\ tx_ready \in BOOLEAN /\ tx_count \in 0 .. TxSize
      /\ TxSize \in Nat /\ top \in Handlers
      /\ handlers \in Seq(Handlers) /\ Len(handlers) \in DOMAIN handlers
  BY <1>1, Types, RingAssumption DEF IInv, TypeOK
<1>3. ASSUME NEW h \in Handlers, h.at = "task", h.priority = UART_TX, h.previous = top.previous,
             Becomes(h),
             tx_enabled' \in BOOLEAN, tx_ready' \in BOOLEAN, tx_count' \in 0 .. TxSize,
             tx_enabled => tx_enabled',
             h.done => tx_enabled' \/ tx_count' = 0,
             tx_count' <= tx_count
      PROVE  IInv'
  <2>1. /\ CallbacksBelow' /\ TasksRestore' /\ TasksDescend' /\ RunningEvent'
        /\ TimerHandledOnce' /\ CauseKept' /\ QueueAccounting' /\ NoneUrgent'
        /\ handlers' \in Seq(Handlers) /\ exception_depth' = Len(handlers')
        /\ \A p : p # top.priority \/ ~h.done => (Deferred(p) => Deferred(p)')
        /\ TimingAt' # {} <=> TimingAt # {}
    BY <1>1, <1>3, TaskStage
  <2>2. TypeOK'
    BY <1>1, <1>3, <2>1 DEF IInv, TypeOK, tasks, nesting, events, timer, receiver
  <2>3. Deferred(UART_RX) => Deferred(UART_RX)'
    BY <1>1, <2>1 DEF UART_RX, UART_TX
  <2>4. tx_count' > 0 => tx_enabled' \/ Deferred(UART_TX)'
    <3>1. CASE h.done
      BY <1>3, <3>1
    <3>2. CASE ~h.done
      <4>1. Deferred(UART_TX) => Deferred(UART_TX)'
        BY <2>1, <3>2
      <4>2. tx_count > 0 => tx_enabled \/ Deferred(UART_TX)
        BY DEF IInv, NoLostWakeup
      <4> QED BY <1>2, <1>3, <4>1, <4>2
    <3> QED BY <3>1, <3>2
  <2>5. NoLostWakeup'
    BY <1>1, <2>1, <2>3, <2>4 DEF IInv, NoLostWakeup, TimingAt, Timing, events, timer, receiver
  <2> QED BY <2>1, <2>2, <2>5 DEF IInv
<1>4. ASSUME NEW stage \in Stages, Goes(stage),
             tx_enabled' = tx_enabled, tx_ready' \in BOOLEAN,
             tx_count' \in 0 .. TxSize, tx_count' <= tx_count
      PROVE  IInv'
  <2> DEFINE h == [top EXCEPT !.stage = stage]
  <2>1. /\ h \in Handlers /\ h.at = "task" /\ h.priority = UART_TX /\ h.previous = top.previous
        /\ ~h.done
    BY <1>1, <1>2, <1>4 DEF Handlers
  <2>2. Becomes(h)
    BY <1>4 DEF Goes
  <2> QED BY <1>2, <1>3, <1>4, <2>1, <2>2
<1>5. ASSUME Done, tx_enabled' \in BOOLEAN, tx_enabled => tx_enabled',
             tx_enabled' \/ tx_count = 0, UNCHANGED <<tx_ready, tx_count>>
      PROVE  IInv'
  <2> DEFINE h == [top EXCEPT !.done = TRUE, !.stage = "copy"]
  <2>1. /\ h \in Handlers /\ h.at = "task" /\ h.priority = UART_TX /\ h.previous = top.previous
        /\ h.done
    BY <1>1, <1>2 DEF Handlers, Stages
  <2>2. Becomes(h)
    BY <1>5 DEF Done
  <2>3. tx_count' <= tx_count /\ tx_count' \in 0 .. TxSize /\ tx_ready' \in BOOLEAN
    BY <1>2, <1>5
  <2> QED BY <1>3, <1>5, <2>1, <2>2, <2>3
<1>6. CASE TransmitCopy
  <2>1. CASE tx_count > 0 /\ tx_ready
    <3>1. /\ tx_count' = tx_count - 1 /\ tx_ready' \in BOOLEAN /\ handlers' = handlers
          /\ tx_enabled' = tx_enabled
      BY <1>6, <2>1 DEF TransmitCopy
    <3>2. Becomes(top)
      BY <1>2, <3>1 DEF Becomes, top
    <3>3. tx_count' \in 0 .. TxSize /\ tx_count' <= tx_count
      BY <1>2, <2>1, <3>1
    <3> QED BY <1>1, <1>2, <1>3, <3>1, <3>2, <3>3
  <2>2. CASE ~(tx_count > 0 /\ tx_ready)
    <3>1. Goes("test") /\ UNCHANGED <<tx_count, tx_ready, tx_enabled>>
      BY <1>6, <2>2 DEF TransmitCopy
    <3> QED BY <1>2, <1>4, <3>1 DEF Stages
  <2> QED BY <2>1, <2>2
<1>7. CASE TransmitTest
  <2>1. UNCHANGED <<tx_count, tx_ready, tx_enabled>>
    BY <1>7 DEF TransmitTest, uart, transmitter
  <2>2. CASE tx_count > 0
    BY <1>2, <1>4, <1>7, <2>1, <2>2 DEF TransmitTest, Stages
  <2>3. CASE ~(tx_count > 0)
    BY <1>2, <1>5, <1>7, <2>1, <2>3 DEF TransmitTest
  <2> QED BY <2>2, <2>3
<1>8. CASE TransmitEnable
  BY <1>5, <1>8 DEF TransmitEnable
<1> QED BY <1>6, <1>7, <1>8

\* The callback of a task runs: it looks at its ring and enables its source if need be.
LEMMA TaskCallbackInv == IInv /\ TaskCallback => IInv'
BY ReceiveTaskInv, TransmitTaskInv DEF TaskCallback

\* A task returns: the state of the tasks below it is in place again.
LEMMA TaskReturnInv == IInv /\ TaskReturn => IInv'
<1> SUFFICES ASSUME IInv, TaskReturn PROVE IInv'
  OBVIOUS
<1> DEFINE n == Len(handlers)
           h == Handler("running", TRUE)
<1>1. /\ handlers # <<>> /\ top.at = "task" /\ Becomes(h)
      /\ task_running' = top.previous.running
      /\ current_task_priority' = top.previous.priority
      /\ UNCHANGED <<exception_depth, tasks, events, timer, uart, reschedule_pending>>
  BY DEF TaskReturn, At
<1>2. top.done
  BY DEF TaskReturn
<1>3. h \in Handlers /\ h.at = "running"
  BY HandlerType DEF Places
<1> HIDE DEF h
<1>4. /\ CallbacksBelow'
      /\ handlers' \in Seq(Handlers) /\ exception_depth' = Len(handlers')
      /\ n \in DOMAIN handlers /\ n \in Nat /\ DOMAIN handlers = 1 .. n /\ top = handlers[n]
      /\ top \in Handlers
      /\ \A i \in DOMAIN handlers : i # n => handlers'[i] = handlers[i]
      /\ TaskAt' = TaskAt \ {n} /\ n \in TaskAt /\ TaskAt \subseteq DOMAIN handlers
      /\ EventAt' = EventAt /\ TimingAt' = TimingAt
      /\ n \notin TimingAt /\ EventAt \subseteq TimingAt /\ TimingAt \subseteq DOMAIN handlers
      /\ \A place : At(place)' <=> place = "running"
  BY <1>1, <1>3, TopShape DEF Timing
<1> HIDE DEF n
<1>5. /\ TaskAt' = {j \in TaskAt : j < n}
      /\ \A i \in TaskAt' : handlers'[i] = handlers[i] /\ i \in TaskAt /\ i \in Nat /\ i < n
  BY <1>4
<1>6. TasksRestore'
  <2> SUFFICES ASSUME NEW i \in TaskAt'
               PROVE  LET below == {j \in TaskAt' : j < i}
                      IN  /\ handlers'[i].previous.running = (below # {})
                          /\ \A j \in below :
                                /\ handlers'[i].previous.priority <= handlers'[j].priority
                                /\ LastOf(below, j)
                                      => handlers'[i].previous.priority = handlers'[j].priority
    BY DEF TasksRestore, LastOf
  <2>1. {j \in TaskAt' : j < i} = {j \in TaskAt : j < i}
    BY <1>4, <1>5
  <2> QED BY <1>5, <2>1 DEF IInv, TasksRestore, LastOf
<1>7. TasksDescend'
  <2>1. /\ handlers[n].previous.running = (TaskAt' # {})
        /\ \A j \in TaskAt' :
              /\ handlers[n].previous.priority <= handlers[j].priority
              /\ LastOf(TaskAt', j) => handlers[n].previous.priority = handlers[j].priority
    BY <1>4, <1>5 DEF IInv, TasksRestore
  <2>2. \A i, j \in TaskAt' : i < j => handlers'[j].priority < handlers'[i].priority
    BY <1>5 DEF IInv, TasksDescend
  <2>3. task_running' = handlers[n].previous.running /\ current_task_priority' = handlers[n].previous.priority
    BY <1>1, <1>4
  <2> QED BY <1>5, <2>1, <2>2, <2>3 DEF TasksDescend, LastOf
<1>8. RunningEvent'
  BY <1>1, <1>4, EventsKept DEF events
<1>9. TimerHandledOnce'
  BY <1>1, <1>4, TimingKept
<1>10. CauseKept'
  BY <1>4 DEF CauseKept, EveryIrqHandled
<1>11. QueueAccounting'
  BY <1>1 DEF IInv, QueueAccounting, tasks
<1>12. TypeOK'
  <2>1. task_running' \in BOOLEAN /\ current_task_priority' \in {0} \cup Priorities
    BY <1>1, <1>4 DEF Handlers
  <2> QED BY <1>1, <1>4, <2>1 DEF IInv, TypeOK, tasks, events, timer, uart, receiver, transmitter
<1>13. \A p : Deferred(p) => Deferred(p)'
  BY <1>1, <1>2, <1>4 DEF Deferred, tasks
<1>14. NoLostWakeup'
  <2>1. TimingAt' # {} <=> TimingAt # {}
    BY <1>4
  <2> QED BY <1>1, <1>13, <2>1 DEF IInv, NoLostWakeup, TimingAt, Timing, timer, events, uart,
                                   receiver, transmitter
<1> QED BY <1>4, <1>6, <1>7, <1>8, <1>9, <1>10, <1>11, <1>12, <1>14 DEF IInv

\* exception_dispatch returns, from a kernel exception or from task_queue_run.
LEMMA LeaveInv == IInv /\ (Leave \/ LeaveSync) => IInv'
<1> SUFFICES ASSUME IInv, Leave \/ LeaveSync PROVE IInv'
  OBVIOUS
<1>1. /\ handlers # <<>> /\ top.at \in {"running", "sync"}
      /\ handlers' = SubSeq(handlers, 1, Len(handlers) - 1)
      /\ exception_depth' = exception_depth - 1
      /\ UNCHANGED <<tasks, nesting, events, timer, uart>>
  BY DEF Leave, LeaveSync, At
<1>2. reschedule_pending' \in BOOLEAN
  <2>1. (reschedule_pending /\ ~MayPreempt(exception_depth - 1)) \in BOOLEAN
    OBVIOUS
  <2> QED BY <2>1 DEF Leave, LeaveSync, IInv, TypeOK
<1>3. /\ handlers' \in Seq(Handlers) /\ Len(handlers') = Len(handlers) - 1
      /\ DOMAIN handlers' = 1 .. Len(handlers) - 1
      /\ \A i \in DOMAIN handlers' : i \in DOMAIN handlers /\ handlers'[i] = handlers[i]
      /\ TaskAt' = TaskAt /\ EventAt' = EventAt /\ TimingAt' = TimingAt
      /\ Unmasked'
  BY <1>1, LeaveStack
<1>4. /\ exception_depth = Len(handlers) /\ Len(handlers) \in Nat
      /\ DOMAIN handlers = 1 .. Len(handlers) /\ Len(handlers) \in DOMAIN handlers
  BY <1>1, Types
<1>5. \A i \in TaskAt' : i \in DOMAIN handlers'
  BY DEF TaskAt
<1>6. \A i \in TimingAt' : i \in DOMAIN handlers'
  BY DEF TimingAt
<1>7. TasksRestore' /\ TasksDescend'
  BY <1>1, <1>3, <1>5, TasksKept
<1>8. RunningEvent'
  <2>1. \A i \in EventAt' : i \in DOMAIN handlers'
    BY DEF EventAt
  <2> QED BY <1>1, <1>3, <2>1, EventsKept DEF events
<1>9. TimerHandledOnce'
  BY <1>1, <1>3, <1>6, TimingKept
<1>10. CallbacksBelow'
  <2>1. \A i \in DOMAIN handlers' : i < Len(handlers) /\ handlers[i].at \in {"event", "task"}
    BY <1>3, <1>4 DEF IInv, CallbacksBelow
  <2>2. Len(handlers') > 0 => Len(handlers') \in DOMAIN handlers'
    BY <1>3, <1>4
  <2> QED BY <1>3, <1>4, <2>1, <2>2 DEF CallbacksBelow
<1>11. CauseKept'
  BY <1>3 DEF CauseKept, EveryIrqHandled, Unmasked, At, InThread
<1>12. QueueAccounting' /\ NoneUrgent'
  <2>1. QueueAccounting'
    BY <1>1 DEF IInv, QueueAccounting, tasks
  <2>2. NoneUrgent
    <3>1. CASE LeaveSync
      BY <3>1 DEF IInv, LeaveSync, At
    <3>2. CASE Leave
      <4> SUFFICES ASSUME NEW i \in DOMAIN pending_queue
                   PROVE  task_running /\ pending_queue[i] >= current_task_priority
        BY DEF NoneUrgent
      <4>1. /\ pending_queue \in Seq(Priorities) /\ current_task_priority \in Int
            /\ \A k \in DOMAIN pending_queue : pending_queue[k] \in Int
        BY DEF IInv, TypeOK, Priorities, UART_RX, UART_TX
      <4>2. pending_queue # <<>> /\ 1 \in DOMAIN pending_queue /\ Head(pending_queue) = pending_queue[1]
        BY <4>1
      <4>3. task_running /\ ~(pending_queue[1] < current_task_priority)
        BY <3>2, <4>2 DEF Leave, Urgent
      <4>4. pending_queue[1] <= pending_queue[i]
        BY <4>1, <4>2 DEF IInv, QueueAccounting
      <4> QED BY <4>1, <4>2, <4>3, <4>4
    <3> QED BY <3>1, <3>2
  <2>3. NoneUrgent'
    BY <1>1, <2>2 DEF NoneUrgent, tasks, nesting
  <2> QED BY <2>1, <2>3
<1>13. TypeOK'
  BY <1>1, <1>2, <1>3, <1>4 DEF IInv, TypeOK, tasks, nesting, events, timer, uart, receiver, transmitter
<1>14. \A p : Deferred(p) => Deferred(p)'
  BY <1>1, <1>3, <1>5 DEF Deferred, tasks
<1>15. NoLostWakeup'
  <2>1. TimingAt' # {} <=> TimingAt # {}
    BY <1>3
  <2> QED BY <1>1, <1>14, <2>1 DEF IInv, NoLostWakeup, TimingAt, Timing, timer, events, uart,
                                   receiver, transmitter
<1> QED BY <1>3, <1>7, <1>8, <1>9, <1>10, <1>11, <1>12, <1>13, <1>15 DEF IInv
-------------------------------------------------------------------------------
(* Theorems *)

\* Initially the inductive invariant holds.
LEMMA InitInv == Init => IInv
<1> SUFFICES ASSUME Init PROVE IInv
  OBVIOUS
<1>1. handlers = <<>> /\ DOMAIN handlers = {} /\ Len(handlers) = 0 /\ handlers \in Seq(Handlers)
  BY DEF Init
<1>2. TaskAt = {} /\ EventAt = {} /\ TimingAt = {}
  BY <1>1 DEF TaskAt, EventAt, TimingAt
<1>3. pending_queue = <<>> /\ DOMAIN pending_queue = {}
  BY DEF Init
<1>4. TypeOK
  <2>1. timer_enabled = (waiting_events # {})
    BY DEF Init
  <2>2. timer_enabled \in BOOLEAN
    BY <2>1
  <2>3. {timer_enabled, timer_due, rx_enabled, tx_enabled, rx_ready, tx_ready} \subseteq BOOLEAN
    BY <2>2 DEF Init
  <2>4. pending_queue \in Seq(Priorities) /\ running_events \in Seq(Events) /\ waiting_events \subseteq Events
    BY DEF Init, Events
  <2>5. /\ active_count \in 0 .. MaxTasks /\ cached_count \in 0 .. CacheSize
        /\ rx_count \in 0 .. RxSize /\ tx_count \in 0 .. TxSize
        /\ task_running \in BOOLEAN /\ current_task_priority \in {0} \cup Priorities
        /\ reschedule_pending \in BOOLEAN /\ exception_depth = 0
    <3>1. /\ active_count = 0 /\ cached_count = 0 /\ rx_count = 0 /\ tx_count = 0
          /\ current_task_priority = 0 /\ exception_depth = 0
      BY DEF Init
    <3>2. task_running \in BOOLEAN /\ reschedule_pending \in BOOLEAN
      BY DEF Init
    <3> QED BY <3>1, <3>2, TasksAssumption, RingAssumption
  <2> QED BY <1>1, <2>3, <2>4, <2>5 DEF TypeOK
<1>5. CallbacksBelow /\ TimerHandledOnce /\ RunningEvent
  BY <1>1, <1>2 DEF CallbacksBelow, TimerHandledOnce, RunningEvent, Init
<1>6. TasksRestore /\ TasksDescend
  BY <1>2 DEF TasksRestore, TasksDescend, Init
<1>7. CauseKept
  BY <1>1 DEF CauseKept, EveryIrqHandled, At
<1>8. QueueAccounting /\ NoneUrgent
  BY <1>3 DEF QueueAccounting, NoneUrgent, Init
<1>9. NoLostWakeup
  <2>1. /\ timer_enabled = (waiting_events # {})
        /\ tx_count = 0 /\ rx_enabled = TRUE
    BY DEF Init
  <2>2. waiting_events # {} => timer_enabled
    BY <2>1
  <2> QED BY <2>1, <2>2 DEF NoLostWakeup
<1> QED BY <1>4, <1>5, <1>6, <1>7, <1>8, <1>9 DEF IInv

\* Every step keeps the inductive invariant.
LEMMA StepInv == IInv /\ [Next]_vars => IInv'
<1> SUFFICES ASSUME IInv, [Next]_vars PROVE IInv'
  OBVIOUS
<1>1. CASE Hardware
  BY <1>1, HardwareInv
<1>2. CASE ThreadStep
  BY <1>2, ThreadStepInv, TakeInv DEF ThreadStep
<1>3. CASE TakeIrq
  BY <1>3, TakeInv
<1>4. CASE Masked
  BY <1>4, HandleTimerInv, RunExpiredInv, ProgramTimerInv, UartIrqInv, RunTaskInv, LeaveInv,
     PrintSyncInv DEF Masked
<1>5. CASE EventCallback \/ EventReturn
  BY <1>5, EventCallbackInv, EventReturnInv
<1>6. CASE TaskCallback \/ TaskReturn
  BY <1>6, TaskCallbackInv, TaskReturnInv
<1>7. CASE UNCHANGED vars
  <2>1. /\ UNCHANGED <<handlers, exception_depth, tasks, nesting, events, timer, receiver, transmitter>>
        /\ reschedule_pending' = reschedule_pending
    BY <1>7 DEF vars, uart
  <2>2. /\ TaskAt' = TaskAt /\ TimingAt' = TimingAt /\ EventAt' = EventAt
        /\ CallbacksBelow' /\ (At("running") => At("running")')
    BY <2>1, SameStack
  <2>3. /\ TasksRestore' /\ TasksDescend' /\ QueueAccounting' /\ (At("running")' \/ NoneUrgent')
        /\ \A p : Deferred(p)' <=> Deferred(p)
    BY <2>1, <2>2, QuietStep
  <2>4. TypeOK'
    BY <2>1 DEF IInv, TypeOK, tasks, nesting, events, timer, receiver, transmitter
  <2>5. TimerHandledOnce' /\ RunningEvent'
    BY <2>1, <2>2, TimingKept, EventsKept DEF events
  <2>6. CauseKept'
    BY <2>1, CauseSame DEF UartPending, timer, receiver, transmitter
  <2>7. NoLostWakeup'
    BY <2>1, <2>3 DEF IInv, NoLostWakeup, timer, events, receiver, transmitter
  <2> QED BY <2>2, <2>3, <2>4, <2>5, <2>6, <2>7 DEF IInv
<1> QED BY <1>1, <1>2, <1>3, <1>4, <1>5, <1>6, <1>7 DEF Next

\* The invariant the other theorems rest on: the stack consists of callbacks below one
\* handler, timer_handle_irq is active at most once, every task will restore what it found,
\* and no source is left off with nobody to switch it on.
THEOREM InductiveInvariant == Spec => []IInv
BY InitInv, StepInv, PTL DEF Spec

\* Everything below the innermost handler is a callback, callbacks of events do not nest,
\* and two priorities allow two tasks: four handlers.
LEMMA NestingFollows == IInv => NestingBounded
<1> SUFFICES ASSUME IInv PROVE NestingBounded
  OBVIOUS
<1>1. Len(handlers) \in Nat /\ DOMAIN handlers = 1 .. Len(handlers)
  BY Types
<1>2. \A i, j \in EventAt : i = j
  BY DEF IInv, TimerHandledOnce, EventAt, TimingAt, Timing
<1>3. \A i, j, k \in TaskAt : i < j /\ j < k => FALSE
  <2> SUFFICES ASSUME NEW i \in TaskAt, NEW j \in TaskAt, NEW k \in TaskAt, i < j, j < k
               PROVE  FALSE
    OBVIOUS
  <2>1. /\ handlers[i].priority \in {1, 2} /\ handlers[j].priority \in {1, 2}
        /\ handlers[k].priority \in {1, 2}
    BY Types DEF TaskAt, Handlers, Priorities, UART_RX, UART_TX
  <2>2. handlers[j].priority < handlers[i].priority /\ handlers[k].priority < handlers[j].priority
    BY DEF IInv, TasksDescend
  <2> QED BY <2>1, <2>2
<1>4. ~(Len(handlers) > 4)
  <2> SUFFICES ASSUME Len(handlers) > 4 PROVE FALSE
    OBVIOUS
  <2>1. \A i \in {1, 2, 3, 4} : i \in EventAt \/ i \in TaskAt
    BY <1>1 DEF IInv, CallbacksBelow, EventAt, TaskAt
  <2> QED BY <1>2, <1>3, <2>1
<1> QED BY <1>1, <1>2, <1>4 DEF NestingBounded

\* exception_dispatch and task_queue_run, for every number of events, tasks and bytes: a
\* nested interrupt starts only more urgent tasks, restores what it found, does not
\* exhaust the stack, and finds the cause of the interrupt it was taken for.
THEOREM NestingCorrect == Spec => []TasksNest
<1>1. IInv => TasksNest
  BY NestingFollows DEF IInv, TasksDescend, LastOf, CauseKept, TasksNest
<1> QED BY <1>1, InductiveInvariant, PTL

\* task_queue_run: whenever interrupts are unmasked, every pending task waits for a running
\* one of at least its urgency, for every capacity of the queue.
THEOREM UrgentFirst == Spec => []NothingUrgentWaits
<1>1. IInv => NothingUrgentWaits
  BY UnmaskedStack DEF IInv, NoneUrgent, NothingUrgentWaits
<1> QED BY <1>1, InductiveInvariant, PTL

\* mini_uart.c and timer.c: whatever the order of interrupts, a source that is off while
\* there is work for it has somebody who will switch it on.
THEOREM WakeupsKept == Spec => []NoLostWakeup
<1>1. IInv => NoLostWakeup
  BY DEF IInv
<1> QED BY <1>1, InductiveInvariant, PTL

\* The request for a switch is served only where exception_dispatch leaves the last handler.
LEMMA ServedByLeave ==
    ASSUME [Next]_vars, reschedule_pending, ~reschedule_pending'
    PROVE  Leave /\ exception_depth - 1 = 0
<1>1. CASE Leave
  BY <1>1 DEF Leave, MayPreempt
<1>2. CASE UNCHANGED vars
  BY <1>2 DEF vars
<1>3. CASE Hardware \/ ThreadStep \/ TakeIrq
  BY <1>3 DEF Hardware, TimerFires, ByteArrives, FifoDrains, ThreadStep, Getc, Putc, SetTimeout,
              StartPreemption, AddEvent, TakeSync, TakeIrq
<1>4. CASE Masked /\ ~Leave
  BY <1>4 DEF Masked, HandleTimer, RunExpired, ProgramTimer, HandleReceive, HandleTransmit,
              NoUartIrq, RunTask, PrintSync, LeaveSync
<1>5. CASE EventCallback \/ EventReturn \/ TaskCallback \/ TaskReturn
  BY <1>5 DEF EventCallback, SchedulingTick, PrintTimeout, EventReturn, TaskReturn, TaskCallback,
              ReceiveCopy, ReceiveTest, ReceiveEnable, TransmitCopy, TransmitTest, TransmitEnable
<1> QED BY <1>1, <1>2, <1>3, <1>4, <1>5 DEF Next

\* exception_dispatch and thread_preempt: no thread is switched inside a nested handler, a
\* task or an event.
THEOREM SwitchesCorrect == Spec => SwitchesOutermost
<1>1. ASSUME IInv, IInv', [Next]_vars, reschedule_pending, ~reschedule_pending'
      PROVE  handlers' = <<>> /\ ~task_running' /\ running_events' = <<>>
  <2>1. Leave /\ exception_depth - 1 = 0
    BY <1>1, ServedByLeave
  <2>2. exception_depth' = exception_depth - 1
    BY <2>1 DEF Leave
  <2>3. handlers' \in Seq(Handlers) /\ Len(handlers') = 0
    BY <1>1, <2>1, <2>2 DEF IInv, TypeOK
  <2>4. handlers' = <<>>
    BY <2>3
  <2>5. TaskAt' = {} /\ EventAt' = {}
    BY <2>4 DEF TaskAt, EventAt
  <2> QED BY <1>1, <2>4, <2>5 DEF IInv, TasksDescend, RunningEvent
<1>2. IInv /\ IInv' /\ [Next]_vars =>
        [reschedule_pending /\ ~reschedule_pending' =>
            handlers' = <<>> /\ ~task_running' /\ running_events' = <<>>]_vars
  BY <1>1
<1> QED BY <1>2, InductiveInvariant, PTL DEF Spec, SwitchesOutermost
===============================================================================
