--------------------------------- MODULE Timer ---------------------------------
(***************************************************************************)
(* timer.c of Lab5/c with its clock: requests, deadlines, the one-shot     *)
(* countdown of the hardware, the callbacks that run unmasked inside the   *)
(* handler, and the ownership of IDs, storage and callback arguments.      *)
(*                                                                         *)
(* Callers are the thread the kernel runs and the callbacks, both          *)
(* unmasked: they may add and stop events as timer.h offers it, and an     *)
(* event added by a callback can raise the interrupt again before that     *)
(* callback has returned.  Masked code is one step up to its next reading  *)
(* of the counter, which moves on between any two steps; only Add reads it *)
(* twice, and lets it move on in between.                                  *)
(***************************************************************************)
EXTENDS Integers, Sequences, FiniteSets

CONSTANTS MaxCounter,     \* UINT64_MAX
          MaxTval,        \* INT32_MAX, the longest countdown the hardware takes
          Frequency,      \* CNTFRQ_EL0, ticks per second
          MsPerSecond,    \* 1000
          Ids,            \* 2 .. CONFIG_TIMER_MAX_EVENTS + 1
          CacheSize,      \* CONFIG_TIMER_EVENT_CACHE_SIZE
          Arguments,      \* the heap blocks callers pass as args
          NoArgument,     \* NULL
          Requests,       \* the units and durations callers ask for
          Horizon         \* bound: the last value of the counter a run looks at

ASSUME CounterAssumption == MaxCounter \in Nat /\ MaxTval \in Nat \ {0} /\ Horizon \in 0 .. MaxCounter
\* The products of a fraction of a second fit in the counter's width.
ASSUME FrequencyAssumption == /\ Frequency \in 1 .. MaxCounter
                              /\ MsPerSecond \in Nat \ {0}
                              /\ MsPerSecond * MsPerSecond <= MaxCounter + 1
ASSUME IdsAssumption == IsFiniteSet(Ids) /\ Ids \subseteq Nat \ {0, 1}
ASSUME CacheAssumption == CacheSize \in Nat
ASSUME ArgumentsAssumption == NoArgument \notin Arguments
Units == {"TICKS", "MILLISECONDS", "SECONDS"}
ASSUME RequestsAssumption == Requests \subseteq Units \X (1 .. MaxCounter)

Counters == 0 .. MaxCounter
\* timer_event_t; the callback itself is not told apart.
TimerEvents == [id : Ids, expires_at : Counters, interval_ticks : Counters,
                args : Arguments \cup {NoArgument}]

VARIABLES
    counter_frequency,    \* 0 until timer_init has succeeded
    waiting_events,       \* in the order of their deadlines
    running_events,       \* whose callbacks are active, the innermost last
    free_ids,             \* the free list of event_ids, oldest first
    cached_count,         \* the event objects kept in free_events
    handler,              \* what the innermost code does: "unmasked" in a callback or in
                          \* the thread, "expiring" or "programming" in timer_handle_irq
    enabled, compare,     \* CNTP_CTL_EL0, and CNTP_CVAL_EL0 or 0 while it is disabled
    now,                  \* CNTPCT_EL0
    owned_args,           \* history: the arguments handed over and not freed yet
    stopped               \* history: the active IDs timer_stop_periodic was called with

lists == <<waiting_events, running_events>>
pools == <<free_ids, cached_count, owned_args>>
hardware == <<enabled, compare>>
vars == <<counter_frequency, lists, pools, handler, hardware, now, stopped>>

Linked == {waiting_events[k] : k \in DOMAIN waiting_events}
            \cup {running_events[k] : k \in DOMAIN running_events}
Unmasked == handler = "unmasked"
Capped(n) == n % (MaxCounter + 1)
-------------------------------------------------------------------------------
(* Numbers *)

\* Mutation: a fraction of a tick is dropped.
TicksDown(unit, duration, frequency) ==
    IF unit = "TICKS" THEN duration
    ELSE LET seconds == IF unit = "SECONDS" THEN duration ELSE duration \div MsPerSecond
             remainder == IF unit = "SECONDS" THEN 0 ELSE duration % MsPerSecond
             fraction == Capped(remainder * (frequency \div MsPerSecond)
                                  + (remainder * (frequency % MsPerSecond)) \div MsPerSecond)
         IN IF seconds > (MaxCounter - fraction) \div frequency THEN -1
            ELSE Capped(seconds * frequency + fraction)

\* timer_duration_to_ticks, -1 for its false: in unsigned arithmetic of the counter's width.
Ticks(unit, duration, frequency) ==
    IF unit = "TICKS" THEN duration
    ELSE LET seconds == IF unit = "SECONDS" THEN duration ELSE duration \div MsPerSecond
             remainder == IF unit = "SECONDS" THEN 0 ELSE duration % MsPerSecond
             fraction == Capped(Capped(remainder * (frequency \div MsPerSecond))
                                  + Capped(remainder * (frequency % MsPerSecond) + MsPerSecond - 1)
                                      \div MsPerSecond)
         IN IF seconds > (MaxCounter - fraction) \div frequency THEN -1
            ELSE Capped(seconds * frequency + fraction)

\* Mutation: the next deadline is a plain sum.
Wrapped(ticks) == Capped(now + ticks)

\* The deadline of a periodic event whose callback has returned.
Saturated(ticks) == IF ticks > MaxCounter - now THEN MaxCounter ELSE now + ticks
-------------------------------------------------------------------------------
(* The lists and the hardware countdown *)

\* Mutation: the event is put before those with its deadline, and before the first one.
InsertFirst(queue, event) == <<event>> \o queue

\* timer_insert_event: before the first event with a later deadline.
Insert(queue, event) ==
    LET later == {k \in DOMAIN queue : queue[k].expires_at > event.expires_at}
        k == IF later = {} THEN Len(queue) + 1 ELSE CHOOSE j \in later : \A l \in later : j <= l
    IN SubSeq(queue, 1, k - 1) \o <<event>> \o SubSeq(queue, k, Len(queue))

\* Mutation: a deadline that has passed gives no countdown.
ProgramFuture(queue, counter) ==
    IF queue = <<>> \/ Head(queue).expires_at <= counter THEN enabled' = FALSE /\ compare' = 0
    ELSE LET delta == Head(queue).expires_at - counter
         IN enabled' = TRUE /\ compare' = counter + IF delta > MaxTval THEN MaxTval ELSE delta

\* timer_program_next_event when it reads this value of the counter: at most MaxTval ticks
\* ahead, one tick for a deadline that has passed.
Program(queue, counter) ==
    IF queue = <<>> THEN enabled' = FALSE /\ compare' = 0
    ELSE LET expires_at == Head(queue).expires_at
             delta == IF expires_at > counter THEN expires_at - counter ELSE 1
         IN enabled' = TRUE /\ compare' = counter + IF delta > MaxTval THEN MaxTval ELSE delta
-------------------------------------------------------------------------------
(* Callers *)

\* The first use of the ID pool and of the frequency; it fails without memory for the pool.
TimerInit == /\ counter_frequency = 0
             /\ counter_frequency' = Frequency
             /\ enabled' = FALSE /\ compare' = 0
             /\ UNCHANGED <<lists, pools, handler, now, stopped>>

\* Mutation: a failed allocation keeps its ID.
AllocFailsLeaks == /\ cached_count = 0 /\ free_ids # <<>>
                   /\ free_ids' = Tail(free_ids)
                   /\ UNCHANGED <<cached_count, owned_args>>

\* timer_alloc_event without memory for a new object: the ID goes back, to the list's end.
AllocFails == /\ cached_count = 0 /\ free_ids # <<>>
              /\ free_ids' = Append(Tail(free_ids), Head(free_ids))
              /\ UNCHANGED <<cached_count, owned_args>>

AddFails == /\ Unmasked /\ counter_frequency # 0
            /\ AllocFails
            /\ UNCHANGED <<counter_frequency, lists, handler, hardware, now, stopped>>

\* timer_add_timeout after its checks.  The deadline is counted from one reading of the
\* counter, the countdown from a later one.
Add(ticks, periodic, args) ==
    /\ Unmasked /\ counter_frequency # 0
    /\ ticks # -1 /\ ticks <= MaxCounter - now
    /\ free_ids # <<>>
    /\ LET event == [id |-> Head(free_ids), expires_at |-> now + ticks,
                     interval_ticks |-> IF periodic THEN ticks ELSE 0, args |-> args]
       IN /\ waiting_events' = Insert(waiting_events, event)
          /\ now' \in now .. Horizon
          /\ IF waiting_events'[1] = event THEN Program(waiting_events', now') ELSE UNCHANGED hardware
    /\ free_ids' = Tail(free_ids)
    /\ cached_count' = IF cached_count > 0 THEN cached_count - 1 ELSE 0
    /\ owned_args' = owned_args \cup ({args} \ {NoArgument})
    /\ UNCHANGED <<counter_frequency, running_events, handler, stopped>>

\* The block passed is the caller's: allocated, and no other event's.
TimerAddTimeout ==
    \E request \in Requests, periodic \in BOOLEAN,
       args \in (Arguments \ owned_args) \cup {NoArgument} :
        Add(Ticks(request[1], request[2], Frequency), periodic, args)

Once(queue, id) ==
    [k \in DOMAIN queue |-> IF queue[k].id = id THEN [queue[k] EXCEPT !.interval_ticks = 0] ELSE queue[k]]

\* Mutation: only the waiting list is searched.
StopWaiting(id) == /\ waiting_events' = Once(waiting_events, id)
                   /\ UNCHANGED running_events

\* timer_stop_periodic: the event is looked for among the waiting and then the running ones.
Stop(id) == /\ waiting_events' = Once(waiting_events, id)
            /\ running_events' = IF \E k \in DOMAIN waiting_events : waiting_events[k].id = id
                                   THEN running_events ELSE Once(running_events, id)

TimerStopPeriodic(id) ==
    /\ Unmasked
    /\ Stop(id)
    /\ stopped' = IF \E event \in Linked : event.id = id THEN stopped \cup {id} ELSE stopped
    /\ UNCHANGED <<counter_frequency, pools, handler, hardware, now>>
-------------------------------------------------------------------------------
(* The interrupt *)

\* timer_handle_irq up to the loop.
TakeIrq == /\ Unmasked /\ enabled /\ now >= compare
           /\ handler' = "expiring"
           /\ enabled' = FALSE /\ compare' = 0
           /\ UNCHANGED <<counter_frequency, lists, pools, now, stopped>>

\* The head of the list has expired: its callback is called with interrupts enabled.
RunExpired == /\ handler = "expiring" /\ waiting_events # <<>>
              /\ Head(waiting_events).expires_at <= now
              /\ waiting_events' = Tail(waiting_events)
              /\ running_events' = Append(running_events, Head(waiting_events))
              /\ handler' = "unmasked"
              /\ UNCHANGED <<counter_frequency, pools, hardware, now, stopped>>

NoneExpired == /\ handler = "expiring"
               /\ waiting_events # <<>> => Head(waiting_events).expires_at > now
               /\ handler' = "programming"
               /\ UNCHANGED <<counter_frequency, lists, pools, hardware, now, stopped>>

\* The countdown is started again and the interrupted code, a callback or the thread, goes on.
ProgramAndReturn == /\ handler = "programming"
                    /\ Program(waiting_events, now)
                    /\ handler' = "unmasked"
                    /\ UNCHANGED <<counter_frequency, lists, pools, now, stopped>>

\* Mutation: the arguments of an event that runs again are freed as well.
FreeOrKeepArgs(event) ==
    /\ free_ids' = IF event.interval_ticks # 0 THEN free_ids ELSE Append(free_ids, event.id)
    /\ cached_count' = IF event.interval_ticks = 0 /\ cached_count < CacheSize
                         THEN cached_count + 1 ELSE cached_count
    /\ owned_args' = owned_args \ {event.args}

\* timer_free_event for an event without another invocation.
Free(event) ==
    IF event.interval_ticks # 0 THEN UNCHANGED pools
    ELSE /\ owned_args' = owned_args \ {event.args}
         /\ free_ids' = Append(free_ids, event.id)
         /\ cached_count' = IF cached_count < CacheSize THEN cached_count + 1 ELSE cached_count

\* The innermost callback returns.
CallbackReturns ==
    /\ Unmasked /\ running_events # <<>>
    /\ LET event == running_events[Len(running_events)]
       IN /\ running_events' = SubSeq(running_events, 1, Len(running_events) - 1)
          /\ waiting_events' =
                IF event.interval_ticks = 0 THEN waiting_events
                ELSE Insert(waiting_events,
                            [event EXCEPT !.expires_at = Saturated(event.interval_ticks)])
          /\ Free(event)
          /\ stopped' = IF event.interval_ticks = 0 THEN stopped \ {event.id} ELSE stopped
    /\ handler' = "expiring"
    /\ UNCHANGED <<counter_frequency, hardware, now>>

\* The counter.
TimePasses == /\ now < Horizon
              /\ now' = now + 1
              /\ UNCHANGED <<counter_frequency, lists, pools, handler, hardware, stopped>>

Init == /\ counter_frequency = 0
        /\ waiting_events = <<>> /\ running_events = <<>>
        /\ free_ids \in {s \in [1 .. Cardinality(Ids) -> Ids] :
                            \A i, j \in 1 .. Cardinality(Ids) : i < j => s[i] < s[j]}
        /\ cached_count = 0
        /\ handler = "unmasked"
        /\ enabled = FALSE /\ compare = 0
        /\ now = 0
        /\ owned_args = {} /\ stopped = {}

Handling == TakeIrq \/ RunExpired \/ NoneExpired \/ ProgramAndReturn \/ CallbackReturns

Next == \/ TimerInit \/ TimerAddTimeout \/ AddFails
        \/ \E id \in Ids : TimerStopPeriodic(id)
        \/ Handling \/ TimePasses

Spec == Init /\ [][Next]_vars
-------------------------------------------------------------------------------
(* Properties *)

\* The variables keep their types.
TypeOK == /\ counter_frequency \in {0, Frequency}
          /\ waiting_events \in Seq(TimerEvents) /\ running_events \in Seq(TimerEvents)
          /\ free_ids \in Seq(Ids)
          /\ cached_count \in 0 .. CacheSize
          /\ handler \in {"unmasked", "expiring", "programming"}
          /\ enabled \in BOOLEAN
          /\ compare \in 0 .. Horizon + MaxTval
          /\ now \in 0 .. Horizon
          /\ owned_args \subseteq Arguments /\ stopped \subseteq Ids

\* Whenever the kernel runs threads, the countdown is on and ends no later than the deadline
\* of every waiting event, or one tick from now for those that are overdue: timer_add_timeout
\* programs only for a new head, callbacks add events while the countdown is off, and a
\* distant deadline is reached in several countdowns.
ArmedInTime == Unmasked /\ running_events = <<>> =>
                 \A k \in DOMAIN waiting_events :
                    /\ enabled
                    /\ compare <= now + 1 \/ compare <= waiting_events[k].expires_at

\* No two events that wait or run have one ID, the other IDs are free, and free once; an
\* argument handed over belongs to exactly one of these events and is kept as long: it is
\* freed when the last callback has returned, and neither twice nor never.
EventsExact ==
    LET size == Len(waiting_events) + Len(running_events)
        ids == {event.id : event \in Linked}
    IN /\ TypeOK
       /\ Cardinality(ids) = size
       /\ Len(free_ids) = Cardinality(Ids) - size
       /\ {free_ids[k] : k \in DOMAIN free_ids} = Ids \ ids
       /\ \A e, f \in Linked : e.args = f.args /\ e.args # NoArgument => e = f
       /\ owned_args = {event.args : event \in Linked} \ {NoArgument}

\* An event timer_stop_periodic has found is not queued again when its callback returns, even
\* if that callback was active, or was the caller.
StopIsFinal ==
    [][\A id \in stopped :
        (\E k \in DOMAIN running_events : running_events[k].id = id)
          => ~ \E k \in DOMAIN waiting_events' : waiting_events'[k].id = id]_vars

\* The conversion gives the exact number of ticks rounded up, or fails exactly if the
\* counter cannot hold it, whatever its intermediate results.
TicksExact ==
    \A unit \in Units, duration \in 1 .. MaxCounter, frequency \in 1 .. MaxCounter :
        LET parts == IF unit = "MILLISECONDS" THEN MsPerSecond ELSE 1
            exact == IF unit = "TICKS" THEN duration
                     ELSE (duration * frequency + parts - 1) \div parts
        IN Ticks(unit, duration, frequency) = IF exact <= MaxCounter THEN exact ELSE -1

\* No deadline wraps: the conversion is exact, and an event that repeats waits as long as it
\* asked or until the end of the counter.
DeadlinesExact == /\ TicksExact
                  /\ \A event \in Linked : event.expires_at >= event.interval_ticks
===============================================================================
