-------------------------------- MODULE Thread --------------------------------
(***************************************************************************)
(* Lab5/c/src/thread.c with the syscalls of syscall.c that reach it and    *)
(* the preemption point of exception.c: creation, round-robin scheduling,  *)
(* fork, exec, kill, exit, deferred reclamation by the idle thread, user   *)
(* images shared by reference count, and POSIX-style signals.              *)
(*                                                                         *)
(* There is one core.  A function that masks interrupts for its whole body *)
(* is one step; a thread can be preempted between steps only in the phases *)
(* where its interrupts are unmasked.                                      *)
(***************************************************************************)
EXTENDS Integers, Sequences, FiniteSets

CONSTANTS Threads,     \* the heap blocks a created thread_t can occupy
          Boot, Idle,  \* boot_thread and idle_thread, which are static
          Images,      \* the heap blocks a loaded user image can occupy
          KernelText,  \* the code region of user threads without an image
          NULL,        \* the null pointer
          IdCount,     \* CONFIG_THREAD_ID_COUNT
          Signals,     \* the signal numbers in use, below CONFIG_SIGNAL_COUNT
          ReapLimit    \* CONFIG_THREAD_REAP_LIMIT

ASSUME ThreadsAssumption == Boot \notin Threads /\ Idle \notin Threads /\ Boot # Idle
ASSUME ImagesAssumption == KernelText \notin Images /\ NULL \notin Images \cup {KernelText}
ASSUME FiniteAssumption == IsFiniteSet(Threads)
ASSUME IdCountAssumption == IdCount \in Nat /\ IdCount >= 3 /\ IdCount <= 2^16
ASSUME SignalsAssumption == Signals \subseteq 1 .. 63
ASSUME ReapLimitAssumption == ReapLimit \in Nat \ {0}

SIGKILL == 9

All == Threads \cup {Boot, Idle}
Ids == 2 .. IdCount - 1         \* the IDs of created threads
Code == Images \cup {KernelText}
\* What a user exception frame tells apart: the code it resumes and whether that is
\* the program (0) or the handler of a signal.
Frames == [code : Code, at : {0} \cup Signals]
NoContext == [code |-> NULL, at |-> 0]   \* signal_context == NULL

(***************************************************************************)
(* Where a thread is:                                                      *)
(*   kernel   in a kernel thread function, interrupts unmasked             *)
(*   killing  in the masked loop of thread_kill_all_users                  *)
(*   user     at EL0                                                       *)
(*   syscall  in a system call that has not taken effect, unmasked         *)
(*   leaving  in a system call that has taken effect, unmasked             *)
(*   return   on the way back to EL0 from an interrupt, masked             *)
(***************************************************************************)
Phases == {"kernel", "killing", "user", "syscall", "leaving", "return"}
UserPhases == {"user", "syscall", "leaving", "return"}
Unmasked == {"kernel", "user", "syscall", "leaving"}

ThreadObjects == [state : {"free", "runnable", "dead"}, id : -1 .. IdCount - 1,
                  user : BOOLEAN, phase : Phases, image : Images \cup {NULL},
                  frame : Frames, handlers : [Signals -> Code \cup {NULL}],
                  pending : SUBSET Signals, context : Frames \cup {NoContext}]
Kinds == {"thread", "stack", "user_stack", "signal_context", "signal_stack"}

VARIABLES
    thread,              \* the thread_t of every block; "free" if not allocated
    current,             \* tpidr_el1
    run_queue,           \* the other runnable threads, the next one first
    zombies,             \* the dead threads whose memory idle has to free
    thread_ids,          \* the pool of free IDs, the oldest first (module IdPoolFifo)
    allocated_threads,   \* what thread_count() returns
    image_refs,          \* image->reference_count, 0 if the block is not allocated
    heap,                \* the allocated blocks that belong to created threads
    preemption_started,  \* the periodic tick is registered
    reaped               \* the loop counter of reap_zombies in the idle thread

queues == <<current, run_queue>>
storage == <<allocated_threads, image_refs, heap>>
idling == <<preemption_started, reaped>>
vars == <<thread, zombies, thread_ids, queues, storage, idling>>

cur == thread[current]
InQueue(q) == {q[i] : i \in DOMAIN q}
-------------------------------------------------------------------------------
(* Lists and the ID pool *)

\* list_remove on a list that holds t once: the others keep their order.
Without(q, t) == LET p == CHOOSE i \in DOMAIN q : q[i] = t
                 IN  [i \in 1 .. Len(q) - 1 |-> IF i < p THEN q[i] ELSE q[i + 1]]

\* id_pool_release: refuses an ID that is out of range or already free.
ReleaseId(pool, id) == IF id \in Ids \ InQueue(pool) THEN Append(pool, id) ELSE pool
-------------------------------------------------------------------------------
(* Thread objects *)

\* A freed block, and what memzero leaves of a new one.
Zeroed == [state |-> "free", id |-> -1, user |-> FALSE, phase |-> "kernel", image |-> NULL,
           frame |-> [code |-> KernelText, at |-> 0], handlers |-> [s \in Signals |-> NULL],
           pending |-> {}, context |-> NoContext]

\* thread_alloc and thread_create: starts in thread_start, which unmasks interrupts.
KernelThread(id) == [Zeroed EXCEPT !.state = "runnable", !.id = id]

\* The executable region of a thread: its image or the kernel text.
RegionOf(image) == IF image = NULL THEN KernelText ELSE image

\* thread_prepare_user and thread_set_user_frame: its first step is the common exception
\* return path, through thread_user_start.
UserThread(id, image) ==
    [Zeroed EXCEPT !.state = "runnable", !.id = id, !.user = TRUE, !.phase = "return",
                   !.image = image, !.frame = [code |-> RegionOf(image), at |-> 0]]

\* What thread_alloc allocates, with thread_prepare_user, and signal_context_create.
KernelBlocks(t) == {"thread", "stack"} \X {t}
UserBlocks(t) == {"thread", "stack", "user_stack"} \X {t}
SignalBlocks(t) == {"signal_context", "signal_stack"} \X {t}

\* signal_context_free frees nothing if there is no context.
ContextBlocks(t, object) == IF object.context # NoContext THEN SignalBlocks(t) ELSE {}

\* What thread_discard and reap_zombies free, according to the fields of the object.
BlocksOf(t, object) == (IF object.user THEN UserBlocks(t) ELSE KernelBlocks(t))
                       \cup ContextBlocks(t, object)

\* The heap after signal_context_create has failed: there was no memory for the context,
\* or none for its stack, and the context is freed.
ContextFails(t, blocks) == LET context == {<<"signal_context", t>>}
                           IN  {blocks, (blocks \cup context) \ context}

Unused == {t \in Threads : thread[t].state = "free"}

\* What thread_exit and thread_kill leave to idle: the blocks and the image.  The rest of
\* the object is never read again.
Buried(object) == [Zeroed EXCEPT !.state = "dead", !.user = object.user,
                                 !.image = object.image, !.context = object.context]
-------------------------------------------------------------------------------
(* The scheduler *)

\* Mutation: the previous thread is requeued whatever its state.
ScheduleRequeuesAnyone(table) ==
    LET q == Append(run_queue, current)
    IN  /\ current' = Head(q)
        /\ run_queue' = Tail(q)

\* Mutation: a yielding thread goes to the front of the queue.
ScheduleAddsFirst(table) ==
    LET q == IF table[current].state = "runnable" THEN <<current>> \o run_queue ELSE run_queue
    IN  /\ current' = Head(q)
        /\ run_queue' = Tail(q)

\* schedule: requeue the previous thread if it is runnable, switch to the first one.
Schedule(table) ==
    LET q == IF table[current].state = "runnable" THEN Append(run_queue, current) ELSE run_queue
    IN  /\ current' = Head(q)
        /\ run_queue' = Tail(q)

\* schedule() called by a kernel thread.
Yield == /\ cur.phase = "kernel"
         /\ current # Idle
         /\ Schedule(thread)
         /\ UNCHANGED <<thread, zombies, thread_ids, storage, idling>>

\* Mutation: the resumed thread does not pass the common return path.
PreemptToEl0 ==
    /\ preemption_started
    /\ cur.phase \in Unmasked
    /\ thread' = thread
    /\ Schedule(thread)
    /\ UNCHANGED <<zombies, thread_ids, storage, idling>>

\* The timer interrupt whose callback is scheduling_tick: the request it leaves is served
\* by thread_preempt at the exit of the outermost interrupt.  A thread interrupted at EL0
\* resumes in the common return path.
Preempt ==
    /\ preemption_started
    /\ cur.phase \in Unmasked
    /\ thread' = [thread EXCEPT ![current].phase = IF @ = "user" THEN "return" ELSE @]
    /\ Schedule(thread)
    /\ UNCHANGED <<zombies, thread_ids, storage, idling>>

\* thread_start_preemption by the boot thread, when the first attempt in main failed.
StartPreemption == /\ current = Boot
                   /\ cur.phase = "kernel"
                   /\ ~preemption_started
                   /\ preemption_started' = TRUE
                   /\ UNCHANGED <<thread, zombies, thread_ids, queues, storage, reaped>>
-------------------------------------------------------------------------------
(* Creation *)

\* user_image_load: a fresh block with one reference.
LoadImage(refs, i) == [refs EXCEPT ![i] = 1]

\* user_image_release: a block without references is freed.
ReleaseImage(refs, i) == IF i = NULL THEN refs ELSE [refs EXCEPT ![i] = @ - 1]

\* Mutation: the new thread is not counted.
PublishUncounted(table, t, object, taken) ==
    /\ thread' = [table EXCEPT ![t] = object]
    /\ run_queue' = Append(run_queue, t)
    /\ thread_ids' = Tail(thread_ids)
    /\ heap' = heap \cup taken
    /\ UNCHANGED <<allocated_threads, current, zombies, idling>>

\* A creation that has taken an ID and these blocks ends in thread_publish; table holds
\* the caller's own update of the thread objects.
Publish(table, t, object, taken) ==
    /\ thread' = [table EXCEPT ![t] = object]
    /\ run_queue' = Append(run_queue, t)
    /\ allocated_threads' = allocated_threads + 1
    /\ thread_ids' = Tail(thread_ids)
    /\ heap' = heap \cup taken
    /\ UNCHANGED <<current, zombies, idling>>

\* Mutation: thread_discard keeps the ID.
DiscardKeepsId(t, object, taken) ==
    /\ heap' = (heap \cup taken) \ BlocksOf(t, object)
    /\ image_refs' = ReleaseImage(image_refs, object.image)
    /\ thread_ids' = Tail(thread_ids)
    /\ UNCHANGED <<queues, zombies, allocated_threads, idling>>

\* Mutation: thread_discard forgets the user stack.
DiscardKeepsUserStack(t, object, taken) ==
    /\ heap' = (heap \cup taken) \ (BlocksOf(t, object) \ {<<"user_stack", t>>})
    /\ image_refs' = ReleaseImage(image_refs, object.image)
    /\ thread_ids' = ReleaseId(Tail(thread_ids), object.id)
    /\ UNCHANGED <<queues, zombies, allocated_threads, idling>>

\* A creation that has taken an ID and these blocks ends in thread_discard, which gives
\* back what the fields of the object name.
Discard(t, object, taken) ==
    /\ heap' = (heap \cup taken) \ BlocksOf(t, object)
    /\ image_refs' = ReleaseImage(image_refs, object.image)
    /\ thread_ids' = ReleaseId(Tail(thread_ids), object.id)
    /\ UNCHANGED <<queues, zombies, allocated_threads, idling>>

NextId == Head(thread_ids)

\* thread_alloc fails after it has taken an ID: there is no memory for the thread_t, or
\* none for its stack, and the thread_t is freed.
AllocFails ==
    /\ \E taken \in {{}} \cup {{<<"thread", t>>} : t \in Unused} : heap' = (heap \cup taken) \ taken
    /\ thread_ids' = ReleaseId(Tail(thread_ids), NextId)
    /\ UNCHANGED <<queues, zombies, allocated_threads, image_refs, idling>>

\* thread_prepare_user fails: there is no memory for the user stack.
PrepareFails(t) == Discard(t, KernelThread(NextId), KernelBlocks(t))

\* user_image_load fails: there is no such program or no memory for it.
LoadFails(t) == Discard(t, UserThread(NextId, NULL), UserBlocks(t))

\* A kernel thread between two calls of this module.
InKernel == cur.phase = "kernel" /\ current # Idle

\* thread_create, thread_create_user and thread_create_program; with no free ID they
\* change nothing.
ThreadCreate ==
    /\ InKernel
    /\ thread_ids # <<>>
    /\ \/ /\ \E t \in Unused : Publish(thread, t, KernelThread(NextId), KernelBlocks(t))
          /\ UNCHANGED image_refs
       \/ AllocFails /\ UNCHANGED thread

ThreadCreateUser ==
    /\ InKernel
    /\ thread_ids # <<>>
    /\ \/ /\ \E t \in Unused : Publish(thread, t, UserThread(NextId, NULL), UserBlocks(t))
          /\ UNCHANGED image_refs
       \/ (AllocFails \/ \E t \in Unused : PrepareFails(t)) /\ UNCHANGED thread

ThreadCreateProgram ==
    /\ InKernel
    /\ thread_ids # <<>>
    /\ \/ \E t \in Unused, i \in Images :
             /\ image_refs[i] = 0
             /\ image_refs' = LoadImage(image_refs, i)
             /\ Publish(thread, t, UserThread(NextId, i), UserBlocks(t))
       \/ /\ AllocFails \/ \E t \in Unused : PrepareFails(t) \/ LoadFails(t)
          /\ UNCHANGED thread
-------------------------------------------------------------------------------
(* Termination and reclamation *)

\* thread_terminate of a thread in the run queue, by the running thread whose own update
\* is in table.
Terminate(table, t) ==
    /\ thread' = [table EXCEPT ![t] = Buried(@)]
    /\ run_queue' = Without(run_queue, t)
    /\ zombies' = Append(zombies, t)
    /\ thread_ids' = ReleaseId(thread_ids, table[t].id)
    /\ UNCHANGED <<current, storage, idling>>

\* thread_exit, which leaves the heap with these blocks: the running thread ends and never
\* comes back.
Ends(blocks) ==
    LET table == [thread EXCEPT ![current] = Buried(@)]
    IN  /\ thread' = table
        /\ zombies' = Append(zombies, current)
        /\ thread_ids' = ReleaseId(thread_ids, cur.id)
        /\ Schedule(table)
        /\ heap' = blocks
        /\ UNCHANGED <<allocated_threads, image_refs, idling>>

\* Mutation: thread_exit frees its own stack.
ExitFreesStack == Ends(heap \ {<<"stack", current>>})

\* It frees nothing.
Exit == Ends(heap)

\* The entry function of a created kernel thread returns.
ThreadReturn == InKernel /\ current # Boot /\ Exit

\* thread_kill_all_users, interrupts masked: one queued user thread after the other.
KillAllUsers == /\ InKernel
                /\ thread' = [thread EXCEPT ![current].phase = "killing"]
                /\ UNCHANGED <<zombies, thread_ids, queues, storage, idling>>

QueuedUsers == {i \in DOMAIN run_queue : thread[run_queue[i]].user}

KillNextUser == /\ cur.phase = "killing"
                /\ \E i \in QueuedUsers : /\ \A j \in QueuedUsers : i <= j
                                          /\ Terminate(thread, run_queue[i])

AllUsersKilled == /\ cur.phase = "killing"
                  /\ QueuedUsers = {}
                  /\ thread' = [thread EXCEPT ![current].phase = "kernel"]
                  /\ UNCHANGED <<zombies, thread_ids, queues, storage, idling>>

\* One masked iteration of reap_zombies: the oldest zombie and all it owns are freed.
Reap ==
    /\ current = Idle
    /\ reaped < ReapLimit
    /\ zombies # <<>>
    /\ LET t == Head(zombies)
       IN  /\ heap' = heap \ BlocksOf(t, thread[t])
           /\ image_refs' = ReleaseImage(image_refs, thread[t].image)
           /\ thread' = [thread EXCEPT ![t] = Zeroed]
    /\ zombies' = Tail(zombies)
    /\ allocated_threads' = allocated_threads - 1
    /\ reaped' = reaped + 1
    /\ UNCHANGED <<thread_ids, queues, preemption_started>>

\* No zombie is left: the loop breaks.
ReapNone == /\ current = Idle
            /\ reaped < ReapLimit
            /\ zombies = <<>>
            /\ reaped' = ReapLimit
            /\ UNCHANGED <<thread, zombies, thread_ids, queues, storage, preemption_started>>

\* Mutation: the loop counter survives the turn.
IdleYieldKeepsCount == /\ current = Idle
                       /\ reaped = ReapLimit
                       /\ Schedule(thread)
                       /\ UNCHANGED <<thread, zombies, thread_ids, storage, idling>>

\* idle_entry calls schedule() and starts its next turn.
IdleYield == /\ current = Idle
             /\ reaped = ReapLimit
             /\ Schedule(thread)
             /\ reaped' = 0
             /\ UNCHANGED <<thread, zombies, thread_ids, storage, preemption_started>>
-------------------------------------------------------------------------------
(* System calls and signals of a user thread *)

\* The thread table after the running thread's system call took effect.
Served(changed) == [thread EXCEPT ![current] = [changed EXCEPT !.phase = "leaving"]]

\* svc at EL0: dispatch_sync_exception unmasks interrupts before the call.
Svc == /\ cur.phase = "user"
       /\ thread' = [thread EXCEPT ![current].phase = "syscall"]
       /\ UNCHANGED <<zombies, thread_ids, queues, storage, idling>>

\* Any other synchronous exception at EL0 terminates the thread.
Fault == cur.phase = "user" /\ Exit

\* getpid, UART and mailbox calls, unknown numbers, and every call that returns -1
\* before it changes anything.
SysNoEffect == /\ cur.phase = "syscall"
               /\ thread' = Served(cur)
               /\ UNCHANGED <<zombies, thread_ids, queues, storage, idling>>

SysExit == cur.phase = "syscall" /\ Exit

\* Mutation: the child has its parent's image before it is counted as a user.
CloneFailsSharing(t) == Discard(t, UserThread(NextId, cur.image), UserBlocks(t))

\* thread_clone_user_context fails: the user stack cannot be copied, there is no memory
\* for a copy of the suspended context, or the handler's stack cannot be copied.
CloneFails(t) ==
    LET child == UserThread(NextId, NULL)
    IN  \/ Discard(t, child, UserBlocks(t))
        \/ /\ cur.context # NoContext
           /\ \E taken \in ContextFails(t, UserBlocks(t)) : Discard(t, child, taken)
        \/ /\ cur.context # NoContext
           /\ Discard(t, [child EXCEPT !.context = cur.context], UserBlocks(t) \cup SignalBlocks(t))

\* thread_fork: the child shares the image and gets copies of both stacks, of the frame,
\* of the suspended pre-handler context and of the handlers, but no pending signal.
SysFork ==
    /\ cur.phase = "syscall"
    /\ thread_ids # <<>>
    /\ \/ \E t \in Unused :
             /\ Publish(Served(cur), t,
                        [UserThread(NextId, cur.image) EXCEPT
                            !.frame = cur.frame, !.handlers = cur.handlers, !.context = cur.context],
                        UserBlocks(t) \cup ContextBlocks(t, cur))
             /\ image_refs' = IF cur.image = NULL THEN image_refs
                              ELSE [image_refs EXCEPT ![cur.image] = @ + 1]
       \/ /\ AllocFails \/ \E t \in Unused : PrepareFails(t) \/ CloneFails(t)
          /\ thread' = Served(cur)

\* Mutation: exec keeps the handlers of the old image.
ExecKeepsHandlers(i) ==
    /\ cur.phase = "syscall"
    /\ image_refs[i] = 0
    /\ image_refs' = ReleaseImage(LoadImage(image_refs, i), cur.image)
    /\ heap' = heap \ ContextBlocks(current, cur)
    /\ thread' = Served([cur EXCEPT !.image = i, !.frame = [code |-> i, at |-> 0],
                                    !.pending = {}, !.context = NoContext])
    /\ UNCHANGED <<zombies, thread_ids, queues, allocated_threads, idling>>

\* thread_exec: the new program starts without handlers, pending signals and context.
SysExec(i) ==
    /\ cur.phase = "syscall"
    /\ image_refs[i] = 0
    /\ image_refs' = ReleaseImage(LoadImage(image_refs, i), cur.image)
    /\ heap' = heap \ ContextBlocks(current, cur)
    /\ thread' = Served([cur EXCEPT !.image = i, !.frame = [code |-> i, at |-> 0],
                                    !.handlers = Zeroed.handlers,
                                    !.pending = {}, !.context = NoContext])
    /\ UNCHANGED <<zombies, thread_ids, queues, allocated_threads, idling>>

\* Mutation: thread_kill does not protect kernel threads.
FindAny(id) == {t \in {current} \cup InQueue(run_queue) : id >= 2 /\ thread[t].id = id}

\* thread_find restricted to what the callers accept: a user thread with a created ID.
FindUser(id) == {t \in {current} \cup InQueue(run_queue) :
                    id >= 2 /\ thread[t].id = id /\ thread[t].user}

\* kill and the default action of SIGKILL: the running thread exits, another one ends
\* wherever it is, blocked in a system call included.
End(t) == IF t = current THEN Exit ELSE Terminate(Served(cur), t)

SysKill(id) == /\ cur.phase = "syscall"
               /\ \E t \in FindUser(id) : End(t)

\* thread_handler_valid
HandlerValid(handler) == handler \in {NULL, RegionOf(cur.image)}

SysSignalRegister(s, handler) ==
    /\ cur.phase = "syscall"
    /\ HandlerValid(handler)
    /\ thread' = Served([cur EXCEPT !.handlers[s] = handler])
    /\ UNCHANGED <<zombies, thread_ids, queues, storage, idling>>

\* thread_signal_send
SysSignalKill(id, s) ==
    /\ cur.phase = "syscall"
    /\ \E t \in FindUser(id) :
          IF s = SIGKILL /\ thread[t].handlers[s] = NULL
          THEN End(t)
          ELSE /\ thread' = [Served(cur) EXCEPT ![t].pending = @ \cup {s}]
               /\ UNCHANGED <<zombies, thread_ids, queues, storage, idling>>

\* thread_signal_return: back to the frame that the handler interrupted.
SysSigreturn ==
    /\ cur.phase = "syscall"
    /\ cur.context # NoContext
    /\ thread' = Served([cur EXCEPT !.frame = cur.context, !.context = NoContext])
    /\ heap' = heap \ ContextBlocks(current, cur)
    /\ UNCHANGED <<zombies, thread_ids, queues, allocated_threads, image_refs, idling>>

Returning == cur.user /\ cur.phase \in {"leaving", "return"}

\* The pending signals that thread_signal_deliver acts on; the others are dropped.
Actionable == {s \in cur.pending : cur.handlers[s] # NULL \/ s = SIGKILL}
Deliverable == IF cur.context = NoContext THEN Actionable ELSE {}

\* restore_exception_frame without a handler to enter.
ExceptionReturn ==
    /\ Returning
    /\ Deliverable = {}
    /\ thread' = [thread EXCEPT
          ![current].phase = "user",
          ![current].pending = IF cur.context = NoContext THEN {} ELSE @]
    /\ UNCHANGED <<zombies, thread_ids, queues, storage, idling>>

\* Mutation: entering a handler forgets the other pending signals.
EnterClearsPending(s) ==
    /\ thread' = [thread EXCEPT ![current] =
          [@ EXCEPT !.phase = "user", !.context = cur.frame, !.pending = {},
                    !.frame = [code |-> cur.handlers[s], at |-> s]]]
    /\ heap' = heap \cup SignalBlocks(current)
    /\ UNCHANGED <<zombies, thread_ids, queues, allocated_threads, image_refs, idling>>

\* The handler of s gets its own stack; signals up to s are no longer pending.
Enter(s) ==
    /\ thread' = [thread EXCEPT ![current] =
          [@ EXCEPT !.phase = "user", !.context = cur.frame,
                    !.pending = {p \in cur.pending : p > s},
                    !.frame = [code |-> cur.handlers[s], at |-> s]]]
    /\ heap' = heap \cup SignalBlocks(current)
    /\ UNCHANGED <<zombies, thread_ids, queues, allocated_threads, image_refs, idling>>

\* thread_signal_deliver: the lowest actionable signal.  SIGKILL without a handler, and
\* a handler whose context cannot be allocated, end the thread.
Deliver(s) ==
    /\ Returning
    /\ s \in Deliverable
    /\ \A p \in Deliverable : s <= p
    /\ \/ cur.handlers[s] = NULL /\ Exit
       \/ cur.handlers[s] # NULL /\ Enter(s)
       \/ /\ cur.handlers[s] # NULL
          /\ \E blocks \in ContextFails(current, heap) : Ends(blocks)
-------------------------------------------------------------------------------
\* After thread_init; preemption_started tells whether thread_start_preemption worked.
Init == /\ thread = [t \in All |-> IF t \in {Boot, Idle}
                                   THEN KernelThread(IF t = Boot THEN 0 ELSE 1)
                                   ELSE Zeroed]
        /\ current = Boot
        /\ run_queue = <<Idle>>
        /\ zombies = <<>>
        /\ thread_ids = [i \in 1 .. IdCount - 2 |-> i + 1]
        /\ allocated_threads = 0
        /\ image_refs = [i \in Images |-> 0]
        /\ heap = {}
        /\ preemption_started \in BOOLEAN
        /\ reaped = 0

Scheduling == Yield \/ Preempt \/ StartPreemption
KernelCalls == ThreadCreate \/ ThreadCreateUser \/ ThreadCreateProgram \/ ThreadReturn
               \/ KillAllUsers \/ KillNextUser \/ AllUsersKilled
Reclamation == Reap \/ ReapNone \/ IdleYield
SystemCalls == \/ SysNoEffect \/ SysExit \/ SysFork \/ SysSigreturn
               \/ \E i \in Images : SysExec(i)
               \/ \E id \in Ids : SysKill(id)
               \/ \E s \in Signals, handler \in Code \cup {NULL} : SysSignalRegister(s, handler)
               \/ \E id \in Ids, s \in Signals : SysSignalKill(id, s)
UserCode == Svc \/ Fault \/ ExceptionReturn \/ (\E s \in Signals : Deliver(s))

Next == Scheduling \/ KernelCalls \/ Reclamation \/ SystemCalls \/ UserCode
Spec == Init /\ [][Next]_vars
-------------------------------------------------------------------------------
(* Properties *)

\* Only user threads are at EL0 or on the way there; boot and idle are kernel threads.
Modes == /\ \A t \in All : thread[t].phase \in UserPhases => thread[t].user
         /\ ~thread[Boot].user /\ ~thread[Idle].user

Live == {t \in All : thread[t].state = "runnable"}
Dead == {t \in All : thread[t].state = "dead"}
Created == {t \in Threads : thread[t].state # "free"}
Distinct(q) == \A i, j \in DOMAIN q : q[i] = q[j] => i = j

\* Every variable has its type: in particular thread_count() never counts below zero or
\* above the blocks there are, and the pool never holds the IDs of boot and idle.
TypeOK ==
    /\ thread \in [All -> ThreadObjects]
    /\ current \in All
    /\ run_queue \in Seq(All)
    /\ zombies \in Seq(Threads)
    /\ thread_ids \in Seq(Ids)
    /\ allocated_threads = Cardinality(Created)
    /\ image_refs \in [Images -> Int]
    /\ heap \subseteq Kinds \X Threads
    /\ preemption_started \in BOOLEAN
    /\ reaped \in 0 .. ReapLimit

\* The lists partition the threads: the running thread is runnable and in no list, every
\* other runnable thread is in the run queue once, every dead thread in zombies once.  It
\* is what lets schedule, thread_find and reap_zombies work on the lists alone, and what
\* keeps the run queue from running empty.
QueueIntegrity ==
    /\ current \in Live
    /\ Distinct(run_queue) /\ InQueue(run_queue) = Live \ {current}
    /\ Distinct(zombies) /\ InQueue(zombies) = Dead
    /\ {Boot, Idle} \subseteq Live

\* Every created ID is either free or held by exactly one runnable thread, from creation
\* to exit: none is lost by an error path or a kill, none is given out twice.
IdAccounting ==
    /\ Distinct(thread_ids)
    /\ InQueue(thread_ids) = Ids \ {thread[t].id : t \in Live}
    /\ \A t, u \in Live : thread[t].id = thread[u].id => t = u
    /\ \A t \in Live \cap Threads : thread[t].id \in Ids
    /\ thread[Boot].id = 0 /\ thread[Idle].id = 1
    /\ \A t \in Dead : thread[t].id = -1

\* The reference count of an image is the number of threads that use it, dead ones that
\* idle has not reclaimed included: over fork, exec and exit no image is freed under a
\* thread that runs in it and none is leaked.
ImageAccounting ==
    \A i \in Images : image_refs[i] = Cardinality({t \in Created : thread[t].image = i})

\* The heap holds exactly the blocks that the created threads own: no error path of a
\* creation, no exec, sigreturn, exit or kill leaks or frees a block of another thread.
MemoryAccounting == heap = UNION {BlocksOf(t, thread[t]) : t \in Created}

\* A live user thread resumes in its own program or in a handler of its own program, a
\* handler runs exactly while the interrupted frame is saved, handlers do not nest, and
\* what sigreturn will restore is the program: across exec, fork and delivery.
OwnContext ==
    \A t \in Live : LET me == thread[t] IN
        me.user =>
            /\ me.frame.code = RegionOf(me.image)
            /\ me.frame.at # 0 <=> me.context # NoContext
            /\ me.context # NoContext => me.context = [code |-> RegionOf(me.image), at |-> 0]
            /\ \A s \in Signals : me.handlers[s] \in {NULL, RegionOf(me.image)}

\* A user thread never runs program code while a signal is pending for it: whatever was
\* sent while it was switched out or in a system call is handled before it is back at EL0.
NothingPendingAtEl0 ==
    \A t \in Live : thread[t].phase = "user" /\ thread[t].context = NoContext
                       => thread[t].pending = {}

\* The thread_t and the stacks of a thread are freed by the idle thread only, after the
\* thread is dead: no thread runs on a stack that is already free.
OnlyIdleFrees ==
    [][\A t \in Threads :
          (heap \ heap') \cap ({"thread", "stack", "user_stack"} \X {t}) # {}
              => current = Idle /\ thread[t].state = "dead"]_vars

\* A pending signal whose handler is registered is not lost while the thread lives: it
\* stays pending until its handler is entered, or exec replaces the program.
PendingKept ==
    [][\A t \in Threads : \A s \in thread[t].pending \ thread'[t].pending :
          \/ thread[t].handlers[s] = NULL
          \/ thread'[t].state # "runnable"
          \/ thread'[t].image # thread[t].image
          \/ thread'[t].frame.at = s /\ thread'[t].context = thread[t].frame]_vars

LiveIds(user) == {thread[t].id : t \in {u \in Live \cap Threads : thread[u].user = user}}

\* The module implements the table of IDs that thread.h describes.
Table == INSTANCE ProcessTable WITH running <- thread[current].id,
                                    kernels <- LiveIds(FALSE),
                                    users <- LiveIds(TRUE),
                                    outstanding <- allocated_threads
ImplementsProcessTable == Table!Spec

\* Fairness: a tick that comes while interrupts are masked stays pending and is taken as
\* soon as they are not; masked code finishes; idle gets on whenever it runs, since a
\* tick interval (1/32 s) is far longer than a reap.
Fairness == /\ SF_vars(Preempt)
            /\ WF_vars(KillNextUser) /\ WF_vars(AllUsersKilled)
            /\ WF_vars(ExceptionReturn) /\ WF_vars(\E s \in Signals : Deliver(s))
            /\ SF_vars(Reclamation)
InitPreempting == Init /\ preemption_started
LiveSpec == InitPreempting /\ [][Next]_vars /\ Fairness

\* Idle eventually reclaims every dead thread, whatever the others do.
ZombiesReclaimed == \A t \in Threads : thread[t].state = "dead" ~> thread[t].state = "free"

\* A runnable thread eventually runs or is terminated: a user thread that never yields
\* does not keep the others from running.
NoStarvation == \A t \in Threads : t \in Live ~> (t = current \/ t \notin Live)
===============================================================================
