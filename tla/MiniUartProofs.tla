---------------------------- MODULE MiniUartProofs ----------------------------
(***************************************************************************)
(* The rings of mini_uart.c, whatever their capacity and that of the task  *)
(* queue.  The receive ring loses, repeats and reorders nothing, whatever  *)
(* interrupts the receive task: one side only writes tail, the other only  *)
(* head, a slot between them is written before tail passes it, and no two  *)
(* are on the same side at once.  In the transmit ring both sides write    *)
(* head; it is exact as long as none does so while the task is taking a    *)
(* byte off it, and so as long as no timer callback prints.                *)
(***************************************************************************)
EXTENDS MiniUart, SequenceTheorems, TLAPS
-------------------------------------------------------------------------------
(* Who works on a ring.  The right to do so goes from the enabled source to a queued task or  *)
(* to the handler that runs the task itself, from the queued task to the running one, and     *)
(* from these back to the source.                                                             *)

Tasks == {"rx", "tx"}
InlineOf(t) == IF t = "rx" THEN "rx_inline" ELSE "tx_inline"
Frames == Tasks \cup {"callback", "rx_inline", "tx_inline"}
Inlines == {"rx_inline", "tx_inline"}

On(stack, x) == \E i \in 1 .. Len(stack) : stack[i] = x
Distinct(stack) == \A i, j \in 1 .. Len(stack) : stack[i] = stack[j] => i = j

\* No task that the handler runs itself, which would keep interrupts masked.
Open(stack) == \A x \in Inlines : ~On(stack, x)

\* No frame twice, a masked one only on top, and every queued task waits for one on the stack.
StackOK ==
    /\ active \in Seq(Frames) /\ queued \in [Tasks -> Nat]
    /\ Distinct(active)
    /\ Unmasked => Open(active)
    /\ active # <<>> => Open(SubSeq(active, 1, Len(active) - 1))
    /\ \A t \in Tasks : queued[t] > 0 => \E x \in Blocking(t) : On(active, x)

\* The source of a task, where the task is, and whether it still has to see to its ring.
Enabled(t) == IF t = "rx" THEN rx_enabled ELSE tx_enabled
Place(t) == IF t = "rx" THEN rx_task.at ELSE tx_task.at
Working(t) == On(active, t) /\ Place(t) # "return"

\* At most one of the source, the queue, the task and the handler has the right; a task that is
\* not on the stack is at its beginning.
OneHolds(t) ==
    /\ Enabled(t) => queued[t] = 0 /\ ~Working(t) /\ ~On(active, InlineOf(t))
    /\ queued[t] > 0 => queued[t] = 1 /\ ~Working(t) /\ ~On(active, InlineOf(t))
    /\ Working(t) => ~On(active, InlineOf(t))
Rests(t) == ~On(active, t) => Place(t) = "check"

\* The frame on top.
Top == active[Len(active)]

\* A frame put on the stack.
LEMMA AppendFacts ==
    ASSUME NEW s \in Seq(Frames), NEW x \in Frames
    PROVE  /\ Append(s, x) \in Seq(Frames) /\ Append(s, x) # <<>>
           /\ Append(s, x)[Len(Append(s, x))] = x
           /\ SubSeq(Append(s, x), 1, Len(Append(s, x)) - 1) = s
           /\ \A y : On(Append(s, x), y) <=> On(s, y) \/ y = x
           /\ Distinct(s) /\ ~On(s, x) => Distinct(Append(s, x))
  <1> DEFINE t == Append(s, x)
  <1>1. /\ t \in Seq(Frames) /\ Len(t) = Len(s) + 1 /\ t[Len(s) + 1] = x
        /\ \A i \in 1 .. Len(s) : t[i] = s[i]
        /\ Len(s) \in Nat
    OBVIOUS
  <1>2. SubSeq(t, 1, Len(t) - 1) = s
    BY <1>1
  <1>3. \A y : On(t, y) <=> On(s, y) \/ y = x
    BY <1>1 DEF On
  <1>4. Distinct(s) /\ ~On(s, x) => Distinct(t)
    BY <1>1 DEF Distinct, On
  <1> QED
    BY <1>1, <1>2, <1>3, <1>4

\* The frame on top taken off.
LEMMA PopFacts ==
    ASSUME NEW s \in Seq(Frames), s # <<>>, Distinct(s)
    PROVE  LET p == SubSeq(s, 1, Len(s) - 1)
           IN  /\ p \in Seq(Frames) /\ Distinct(p)
               /\ \A y : On(p, y) <=> On(s, y) /\ y # s[Len(s)]
  <1> DEFINE p == SubSeq(s, 1, Len(s) - 1)
  <1>1. Len(s) \in Nat /\ Len(s) > 0
    OBVIOUS
  <1>2. /\ Len(p) = Len(s) - 1 /\ p \in Seq(Frames)
        /\ \A i \in 1 .. Len(s) - 1 : p[i] = s[i]
    <2>1. \A i \in 1 .. Len(s) - 1 : s[i] \in Frames
      BY <1>1
    <2>2. /\ p \in Seq(Frames)
          /\ Len(p) = IF 1 <= Len(s) - 1 THEN Len(s) - 1 - 1 + 1 ELSE 0
          /\ \A i \in 1 .. Len(s) - 1 - 1 + 1 : p[i] = s[1 + i - 1]
      BY <1>1, <2>1, SubSeqProperties
    <2>3. Len(s) - 1 - 1 + 1 = Len(s) - 1 /\ \A i \in 1 .. Len(s) - 1 : 1 + i - 1 = i
      BY <1>1
    <2> HIDE DEF p
    <2>4. Len(p) = Len(s) - 1
      <3> DEFINE n == Len(s)
      <3>1. n \in Nat /\ n > 0 /\ Len(p) = IF 1 <= n - 1 THEN n - 1 - 1 + 1 ELSE 0
        BY <1>1, <2>2
      <3> HIDE DEF n
      <3>2. Len(p) = n - 1
        BY <3>1
      <3> QED
        BY <3>2 DEF n
    <2> QED
      BY <2>2, <2>3, <2>4
  <1>3. Distinct(p)
    BY <1>1, <1>2 DEF Distinct
  <1>4. \A y : On(p, y) <=> On(s, y) /\ y # s[Len(s)]
    BY <1>1, <1>2 DEF Distinct, On
  <1> QED
    BY <1>2, <1>3, <1>4

\* What starts is "none", or a queued task that nothing on the stack keeps from running.
Starts(stack, queue, started) ==
    /\ started \in Tasks \cup {"none"}
    /\ started # "none" => queue[started] > 0 /\ ~On(stack, started)
    /\ active' = IF started = "none" THEN stack ELSE Append(stack, started)
    /\ queued' = [t \in Tasks |-> IF t = started THEN queue[t] - 1 ELSE queue[t]]

\* task_queue_run leaves no queued task that nothing on the stack keeps from running.
LEMMA DispatchFacts ==
    ASSUME NEW stack \in Seq(Frames), NEW queue \in [Tasks -> Nat], NEW nodes,
           Distinct(stack), Open(stack), Dispatch(stack, queue, nodes)
    PROVE  /\ StackOK'
           /\ \E started : Starts(stack, queue, started)
  <1> DEFINE urgent == Urgent(stack, queue)
  <1>1. \A t \in Tasks : t \in urgent <=> queue[t] > 0 /\ \A x \in Blocking(t) : ~On(stack, x)
    BY DEF Urgent, Tasks, On
  <1>2. urgent \subseteq Tasks
    BY DEF Urgent, Tasks
  <1>3. Blocking("rx") = {"rx"} /\ Blocking("tx") = {"rx", "tx"}
    BY DEF Blocking
  <1>4. CASE urgent = {}
    <2>1. active' = stack /\ queued' = queue
      BY <1>4 DEF Dispatch
    <2>2. \A t \in Tasks : queue[t] > 0 => \E x \in Blocking(t) : On(stack, x)
      BY <1>1, <1>4
    <2>3. active' # <<>> => Open(SubSeq(active', 1, Len(active') - 1))
      BY <2>1, PopFacts DEF Open
    <2>4. StackOK'
      BY <2>1, <2>2, <2>3 DEF StackOK
    <2>5. Starts(stack, queue, "none")
      BY <2>1 DEF Starts, Tasks
    <2> QED
      BY <2>4, <2>5
  <1>5. CASE urgent # {}
    <2> DEFINE next == IF "rx" \in urgent THEN "rx" ELSE "tx"
    <2>1. active' = Append(stack, next) /\ queued' = [queue EXCEPT ![next] = @ - 1]
      BY <1>5 DEF Dispatch
    <2>2. next \in Tasks /\ next \in urgent
      BY <1>2, <1>5 DEF Tasks
    <2>3. queue[next] > 0 /\ ~On(stack, next) /\ next \in Frames /\ next \notin Inlines /\ next # "none"
      BY <1>1, <1>3, <2>2 DEF Tasks, Frames, Inlines
    <2> HIDE DEF next, urgent
    <2>4. queued' = [t \in Tasks |-> IF t = next THEN queue[t] - 1 ELSE queue[t]]
      BY <2>1
    <2>5. queued' \in [Tasks -> Nat]
      BY <2>3, <2>4
    <2>6. /\ active' \in Seq(Frames) /\ active' # <<>> /\ Distinct(active')
          /\ SubSeq(active', 1, Len(active') - 1) = stack
          /\ \A y : On(active', y) <=> On(stack, y) \/ y = next
      BY <2>1, <2>3, AppendFacts
    <2>7. Open(active')
      BY <2>3, <2>6 DEF Open
    <2>8. \A t \in Tasks : queued'[t] > 0 => \E x \in Blocking(t) : On(active', x)
      <3> SUFFICES ASSUME NEW t \in Tasks, queued'[t] > 0
                   PROVE  \E x \in Blocking(t) : On(active', x)
        OBVIOUS
      <3>1. CASE next = "rx"
        BY <3>1, <1>3, <2>6 DEF Tasks
      <3>2. CASE next = "tx" /\ t = "tx"
        BY <3>2, <1>3, <2>6
      <3>3. CASE next = "tx" /\ t = "rx"
        <4>1. "rx" \notin urgent
          BY <3>3 DEF next
        <4>2. queue["rx"] > 0
          BY <3>3, <2>4 DEF Tasks
        <4>3. On(stack, "rx")
          BY <4>1, <4>2, <1>1, <1>3 DEF Tasks
        <4> QED
          BY <4>3, <3>3, <1>3, <2>6
      <3> QED
        BY <3>1, <3>2, <3>3, <2>2 DEF Tasks
    <2>9. StackOK'
      BY <2>5, <2>6, <2>7, <2>8 DEF StackOK
    <2>10. Starts(stack, queue, next)
      BY <2>1, <2>2, <2>3, <2>4 DEF Starts
    <2> QED
      BY <2>9, <2>10
  <1> QED
    BY <1>4, <1>5

\* How a step changes the stack and the queue: one frame may leave the stack, one task may be
\* queued, and one frame may be put on what is left.
Moves(gone, pushed, started) ==
    /\ \A y \in Frames : On(active', y) <=> (On(active, y) /\ y # gone) \/ y = started
    /\ \A t \in Tasks : queued'[t] = queued[t] + (IF t = pushed THEN 1 ELSE 0)
                                               - (IF t = started THEN 1 ELSE 0)
    /\ started \in Frames => ~(On(active, started) /\ started # gone)

\* What runs is on the stack.
LEMMA RunsFacts ==
    ASSUME StackOK, NEW x, Runs(x)
    PROVE  active # <<>> /\ Top = x /\ On(active, x)
  BY DEF StackOK, Runs, Top, On

\* A step that leaves the stack and the queue alone.
LEMMA Unmoved == StackOK /\ UNCHANGED tasks => StackOK' /\ Moves("none", "none", "none")
  <1> SUFFICES ASSUME StackOK, UNCHANGED tasks PROVE StackOK' /\ Moves("none", "none", "none")
    OBVIOUS
  <1>1. active' = active /\ queued' = queued
    BY DEF tasks
  <1>2. StackOK'
    BY <1>1 DEF StackOK, Unmasked, Runs
  <1>3. "none" \notin Frames /\ "none" \notin Tasks
    BY DEF Frames, Tasks
  <1>4. Moves("none", "none", "none")
    BY <1>1, <1>3 DEF Moves, StackOK
  <1> QED
    BY <1>2, <1>4

\* The frame on top returns to task_queue_run.
LEMMA ReturnMoves ==
    ASSUME StackOK, active # <<>>, Return
    PROVE  StackOK' /\ \E started \in Tasks \cup {"none"} : Moves(Top, "none", started)
  <1> DEFINE left == SubSeq(active, 1, Len(active) - 1)
  <1>1. /\ left \in Seq(Frames) /\ Distinct(left) /\ Open(left)
        /\ \A y : On(left, y) <=> On(active, y) /\ y # Top
    BY PopFacts DEF StackOK, Top
  <1>2. queued \in [Tasks -> Nat]
    BY DEF StackOK
  <1> HIDE DEF left
  <1>3. Dispatch(left, queued, cached)
    BY DEF Return, left
  <1>4. StackOK' /\ \E started : Starts(left, queued, started)
    BY <1>1, <1>2, <1>3, DispatchFacts
  <1>5. PICK started : Starts(left, queued, started)
    BY <1>4
  <1>6. /\ started \in Tasks \cup {"none"} /\ "none" \notin Tasks /\ "none" \notin Frames
        /\ Tasks \subseteq Frames
    BY <1>5 DEF Starts, Tasks, Frames
  <1>7. \A y \in Frames : On(active', y) <=> On(left, y) \/ y = started
    BY <1>1, <1>5, <1>6, AppendFacts DEF Starts
  <1>8. Moves(Top, "none", started)
    BY <1>1, <1>2, <1>5, <1>6, <1>7 DEF Moves, Starts
  <1> QED
    BY <1>4, <1>6, <1>8

\* An interrupt queues a task.
LEMMA PushMoves ==
    ASSUME StackOK, Unmasked, NEW t \in Tasks, Push(t)
    PROVE  StackOK' /\ \E started \in Tasks \cup {"none"} : Moves("none", t, started)
  <1> DEFINE queue == [queued EXCEPT ![t] = @ + 1]
             nodes == IF cached > 0 THEN cached - 1 ELSE 0
  <1>1. active \in Seq(Frames) /\ Distinct(active) /\ Open(active) /\ queued \in [Tasks -> Nat]
    BY DEF StackOK
  <1>2. queue \in [Tasks -> Nat] /\ \A u \in Tasks : queue[u] = queued[u] + (IF u = t THEN 1 ELSE 0)
    BY <1>1
  <1>3. Dispatch(active, queue, nodes)
    BY DEF Push
  <1> HIDE DEF queue, nodes
  <1>4. StackOK' /\ \E started : Starts(active, queue, started)
    BY <1>1, <1>2, <1>3, DispatchFacts
  <1>5. PICK started : Starts(active, queue, started)
    BY <1>4
  <1>6. /\ started \in Tasks \cup {"none"} /\ "none" \notin Tasks /\ "none" \notin Frames
        /\ Tasks \subseteq Frames
    BY <1>5 DEF Starts, Tasks, Frames
  <1>7. \A y \in Frames : On(active', y) <=> On(active, y) \/ y = started
    BY <1>1, <1>5, <1>6, AppendFacts DEF Starts
  <1>8. Moves("none", t, started)
    BY <1>1, <1>2, <1>5, <1>6, <1>7 DEF Moves, Starts
  <1> QED
    BY <1>4, <1>6, <1>8

\* A callback begins, or a handler runs a task itself.
LEMMA EnterMoves ==
    ASSUME StackOK, Unmasked, NEW x \in {"callback", "rx_inline", "tx_inline"}, ~On(active, x),
           active' = Append(active, x), UNCHANGED queued
    PROVE  StackOK' /\ Moves("none", "none", x)
  <1>1. active \in Seq(Frames) /\ Distinct(active) /\ Open(active) /\ queued \in [Tasks -> Nat]
    BY DEF StackOK
  <1>2. x \in Frames /\ x \notin Tasks /\ "none" \notin Frames /\ "none" \notin Tasks
    BY DEF Frames, Tasks
  <1>3. /\ active' \in Seq(Frames) /\ active' # <<>> /\ Distinct(active')
        /\ active'[Len(active')] = x
        /\ SubSeq(active', 1, Len(active') - 1) = active
        /\ \A y : On(active', y) <=> On(active, y) \/ y = x
    BY <1>1, <1>2, AppendFacts
  <1>4. Unmasked' => Open(active')
    BY <1>1, <1>3 DEF Unmasked, Runs, Open, Inlines
  <1>5. StackOK'
    BY <1>1, <1>3, <1>4 DEF StackOK
  <1>6. Moves("none", "none", x)
    BY <1>1, <1>2, <1>3 DEF Moves
  <1> QED
    BY <1>5, <1>6

\* How the right to work on a ring may change hands along with that: a task returns at its end,
\* a source is disabled when its task is queued or run by the handler, and enabled by the task
\* or the handler at its end, or by a thread.
HandsOver(t, gone, pushed, started) ==
    /\ gone = t => Place(t) = "return" /\ Place(t)' = "check"
    /\ gone # t => Place(t)' = Place(t) \/ Working(t)
    /\ pushed = t \/ started = InlineOf(t) => Enabled(t) /\ ~Enabled(t)'
    /\ Enabled(t)' => \/ Enabled(t)
                      \/ gone = InlineOf(t) /\ On(active, gone)
                      \/ Working(t) /\ Place(t)' = "return"
                      \/ active = <<>> /\ UNCHANGED tasks

\* If it does, there is still at most one that has it.
LEMMA HandsOverKeeps ==
    ASSUME StackOK, StackOK', NEW t \in Tasks, OneHolds(t), Rests(t),
           NEW gone, NEW pushed, NEW started, Moves(gone, pushed, started),
           HandsOver(t, gone, pushed, started),
           pushed # "none" => gone = "none", started = InlineOf(t) => pushed = "none"
    PROVE  OneHolds(t)' /\ Rests(t)'
  <1> DEFINE inline == InlineOf(t)
  <1>1. t \in Frames /\ inline \in Frames /\ t # inline /\ inline # "none" /\ t # "none"
    BY DEF InlineOf, Tasks, Frames
  <1>2. /\ On(active', t) <=> (On(active, t) /\ t # gone) \/ t = started
        /\ On(active', inline) <=> (On(active, inline) /\ inline # gone) \/ inline = started
        /\ started = t => ~(On(active, t) /\ t # gone)
        /\ started = inline => ~(On(active, inline) /\ inline # gone)
    BY <1>1 DEF Moves
  <1>3. /\ queued[t] \in Nat /\ queued'[t] \in Nat
        /\ queued'[t] = queued[t] + (IF t = pushed THEN 1 ELSE 0) - (IF t = started THEN 1 ELSE 0)
    BY DEF Moves, StackOK
  <1>4. active = <<>> => ~On(active, t) /\ ~On(active, inline) /\ queued[t] = 0
    BY <1>3 DEF On, StackOK
  <1>5. Rests(t)'
    BY <1>2 DEF Rests, HandsOver, Working
  <1>6. OneHolds(t)'
    <2>1. CASE Enabled(t)'
      <3>1. pushed # t /\ started # inline
        BY <2>1 DEF HandsOver
      <3>2. CASE Enabled(t)
        <4>1. queued[t] = 0 /\ ~Working(t) /\ ~On(active, inline)
          BY <3>2 DEF OneHolds
        <4>2. started # t /\ queued'[t] = 0
          BY <4>1, <3>1, <1>3
        <4>3. ~Working(t)'
          BY <4>1, <4>2, <1>2 DEF HandsOver, Working
        <4> QED
          BY <4>1, <4>2, <4>3, <3>1, <1>2 DEF OneHolds
      <3>3. CASE gone = inline /\ On(active, gone)
        <4>1. queued[t] = 0 /\ ~Working(t)
          BY <3>3, <1>3 DEF OneHolds
        <4>2. started # t /\ queued'[t] = 0
          BY <4>1, <3>1, <1>3
        <4>3. ~Working(t)'
          BY <3>3, <4>1, <4>2, <1>1, <1>2 DEF HandsOver, Working
        <4> QED
          BY <3>1, <3>3, <4>2, <4>3, <1>2 DEF OneHolds
      <3>4. CASE Working(t) /\ Place(t)' = "return"
        BY <3>4, <3>1, <1>1, <1>2, <1>3 DEF OneHolds, HandsOver, Working
      <3>5. CASE active = <<>> /\ UNCHANGED tasks
        <4>1. active' = <<>> /\ queued'[t] = 0
          BY <3>5, <1>4 DEF tasks
        <4>2. ~On(active', t) /\ ~On(active', inline)
          BY <3>5, <4>1, <1>4
        <4> QED
          BY <4>1, <4>2 DEF OneHolds, Working
      <3> QED
        BY <2>1, <3>2, <3>3, <3>4, <3>5 DEF HandsOver
    <2>2. CASE ~Enabled(t)'
      BY <2>2, <1>1, <1>2, <1>3 DEF OneHolds, Rests, HandsOver, Working
    <2> QED
      BY <2>1, <2>2
  <1> QED
    BY <1>5, <1>6

\* What the steps keep, for one of the rings.
Orderly(t) == StackOK /\ OneHolds(t) /\ Rests(t)

\* A step that leaves the stack alone.
LEMMA StillHolds ==
    ASSUME NEW t \in Tasks, Orderly(t), UNCHANGED tasks, HandsOver(t, "none", "none", "none")
    PROVE  Orderly(t)'
  <1>1. StackOK' /\ Moves("none", "none", "none")
    BY Unmoved DEF Orderly
  <1>2. InlineOf(t) # "none"
    BY DEF InlineOf
  <1> QED
    BY <1>1, <1>2, HandsOverKeeps DEF Orderly

\* A step after which the frame on top returns.
LEMMA ReturnHolds ==
    ASSUME NEW t \in Tasks, Orderly(t), active # <<>>, Return,
           \A started \in Tasks \cup {"none"} : HandsOver(t, Top, "none", started)
    PROVE  Orderly(t)'
  <1>1. PICK started \in Tasks \cup {"none"} : StackOK' /\ Moves(Top, "none", started)
    BY ReturnMoves DEF Orderly
  <1> QED
    BY <1>1, HandsOverKeeps DEF Orderly

\* The names of the frames differ.
LEMMA Names ==
    /\ Tasks = {"rx", "tx"} /\ "none" \notin Frames /\ "none" \notin Tasks
    /\ InlineOf("rx") = "rx_inline" /\ InlineOf("tx") = "tx_inline"
    /\ Enabled("rx") = rx_enabled /\ Enabled("tx") = tx_enabled
    /\ Place("rx") = rx_task.at /\ Place("tx") = tx_task.at
    /\ Enabled("rx")' = rx_enabled' /\ Enabled("tx")' = tx_enabled'
    /\ Place("rx")' = rx_task'.at /\ Place("tx")' = tx_task'.at
  BY DEF Tasks, Frames, InlineOf, Enabled, Place

\* The steps of the threads, of the hardware, of a print and of a task run by the handler.
LEMMA OutsideHolds ==
    ASSUME NEW t \in Tasks, Orderly(t),
           \/ Putb /\ (t = "tx" => ~Runs("callback"))
           \/ Getb \/ InlineTransmit \/ InlineReceive \/ FifoDrains \/ ByteArrives \/ UNCHANGED vars
    PROVE  Orderly(t)'
  <1>1. UNCHANGED tasks
    BY DEF Putb, Getb, InlineTransmit, InlineReceive, FifoDrains, ByteArrives, vars
  <1>2. Place(t)' = Place(t)
    BY Names DEF Putb, Getb, InlineTransmit, InlineReceive, FifoDrains, ByteArrives, vars,
                 transmitter, receiver
  <1>3. Enabled(t)' = Enabled(t) \/ active = <<>>
    BY Names DEF Putb, Getb, InlineTransmit, InlineReceive, FifoDrains, ByteArrives, vars,
                 transmitter, receiver
  <1>4. HandsOver(t, "none", "none", "none")
    BY <1>1, <1>2, <1>3, Names DEF HandsOver
  <1> QED
    BY <1>1, <1>4, StillHolds

\* The steps of the tasks but the last.
LEMMA TaskHolds ==
    ASSUME NEW t \in Tasks, Orderly(t),
           (Transmitting /\ ~TxReturn) \/ (Receiving /\ ~RxReturn)
    PROVE  Orderly(t)'
  <1>1. CASE Transmitting /\ ~TxReturn
    <2>1. UNCHANGED <<tasks, rx_task, rx_enabled>> /\ Runs("tx") /\ tx_task.at # "return"
      BY <1>1 DEF Transmitting, TxCheck, TxReady, TxLoad, TxReadHead, TxWriteHead, TxPut, TxTest,
                  TxEnable, TxStep, receiver
    <2>2. tx_enabled' = tx_enabled \/ tx_task'.at = "return"
      BY <1>1 DEF Transmitting, TxCheck, TxReady, TxLoad, TxReadHead, TxWriteHead, TxPut, TxTest,
                  TxEnable, TxStep, NoLocals
    <2>3. Working("tx")
      BY <2>1, RunsFacts, Names DEF Working, Orderly
    <2>4. HandsOver(t, "none", "none", "none")
      BY <2>1, <2>2, <2>3, Names DEF HandsOver
    <2> QED
      BY <2>1, <2>4, StillHolds
  <1>2. CASE Receiving /\ ~RxReturn
    <2>1. UNCHANGED <<tasks, tx_task, tx_enabled>> /\ Runs("rx") /\ rx_task.at # "return"
      BY <1>2 DEF Receiving, RxRead, RxStore, RxAdvance, RxCheck, RxTest, RxEnable, RxStep,
                  transmitter
    <2>2. rx_enabled' = rx_enabled \/ rx_task'.at = "return"
      BY <1>2 DEF Receiving, RxRead, RxStore, RxAdvance, RxCheck, RxTest, RxEnable, RxStep
    <2>3. Working("rx")
      BY <2>1, RunsFacts, Names DEF Working, Orderly
    <2>4. HandsOver(t, "none", "none", "none")
      BY <2>1, <2>2, <2>3, Names DEF HandsOver
    <2> QED
      BY <2>1, <2>4, StillHolds
  <1> QED
    BY <1>1, <1>2

\* What is on top returns: a callback, a task, or a handler that has run a task itself.
LEMMA ReturnsHold ==
    ASSUME NEW t \in Tasks, Orderly(t),
           CallbackEnds \/ TxReturn \/ RxReturn \/ InlineTransmitEnds \/ InlineReceiveEnds
    PROVE  Orderly(t)'
  <1>1. PICK x \in Frames : /\ Runs(x) /\ Return
                            /\ x = t => Place(t) = "return" /\ Place(t)' = "check"
                            /\ x # t => Place(t)' = Place(t)
                            /\ Enabled(t)' = Enabled(t) \/ x = InlineOf(t)
    <2>1. CASE CallbackEnds
      BY <2>1, Names DEF CallbackEnds, transmitter, receiver, Frames
    <2>2. CASE TxReturn
      BY <2>2, Names DEF TxReturn, TxStep, NoLocals, receiver, Frames
    <2>3. CASE RxReturn
      BY <2>3, Names DEF RxReturn, RxStep, transmitter, Frames
    <2>4. CASE InlineTransmitEnds
      BY <2>4, Names DEF InlineTransmitEnds, receiver, Frames
    <2>5. CASE InlineReceiveEnds
      BY <2>5, Names DEF InlineReceiveEnds, transmitter, Frames
    <2> QED
      BY <2>1, <2>2, <2>3, <2>4, <2>5
  <1>2. active # <<>> /\ Top = x /\ On(active, x)
    BY <1>1, RunsFacts DEF Orderly
  <1>3. \A started \in Tasks \cup {"none"} : HandsOver(t, Top, "none", started)
    BY <1>1, <1>2, Names DEF HandsOver
  <1> QED
    BY <1>1, <1>2, <1>3, ReturnHolds

\* A callback begins.
LEMMA CallbackHolds ==
    ASSUME NEW t \in Tasks, Orderly(t), CallbackBegins
    PROVE  Orderly(t)'
  <1>1. /\ Unmasked /\ ~On(active, "callback") /\ active' = Append(active, "callback")
        /\ UNCHANGED <<queued, transmitter, receiver>>
    BY DEF CallbackBegins, IsActive, On
  <1>2. StackOK' /\ Moves("none", "none", "callback")
    BY <1>1, EnterMoves DEF Orderly
  <1>3. HandsOver(t, "none", "none", "callback") /\ InlineOf(t) # "callback"
    BY <1>1, Names DEF HandsOver, transmitter, receiver
  <1> QED
    BY <1>2, <1>3, HandsOverKeeps DEF Orderly

\* An interrupt queues a task, or runs it itself.
LEMMA IrqHolds ==
    ASSUME NEW t \in Tasks, Orderly(t), TxIrq \/ RxIrq
    PROVE  Orderly(t)'
  <1>1. PICK u \in Tasks : /\ Unmasked
                           /\ Push(u) \/ PushFails(InlineOf(u))
                           /\ Place(t)' = Place(t)
                           /\ t = u => Enabled(t) /\ ~Enabled(t)'
                           /\ t # u => Enabled(t)' = Enabled(t)
    <2>1. CASE TxIrq
      BY <2>1, Names DEF TxIrq, receiver
    <2>2. CASE RxIrq
      BY <2>2, Names DEF RxIrq, transmitter
    <2> QED
      BY <2>1, <2>2
  <1>2. t = u \/ InlineOf(t) # InlineOf(u)
    BY Names
  <1>3. CASE Push(u)
    <2>1. PICK started \in Tasks \cup {"none"} : StackOK' /\ Moves("none", u, started)
      BY <1>1, <1>3, PushMoves DEF Orderly
    <2>2. HandsOver(t, "none", u, started) /\ started # InlineOf(t)
      BY <1>1, Names DEF HandsOver
    <2> QED
      BY <2>1, <2>2, HandsOverKeeps DEF Orderly
  <1>4. CASE PushFails(InlineOf(u))
    <2>1. ~On(active, InlineOf(u)) /\ InlineOf(u) \in {"callback", "rx_inline", "tx_inline"}
      BY <1>1, Names DEF Orderly, StackOK, Open, Inlines
    <2>2. StackOK' /\ Moves("none", "none", InlineOf(u))
      BY <1>1, <1>4, <2>1, EnterMoves DEF Orderly, PushFails
    <2>3. HandsOver(t, "none", "none", InlineOf(u))
      BY <1>1, <1>2, Names DEF HandsOver
    <2> QED
      BY <2>2, <2>3, HandsOverKeeps DEF Orderly
  <1> QED
    BY <1>1, <1>3, <1>4

\* At first the receive source is enabled, and nothing is queued or on the stack.
LEMMA InitHolds == Init => \A t \in Tasks : Orderly(t)
  <1> SUFFICES ASSUME Init, NEW t \in Tasks PROVE Orderly(t)
    OBVIOUS
  <1>1. active = <<>> /\ queued = [u \in Tasks |-> 0]
    BY DEF Init, Tasks
  <1>2. \A x : ~On(active, x)
    BY <1>1 DEF On
  <1>3. Place(t) = "check"
    BY Names DEF Init, NoLocals
  <1>4. StackOK
    BY <1>1, <1>2 DEF StackOK, Distinct, Open
  <1> QED
    BY <1>1, <1>2, <1>3, <1>4 DEF Orderly, OneHolds, Rests, Working

\* Of the receive ring at most one has the right; of the transmit ring, as long as no
\* callback prints.
LEMMA NextHolds ==
    ASSUME NEW t \in Tasks, Orderly(t), [Next]_vars, t = "tx" => ~(Putb /\ Runs("callback"))
    PROVE  Orderly(t)'
  BY OutsideHolds, TaskHolds, ReturnsHold, CallbackHolds, IrqHolds
     DEF Next, Inline, Transmitting, Receiving
-------------------------------------------------------------------------------
(* The receive ring. *)

\* The bytes in the ring, the slot of each, and the byte the task holds.
Count == IF rx_tail >= rx_head THEN rx_tail - rx_head ELSE rx_tail - rx_head + RxCapacity
Slot(k) == IF rx_head + k < RxCapacity THEN rx_head + k ELSE rx_head + k - RxCapacity
Held == IF rx_task.at \in {"store", "advance"} THEN 1 ELSE 0

\* Indices, ring, FIFO and task keep their types.
RxTypeOK ==
    /\ rx_head \in 0 .. RxCapacity - 1 /\ rx_tail \in 0 .. RxCapacity - 1
    /\ rx_data \in [0 .. RxCapacity - 1 -> Nat]
    /\ rx_fifo \in Seq(Nat) /\ returned \in Seq(Nat) /\ arrived \in Nat
    /\ rx_task \in [at : {"check", "store", "advance", "test", "enable", "return"}, c : Nat]

\* Read from the one end to the other, what was returned, the ring, the byte held and the FIFO
\* are 1, 2, 3, ... arrived.
RingInOrder == \A k \in 0 .. Count - 1 : rx_data[Slot(k)] = Len(returned) + k + 1
HeldInOrder ==
    /\ rx_task.at = "store" => rx_task.c = Len(returned) + Count + 1
    /\ rx_task.at = "advance" => rx_data[rx_tail] = Len(returned) + Count + 1
    /\ rx_task.at \in {"store", "advance"} => Count < RxCapacity - 1
FifoInOrder == \A k \in 1 .. Len(rx_fifo) : rx_fifo[k] = Len(returned) + Count + Held + k
AllArrived == arrived = Len(returned) + Count + Held + Len(rx_fifo)

\* InputExact with what the bytes on their way are.
RxInv == RingSizes /\ RxTypeOK /\ InputExact /\ RingInOrder /\ HeldInOrder /\ FifoInOrder /\ AllArrived

\* The inductive invariant.
IInv == Orderly("rx") /\ RxInv

\* What the invariant is about.
ringVars == <<rx_data, rx_head, rx_tail, rx_fifo, rx_task, arrived, returned>>

\* Stepping an index around a ring of n slots (mini_uart_buffer_enqueue and _dequeue).
LEMMA SuccessorInRing ==
    ASSUME NEW n \in Nat \ {0, 1}, NEW i \in 0 .. n - 1
    PROVE  /\ Successor(i, n) \in 0 .. n - 1
           /\ i + 1 < n => Successor(i, n) = i + 1
           /\ i + 1 >= n => i = n - 1 /\ Successor(i, n) = 0
  BY DEF Successor

\* The count is that of the indices, and a ring is full when one slot is left
\* (mini_uart_buffer_full and _empty).
LEMMA CountInRing ==
    ASSUME RingSizes, RxTypeOK
    PROVE  /\ Count \in 0 .. RxCapacity - 1
           /\ RxEmpty <=> Count = 0
           /\ RxFull <=> Count = RxCapacity - 1
           /\ \A k \in 0 .. Count - 1 : Slot(k) \in 0 .. RxCapacity - 1 /\ Slot(k) # rx_tail
           /\ Count > 0 => Slot(0) = rx_head
           /\ Count < RxCapacity => Slot(Count) = rx_tail
  BY DEF RingSizes, RxTypeOK, Count, Slot, RxEmpty, RxFull, Full, Successor

\* At first nothing has arrived.
LEMMA InitInv == RingSizes /\ Init => RxInv
  <1> SUFFICES ASSUME RingSizes, Init PROVE RxInv
    OBVIOUS
  <1> USE DEF RingSizes
  <1>1. RxTypeOK
    BY DEF Init, RxTypeOK
  <1>2. Count = 0 /\ Held = 0 /\ Len(returned) = 0 /\ Len(rx_fifo) = 0
    BY DEF Init, Count, Held
  <1>3. InputExact /\ RingInOrder /\ FifoInOrder /\ AllArrived
    BY <1>2 DEF Init, InputExact, RingInOrder, FifoInOrder, AllArrived
  <1>4. HeldInOrder
    BY DEF Init, HeldInOrder
  <1> QED
    BY <1>1, <1>3, <1>4 DEF RxInv

\* What leaves the ring, the task and the FIFO alone keeps the order.
LEMMA RingUnchanged == RxInv /\ UNCHANGED ringVars => RxInv'
  BY DEF RxInv, RingSizes, RxTypeOK, InputExact, RingInOrder, HeldInOrder, FifoInOrder, AllArrived, ringVars,
         Count, Slot, Held

\* getc takes the oldest byte of the ring: the others move one place down.
LEMMA GetbKeeps == RxInv /\ Getb => RxInv'
  <1> SUFFICES ASSUME RxInv, Getb PROVE RxInv'
    OBVIOUS
  <1>0. RxCapacity \in Nat \ {0, 1}
    BY DEF RxInv, RingSizes
  <1> USE <1>0
  <1>1. CASE RxEmpty
    <2>1. UNCHANGED ringVars
      BY <1>1 DEF Getb, ringVars
    <2> QED
      BY <2>1, RingUnchanged
  <1>2. CASE ~RxEmpty
    <2>1. /\ returned' = Append(returned, rx_data[rx_head])
          /\ rx_head' = Successor(rx_head, RxCapacity)
          /\ UNCHANGED <<rx_data, rx_tail, rx_fifo, rx_task, arrived>>
      BY <1>2 DEF Getb
    <2>2. Count \in 1 .. RxCapacity - 1 /\ rx_data[rx_head] = Len(returned) + 1
      <3>1. Count \in 1 .. RxCapacity - 1 /\ Slot(0) = rx_head
        BY <1>2, CountInRing DEF RxInv
      <3>2. rx_data[Slot(0)] = Len(returned) + 0 + 1
        BY <3>1 DEF RxInv, RingInOrder
      <3> QED
        BY <3>1, <3>2 DEF RxInv, RxTypeOK
    <2>3. RxTypeOK'
      BY <2>1, SuccessorInRing DEF RxInv, RxTypeOK
    <2>4. Len(returned') = Len(returned) + 1 /\ Count' = Count - 1 /\ Held' = Held
      <3>1. \/ rx_head + 1 < RxCapacity /\ rx_head' = rx_head + 1
            \/ rx_head = RxCapacity - 1 /\ rx_head' = 0
        BY <2>1 DEF Successor, RxInv, RxTypeOK
      <3>2. rx_tail' = rx_tail /\ rx_tail # rx_head
        BY <2>1, <1>2 DEF RxEmpty
      <3>3. rx_head \in 0 .. RxCapacity - 1 /\ rx_tail \in 0 .. RxCapacity - 1
        BY DEF RxInv, RxTypeOK
      <3>4. Count' = Count - 1
        BY <3>1, <3>2, <3>3 DEF Count
      <3>5. Held' = Held
        BY <2>1 DEF Held
      <3>6. rx_data[rx_head] \in Nat /\ returned \in Seq(Nat)
        BY <3>3 DEF RxInv, RxTypeOK
      <3>7. Len(returned') = Len(returned) + 1
        BY <3>6, <2>1
      <3> QED
        BY <3>4, <3>5, <3>7
    <2>5. \A k \in 0 .. Count' - 1 : Slot(k)' = Slot(k + 1) /\ k + 1 \in 0 .. Count - 1
      <3>1. \/ rx_head + 1 < RxCapacity /\ rx_head' = rx_head + 1
            \/ rx_head = RxCapacity - 1 /\ rx_head' = 0
        BY <2>1 DEF Successor, RxInv, RxTypeOK
      <3> SUFFICES ASSUME NEW k \in 0 .. Count' - 1
                   PROVE  Slot(k)' = Slot(k + 1) /\ k + 1 \in 0 .. Count - 1
        OBVIOUS
      <3>2. k \in Nat /\ k + 1 < RxCapacity /\ k + 1 \in 0 .. Count - 1
        BY <2>2, <2>4
      <3>3. Slot(k)' = Slot(k + 1)
        BY <3>1, <3>2, SMTT(30) DEF Slot, RxInv, RxTypeOK
      <3> QED
        BY <3>2, <3>3
    <2>6. InputExact'
      BY <2>1, <2>2 DEF RxInv, RxTypeOK, InputExact
    <2>7. RingInOrder'
      <3> SUFFICES ASSUME NEW k \in 0 .. Count' - 1
                   PROVE  rx_data[Slot(k)'] = Len(returned') + k + 1
        BY <2>1 DEF RingInOrder
      <3>1. rx_data[Slot(k + 1)] = Len(returned) + (k + 1) + 1
        BY <2>5 DEF RxInv, RingInOrder
      <3> QED
        BY <3>1, <2>4, <2>5 DEF RxInv, RxTypeOK
    <2>8. HeldInOrder' /\ FifoInOrder' /\ AllArrived'
      BY <2>1, <2>2, <2>4 DEF RxInv, RxTypeOK, HeldInOrder, FifoInOrder, AllArrived, Held
    <2> QED
      BY <2>3, <2>6, <2>7, <2>8 DEF RxInv
  <1> QED
    BY <1>1, <1>2

\* The task takes the oldest byte of the FIFO and holds it.
LEMMA RxReadKeeps == RxInv /\ RxRead => RxInv'
  <1> SUFFICES ASSUME RxInv, RxRead PROVE RxInv'
    OBVIOUS
  <1>1. /\ rx_task.at = "check" /\ rx_task' = [at |-> "store", c |-> Head(rx_fifo)]
        /\ ~RxFull /\ rx_fifo # <<>> /\ rx_fifo' = Tail(rx_fifo)
        /\ UNCHANGED <<rx_data, rx_head, rx_tail, arrived, returned>>
    BY DEF RxRead, RxStep
  <1>2. Count < RxCapacity - 1 /\ Count \in Nat
    BY <1>1, CountInRing DEF RxInv, RingSizes
  <1>3. Count' = Count /\ Held = 0 /\ Held' = 1 /\ \A k : Slot(k)' = Slot(k)
    BY <1>1 DEF Count, Held, Slot
  <1>4. RxTypeOK'
    BY <1>1 DEF RxInv, RxTypeOK
  <1>5. Head(rx_fifo) = Len(returned) + Count + 1
    BY <1>1, <1>2, <1>3 DEF RxInv, RxTypeOK, FifoInOrder
  <1>6. InputExact' /\ RingInOrder'
    BY <1>1, <1>3 DEF RxInv, InputExact, RingInOrder
  <1>7. HeldInOrder'
    BY <1>1, <1>2, <1>3, <1>5 DEF HeldInOrder
  <1>8. FifoInOrder' /\ AllArrived'
    BY <1>1, <1>2, <1>3 DEF RxInv, RxTypeOK, FifoInOrder, AllArrived
  <1> QED
    BY <1>4, <1>6, <1>7, <1>8 DEF RxInv

\* The byte goes to the slot at tail, which is outside the ring.
LEMMA RxStoreKeeps == RxInv /\ RxStore => RxInv'
  <1> SUFFICES ASSUME RxInv, RxStore PROVE RxInv'
    OBVIOUS
  <1>1. /\ rx_task.at = "store" /\ rx_task' = [at |-> "advance", c |-> 0]
        /\ rx_data' = [rx_data EXCEPT ![rx_tail] = rx_task.c]
        /\ UNCHANGED <<rx_fifo, rx_head, rx_tail, arrived, returned>>
    BY DEF RxStore, RxStep
  <1>2. Count' = Count /\ Held = 1 /\ Held' = 1 /\ \A k : Slot(k)' = Slot(k)
    BY <1>1 DEF Count, Held, Slot
  <1>3. RxTypeOK'
    BY <1>1 DEF RxInv, RxTypeOK
  <1>4. \A k \in 0 .. Count - 1 : rx_data'[Slot(k)] = rx_data[Slot(k)]
    BY <1>1, CountInRing DEF RxInv, RxTypeOK
  <1>5. InputExact' /\ RingInOrder'
    BY <1>1, <1>2, <1>4 DEF RxInv, InputExact, RingInOrder
  <1>6. HeldInOrder'
    BY <1>1, <1>2 DEF RxInv, RxTypeOK, HeldInOrder
  <1>7. FifoInOrder' /\ AllArrived'
    BY <1>1, <1>2 DEF RxInv, FifoInOrder, AllArrived
  <1> QED
    BY <1>3, <1>5, <1>6, <1>7 DEF RxInv

\* tail passes the slot: the byte held becomes the ring's last.
LEMMA RxAdvanceKeeps == RxInv /\ RxAdvance => RxInv'
  <1> SUFFICES ASSUME RxInv, RxAdvance PROVE RxInv'
    OBVIOUS
  <1>0. RxCapacity \in Nat \ {0, 1}
    BY DEF RxInv, RingSizes
  <1> USE <1>0
  <1>1. /\ rx_task.at = "advance" /\ rx_task' = [at |-> "check", c |-> 0]
        /\ rx_tail' = Successor(rx_tail, RxCapacity)
        /\ UNCHANGED <<rx_fifo, rx_data, rx_head, arrived, returned>>
    BY DEF RxAdvance, RxStep
  <1>2. /\ Count \in 0 .. RxCapacity - 2
        /\ rx_data[rx_tail] = Len(returned) + Count + 1
        /\ Slot(Count) = rx_tail
    BY <1>1, CountInRing DEF RxInv, HeldInOrder
  <1>3. RxTypeOK'
    BY <1>1, SuccessorInRing DEF RxInv, RxTypeOK
  <1>4. Count' = Count + 1 /\ Held = 1 /\ Held' = 0
    <2>1. \/ rx_tail + 1 < RxCapacity /\ rx_tail' = rx_tail + 1
          \/ rx_tail = RxCapacity - 1 /\ rx_tail' = 0
      BY <1>1 DEF Successor, RxInv, RxTypeOK
    <2>2. rx_head \in 0 .. RxCapacity - 1 /\ rx_tail \in 0 .. RxCapacity - 1 /\ rx_head' = rx_head
      BY <1>1 DEF RxInv, RxTypeOK
    <2>3. Count' = Count + 1
      BY <2>1, <2>2, <1>2 DEF Count
    <2> QED
      BY <2>3, <1>1 DEF Held
  <1>5. \A k : Slot(k)' = Slot(k)
    BY <1>1 DEF Slot
  <1>6. RingInOrder'
    <2> SUFFICES ASSUME NEW k \in 0 .. Count' - 1
                 PROVE  rx_data[Slot(k)] = Len(returned) + k + 1
      BY <1>1, <1>5 DEF RingInOrder
    <2>1. CASE k = Count
      BY <2>1, <1>2
    <2>2. CASE k # Count
      <3>1. k \in 0 .. Count - 1
        BY <2>2, <1>2, <1>4
      <3> QED
        BY <3>1 DEF RxInv, RingInOrder
    <2> QED
      BY <2>1, <2>2
  <1>7. InputExact' /\ HeldInOrder'
    BY <1>1 DEF RxInv, InputExact, HeldInOrder
  <1>8. FifoInOrder' /\ AllArrived'
    BY <1>1, <1>2, <1>4 DEF RxInv, RxTypeOK, FifoInOrder, AllArrived
  <1> QED
    BY <1>3, <1>6, <1>7, <1>8 DEF RxInv

\* The receive FIFO takes a byte from the line.
LEMMA ByteArrivesKeeps == RxInv /\ ByteArrives => RxInv'
  <1> SUFFICES ASSUME RxInv, ByteArrives PROVE RxInv'
    OBVIOUS
  <1>1. /\ arrived' = arrived + 1 /\ rx_fifo' = Append(rx_fifo, arrived + 1)
        /\ UNCHANGED <<rx_data, rx_head, rx_tail, rx_task, returned>>
    BY DEF ByteArrives
  <1>2. Count' = Count /\ Held' = Held /\ \A k : Slot(k)' = Slot(k)
    BY <1>1 DEF Count, Held, Slot
  <1>3. Count \in Nat /\ Held \in Nat
    BY CountInRing DEF RxInv, Held
  <1>4. RxTypeOK'
    BY <1>1 DEF RxInv, RxTypeOK
  <1>5. InputExact' /\ RingInOrder' /\ HeldInOrder'
    <2>1. InputExact' /\ HeldInOrder'
      BY <1>1, <1>2 DEF RxInv, InputExact, HeldInOrder
    <2>2. RingInOrder'
      BY <1>1, <1>2 DEF RxInv, RingInOrder
    <2> QED
      BY <2>1, <2>2
  <1>6. FifoInOrder' /\ AllArrived'
    <2>1. rx_fifo \in Seq(Nat) /\ arrived \in Nat /\ Len(returned) \in Nat
      BY DEF RxInv, RxTypeOK
    <2>2. /\ Len(rx_fifo') = Len(rx_fifo) + 1
          /\ \A k \in 1 .. Len(rx_fifo) : rx_fifo'[k] = rx_fifo[k]
          /\ rx_fifo'[Len(rx_fifo) + 1] = arrived + 1
      BY <1>1, <2>1
    <2>3. AllArrived'
      BY <1>1, <1>2, <1>3, <2>1, <2>2 DEF RxInv, AllArrived
    <2>4. FifoInOrder'
      <3> SUFFICES ASSUME NEW k \in 1 .. Len(rx_fifo')
                   PROVE  rx_fifo'[k] = Len(returned) + Count + Held + k
        BY <1>1, <1>2 DEF FifoInOrder
      <3>1. CASE k = Len(rx_fifo) + 1
        BY <3>1, <1>3, <2>1, <2>2 DEF RxInv, AllArrived
      <3>2. CASE k # Len(rx_fifo) + 1
        BY <3>2, <2>1, <2>2 DEF RxInv, FifoInOrder
      <3> QED
        BY <3>1, <3>2
    <2> QED
      BY <2>3, <2>4
  <1> QED
    BY <1>4, <1>5, <1>6 DEF RxInv

\* A handler that runs the receive task itself finds no receive task in the middle of a byte.
LEMMA InlineAlone ==
    ASSUME Orderly("rx"), InlineReceive
    PROVE  rx_task.at \in {"check", "return"}
  <1>1. On(active, "rx_inline")
    BY RunsFacts DEF InlineReceive, Orderly
  <1>2. ~Working("rx")
    BY <1>1, Names DEF Orderly, OneHolds
  <1> QED
    BY <1>2, Names DEF Orderly, Working, Rests

\* It moves the oldest byte of the FIFO to the ring.
LEMMA InlineReceiveKeeps == RxInv /\ Orderly("rx") /\ InlineReceive => RxInv'
  <1> SUFFICES ASSUME RxInv, Orderly("rx"), InlineReceive PROVE RxInv'
    OBVIOUS
  <1>0. RxCapacity \in Nat \ {0, 1}
    BY DEF RxInv, RingSizes
  <1> USE <1>0
  <1>1. /\ ~RxFull /\ rx_fifo # <<>> /\ rx_fifo' = Tail(rx_fifo)
        /\ rx_data' = [rx_data EXCEPT ![rx_tail] = Head(rx_fifo)]
        /\ rx_tail' = Successor(rx_tail, RxCapacity)
        /\ UNCHANGED <<rx_head, rx_task, arrived, returned>>
    BY DEF InlineReceive
  <1>2. rx_task.at \notin {"store", "advance"} /\ Held = 0 /\ Held' = 0
    BY <1>1, InlineAlone DEF Held
  <1>3. /\ Count \in 0 .. RxCapacity - 2 /\ Slot(Count) = rx_tail
        /\ \A k \in 0 .. Count - 1 : Slot(k) \in 0 .. RxCapacity - 1 /\ Slot(k) # rx_tail
    BY <1>1, CountInRing DEF RxInv
  <1>4. Head(rx_fifo) = Len(returned) + Count + 1
    BY <1>1, <1>2, <1>3 DEF RxInv, RxTypeOK, FifoInOrder
  <1>5. RxTypeOK'
    <2>1. Head(rx_fifo) \in Nat /\ rx_fifo' \in Seq(Nat)
      BY <1>1 DEF RxInv, RxTypeOK
    <2>2. rx_tail \in 0 .. RxCapacity - 1 /\ rx_tail' \in 0 .. RxCapacity - 1
      BY <1>1, SuccessorInRing DEF RxInv, RxTypeOK
    <2>3. rx_data' \in [0 .. RxCapacity - 1 -> Nat]
      BY <1>1, <2>1, <2>2 DEF RxInv, RxTypeOK
    <2> QED
      BY <1>1, <2>1, <2>2, <2>3 DEF RxInv, RxTypeOK
  <1>6. Count' = Count + 1
    <2>1. \/ rx_tail + 1 < RxCapacity /\ rx_tail' = rx_tail + 1
          \/ rx_tail = RxCapacity - 1 /\ rx_tail' = 0
      BY <1>1 DEF Successor, RxInv, RxTypeOK
    <2>2. rx_head \in 0 .. RxCapacity - 1 /\ rx_tail \in 0 .. RxCapacity - 1 /\ rx_head' = rx_head
      BY <1>1 DEF RxInv, RxTypeOK
    <2> QED
      BY <2>1, <2>2, <1>3 DEF Count
  <1>7. \A k : Slot(k)' = Slot(k)
    BY <1>1 DEF Slot
  <1>8. RingInOrder'
    <2> SUFFICES ASSUME NEW k \in 0 .. Count' - 1
                 PROVE  rx_data'[Slot(k)] = Len(returned) + k + 1
      BY <1>1, <1>7 DEF RingInOrder
    <2>1. CASE k = Count
      BY <2>1, <1>1, <1>3, <1>4 DEF RxInv, RxTypeOK
    <2>2. CASE k # Count
      <3>1. k \in 0 .. Count - 1
        BY <2>2, <1>3, <1>6
      <3>2. rx_data'[Slot(k)] = rx_data[Slot(k)]
        BY <3>1, <1>1, <1>3 DEF RxInv, RxTypeOK
      <3> QED
        BY <3>1, <3>2 DEF RxInv, RingInOrder
    <2> QED
      BY <2>1, <2>2
  <1>9. InputExact' /\ HeldInOrder'
    BY <1>1, <1>2 DEF RxInv, InputExact, HeldInOrder
  <1>10. FifoInOrder' /\ AllArrived'
    BY <1>1, <1>2, <1>3, <1>6 DEF RxInv, RxTypeOK, FifoInOrder, AllArrived
  <1> QED
    BY <1>5, <1>8, <1>9, <1>10 DEF RxInv

\* After its loop the task only enables the source and returns.
LEMMA RxEndKeeps == RxInv /\ (RxCheck \/ RxTest \/ RxEnable \/ RxReturn) => RxInv'
  <1> SUFFICES ASSUME RxInv, RxCheck \/ RxTest \/ RxEnable \/ RxReturn PROVE RxInv'
    OBVIOUS
  <1>1. /\ rx_task.at \in {"check", "test", "enable", "return"}
        /\ rx_task' \in [at : {"check", "test", "enable", "return"}, c : Nat]
        /\ UNCHANGED <<rx_data, rx_head, rx_tail, rx_fifo, arrived, returned>>
    BY DEF RxCheck, RxTest, RxEnable, RxReturn, RxStep
  <1>2. Count' = Count /\ Held = 0 /\ Held' = 0 /\ \A k : Slot(k)' = Slot(k)
    BY <1>1 DEF Count, Held, Slot
  <1>3. RxTypeOK'
    BY <1>1 DEF RxInv, RxTypeOK
  <1>4. InputExact' /\ RingInOrder' /\ HeldInOrder'
    BY <1>1, <1>2 DEF RxInv, InputExact, RingInOrder, HeldInOrder
  <1>5. FifoInOrder' /\ AllArrived'
    BY <1>1, <1>2 DEF RxInv, FifoInOrder, AllArrived
  <1> QED
    BY <1>3, <1>4, <1>5 DEF RxInv

\* The steps of the transmit side, of the callbacks and of the interrupts touch none of it.
LEMMA OthersKeep ==
    (\/ Putb \/ CallbackBegins \/ CallbackEnds \/ TxIrq \/ RxIrq
     \/ InlineTransmit \/ InlineTransmitEnds \/ InlineReceiveEnds
     \/ Transmitting \/ FifoDrains \/ UNCHANGED vars) => UNCHANGED ringVars
  BY DEF Putb, CallbackBegins, CallbackEnds, TxIrq, RxIrq, InlineTransmit, InlineTransmitEnds,
         InlineReceiveEnds, Transmitting, TxCheck, TxReady, TxLoad, TxReadHead, TxWriteHead, TxPut,
         TxTest, TxEnable, TxReturn, FifoDrains, TxStep, vars, receiver, ringVars

\* Every step keeps the invariant.
LEMMA NextInv == IInv /\ [Next]_vars => IInv'
  <1> SUFFICES ASSUME IInv, [Next]_vars PROVE IInv'
    OBVIOUS
  <1>0. Orderly("rx")'
    BY NextHolds, Names DEF IInv
  <1> USE DEF IInv
  <1>1. CASE Getb
    BY <1>0, <1>1, GetbKeeps
  <1>2. CASE RxRead
    BY <1>0, <1>2, RxReadKeeps
  <1>3. CASE RxStore
    BY <1>0, <1>3, RxStoreKeeps
  <1>4. CASE RxAdvance
    BY <1>0, <1>4, RxAdvanceKeeps
  <1>5. CASE RxCheck \/ RxTest \/ RxEnable \/ RxReturn
    BY <1>0, <1>5, RxEndKeeps
  <1>6. CASE InlineReceive
    BY <1>0, <1>6, InlineReceiveKeeps
  <1>7. CASE ByteArrives
    BY <1>0, <1>7, ByteArrivesKeeps
  <1>8. CASE \/ Putb \/ CallbackBegins \/ CallbackEnds \/ TxIrq \/ RxIrq
             \/ InlineTransmit \/ InlineTransmitEnds \/ InlineReceiveEnds
             \/ Transmitting \/ FifoDrains \/ UNCHANGED vars
    BY <1>0, <1>8, OthersKeep, RingUnchanged
  <1> QED
    BY <1>1, <1>2, <1>3, <1>4, <1>5, <1>6, <1>7, <1>8 DEF Next, Inline, Receiving

(* Every byte that entered the receive FIFO is returned by mini_uart_getc once and in order,  *)
(* for rings, FIFOs and task queues of every size, whether the task is queued or run by the   *)
(* handler (mini_uart_receive_task, mini_uart_getb_async).                                    *)
THEOREM InputCorrect == RingSizes /\ Spec => []InputExact
  <1>1. IInv => InputExact
    BY DEF IInv, RxInv
  <1>2. RingSizes /\ Init => IInv
    BY InitInv, InitHolds, Names DEF IInv
  <1> QED
    BY <1>1, <1>2, NextInv, PTL DEF Spec
-------------------------------------------------------------------------------
(* The transmit ring.  The finding about OutputExact has two causes: while the task is in the  *)
(* middle of taking a byte off the ring, a print that finds the ring full takes one, or an    *)
(* interrupt whose push fails runs the task itself.                                           *)

\* Between the task's look at the ring and its write to the FIFO.
Dequeues == tx_task.at \in {"ready", "load", "read_head", "write_head", "put"}

\* The steps of mini_uart_putb_async and of the handler that dequeue in between.
Overtakes == ((Putb /\ TxFull) \/ InlineTransmit) /\ tx_room > 0 /\ Dequeues

\* The bytes in the ring, the slot of each, and the byte the task has taken off it.
TxCount == IF tx_tail >= tx_head THEN tx_tail - tx_head ELSE tx_tail - tx_head + TxCapacity
TxSlot(k) == IF tx_head + k < TxCapacity THEN tx_head + k ELSE tx_head + k - TxCapacity
Taken == IF tx_task.at = "put" THEN 1 ELSE 0

\* Indices, ring, FIFO and task keep their types.
TxTypeOK ==
    /\ tx_head \in 0 .. TxCapacity - 1 /\ tx_tail \in 0 .. TxCapacity - 1
    /\ tx_data \in [0 .. TxCapacity - 1 -> Nat]
    /\ output \in Seq(Nat) /\ printed \in Nat /\ tx_room \in Nat
    /\ tx_task \in [at : {"check", "ready", "load", "read_head", "write_head", "put",
                        "test", "enable", "return"}, c : Nat, head : Nat]

\* What reached the FIFO, the byte taken and the ring are 1, 2, 3, ... printed.
TxRingInOrder == \A k \in 0 .. TxCount - 1 : tx_data[TxSlot(k)] = Len(output) + Taken + k + 1
TakenInOrder ==
    /\ tx_task.at \in {"read_head", "write_head", "put"} => tx_task.c = Len(output) + 1
    /\ tx_task.at = "write_head" => tx_task.head = tx_head
AllPrinted == printed = Len(output) + Taken + TxCount

\* A dequeue has begun: the FIFO still has the room, and the ring the byte, that the task saw.
StillThere ==
    /\ tx_task.at \in {"load", "read_head", "write_head", "put"} => tx_room > 0
    /\ tx_task.at \in {"ready", "load", "read_head", "write_head"} => TxCount > 0

\* The inductive invariant of the steps that do not overtake.
TxInv == /\ RingSizes /\ TxTypeOK /\ OutputExact
         /\ TxRingInOrder /\ TakenInOrder /\ AllPrinted /\ StillThere

\* What the invariant is about.
txRingVars == <<tx_data, tx_head, tx_tail, tx_room, tx_task, printed, output>>

\* As CountInRing, for the transmit ring.
LEMMA TxCountInRing ==
    ASSUME RingSizes, TxTypeOK
    PROVE  /\ TxCount \in 0 .. TxCapacity - 1
           /\ TxEmpty <=> TxCount = 0
           /\ TxFull <=> TxCount = TxCapacity - 1
           /\ \A k \in 0 .. TxCount - 1 : TxSlot(k) \in 0 .. TxCapacity - 1 /\ TxSlot(k) # tx_tail
           /\ TxCount > 0 => TxSlot(0) = tx_head
           /\ TxCount < TxCapacity => TxSlot(TxCount) = tx_tail
  BY DEF RingSizes, TxTypeOK, TxCount, TxSlot, TxEmpty, TxFull, Full, Successor

\* Moving head on takes the oldest byte off a ring that is not empty: the others move down.
LEMMA TxHeadMoves ==
    ASSUME RingSizes, TxTypeOK, TxCount > 0,
           tx_head' = Successor(tx_head, TxCapacity), UNCHANGED tx_tail
    PROVE  /\ tx_head' \in 0 .. TxCapacity - 1
           /\ TxCount' = TxCount - 1
           /\ \A k \in 0 .. TxCount - 2 : TxSlot(k)' = TxSlot(k + 1)
  <1> USE DEF RingSizes
  <1>1. \/ tx_head + 1 < TxCapacity /\ tx_head' = tx_head + 1
        \/ tx_head = TxCapacity - 1 /\ tx_head' = 0
    BY DEF Successor, TxTypeOK
  <1>2. tx_head \in 0 .. TxCapacity - 1 /\ tx_tail \in 0 .. TxCapacity - 1 /\ tx_tail # tx_head
    BY DEF TxTypeOK, TxCount
  <1>3. TxCount' = TxCount - 1
    BY <1>1, <1>2 DEF TxCount
  <1>4. \A k \in 0 .. TxCount - 2 : TxSlot(k)' = TxSlot(k + 1)
    <2> SUFFICES ASSUME NEW k \in 0 .. TxCount - 2 PROVE TxSlot(k)' = TxSlot(k + 1)
      OBVIOUS
    <2>1. k \in Nat /\ k + 1 < TxCapacity
      BY TxCountInRing
    <2> QED
      BY <1>1, <1>2, <2>1 DEF TxSlot
  <1> QED
    BY <1>1, <1>2, <1>3, <1>4

\* At first nothing has been printed.
LEMMA TxInitInv == RingSizes /\ FifoSize \in Nat /\ Init => TxInv
  <1> SUFFICES ASSUME RingSizes, FifoSize \in Nat, Init PROVE TxInv
    OBVIOUS
  <1> USE DEF RingSizes
  <1>1. TxTypeOK
    BY DEF Init, TxTypeOK, NoLocals
  <1>2. TxCount = 0 /\ Taken = 0 /\ Len(output) = 0 /\ printed = 0 /\ tx_task.at = "check"
    BY DEF Init, TxCount, Taken, NoLocals
  <1>3. OutputExact /\ TxRingInOrder /\ TakenInOrder /\ AllPrinted /\ StillThere
    BY <1>2 DEF OutputExact, TxRingInOrder, TakenInOrder, AllPrinted, StillThere
  <1> QED
    BY <1>1, <1>3 DEF TxInv

\* What leaves the ring, the task and the FIFO alone keeps the order.
LEMMA TxUnchanged == TxInv /\ UNCHANGED txRingVars => TxInv'
  BY DEF TxInv, RingSizes, TxTypeOK, OutputExact, TxRingInOrder, TakenInOrder, AllPrinted, StillThere,
         txRingVars, TxCount, TxSlot, Taken

\* A print that finds room in the ring puts the next byte behind the others.
LEMMA EnqueueKeeps ==
    ASSUME TxInv, ~TxFull,
           tx_data' = [tx_data EXCEPT ![tx_tail] = printed + 1],
           tx_tail' = Successor(tx_tail, TxCapacity), printed' = printed + 1,
           UNCHANGED <<tx_head, tx_room, output, tx_task>>
    PROVE  TxInv'
  <1>0. TxCapacity \in Nat \ {0, 1}
    BY DEF TxInv, RingSizes
  <1> USE <1>0
  <1>1. TxCount \in 0 .. TxCapacity - 2 /\ TxSlot(TxCount) = tx_tail
    BY TxCountInRing DEF TxInv
  <1>2. TxTypeOK'
    BY SuccessorInRing DEF TxInv, TxTypeOK
  <1>3. TxCount' = TxCount + 1
    <2>1. \/ tx_tail + 1 < TxCapacity /\ tx_tail' = tx_tail + 1
          \/ tx_tail = TxCapacity - 1 /\ tx_tail' = 0
      BY DEF Successor, TxInv, TxTypeOK
    <2>2. tx_head \in 0 .. TxCapacity - 1 /\ tx_tail \in 0 .. TxCapacity - 1
      BY DEF TxInv, TxTypeOK
    <2> QED
      BY <2>1, <2>2, <1>1 DEF TxCount
  <1>4. Taken' = Taken /\ Taken \in Nat /\ \A k : TxSlot(k)' = TxSlot(k)
    BY DEF Taken, TxSlot
  <1>5. TxRingInOrder'
    <2> SUFFICES ASSUME NEW k \in 0 .. TxCount' - 1
                 PROVE  tx_data'[TxSlot(k)] = Len(output) + Taken + k + 1
      BY <1>4 DEF TxRingInOrder
    <2>1. CASE k = TxCount
      <3>1. tx_data'[tx_tail] = printed + 1
        BY DEF TxInv, TxTypeOK
      <3> QED
        BY <2>1, <3>1, <1>1, <1>4 DEF TxInv, TxTypeOK, AllPrinted
    <2>2. CASE k # TxCount
      <3>1. k \in 0 .. TxCount - 1
        BY <2>2, <1>1, <1>3
      <3>2. TxSlot(k) \in 0 .. TxCapacity - 1 /\ TxSlot(k) # tx_tail
        BY <3>1, TxCountInRing DEF TxInv
      <3>3. tx_data'[TxSlot(k)] = tx_data[TxSlot(k)]
        BY <3>2 DEF TxInv, TxTypeOK
      <3> QED
        BY <3>1, <3>3 DEF TxInv, TxRingInOrder
    <2> QED
      BY <2>1, <2>2
  <1>6. OutputExact' /\ TakenInOrder' /\ AllPrinted' /\ StillThere'
    BY <1>1, <1>3, <1>4 DEF TxInv, TxTypeOK, OutputExact, TakenInOrder, AllPrinted, StillThere
  <1> QED
    BY <1>2, <1>5, <1>6 DEF TxInv, RingSizes

\* A print that finds the ring full, or a handler that runs the task itself, puts the oldest
\* byte, with the task not in its dequeue.
LEMMA DequeueKeeps ==
    ASSUME TxInv, TxCount > 0, ~Dequeues, tx_room > 0,
           Put(tx_data[tx_head]), tx_head' = Successor(tx_head, TxCapacity),
           UNCHANGED <<tx_data, tx_tail, printed, tx_task>>
    PROVE  TxInv'
  <1>0. TxCapacity \in Nat \ {0, 1}
    BY DEF TxInv, RingSizes
  <1> USE <1>0
  <1>1. /\ tx_head' \in 0 .. TxCapacity - 1 /\ TxCount' = TxCount - 1
        /\ \A k \in 0 .. TxCount - 2 : TxSlot(k)' = TxSlot(k + 1)
    BY TxHeadMoves DEF TxInv
  <1>2. TxCount \in 1 .. TxCapacity - 1 /\ TxSlot(0) = tx_head
    BY TxCountInRing DEF TxInv
  <1>3. Taken = 0 /\ Taken' = 0
    BY DEF Taken, Dequeues
  <1>4. tx_data[tx_head] = Len(output) + 1
    <2>1. tx_data[TxSlot(0)] = Len(output) + 0 + 0 + 1
      BY <1>2, <1>3 DEF TxInv, TxRingInOrder
    <2> QED
      BY <2>1, <1>2 DEF TxInv, TxTypeOK
  <1>5. tx_room' = tx_room - 1 /\ output' = Append(output, Len(output) + 1)
    BY <1>4 DEF Put, TxInv, TxTypeOK
  <1>6. /\ output \in Seq(Nat) /\ output' \in Seq(Nat) /\ Len(output') = Len(output) + 1
        /\ \A i \in 1 .. Len(output) : output'[i] = output[i]
        /\ output'[Len(output) + 1] = Len(output) + 1
    BY <1>5 DEF TxInv, TxTypeOK
  <1>7. TxTypeOK'
    BY <1>1, <1>5, <1>6 DEF TxInv, TxTypeOK
  <1>8. OutputExact'
    <2> SUFFICES ASSUME NEW i \in 1 .. Len(output') PROVE output'[i] = i
      BY DEF OutputExact
    <2>1. i \in 1 .. Len(output) \/ i = Len(output) + 1
      BY <1>6
    <2> QED
      BY <2>1, <1>6 DEF TxInv, OutputExact
  <1>9. TxRingInOrder'
    <2> SUFFICES ASSUME NEW k \in 0 .. TxCount' - 1
                 PROVE  tx_data[TxSlot(k)'] = Len(output') + Taken' + k + 1
      BY DEF TxRingInOrder
    <2>1. k \in 0 .. TxCount - 2 /\ k + 1 \in 0 .. TxCount - 1
      BY <1>1, <1>2
    <2>2. tx_data[TxSlot(k + 1)] = Len(output) + Taken + (k + 1) + 1
      BY <2>1 DEF TxInv, TxRingInOrder
    <2> QED
      BY <2>1, <2>2, <1>1, <1>3, <1>6
  <1>10. TakenInOrder' /\ AllPrinted' /\ StillThere'
    BY <1>1, <1>2, <1>3, <1>6 DEF TxInv, TxTypeOK, TakenInOrder, AllPrinted, StillThere, Dequeues
  <1> QED
    BY <1>7, <1>8, <1>9, <1>10 DEF TxInv, RingSizes

\* The three outcomes of a turn of mini_uart_putb_async.
LEMMA PutbKeeps == TxInv /\ Putb /\ ~Overtakes => TxInv'
  <1> SUFFICES ASSUME TxInv, Putb, ~Overtakes PROVE TxInv'
    OBVIOUS
  <1>1. CASE ~TxFull
    BY <1>1, EnqueueKeeps DEF Putb
  <1>2. CASE TxFull /\ tx_room > 0
    <2>1. ~Dequeues
      BY <1>2 DEF Overtakes
    <2>2. TxCount > 0
      BY <1>2, TxCountInRing DEF TxInv, RingSizes
    <2> QED
      BY <1>2, <2>1, <2>2, DequeueKeeps DEF Putb
  <1>3. CASE TxFull /\ ~(tx_room > 0)
    <2>1. UNCHANGED txRingVars
      BY <1>3 DEF Putb, txRingVars
    <2> QED
      BY <2>1, TxUnchanged
  <1> QED
    BY <1>1, <1>2, <1>3

\* One turn of the task in the handler.
LEMMA InlineTransmitKeeps == TxInv /\ InlineTransmit /\ ~Overtakes => TxInv'
  <1> SUFFICES ASSUME TxInv, InlineTransmit, ~Overtakes PROVE TxInv'
    OBVIOUS
  <1>1. ~Dequeues /\ tx_room > 0 /\ ~TxEmpty
    BY DEF Overtakes, InlineTransmit
  <1>2. TxCount > 0
    BY <1>1, TxCountInRing DEF TxInv, RingSizes
  <1> QED
    BY <1>1, <1>2, DequeueKeeps DEF InlineTransmit

\* The task sees a byte and room, takes the byte at head, and reads head; or it sees none,
\* enables the source and returns.
LEMMA TxReadsKeep ==
    /\ TxInv
    /\ TxCheck \/ TxReady \/ TxLoad \/ TxReadHead \/ TxTest \/ TxEnable \/ TxReturn
    => TxInv'
  <1> DEFINE Ends == {"check", "test", "enable", "return"}
  <1> SUFFICES ASSUME TxInv,
                      TxCheck \/ TxReady \/ TxLoad \/ TxReadHead \/ TxTest \/ TxEnable \/ TxReturn
               PROVE  TxInv'
    OBVIOUS
  <1>1. UNCHANGED <<tx_data, tx_head, tx_tail, tx_room, printed, output>>
    BY DEF TxCheck, TxReady, TxLoad, TxReadHead, TxTest, TxEnable, TxReturn, TxStep
  <1>2. TxCount' = TxCount /\ \A k : TxSlot(k)' = TxSlot(k)
    BY <1>1 DEF TxCount, TxSlot
  <1>3. \/ tx_task.at = "check" /\ tx_task' = NoLocals("ready") /\ ~TxEmpty
        \/ tx_task.at = "ready" /\ tx_task' = NoLocals("load") /\ tx_room > 0
        \/ tx_task.at = "load" /\ tx_task' = [at |-> "read_head", c |-> tx_data[tx_head], head |-> 0]
        \/ tx_task.at = "read_head" /\ tx_task' = [at |-> "write_head", c |-> tx_task.c, head |-> tx_head]
        \/ /\ tx_task.at \in Ends \cup {"ready"}
           /\ \E at \in Ends : tx_task' = NoLocals(at)
    <2>1. CASE TxCheck \/ TxReady
      BY <2>1 DEF TxCheck, TxReady, TxStep
    <2>2. CASE TxLoad
      BY <2>2 DEF TxLoad, TxStep
    <2>3. CASE TxReadHead
      BY <2>3 DEF TxReadHead, TxStep, TxInv, TxTypeOK
    <2>4. CASE TxTest \/ TxEnable \/ TxReturn
      BY <2>4 DEF TxTest, TxEnable, TxReturn, TxStep
    <2> QED
      BY <2>1, <2>2, <2>3, <2>4
  <1>4. Taken = 0 /\ Taken' = 0
    BY <1>3 DEF Taken, NoLocals
  <1>5. TxTypeOK'
    <2>1. tx_data[tx_head] \in Nat /\ tx_head \in Nat /\ tx_task.c \in Nat
      BY DEF TxInv, RingSizes, TxTypeOK
    <2>2. tx_task' \in [at : {"check", "ready", "load", "read_head", "write_head", "put",
                              "test", "enable", "return"}, c : Nat, head : Nat]
      BY <1>3, <2>1 DEF NoLocals
    <2> QED
      BY <1>1, <2>2 DEF TxInv, TxTypeOK
  <1>6. StillThere'
    <2>1. ~TxEmpty => TxCount > 0
      BY TxCountInRing DEF TxInv
    <2> QED
      BY <1>1, <1>2, <1>3, <2>1 DEF TxInv, StillThere, NoLocals
  <1>7. TxCount > 0 => tx_data[tx_head] = Len(output) + 1
    <2> SUFFICES ASSUME TxCount > 0 PROVE tx_data[tx_head] = Len(output) + 1
      OBVIOUS
    <2>1. TxSlot(0) = tx_head /\ 0 \in 0 .. TxCount - 1
      BY TxCountInRing DEF TxInv
    <2>2. tx_data[TxSlot(0)] = Len(output) + 0 + 0 + 1
      BY <2>1, <1>4 DEF TxInv, TxRingInOrder
    <2> QED
      BY <2>1, <2>2 DEF TxInv, TxTypeOK
  <1>8. TakenInOrder'
    <2>1. \/ tx_task'.at \notin {"read_head", "write_head", "put"}
          \/ tx_task.at = "load" /\ tx_task'.at = "read_head" /\ tx_task'.c = tx_data[tx_head]
          \/ /\ tx_task.at = "read_head" /\ tx_task'.at = "write_head"
             /\ tx_task'.c = tx_task.c /\ tx_task'.head = tx_head
      BY <1>3 DEF NoLocals
    <2>2. tx_task.at = "load" => TxCount > 0
      BY DEF TxInv, StillThere
    <2>3. tx_task.at = "read_head" => tx_task.c = Len(output) + 1
      BY DEF TxInv, TakenInOrder
    <2> QED
      BY <1>1, <1>7, <2>1, <2>2, <2>3 DEF TakenInOrder
  <1>9. OutputExact' /\ TxRingInOrder' /\ AllPrinted'
    BY <1>1, <1>2, <1>4 DEF TxInv, OutputExact, TxRingInOrder, AllPrinted
  <1> QED
    BY <1>5, <1>6, <1>8, <1>9 DEF TxInv, RingSizes

\* The head the task has read is still the head: writing it back moved on takes its byte off.
LEMMA TxWriteHeadKeeps == TxInv /\ TxWriteHead => TxInv'
  <1> SUFFICES ASSUME TxInv, TxWriteHead PROVE TxInv'
    OBVIOUS
  <1>1. /\ tx_task.at = "write_head" /\ tx_task' = [tx_task EXCEPT !.at = "put"]
        /\ tx_head' = Successor(tx_head, TxCapacity)
        /\ UNCHANGED <<tx_data, tx_tail, tx_room, printed, output>>
    BY DEF TxWriteHead, TxStep, TxInv, TakenInOrder
  <1>2. TxCount > 0
    BY <1>1 DEF TxInv, StillThere
  <1>3. /\ tx_head' \in 0 .. TxCapacity - 1 /\ TxCount' = TxCount - 1
        /\ \A k \in 0 .. TxCount - 2 : TxSlot(k)' = TxSlot(k + 1)
    BY <1>1, <1>2, TxHeadMoves DEF TxInv
  <1>4. TxCount \in 0 .. TxCapacity - 1
    BY TxCountInRing DEF TxInv
  <1>5. tx_task'.at = "put" /\ tx_task'.c = tx_task.c
    BY <1>1 DEF TxInv, TxTypeOK
  <1>6. Taken = 0 /\ Taken' = 1
    BY <1>1, <1>5 DEF Taken
  <1>7. TxTypeOK'
    BY <1>1, <1>3 DEF TxInv, TxTypeOK
  <1>8. TxRingInOrder'
    <2> SUFFICES ASSUME NEW k \in 0 .. TxCount' - 1
                 PROVE  tx_data[TxSlot(k)'] = Len(output) + 1 + k + 1
      BY <1>1, <1>6 DEF TxRingInOrder
    <2>1. k \in 0 .. TxCount - 2 /\ k + 1 \in 0 .. TxCount - 1
      BY <1>3, <1>4, <1>2
    <2>2. tx_data[TxSlot(k + 1)] = Len(output) + 0 + (k + 1) + 1
      BY <2>1, <1>6 DEF TxInv, TxRingInOrder
    <2> QED
      BY <2>1, <2>2, <1>3 DEF TxInv, TxTypeOK
  <1>9. OutputExact' /\ TakenInOrder' /\ AllPrinted' /\ StillThere'
    BY <1>1, <1>3, <1>4, <1>5, <1>6
       DEF TxInv, TxTypeOK, OutputExact, TakenInOrder, AllPrinted, StillThere
  <1> QED
    BY <1>7, <1>8, <1>9 DEF TxInv, RingSizes

\* The byte taken is the next one, and the FIFO has room for it.
LEMMA TxPutKeeps == TxInv /\ TxPut => TxInv'
  <1> SUFFICES ASSUME TxInv, TxPut PROVE TxInv'
    OBVIOUS
  <1>1. /\ tx_task.at = "put" /\ tx_task' = NoLocals("check") /\ Put(tx_task.c)
        /\ UNCHANGED <<tx_data, tx_head, tx_tail, printed>>
    BY DEF TxPut, TxStep
  <1>2. /\ tx_room \in Nat /\ tx_room > 0 /\ tx_task.c = Len(output) + 1
    BY <1>1 DEF TxInv, TxTypeOK, StillThere, TakenInOrder
  <1>3. tx_room' = tx_room - 1 /\ output' = Append(output, Len(output) + 1)
    BY <1>1, <1>2 DEF Put
  <1>4. /\ output \in Seq(Nat) /\ output' \in Seq(Nat) /\ Len(output') = Len(output) + 1
        /\ \A i \in 1 .. Len(output) : output'[i] = output[i]
        /\ output'[Len(output) + 1] = Len(output) + 1
    BY <1>3 DEF TxInv, TxTypeOK
  <1>5. TxCount' = TxCount /\ (\A k : TxSlot(k)' = TxSlot(k)) /\ Taken = 1 /\ Taken' = 0
    BY <1>1 DEF TxCount, TxSlot, Taken, NoLocals
  <1>6. TxTypeOK'
    BY <1>1, <1>2, <1>3, <1>4 DEF TxInv, TxTypeOK, NoLocals
  <1>7. OutputExact'
    <2> SUFFICES ASSUME NEW i \in 1 .. Len(output') PROVE output'[i] = i
      BY DEF OutputExact
    <2> QED
      BY <1>4 DEF TxInv, OutputExact
  <1>8. TxCount \in Nat
    BY TxCountInRing DEF TxInv
  <1>9. TxRingInOrder' /\ AllPrinted'
    BY <1>1, <1>4, <1>5, <1>8 DEF TxInv, TxTypeOK, TxRingInOrder, AllPrinted
  <1>10. TakenInOrder' /\ StillThere'
    BY <1>1 DEF TakenInOrder, StillThere, NoLocals
  <1> QED
    BY <1>6, <1>7, <1>9, <1>10 DEF TxInv, RingSizes

\* The hardware sends a byte: there is more room.
LEMMA FifoDrainsKeeps == TxInv /\ FifoDrains => TxInv'
  <1> SUFFICES ASSUME TxInv, FifoDrains PROVE TxInv'
    OBVIOUS
  <1>1. /\ tx_room' = tx_room + 1
        /\ UNCHANGED <<tx_data, tx_head, tx_tail, tx_task, printed, output>>
    BY DEF FifoDrains
  <1>2. TxCount' = TxCount /\ Taken' = Taken /\ \A k : TxSlot(k)' = TxSlot(k)
    BY <1>1 DEF TxCount, TxSlot, Taken
  <1>3. TxTypeOK'
    BY <1>1 DEF TxInv, TxTypeOK
  <1>4. StillThere'
    BY <1>1, <1>2 DEF TxInv, TxTypeOK, StillThere
  <1>5. OutputExact' /\ TxRingInOrder' /\ TakenInOrder' /\ AllPrinted'
    BY <1>1, <1>2 DEF TxInv, OutputExact, TxRingInOrder, TakenInOrder, AllPrinted
  <1> QED
    BY <1>3, <1>4, <1>5 DEF TxInv, RingSizes

\* The steps of the receive side, of the callbacks and of the interrupts touch none of it.
LEMMA TxOthersKeep ==
    (\/ Getb \/ CallbackBegins \/ CallbackEnds \/ TxIrq \/ RxIrq
     \/ InlineTransmitEnds \/ InlineReceive \/ InlineReceiveEnds
     \/ Receiving \/ ByteArrives \/ UNCHANGED vars) => UNCHANGED txRingVars
  BY DEF Getb, CallbackBegins, CallbackEnds, TxIrq, RxIrq, InlineTransmitEnds, InlineReceive,
         InlineReceiveEnds, Receiving, RxRead, RxStore, RxAdvance, RxCheck, RxTest, RxEnable, RxReturn,
         RxStep, ByteArrives, vars, transmitter, txRingVars

\* Every step that does not overtake keeps the invariant.
LEMMA TxNextInv == TxInv /\ [Next /\ ~Overtakes]_vars => TxInv'
  <1> SUFFICES ASSUME TxInv, [Next /\ ~Overtakes]_vars PROVE TxInv'
    OBVIOUS
  <1>1. CASE Putb /\ ~Overtakes
    BY <1>1, PutbKeeps
  <1>2. CASE TxCheck \/ TxReady \/ TxLoad \/ TxReadHead \/ TxTest \/ TxEnable \/ TxReturn
    BY <1>2, TxReadsKeep
  <1>3. CASE TxWriteHead
    BY <1>3, TxWriteHeadKeeps
  <1>4. CASE TxPut
    BY <1>4, TxPutKeeps
  <1>5. CASE FifoDrains
    BY <1>5, FifoDrainsKeeps
  <1>6. CASE InlineTransmit /\ ~Overtakes
    BY <1>6, InlineTransmitKeeps
  <1>7. CASE \/ Getb \/ CallbackBegins \/ CallbackEnds \/ TxIrq \/ RxIrq
             \/ InlineTransmitEnds \/ InlineReceive \/ InlineReceiveEnds
             \/ Receiving \/ ByteArrives \/ UNCHANGED vars
    BY <1>7, TxOthersKeep, TxUnchanged
  <1> QED
    BY <1>1, <1>2, <1>3, <1>4, <1>5, <1>6, <1>7 DEF Next, Inline, Transmitting

(* Every byte printed reaches the transmit FIFO once and in order, for rings, FIFOs and task  *)
(* queues of every size, as long as nobody takes a byte off the ring while the transmit task  *)
(* is in the middle of taking one: neither a print that finds the ring full nor an interrupt  *)
(* that could not queue the task (mini_uart_putb_async, mini_uart_handle_irq,                 *)
(* mini_uart_transmit_task).                                                                  *)
THEOREM OutputCorrect ==
    RingSizes /\ FifoSize \in Nat /\ Init /\ [][Next /\ ~Overtakes]_vars => []OutputExact
  <1>1. TxInv => OutputExact
    BY DEF TxInv
  <1> QED
    BY TxInitInv, TxNextInv, <1>1, PTL
-------------------------------------------------------------------------------
(* Both need a print inside an interrupt. *)

\* A timer callback prints.
CallbackPrints == Putb /\ Runs("callback")

\* As long as none does, nobody overtakes the task: the source is disabled while it works, so
\* no interrupt is taken for it, and threads print only when it has returned.
LEMMA NobodyOvertakes == Orderly("tx") /\ Next /\ ~CallbackPrints => ~Overtakes
  <1> SUFFICES ASSUME Orderly("tx"), ~CallbackPrints, Overtakes PROVE FALSE
    OBVIOUS
  <1>1. Dequeues /\ (Putb \/ InlineTransmit)
    BY DEF Overtakes
  <1>2. Working("tx")
    BY <1>1, Names DEF Orderly, Working, Rests, Dequeues
  <1>3. CASE Putb
    <2>1. active = <<>>
      BY <1>3 DEF Putb, CallbackPrints
    <2> QED
      BY <1>2, <2>1 DEF Working, On
  <1>4. CASE InlineTransmit
    <2>1. On(active, "tx_inline")
      BY <1>4, RunsFacts DEF InlineTransmit, Orderly
    <2> QED
      BY <1>2, <2>1, Names DEF Orderly, OneHolds
  <1> QED
    BY <1>1, <1>3, <1>4

(* As long as only threads print, every byte printed reaches the transmit FIFO once and in    *)
(* order, for rings, FIFOs and task queues of every size, whatever interrupts the transmit    *)
(* task and whether it is queued or run by the handler (mini_uart_putb_async,                 *)
(* mini_uart_handle_irq, mini_uart_transmit_task).                                            *)
THEOREM ThreadOutputCorrect ==
    RingSizes /\ FifoSize \in Nat /\ Init /\ [][Next /\ ~CallbackPrints]_vars => []OutputExact
  <1> DEFINE Inv == TxInv /\ Orderly("tx")
  <1>1. RingSizes /\ FifoSize \in Nat /\ Init => Inv
    BY TxInitInv, InitHolds, Names
  <1>2. Inv /\ [Next /\ ~CallbackPrints]_vars => Inv'
    <2> SUFFICES ASSUME Inv, [Next /\ ~CallbackPrints]_vars PROVE Inv'
      OBVIOUS
    <2>1. Orderly("tx")'
      <3>1. "tx" \in Tasks
        BY Names
      <3>2. CASE Next /\ ~CallbackPrints
        BY <3>1, <3>2, NextHolds DEF CallbackPrints
      <3>3. CASE UNCHANGED vars
        BY <3>1, <3>3, OutsideHolds
      <3> QED
        BY <3>2, <3>3
    <2>2. TxInv'
      BY NobodyOvertakes, TxNextInv
    <2> QED
      BY <2>1, <2>2
  <1>3. Inv => OutputExact
    BY DEF TxInv
  <1> QED
    BY <1>1, <1>2, <1>3, PTL
===============================================================================
