----------------------------- MODULE ProcessTable -----------------------------
(***************************************************************************)
(* What thread.h promises without saying how: a table of live IDs, one of  *)
(* which is running.  ID 0 is the boot thread and ID 1 the idle thread;    *)
(* both live forever.  A created thread stays outstanding, as              *)
(* thread_count() reports it, until idle has reclaimed it, although its ID *)
(* is free for reuse as soon as it exits.                                  *)
(***************************************************************************)
EXTENDS Integers, FiniteSets

CONSTANT IdCount  \* CONFIG_THREAD_ID_COUNT: IDs are 0 .. IdCount - 1

VARIABLES running,     \* the ID of the running thread
          kernels,     \* the live IDs of created kernel threads
          users,       \* the live IDs of user threads
          outstanding  \* thread_count()

tableVars == <<running, kernels, users, outstanding>>

BootId == 0
IdleId == 1
Live == {BootId, IdleId} \cup kernels \cup users
Zombies == outstanding - Cardinality(kernels \cup users)

Init == /\ running = BootId
        /\ kernels = {}
        /\ users = {}
        /\ outstanding = 0

\* "Create a runnable kernel thread; return its ID."
SpawnKernel(id) == /\ id \notin Live
                   /\ kernels' = kernels \cup {id}
                   /\ outstanding' = outstanding + 1
                   /\ UNCHANGED <<running, users>>

\* "Create a new runnable EL0 thread", loaded from an image or forked.
SpawnUser(id) == /\ id \notin Live
                 /\ users' = users \cup {id}
                 /\ outstanding' = outstanding + 1
                 /\ UNCHANGED <<running, kernels>>

\* "End a created thread.  Boot and idle must not call this API."
Exit == /\ running \notin {BootId, IdleId}
        /\ kernels' = kernels \ {running}
        /\ users' = users \ {running}
        /\ running' \in Live \ {running}
        /\ UNCHANGED outstanding

\* "Terminate a user process by ID; boot/idle/kernel threads are protected."
Kill(id) == /\ id \in users \ {running}
            /\ users' = users \ {id}
            /\ UNCHANGED <<running, kernels, outstanding>>

Switch == /\ running' \in Live
          /\ UNCHANGED <<kernels, users, outstanding>>

\* "IDs may be reused after exit, before idle reclaims the old thread's memory."
Reclaim == /\ running = IdleId
           /\ Zombies > 0
           /\ outstanding' = outstanding - 1
           /\ UNCHANGED <<running, kernels, users>>

Next == \/ \E id \in 2 .. IdCount - 1 : SpawnKernel(id) \/ SpawnUser(id) \/ Kill(id)
        \/ Exit
        \/ Switch
        \/ Reclaim

Spec == Init /\ [][Next]_tableVars
===============================================================================
