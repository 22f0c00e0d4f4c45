-------------------------------- MODULE Mailbox --------------------------------
(***************************************************************************)
(* mailbox.c of Lab5/c on the kernel heap, with the VideoCore firmware on  *)
(* the other side of the two FIFOs.  A call runs with interrupts masked:   *)
(* only the firmware moves while it waits, and clients allocate and free   *)
(* between calls.  The firmware works in the buffer of a request until it  *)
(* has put the answer in the response FIFO, however late that is.          *)
(*                                                                         *)
(* CONFIG_MAILBOX_TIMEOUT polls may all come too early, so a wait can end  *)
(* at any point; a malformed call returns before it changes anything and   *)
(* is left out.                                                            *)
(***************************************************************************)
EXTENDS Allocator

CONSTANTS CallSizes   \* buffer[0] of the requests made

ASSUME CallSizesAssumption == CallSizes \subseteq Nat \ {0}

VARIABLES
    phase,                \* where mailbox_call is: "idle" outside it
    request_size, allocation,   \* its locals; 0 and NULL while they mean nothing
    pending_allocation, pending_request,
    requests, responses   \* MAILBOX_WRITE and MAILBOX_READ: the FIFOs

call == <<phase, request_size, allocation>>
pending == <<pending_allocation, pending_request>>
fifos == <<requests, responses>>
vars == <<heap, call, pending, fifos>>

Phases == {"idle", "draining", "allocating", "sending", "waiting"}

\* align_up(allocation, 16); MAILBOX_CH_PROP, in the low bits of every request, is left out.
Request(address) == address + (address % 2)
\* size + 15 bytes, rounded up
Slack == 2

\* The heap blocks the mailbox holds.
Held == {allocation, pending_allocation} \ {NULL}

Return == phase' = "idle" /\ request_size' = 0 /\ allocation' = NULL
-------------------------------------------------------------------------------
(* mailbox_call *)

\* Mutation: a new request is sent before the late answer has been read.
CallAtOnce(bytes) == /\ phase = "idle"
                     /\ request_size' = bytes
                     /\ phase' = "allocating"
                     /\ UNCHANGED <<heap, allocation, pending, fifos>>

\* A request that timed out must be answered first.
Call(bytes) == /\ phase = "idle"
               /\ request_size' = bytes
               /\ phase' = IF pending_allocation = NULL THEN "allocating" ELSE "draining"
               /\ UNCHANGED <<heap, allocation, pending, fifos>>

\* mailbox_wait_response takes a response; another one than its own is dropped.
DrainRead == /\ phase = "draining" /\ responses # <<>>
             /\ responses' = Tail(responses)
             /\ IF Head(responses) = pending_request
                  THEN /\ Free(pending_allocation)
                       /\ pending_allocation' = NULL /\ pending_request' = NULL
                       /\ phase' = "allocating"
                  ELSE UNCHANGED <<heap, pending, phase>>
             /\ UNCHANGED <<request_size, allocation, requests>>

DrainTimeout == /\ phase = "draining"
                /\ Return
                /\ UNCHANGED <<heap, pending, fifos>>

Allocate == /\ phase = "allocating"
            /\ \E address \in Addresses : Malloc(request_size + Slack, address) /\ allocation' = address
            /\ phase' = "sending"
            /\ UNCHANGED <<request_size, pending, fifos>>

AllocateFails == /\ phase = "allocating"
                 /\ MallocFails(request_size + Slack)
                 /\ Return
                 /\ UNCHANGED <<pending, fifos>>

\* mailbox_property_call, once the request FIFO has room.
Send == /\ phase = "sending"
        /\ requests' = Append(requests, Request(allocation))
        /\ phase' = "waiting"
        /\ UNCHANGED <<heap, request_size, allocation, pending, responses>>

\* The FIFO stayed full, or the buffer is out of the mailbox's reach.
SendFails == /\ phase = "sending"
             /\ Free(allocation)
             /\ Return
             /\ UNCHANGED <<pending, fifos>>

\* The answer, accepted or an error, is copied to the caller and the block is freed.
Read == /\ phase = "waiting" /\ responses # <<>>
        /\ responses' = Tail(responses)
        /\ IF Head(responses) = Request(allocation) THEN Free(allocation) /\ Return
           ELSE UNCHANGED <<heap, call>>
        /\ UNCHANGED <<pending, requests>>

\* Mutation: the block is freed whatever the error.
ReadTimeoutFrees == /\ phase = "waiting"
                    /\ Free(allocation)
                    /\ Return
                    /\ UNCHANGED <<pending, fifos>>

\* The firmware still has the block: it is retained.
ReadTimeout == /\ phase = "waiting"
               /\ pending_allocation' = allocation
               /\ pending_request' = Request(allocation)
               /\ Return
               /\ UNCHANGED <<heap, fifos>>
-------------------------------------------------------------------------------
\* The firmware writes its answer into the buffer and returns the request.
Answer == /\ requests # <<>>
          /\ requests' = Tail(requests)
          /\ responses' = Append(responses, Head(requests))
          /\ UNCHANGED <<heap, call, pending>>

\* The rest of the kernel, between calls.
Clients == /\ phase = "idle"
           /\ \/ ClientMalloc
              \/ \E address \in DOMAIN blocks \ Held : Free(address)
              \/ KernelAllocatorInit
           /\ UNCHANGED <<call, pending, fifos>>

Init == /\ HeapInit
        /\ phase = "idle" /\ request_size = 0 /\ allocation = NULL
        /\ pending_allocation = NULL /\ pending_request = NULL
        /\ requests = <<>> /\ responses = <<>>

Transaction == \/ DrainRead \/ DrainTimeout \/ Allocate \/ AllocateFails
               \/ Send \/ SendFails \/ Read \/ ReadTimeout

Next == \/ \E bytes \in CallSizes : Call(bytes)
        \/ Transaction \/ Answer \/ Clients

Spec == Init /\ [][Next]_vars
-------------------------------------------------------------------------------
(* Properties *)

\* The variables keep their types.
TypeOK == /\ heap_current \in heap_begin .. heap_end
          /\ ready \in BOOLEAN
          /\ DOMAIN pool_pages \subseteq Pages /\ DOMAIN large_blocks \subseteq Pages
          /\ \A class \in SizeClasses : available_pages[class] \in Seq(Pages)
          /\ DOMAIN blocks \subseteq Addresses
          /\ phase \in Phases
          /\ request_size \in CallSizes \cup {0}
          /\ {allocation, pending_allocation, pending_request} \subseteq Addresses \cup {NULL}
          /\ requests \in Seq(Addresses) /\ responses \in Seq(Addresses)

\* "never reuse memory still used by VC": every request the firmware may still write to lies
\* in a block the mailbox holds, which no other caller of malloc has.
VcOwnsItsBuffer ==
    /\ Held \subseteq DOMAIN blocks
    /\ \A k \in DOMAIN requests : \E address \in Held :
        /\ requests[k] = Request(address)
        /\ phase \in {"sending", "waiting"} /\ address = allocation =>
              Span(requests[k], request_size) \subseteq Span(address, blocks[address])

\* One request is outstanding at most, and it is the one waited for or the retained one: so
\* an answer cannot be taken for that of a later request in the same block, at most one block
\* is retained, and the answer that frees it is never lost.
OutstandingExact ==
    LET outstanding == requests \o responses
    IN /\ TypeOK
       /\ Len(outstanding) <= 1
       /\ pending_allocation # NULL => outstanding = <<pending_request>>
       /\ phase = "waiting" => outstanding = <<Request(allocation)>>
       /\ pending_allocation = NULL /\ phase # "waiting" => outstanding = <<>>
===============================================================================
