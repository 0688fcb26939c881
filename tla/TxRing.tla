------------------------------- MODULE TxRing -------------------------------
(***************************************************************************)
(* The driver's transmit ring, modules/mqnic/mqnic_tx.c: mqnic_start_xmit, *)
(* which the network stack calls under the lock of the transmit queue,     *)
(* against mqnic_process_tx_cq, which NAPI runs on another CPU without any *)
(* lock.  They share prod_ptr, cons_ptr, tx_info and the queue's stopped   *)
(* bit.  Every read or write of these that the other side can observe is a *)
(* step of its own, and the store to cons_ptr, which no full barrier       *)
(* follows, may stay in the store buffer of its CPU.                       *)
(*                                                                         *)
(* The hardware is a counter: it completes what the doorbell has passed,   *)
(* in order, as QueueManager and CplQueueManager show it does.  That NAPI  *)
(* runs when a completion is there is CompletionsDelivered of              *)
(* CplQueueManager, and here an assumption of fairness.                    *)
(*                                                                         *)
(* Left out: the contents of descriptors, timestamps, statistics, and the  *)
(* size of the budget: the loop over the completions may end after any.    *)
(***************************************************************************)
EXTENDS Integers, FiniteSets

CONSTANTS RING_SIZE,   \* entries of the ring, a power of two
          LAPS,        \* laps after which the pointers wrap: they are 32 bits
          NONE         \* no skb

PtrMod == LAPS * RING_SIZE
Ptrs   == 0 .. PtrMod - 1
Slots  == 0 .. RING_SIZE - 1

ASSUME TxRingAssumption ==
    RING_SIZE \in Nat \ {0, 1} /\ LAPS \in Nat \ {0, 1} /\ NONE \notin Ptrs

VARIABLES
    port,       \* the port: "up", "stopping" (rings disabled), "down" (port_up
                \* cleared), "closed" (rings freed)
    prod_ptr,   \* ring->prod_ptr, of start_xmit
    cons_ptr,   \* ring->cons_ptr in memory
    store,      \* stores to cons_ptr in NAPI's store buffer: at most one
    tx_info,    \* the skb in every slot, named by its pointer
    stopped,    \* __QUEUE_STATE_DRV_XOFF of the transmit queue
    doorbell,   \* the producer pointer written to the queue manager
    completed,  \* the hardware has completed the packets before this one
    reaped,     \* the driver has consumed their completions up to this one
    xmit,       \* mqnic_start_xmit
    napi        \* mqnic_process_tx_cq

vars == <<port, prod_ptr, cons_ptr, store, tx_info, stopped, doorbell,
          completed, reaped, xmit, napi>>
ring_vars == <<prod_ptr, cons_ptr, store, tx_info>>
hw_vars   == <<doorbell, completed, reaped>>
-----------------------------------------------------------------------------

Inc(p)     == (p + 1) % PtrMod
Dist(a, b) == (b - a) % PtrMod
Slot(p)    == p % RING_SIZE

\* Mutant: the whole ring may be filled.
FullSize_Whole == RING_SIZE

FullSize == RING_SIZE \div 2

\* mqnic_is_tx_ring_full, for a reader that sees c in cons_ptr.
IsFull(c) == Dist(c, prod_ptr) >= FullSize

\* What NAPI itself reads from cons_ptr: its own store, if it is buffered.
NapiCons == IF store = {} THEN cons_ptr ELSE CHOOSE c \in store : TRUE

PortUp == port \in {"up", "stopping"}

XmitIdle == [pc |-> "idle", more |-> FALSE, stop |-> FALSE]
NapiIdle == [pc |-> "idle", done |-> FALSE, ring |-> 0]

Init ==
    /\ port = "closed"
    /\ prod_ptr = 0
    /\ cons_ptr = 0
    /\ store = {}
    /\ tx_info = [s \in Slots |-> NONE]
    /\ stopped = TRUE
    /\ doorbell = 0
    /\ completed = 0
    /\ reaped = 0
    /\ xmit = XmitIdle
    /\ napi = NapiIdle
-----------------------------------------------------------------------------
(* mqnic_start_xmit.  The stack calls it for a queue that is not stopped,  *)
(* and says with `more' that another packet follows at once.               *)

XmitCalled == xmit.pc = "idle" /\ ~stopped

\* The port is down, the checksum or the linearisation fails, or the skb
\* cannot be mapped: it is dropped.
XmitDrop(more) ==
    /\ XmitCalled
    /\ xmit' = [xmit EXCEPT !.more = more]
    /\ UNCHANGED <<port, ring_vars, stopped, hw_vars, napi>>

\* The skb is mapped and stored in the slot at the producer pointer.
MapSkb == [tx_info EXCEPT ![Slot(prod_ptr)] = prod_ptr]

\* The skb and its descriptor are stored, and the producer pointer moves.
XmitPost(more) ==
    /\ XmitCalled
    /\ PortUp
    /\ tx_info' = MapSkb
    /\ prod_ptr' = Inc(prod_ptr)
    /\ xmit' = [xmit EXCEPT !.pc = "full", !.more = more]
    /\ UNCHANGED <<port, cons_ptr, store, stopped, hw_vars, napi>>

XmitFull ==
    /\ xmit.pc = "full"
    /\ xmit' = [xmit EXCEPT !.stop = IsFull(cons_ptr),
                            !.pc = IF IsFull(cons_ptr) THEN "stop" ELSE "ring"]
    /\ UNCHANGED <<port, ring_vars, stopped, hw_vars, napi>>

\* netif_tx_stop_queue, an atomic bit operation.
XmitStop ==
    /\ xmit.pc = "stop"
    /\ stopped' = TRUE
    /\ xmit' = [xmit EXCEPT !.pc = "ring"]
    /\ UNCHANGED <<port, ring_vars, hw_vars, napi>>

\* Mutant: a packet that stops the queue rings only at the end of its batch.
XmitRing_NotOnStop ==
    /\ xmit.pc = "ring"
    /\ doorbell' = IF ~xmit.more THEN prod_ptr ELSE doorbell
    /\ xmit' = [xmit EXCEPT !.pc = IF xmit.stop THEN "recheck" ELSE "idle"]
    /\ UNCHANGED <<port, ring_vars, stopped, completed, reaped, napi>>

\* mqnic_tx_write_prod_ptr, at the end of a batch or when the queue is stopped.
XmitRing ==
    /\ xmit.pc = "ring"
    /\ doorbell' = IF ~xmit.more \/ xmit.stop THEN prod_ptr ELSE doorbell
    /\ xmit' = [xmit EXCEPT !.pc = IF xmit.stop THEN "recheck" ELSE "idle"]
    /\ UNCHANGED <<port, ring_vars, stopped, completed, reaped, napi>>

\* Has NAPI made room before it could see the queue stopped?
XmitRecheck ==
    /\ xmit.pc = "recheck"
    /\ xmit' = [xmit EXCEPT !.stop = FALSE,
                            !.pc = IF IsFull(cons_ptr) THEN "idle" ELSE "wake"]
    /\ UNCHANGED <<port, ring_vars, stopped, hw_vars, napi>>

XmitWake ==
    /\ xmit.pc = "wake"
    /\ stopped' = FALSE
    /\ xmit' = [xmit EXCEPT !.pc = "idle"]
    /\ UNCHANGED <<port, ring_vars, hw_vars, napi>>
-----------------------------------------------------------------------------
(* mqnic_process_tx_cq, called by NAPI.                                    *)

PollStart ==
    /\ napi.pc = "idle"
    /\ PortUp
    /\ napi' = [napi EXCEPT !.pc = "cpl", !.done = FALSE]
    /\ UNCHANGED <<port, ring_vars, stopped, hw_vars, xmit>>

\* mqnic_free_tx_desc: the skb of a slot is freed.
FreeTxDesc(s) == [tx_info EXCEPT ![s] = NONE]

\* A completion frees the descriptor it names.
PollCpl ==
    /\ napi.pc = "cpl"
    /\ reaped # completed
    /\ tx_info' = FreeTxDesc(Slot(reaped))
    /\ reaped' = Inc(reaped)
    /\ napi' = [napi EXCEPT !.done = TRUE]
    /\ UNCHANGED <<port, prod_ptr, cons_ptr, store, stopped, doorbell, completed, xmit>>

\* The loop ends, when there is no completion or the budget is used up.  The
\* completion queue's consumer pointer is written, which empties the store
\* buffer.
PollCplEnd ==
    /\ napi.pc = "cpl"
    /\ reaped = completed \/ napi.done
    /\ store = {}
    /\ napi' = [napi EXCEPT !.pc = "ring", !.ring = cons_ptr]
    /\ UNCHANGED <<port, ring_vars, stopped, hw_vars, xmit>>

\* The loop over the ring goes on past slots that are free.
SlotDone == napi.ring # prod_ptr /\ tx_info[Slot(napi.ring)] = NONE

PollRing ==
    /\ napi.pc = "ring"
    /\ SlotDone
    /\ napi' = [napi EXCEPT !.ring = Inc(@)]
    /\ UNCHANGED <<port, ring_vars, stopped, hw_vars, xmit>>

\* WRITE_ONCE(cons_ptr): to the store buffer.
PollStore ==
    /\ napi.pc = "ring"
    /\ ~SlotDone
    /\ store' = {napi.ring}
    /\ napi' = [napi EXCEPT !.pc = "stopped"]
    /\ UNCHANGED <<port, prod_ptr, cons_ptr, tx_info, stopped, hw_vars, xmit>>

Drain ==
    /\ store # {}
    /\ cons_ptr' = NapiCons
    /\ store' = {}
    /\ UNCHANGED <<port, prod_ptr, tx_info, stopped, hw_vars, xmit, napi>>

PollStopped ==
    /\ napi.pc = "stopped"
    /\ napi' = [napi EXCEPT !.pc = IF stopped THEN "full" ELSE "idle"]
    /\ UNCHANGED <<port, ring_vars, stopped, hw_vars, xmit>>

PollFull ==
    /\ napi.pc = "full"
    /\ napi' = [napi EXCEPT !.pc = IF IsFull(NapiCons) THEN "idle" ELSE "wake"]
    /\ UNCHANGED <<port, ring_vars, stopped, hw_vars, xmit>>

PollWake ==
    /\ napi.pc = "wake"
    /\ stopped' = FALSE
    /\ napi' = [napi EXCEPT !.pc = "idle"]
    /\ UNCHANGED <<port, ring_vars, hw_vars, xmit>>
-----------------------------------------------------------------------------
(* The hardware, and the life of the port.                                 *)

Complete ==
    /\ PortUp
    /\ completed # doorbell
    /\ completed' = Inc(completed)
    /\ UNCHANGED <<port, ring_vars, stopped, doorbell, reaped, xmit, napi>>

\* mqnic_start_port: a new ring.
StartPort ==
    /\ port = "closed"
    /\ port' = "up"
    /\ prod_ptr' = 0 /\ cons_ptr' = 0 /\ store' = {}
    /\ tx_info' = [s \in Slots |-> NONE]
    /\ doorbell' = 0 /\ completed' = 0 /\ reaped' = 0
    /\ stopped' = FALSE
    /\ UNCHANGED <<xmit, napi>>

\* mqnic_stop_port: netif_tx_disable waits for the queue's lock.  NAPI may
\* wake the queue again before port_up is cleared.
StopPort ==
    /\ port = "up"
    /\ xmit.pc = "idle"
    /\ port' = "stopping"
    /\ stopped' = TRUE
    /\ UNCHANGED <<ring_vars, hw_vars, xmit, napi>>

PortDown ==
    /\ port = "stopping"
    /\ port' = "down"
    /\ UNCHANGED <<ring_vars, stopped, hw_vars, xmit, napi>>

\* mqnic_free_tx_buf: the skbs from cons_ptr to prod_ptr are freed.
FreeTxBuf ==
    [s \in Slots |-> IF \E p \in Ptrs : /\ Slot(p) = s
                                        /\ Dist(cons_ptr, p) < Dist(cons_ptr, prod_ptr)
                     THEN NONE ELSE tx_info[s]]

\* mqnic_close_tx_ring, after napi_disable.  A call of start_xmit that saw
\* port_up is taken to have returned.
CloseRing ==
    /\ port = "down"
    /\ xmit.pc = "idle" /\ napi.pc = "idle" /\ store = {}
    /\ port' = "closed"
    /\ tx_info' = FreeTxBuf
    /\ cons_ptr' = prod_ptr
    /\ UNCHANGED <<prod_ptr, store, stopped, hw_vars, xmit, napi>>

Xmit == \/ \E more \in BOOLEAN : XmitDrop(more) \/ XmitPost(more)
        \/ XmitFull \/ XmitStop \/ XmitRing \/ XmitRecheck \/ XmitWake

Poll == \/ PollStart \/ PollCpl \/ PollCplEnd \/ PollRing \/ PollStore
        \/ PollStopped \/ PollFull \/ PollWake

Next == Xmit \/ Poll \/ Drain \/ Complete \/ StartPort \/ StopPort \/ PortDown
        \/ CloseRing

Spec == Init /\ [][Next]_vars
-----------------------------------------------------------------------------
(* Properties.                                                             *)

\* start_xmit does not test whether the ring has room (mqnic_tx.c:481); it
\* finds a free slot all the same, whatever stale value of cons_ptr or of the
\* stopped bit either side has acted on.
SlotIsFree == XmitCalled /\ PortUp => tx_info[Slot(prod_ptr)] = NONE

\* A completion finds its own skb in its slot (mqnic_tx.c:256-267): no skb is
\* freed twice, or freed while the hardware still reads it.
CompletionsMatch ==
    port # "closed" =>
        \A p \in Ptrs : Dist(reaped, p) < Dist(reaped, prod_ptr) =>
                            tx_info[Slot(p)] = p

\* mqnic_free_tx_buf frees every skb that is left: none is behind the consumer
\* pointer when the ring is closed.
NothingLeaked == port = "closed" => \A s \in Slots : tx_info[s] = NONE

\* A slot of tx_info belongs to one packet from its post until its completion,
\* or until the ring is closed.
TxSlotsOwned == SlotIsFree /\ CompletionsMatch /\ NothingLeaked

\* The driver writes the producer pointer at the end of a batch of packets
\* (docs/source/operations.rst:19).
BatchRung == port = "up" /\ xmit.pc = "idle" /\ ~xmit.more => doorbell = prod_ptr

\* The scheduler runs both sides on, stores drain, the hardware completes what
\* it is told of, and NAPI is called while there is a completion.
Fairness ==
    /\ WF_vars(XmitFull \/ XmitStop \/ XmitRing \/ XmitRecheck \/ XmitWake)
    /\ WF_vars(PollStart /\ reaped # completed)
    /\ WF_vars(PollCpl \/ PollCplEnd \/ PollRing \/ PollStore \/ PollStopped
               \/ PollFull \/ PollWake)
    /\ WF_vars(Drain)
    /\ WF_vars(Complete)

FairSpec == Spec /\ Fairness

\* A queue that start_xmit has stopped is woken, although NAPI may read the
\* stopped bit before its own cons_ptr is visible and start_xmit may read
\* cons_ptr before that: the packet that stopped the queue was rung, and its
\* completion makes NAPI look again (mqnic_tx.c:485-513).
StoppedIsWoken == stopped /\ port = "up" ~> ~stopped \/ port # "up"
=============================================================================
