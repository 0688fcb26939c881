------------------------------- MODULE RxRing -------------------------------
(***************************************************************************)
(* The driver's receive ring, modules/mqnic/mqnic_rx.c: pages are posted   *)
(* by mqnic_refill_rx_buffers, filled by the hardware, handed to the stack *)
(* by mqnic_process_rx_cq under NAPI, and posted again.  Pages and skbs    *)
(* may fail to be allocated.  The hardware takes descriptors in order and  *)
(* finishes them in any order; its completions name their slots.           *)
(*                                                                         *)
(* An armed completion queue raises an interrupt for a completion, and     *)
(* arming a queue that has one raises it at once (CplQueueManager).        *)
(*                                                                         *)
(* Left out: lengths, checksums and timestamps of packets.                 *)
(***************************************************************************)
EXTENDS Integers, Sequences, FiniteSets

CONSTANTS RX_RING_SIZE,   \* entries of the ring
          RX_LAPS,        \* laps after which the pointers wrap
          REFILL,         \* missing buffers before any is posted: 8
          BUDGET          \* NAPI's budget

ASSUME RxRingAssumption ==
    /\ RX_RING_SIZE \in Nat \ {0} /\ RX_LAPS \in Nat \ {0, 1} /\ BUDGET \in Nat \ {0}
    /\ REFILL \in 1 .. RX_RING_SIZE

VARIABLES
    rx_port,      \* "closed", "up", "disabled" (queue off) or "down" (port_up cleared)
    rx_prod,      \* ring->prod_ptr
    rx_cons,      \* ring->cons_ptr
    rx_info,      \* the page of every slot: "none", "free" or "packet" (filled)
    rx_doorbell,  \* the producer pointer written to the hardware
    hw_cons,      \* descriptors the hardware has taken
    writing,      \* slots whose packet it is writing
    cpls,         \* completions in the completion queue
    rx_armed,     \* is the completion queue armed?
    rx_napi,      \* [pc, done]: mqnic_poll_rx_cq
    rx_short      \* history: the last refill ended for want of a page

rxVars == <<rx_port, rx_prod, rx_cons, rx_info, rx_doorbell, hw_cons, writing,
            cpls, rx_armed, rx_napi, rx_short>>
-----------------------------------------------------------------------------
RxPtrs    == 0 .. RX_LAPS * RX_RING_SIZE - 1
RxSlots   == 0 .. RX_RING_SIZE - 1
RxInc(p)  == (p + 1) % (RX_LAPS * RX_RING_SIZE)
RxDist(a, b) == (b - a) % (RX_LAPS * RX_RING_SIZE)
RxSlot(p) == p % RX_RING_SIZE

RxNapiIdle == [pc |-> "idle", done |-> 0]

RxInit ==
    /\ rx_port = "closed"
    /\ rx_prod = 0 /\ rx_cons = 0 /\ rx_doorbell = 0 /\ hw_cons = 0
    /\ rx_info = [s \in RxSlots |-> "none"]
    /\ writing = {} /\ cpls = <<>>
    /\ rx_armed = FALSE
    /\ rx_napi = RxNapiIdle /\ rx_short = FALSE

\* mqnic_refill_rx_buffers from consumer pointer c, when n pages can be had:
\* nothing is posted unless enough are missing, and a slot that still holds a
\* page (mqnic_prepare_rx_desc) ends it.
Missing(c) == RX_RING_SIZE - RxDist(c, rx_prod)
Refillable(c, n) ==
    IF Missing(c) < REFILL THEN n = 0
    ELSE n <= Missing(c) /\ \A k \in 0 .. n-1 : rx_info[RxSlot(rx_prod + k)] = "none"
\* It stopped at a slot that was ready for a page: mqnic_prepare_rx_desc could
\* not get one, or not map it.
Short(c, n) ==
    Missing(c) >= REFILL /\ n < Missing(c) /\ rx_info[RxSlot(rx_prod + n)] = "none"
Refilled(n) ==
    [s \in RxSlots |-> IF \E k \in 0 .. n-1 : RxSlot(rx_prod + k) = s THEN "free" ELSE rx_info[s]]

\* mqnic_open_rx_ring, napi_enable, mqnic_arm_cq and mqnic_enable_rx_ring: the
\* ring must be filled or the port does not start.
RxOpen ==
    /\ rx_port = "closed"
    /\ rx_port' = "up"
    /\ rx_info' = [s \in RxSlots |-> "free"]
    /\ rx_prod' = RX_RING_SIZE /\ rx_doorbell' = RX_RING_SIZE
    /\ rx_cons' = 0 /\ hw_cons' = 0 /\ writing' = {} /\ cpls' = <<>>
    /\ rx_armed' = TRUE /\ rx_napi' = RxNapiIdle /\ rx_short' = FALSE
-----------------------------------------------------------------------------
(* The hardware: a packet without a descriptor is dropped.                 *)

HwTake ==
    /\ rx_port = "up"
    /\ hw_cons # rx_doorbell
    /\ writing' = writing \cup {RxSlot(hw_cons)}
    /\ hw_cons' = RxInc(hw_cons)
    /\ UNCHANGED <<rx_port, rx_prod, rx_cons, rx_info, rx_doorbell, cpls, rx_armed, rx_napi, rx_short>>

HwComplete(s) ==
    /\ s \in writing
    /\ writing' = writing \ {s}
    /\ rx_info' = [rx_info EXCEPT ![s] = "packet"]
    /\ cpls' = Append(cpls, s)
    /\ rx_armed' = FALSE
    /\ rx_napi' = IF rx_armed /\ rx_napi.pc = "idle" THEN [rx_napi EXCEPT !.pc = "sched"] ELSE rx_napi
    /\ UNCHANGED <<rx_port, rx_prod, rx_cons, rx_doorbell, hw_cons, rx_short>>
-----------------------------------------------------------------------------
(* mqnic_poll_rx_cq.                                                       *)

RxPollStart ==
    /\ rx_napi.pc = "sched"
    /\ rx_napi' = [pc |-> IF rx_port = "down" THEN "complete" ELSE "cpl", done |-> 0]
    /\ UNCHANGED <<rx_port, rx_prod, rx_cons, rx_info, rx_doorbell, hw_cons, writing, cpls, rx_armed, rx_short>>

\* A completion whose slot has a page: the page goes to the stack in an skb.
\* A completion of a slot without a page is not consumed: it ends the loop.
RxPollCpl ==
    /\ rx_napi.pc = "cpl" /\ rx_napi.done < BUDGET
    /\ cpls # <<>> /\ rx_info[Head(cpls)] # "none"
    /\ rx_info' = [rx_info EXCEPT ![Head(cpls)] = "none"]
    /\ cpls' = Tail(cpls)
    /\ rx_napi' = [rx_napi EXCEPT !.done = @ + 1]
    /\ UNCHANGED <<rx_port, rx_prod, rx_cons, rx_doorbell, hw_cons, writing, rx_armed, rx_short>>

\* Mutant: the consumer pointer moves by the number of completions.
ConsAfter_Count == (rx_cons + rx_napi.done) % (RX_LAPS * RX_RING_SIZE)

\* No completion, the budget is used up, or no skb could be had.
\* The consumer pointer moves past the slots that have no page, and the ring
\* is filled from there as far as pages can be had.
ConsAfter ==
    LET past == {n \in 0 .. RxDist(rx_cons, rx_prod) :
                   \A k \in 0 .. n-1 : rx_info[RxSlot(rx_cons + k)] = "none"}
        most == CHOOSE n \in past : \A x \in past : x <= n
    IN  (rx_cons + most) % (RX_LAPS * RX_RING_SIZE)

LoopOver == IF cpls = <<>> \/ rx_napi.done = BUDGET THEN TRUE ELSE rx_info[Head(cpls)] = "none"
RxPollEnd(skb, n) ==
    /\ rx_napi.pc = "cpl"
    /\ skb => LoopOver
    /\ Refillable(ConsAfter, n)
    /\ rx_cons' = ConsAfter
    /\ rx_info' = Refilled(n)
    /\ rx_prod' = (rx_prod + n) % (RX_LAPS * RX_RING_SIZE)
    /\ rx_doorbell' = rx_prod'       \* mqnic_rx_write_prod_ptr
    /\ rx_short' = Short(ConsAfter, n)
    /\ rx_napi' = [rx_napi EXCEPT !.pc = IF rx_napi.done = BUDGET THEN "sched" ELSE "complete"]
    /\ UNCHANGED <<rx_port, hw_cons, writing, cpls, rx_armed>>

\* Mutant: the queue is not armed again.
RxComplete_NoArm ==
    /\ rx_napi.pc = "complete"
    /\ rx_napi' = RxNapiIdle
    /\ UNCHANGED <<rx_port, rx_prod, rx_cons, rx_info, rx_doorbell, hw_cons, writing, cpls, rx_armed, rx_short>>

\* napi_complete and mqnic_arm_cq.
RxComplete ==
    /\ rx_napi.pc = "complete"
    /\ rx_armed' = (cpls = <<>>)
    /\ rx_napi' = IF cpls = <<>> THEN RxNapiIdle ELSE [pc |-> "sched", done |-> 0]
    /\ UNCHANGED <<rx_port, rx_prod, rx_cons, rx_info, rx_doorbell, hw_cons, writing, cpls, rx_short>>
-----------------------------------------------------------------------------
(* mqnic_stop_port: the queue is disabled, 20 ms later (in which packets   *)
(* that are being written are taken to finish) port_up is cleared, and the *)
(* ring is closed once NAPI is off.                                        *)

RxDisable ==
    /\ rx_port = "up"
    /\ rx_port' = "disabled"
    /\ UNCHANGED <<rx_prod, rx_cons, rx_info, rx_doorbell, hw_cons, writing, cpls, rx_armed, rx_napi, rx_short>>

RxDown ==
    /\ rx_port = "disabled" /\ writing = {}
    /\ rx_port' = "down"
    /\ UNCHANGED <<rx_prod, rx_cons, rx_info, rx_doorbell, hw_cons, writing, cpls, rx_armed, rx_napi, rx_short>>

\* mqnic_free_rx_buf frees the pages from the consumer to the producer pointer.
FreeRxBuf ==
    [s \in RxSlots |->
       IF \E p \in RxPtrs : RxSlot(p) = s /\ RxDist(rx_cons, p) < RxDist(rx_cons, rx_prod)
       THEN "none" ELSE rx_info[s]]

\* mqnic_close_rx_ring.  napi_disable waits for a poll to end.
RxClose ==
    /\ rx_port = "down" /\ rx_napi.pc \in {"idle", "sched"}
    /\ rx_port' = "closed"
    /\ rx_info' = FreeRxBuf
    /\ rx_cons' = rx_prod
    /\ rx_napi' = RxNapiIdle
    /\ rx_armed' = FALSE /\ cpls' = <<>>
    /\ UNCHANGED <<rx_prod, rx_doorbell, hw_cons, writing, rx_short>>

RxPoll == \/ RxPollStart \/ RxPollCpl \/ RxComplete
          \/ \E skb \in BOOLEAN, n \in 0 .. RX_RING_SIZE : RxPollEnd(skb, n)
RxNext == \/ RxOpen \/ HwTake \/ RxPoll \/ RxDisable \/ RxDown \/ RxClose
          \/ \E s \in RxSlots : HwComplete(s)

\* NAPI runs what is scheduled, packets keep arriving and are written, and a
\* queue whose skbs are retried gets one in the end.  Pages need never be had.
RxFairness ==
    /\ WF_rxVars(RxPoll) /\ SF_rxVars(RxPollCpl)
    /\ WF_rxVars(HwTake) /\ \A s \in RxSlots : WF_rxVars(HwComplete(s))
    /\ WF_rxVars(RxDown) /\ WF_rxVars(RxClose)
RxSpec == RxInit /\ [][RxNext]_rxVars /\ RxFairness
-----------------------------------------------------------------------------
(* Properties.                                                             *)

\* Every page has one owner.  A slot the hardware may write, or is writing,
\* holds a page that no packet is in and the stack does not have; a completion
\* finds its packet in its slot (mqnic_rx.c:333 takes a missing page for an
\* error); and mqnic_free_rx_buf leaves no page behind in a closed ring.
PagesOwned ==
    /\ \A s \in writing : rx_info[s] = "free"
    /\ rx_port # "closed" =>
         \A p \in RxPtrs : RxDist(hw_cons, p) < RxDist(hw_cons, rx_doorbell) => rx_info[RxSlot(p)] = "free"
    /\ \A k \in 1 .. Len(cpls) :
         /\ rx_info[cpls[k]] = "packet"
         /\ \A j \in 1 .. Len(cpls) : cpls[j] = cpls[k] => j = k
    /\ rx_port = "closed" => \A s \in RxSlots : rx_info[s] = "none"

\* The queue has come to a halt: the hardware has no descriptor left, nothing
\* is in flight, and only a completion would make the driver try again.
Dry == rx_napi.pc = "idle" /\ cpls = <<>> /\ writing = {} /\ hw_cons = rx_doorbell

\* A queue without descriptors gets new ones, although buffers are posted only
\* when enough are missing, packets finish out of order, and skbs and pages may
\* fail to be allocated at any step.  The one exception is a queue that has run
\* dry because the last refill could not get a page (mqnic_rx.c:279, whose
\* result the poll ignores): it stays so for ever.
StopsOnlyDry ==
    (rx_port = "up" /\ hw_cons = rx_doorbell)
        ~> (hw_cons # rx_doorbell \/ (Dry /\ rx_short) \/ rx_port # "up")
=============================================================================
