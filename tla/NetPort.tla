------------------------------ MODULE NetPort ------------------------------
(***************************************************************************)
(* One network device of the mqnic driver: how a port is started, stopped, *)
(* reconfigured and torn down after a failure (mqnic_netdev.c,             *)
(* mqnic_ethtool.c), the life of its completion queues and rings           *)
(* (mqnic_cq.c, mqnic_rx.c, mqnic_tx.c, mqnic_res.c), while the event      *)
(* queue interrupt (mqnic_eq.c), the NAPI polls and the link timer go on.  *)
(*                                                                         *)
(* Every entry point below runs under RTNL, so there is one thread; what   *)
(* it races with are interrupts, polls, the timer and the device.  Event   *)
(* queues outlive a restart of the port, so an event of a queue that is    *)
(* gone may still be waiting when its number is given to a new queue.      *)
(***************************************************************************)
EXTENDS Integers, FiniteSets, FiniteSetsExt

CONSTANTS RXQ_MAX, TXQ_MAX,  \* queues the interface offers (rxq_res, txq_res)
          EQ_COUNT,          \* event queues of the interface
          CQ_COUNT,          \* completion queue numbers (cq_res)
          MTUS,              \* MTUs a user may ask for
          LINK_POLL,         \* module parameter mqnic_link_status_poll # 0
          Faults,            \* allocations that may fail
          MaxOps             \* bound on the operations a user asks for

ASSUME NetPortAssumption ==
  /\ RXQ_MAX \in Nat \ {0} /\ TXQ_MAX \in Nat \ {0}
  /\ EQ_COUNT \in Nat \ {0} /\ CQ_COUNT \in Nat \ {0} /\ MaxOps \in Nat
  /\ MTUS # {} /\ LINK_POLL \in BOOLEAN
  /\ Faults \subseteq {"create_cq", "cq_buf", "create_ring", "open_ring", "insert"}

NoneIdx == -1                    \* an unallocated index, as in the code
NoQueue == <<"none", 0>>
Dangling == <<"freed", 0>>       \* a pointer to a completion queue that was freed

RxQ == {<<"rx", k>> : k \in 0..RXQ_MAX-1}
TxQ == {<<"tx", k>> : k \in 0..TXQ_MAX-1}
Queues == RxQ \cup TxQ
EQs == 0..EQ_COUNT-1
Cqns == 0..CQ_COUNT-1

VARIABLES
  priv,      \* [running, rxq_count, txq_count, mtu, indir]: struct mqnic_priv
  port_up,   \* priv->port_up
  thread,    \* [pc, i, then, r, t]: the operation under RTNL
  cq,        \* per queue, its struct mqnic_cq
  ring,      \* per queue, its struct mqnic_ring; in the radix table when open
  eq_open,   \* event queues that are open
  cq_table,  \* per event queue: completion queue number -> queue or NoQueue
  events,    \* per event queue: numbers with an event the driver has not taken
  irq,       \* per event queue: the queue the handler has looked up, or NoQueue
  pending,   \* queues whose completion queue holds unprocessed records
  inflight,  \* queues with an operation under way in the device
  hw,        \* [mtu, indir]: interface registers
  timer,     \* the link status timer is pending
  carrier,   \* netif_carrier_ok
  orphans,   \* NAPI contexts still enabled in a completion queue that was freed
  ops        \* operations asked for so far

netVars == <<priv, port_up, thread, cq, ring, eq_open, cq_table, events, irq,
             pending, inflight, hw, timer, carrier, orphans, ops>>

NoCq == [cqn |-> NoneIdx, enabled |-> FALSE, armed |-> FALSE,
         handler |-> FALSE, napi |-> "none", tail |-> FALSE]
NoRing == [index |-> NoneIdx, enabled |-> FALSE, mtu |-> NoneIdx]
Open(q) == ring[q].index # NoneIdx

EqOf(q) == q[2] % EQ_COUNT

\* RX queues are set up first, then TX queues.
QueueAt(i) == IF i < priv.rxq_count THEN <<"rx", i>> ELSE <<"tx", i - priv.rxq_count>>

\* mqnic_res_alloc: the lowest clear bit; NoneIdx when there is none.
ResAlloc(used, count) ==
  LET free == (0..count-1) \ used IN IF free = {} THEN NoneIdx ELSE Min(free)
CqnsUsed == {cq[q].cqn : q \in Queues} \ {NoneIdx}
RingsUsed(dir) == {ring[q].index : q \in {p \in Queues : p[1] = dir}} \ {NoneIdx}

NetInit ==
  /\ priv = [running |-> FALSE, rxq_count |-> RXQ_MAX, txq_count |-> TXQ_MAX,
             mtu |-> Min(MTUS), indir |-> [k \in 0..RXQ_MAX-1 |-> k % RXQ_MAX]]
  /\ port_up = FALSE
  /\ thread = [pc |-> "idle", i |-> 0, then |-> "done", r |-> 0, t |-> 0]
  /\ cq = [q \in Queues |-> NoCq]
  /\ ring = [q \in Queues |-> NoRing]
  /\ eq_open = EQs
  /\ cq_table = [e \in EQs |-> [n \in Cqns |-> NoQueue]]
  /\ events = [e \in EQs |-> {}]
  /\ irq = [e \in EQs |-> NoQueue]
  /\ pending = {} /\ inflight = {}
  /\ hw = [mtu |-> NoneIdx, indir |-> [k \in 0..RXQ_MAX-1 |-> 0]]
  /\ timer = FALSE /\ carrier = FALSE
  /\ orphans = 0 /\ ops = 0

---------------------------------------------------------------------------
(* Raising an event: an armed completion queue that holds a record posts   *)
(* its number to its event queue and is disarmed.  A closed event queue    *)
(* takes nothing.  A second event for a number already waiting changes     *)
(* nothing the driver does, so the waiting numbers are a set.              *)
Post(q) ==
  [events EXCEPT ![EqOf(q)] = IF EqOf(q) \in eq_open THEN @ \cup {cq[q].cqn} ELSE @]

\* mqnic_arm_cq: nothing when the queue is not enabled; a queue that already
\* holds a record fires at once.
ArmCq(q, c) ==
  /\ cq' = [cq EXCEPT ![q] = [c EXCEPT !.armed = c.enabled /\ q \notin pending]]
  /\ events' = IF c.enabled /\ q \in pending THEN Post(q) ELSE events

\* The entries mqnic_update_indir_table can resolve are written to the device.
UpdateIndir(rings, indir) ==
  [k \in 0..RXQ_MAX-1 |->
     IF rings[<<"rx", indir[k]>>].index # NoneIdx
     THEN rings[<<"rx", indir[k]>>].index ELSE hw.indir[k]]

\* kfree(cq): an interrupt handler that has looked the queue up is not waited for.
Freed(q) == [e \in EQs |-> IF irq[e] = q THEN Dangling ELSE irq[e]]

\* mqnic_eq_attach_cq and mqnic_eq_detach_cq, of a number in a queue's event queue.
Attached(q, n) == [cq_table EXCEPT ![EqOf(q)][n] = q]
Detached(q, n) == [cq_table EXCEPT ![EqOf(q)][n] = NoQueue]

Goto(pc) == thread' = [thread EXCEPT !.pc = pc]
Begin(pc, then) == thread' = [pc |-> pc, i |-> 0, then |-> then, r |-> 0, t |-> 0]

---------------------------------------------------------------------------
(* Entry points. *)
Idle == thread.pc = "idle" /\ ops < MaxOps /\ ops' = ops + 1

mqnic_open ==
  /\ Idle /\ ~priv.running
  /\ Begin("start_cq", "open")
  /\ UNCHANGED <<priv, port_up, cq, ring, eq_open, cq_table, events, irq, pending,
                 inflight, hw, timer, carrier, orphans>>

mqnic_close ==
  /\ Idle /\ priv.running
  /\ Begin("stop_timer", "close")
  /\ UNCHANGED <<priv, port_up, cq, ring, eq_open, cq_table, events, irq, pending,
                 inflight, hw, timer, carrier, orphans>>

\* The MTU is recorded, then a running device is restarted; the result of the
\* restart is not looked at.
mqnic_change_mtu(m) ==
  /\ Idle
  /\ priv' = [priv EXCEPT !.mtu = m]
  /\ IF priv.running THEN Begin("stop_timer", "restart") ELSE UNCHANGED thread
  /\ UNCHANGED <<port_up, cq, ring, eq_open, cq_table, events, irq, pending,
                 inflight, hw, timer, carrier, orphans>>

\* A new RX count resets the indirection table before the port is stopped;
\* the counts change while it is stopped.
mqnic_set_channels(r, t) ==
  /\ Idle /\ <<r, t>> # <<priv.rxq_count, priv.txq_count>>
  /\ priv' = [priv EXCEPT !.indir = IF r = priv.rxq_count THEN @
                                    ELSE [k \in 0..RXQ_MAX-1 |-> k % r],
                          !.rxq_count = IF port_up THEN @ ELSE r,
                          !.txq_count = IF port_up THEN @ ELSE t]
  /\ IF port_up
     THEN thread' = [pc |-> "stop_timer", i |-> 0, then |-> "resize", r |-> r, t |-> t]
     ELSE UNCHANGED thread
  /\ UNCHANGED <<port_up, cq, ring, eq_open, cq_table, events, irq, pending,
                 inflight, hw, timer, carrier, orphans>>

\* New ring sizes (their values do not matter here) restart a port that is up.
mqnic_set_ringparam ==
  /\ Idle
  /\ IF port_up THEN Begin("stop_timer", "restart") ELSE UNCHANGED thread
  /\ UNCHANGED <<priv, port_up, cq, ring, eq_open, cq_table, events, irq, pending,
                 inflight, hw, timer, carrier, orphans>>

mqnic_set_rxfh(indir) ==
  /\ Idle /\ \A k \in DOMAIN indir : indir[k] < priv.rxq_count
  /\ priv' = [priv EXCEPT !.indir = indir]
  /\ hw' = [hw EXCEPT !.indir = UpdateIndir(ring, indir)]
  /\ UNCHANGED <<port_up, thread, cq, ring, eq_open, cq_table, events, irq, pending,
                 inflight, timer, carrier, orphans>>

---------------------------------------------------------------------------
(* mqnic_start_port.  A failure goes to fail, which is mqnic_stop_port. *)
\* Mutant: a failed start returns without stopping what it has started.
Fail_NoStop == Begin("idle", "done")

Fail == thread' = [thread EXCEPT !.pc = "stop_timer",
                                 !.then = IF thread.then = "open" THEN "close" ELSE "done"]

\* mqnic_close_eq on the event queue the completion queue was to be attached to.
CloseEq(e) == eq_open' = eq_open \ {e}

\* mqnic_create_cq and mqnic_open_cq.  When the buffer cannot be allocated the
\* event queue is closed; mqnic_destroy_cq then gives the number back.
StartCq ==
  LET q == QueueAt(thread.i)  n == ResAlloc(CqnsUsed, CQ_COUNT) IN
  /\ thread.pc = "start_cq"
  /\ \/ /\ "create_cq" \in Faults \/ n = NoneIdx
        /\ Fail /\ UNCHANGED <<cq, cq_table, eq_open, pending>>
     \/ /\ n # NoneIdx /\ "cq_buf" \in Faults
        /\ CloseEq(EqOf(q)) /\ Fail /\ UNCHANGED <<cq, cq_table, pending>>
     \/ /\ n # NoneIdx
        /\ cq' = [cq EXCEPT ![q] = [NoCq EXCEPT !.cqn = n, !.enabled = TRUE]]
        /\ cq_table' = Attached(q, n)
        /\ pending' = pending \ {q}
        /\ Goto("start_napi") /\ UNCHANGED eq_open
  /\ UNCHANGED <<priv, port_up, ring, events, irq, inflight, hw, timer, carrier,
                 orphans, ops>>

\* Mutant: the new completion queue is not armed.
StartNapi_NoArm ==
  /\ thread.pc = "start_napi"
  /\ cq' = [cq EXCEPT ![QueueAt(thread.i)].napi = "idle"]
  /\ Goto("start_ring")
  /\ UNCHANGED <<priv, port_up, ring, eq_open, cq_table, events, irq, pending, inflight,
                 hw, timer, carrier, orphans, ops>>

StartNapi ==
  LET q == QueueAt(thread.i) IN
  /\ thread.pc = "start_napi"
  /\ ArmCq(q, [cq[q] EXCEPT !.napi = "idle"])
  /\ Goto("start_ring")
  /\ UNCHANGED <<priv, port_up, ring, eq_open, cq_table, irq, pending, inflight, hw,
                 timer, carrier, orphans, ops>>

\* mqnic_create_?x_ring, mqnic_open_?x_ring and radix_tree_insert.  Any failure
\* destroys the ring (which clears the handler again) and the completion queue,
\* whose NAPI context nobody disables.
StartRing ==
  LET q == QueueAt(thread.i)
      n == ResAlloc(RingsUsed(q[1]), IF q[1] = "rx" THEN RXQ_MAX ELSE TXQ_MAX) IN
  /\ thread.pc = "start_ring"
  /\ \/ /\ n = NoneIdx \/ Faults \cap {"create_ring", "open_ring", "insert"} # {}
        /\ cq_table' = Detached(q, cq[q].cqn)
        /\ cq' = [cq EXCEPT ![q] = NoCq]
        /\ irq' = Freed(q)
        /\ orphans' = orphans + 1
        /\ Fail /\ UNCHANGED ring
     \/ /\ n # NoneIdx
        /\ ring' = [ring EXCEPT ![q] = [index |-> n, enabled |-> FALSE, mtu |-> priv.mtu]]
        /\ cq' = [cq EXCEPT ![q].handler = TRUE]
        /\ thread' = IF thread.i + 1 = priv.rxq_count + priv.txq_count
                     THEN [thread EXCEPT !.pc = "start_up"]
                     ELSE [thread EXCEPT !.pc = "start_cq", !.i = @ + 1]
        /\ UNCHANGED <<cq_table, orphans, irq>>
  /\ UNCHANGED <<priv, port_up, eq_open, events, pending, inflight, hw, timer,
                 carrier, ops>>

\* MTU and indirection registers, then port_up.
StartUp ==
  /\ thread.pc = "start_up"
  /\ hw' = [mtu |-> priv.mtu, indir |-> UpdateIndir(ring, priv.indir)]
  /\ port_up' = TRUE
  /\ Goto("start_enable")
  /\ UNCHANGED <<priv, cq, ring, eq_open, cq_table, events, irq, pending, inflight,
                 timer, carrier, orphans, ops>>

\* Every ring of the tables is enabled.
StartEnable ==
  /\ thread.pc = "start_enable"
  /\ ring' = [q \in Queues |-> [ring[q] EXCEPT !.enabled = Open(q)]]
  /\ Goto("start_link")
  /\ UNCHANGED <<priv, port_up, cq, eq_open, cq_table, events, irq, pending, inflight,
                 hw, timer, carrier, orphans, ops>>

\* Scheduler and transmit queues on; the timer watches the link, or the carrier
\* is simply reported.
StartLink ==
  /\ thread.pc = "start_link"
  /\ timer' = LINK_POLL
  /\ carrier' = (IF LINK_POLL THEN carrier ELSE TRUE)
  /\ priv' = [priv EXCEPT !.running = TRUE]
  /\ Begin("idle", "done")
  /\ UNCHANGED <<port_up, cq, ring, eq_open, cq_table, events, irq, pending, inflight,
                 hw, orphans, ops>>

---------------------------------------------------------------------------
(* mqnic_stop_port. *)
StopTimer ==
  /\ thread.pc = "stop_timer"
  /\ timer' = FALSE
  /\ Goto("stop_link")
  /\ UNCHANGED <<priv, port_up, cq, ring, eq_open, cq_table, events, irq, pending,
                 inflight, hw, carrier, orphans, ops>>

\* Carrier off, transmit queues and schedulers off, every ring disabled.
StopLink ==
  /\ thread.pc = "stop_link"
  /\ carrier' = FALSE
  /\ ring' = [q \in Queues |-> [ring[q] EXCEPT !.enabled = FALSE]]
  /\ Goto("stop_drain")
  /\ UNCHANGED <<priv, port_up, cq, eq_open, cq_table, events, irq, pending, inflight,
                 hw, timer, orphans, ops>>

\* msleep(20): long enough for what the device had started to be completed.
StopDrain ==
  /\ thread.pc = "stop_drain"
  /\ inflight = {}
  /\ port_up' = FALSE
  /\ Goto("stop_queue")
  /\ UNCHANGED <<priv, cq, ring, eq_open, cq_table, events, irq, pending, inflight, hw,
                 timer, carrier, orphans, ops>>

\* The queue the loops over txq_table and then rxq_table come to next.
StopNext ==
  CHOOSE q \in {p \in Queues : Open(p)} :
    \A p \in {r \in Queues : Open(r)} :
      \/ q[1] = "tx" /\ p[1] = "rx"
      \/ q[1] = p[1] /\ q[2] <= p[2]

\* napi_disable: no new poll is scheduled; it returns when none is under way.
StopNapi ==
  LET q == StopNext IN
  /\ thread.pc = "stop_queue" /\ \E p \in Queues : Open(p)
  /\ \/ /\ cq[q].napi \in {"idle", "sched"}
        /\ cq' = [cq EXCEPT ![q].napi = IF @ = "idle" THEN "off" ELSE "disabling"]
        /\ UNCHANGED thread
     \/ /\ cq[q].napi = "off"
        /\ Goto("stop_ring") /\ UNCHANGED cq
  /\ UNCHANGED <<priv, port_up, ring, eq_open, cq_table, events, irq, pending, inflight,
                 hw, timer, carrier, orphans, ops>>

\* Mutant: the ring is closed without waiting for the end of the poll function.
NapiGone_NoWait(q) == TRUE

\* netif_napi_del waits (synchronize_net) until the poll function has returned.
NapiGone(q) == ~cq[q].tail

\* netif_napi_del; close and destroy the ring, take it out of the table.
StopRing ==
  LET q == StopNext IN
  /\ thread.pc = "stop_ring"
  /\ NapiGone(q)
  /\ ring' = [ring EXCEPT ![q] = NoRing]
  /\ cq' = [cq EXCEPT ![q].napi = "none", ![q].handler = FALSE]
  /\ thread' = [thread EXCEPT !.pc = "stop_cq",
                              !.i = IF q[1] = "rx" THEN q[2] ELSE priv.rxq_count + q[2]]
  /\ UNCHANGED <<priv, port_up, eq_open, cq_table, events, irq, pending, inflight, hw,
                 timer, carrier, orphans, ops>>

\* mqnic_close_cq and mqnic_destroy_cq: the queue is deactivated and detached,
\* its number free again.
StopCq ==
  LET q == QueueAt(thread.i) IN
  /\ thread.pc = "stop_cq"
  /\ cq_table' = Detached(q, cq[q].cqn)
  /\ cq' = [cq EXCEPT ![q] = NoCq]
  /\ irq' = Freed(q)
  /\ pending' = pending \ {q}
  /\ Goto("stop_queue")
  /\ UNCHANGED <<priv, port_up, ring, eq_open, events, inflight, hw, timer,
                 carrier, orphans, ops>>

\* The port is stopped: start again, or return to the caller.
StopDone ==
  /\ thread.pc = "stop_queue" /\ \A q \in Queues : ~Open(q)
  /\ CASE thread.then = "restart" ->
            Begin("start_cq", "done") /\ UNCHANGED priv
       [] thread.then = "close" ->
            Begin("idle", "done") /\ priv' = [priv EXCEPT !.running = FALSE]
       [] thread.then = "done" ->
            Begin("idle", "done") /\ UNCHANGED priv
       [] thread.then = "resize" ->
            /\ Begin("start_cq", "done")
            /\ priv' = [priv EXCEPT !.rxq_count = thread.r, !.txq_count = thread.t]
  /\ UNCHANGED <<port_up, cq, ring, eq_open, cq_table, events, irq, pending, inflight,
                 hw, timer, carrier, orphans, ops>>

---------------------------------------------------------------------------
(* Interrupt, polls, timer and device. *)

\* mqnic_process_eq takes an event and looks its source up.
IrqLookup(e) ==
  /\ e \in eq_open /\ irq[e] = NoQueue
  /\ \E n \in events[e] :
       /\ events' = [events EXCEPT ![e] = @ \ {n}]
       /\ irq' = [irq EXCEPT ![e] = cq_table[e][n]]
  /\ UNCHANGED <<priv, port_up, thread, cq, ring, eq_open, cq_table, pending, inflight,
                 hw, timer, carrier, orphans, ops>>

\* cq->handler, when there is one: napi_schedule, which does nothing when the
\* context is scheduled or disabled.  What a handler does with a queue freed
\* since the lookup is undefined; the handler pointer was cleared before.
IrqHandle(e) ==
  /\ irq[e] # NoQueue
  /\ irq' = [irq EXCEPT ![e] = NoQueue]
  /\ cq' = IF irq[e] # Dangling /\ cq[irq[e]].handler /\ cq[irq[e]].napi = "idle"
           THEN [cq EXCEPT ![irq[e]].napi = "sched"] ELSE cq
  /\ UNCHANGED <<priv, port_up, thread, ring, eq_open, cq_table, events, pending,
                 inflight, hw, timer, carrier, orphans, ops>>

\* Mutant: a poll that finds the port down does not complete.
Poll_NoComplete(q) ==
  /\ cq[q].napi \in {"sched", "disabling"} /\ port_up
  /\ pending' = pending \ {q}
  /\ cq' = [cq EXCEPT ![q].napi = IF @ = "sched" THEN "idle" ELSE "off",
                      ![q].tail = TRUE]
  /\ UNCHANGED <<priv, port_up, thread, ring, eq_open, cq_table, events, irq, inflight,
                 hw, timer, carrier, orphans, ops>>

\* mqnic_poll_?x_cq: records are taken while the port is up, then napi_complete.
Poll(q) ==
  /\ cq[q].napi \in {"sched", "disabling"}
  /\ pending' = IF port_up THEN pending \ {q} ELSE pending
  /\ cq' = [cq EXCEPT ![q].napi = IF @ = "sched" THEN "idle" ELSE "off",
                      ![q].tail = TRUE]
  /\ UNCHANGED <<priv, port_up, thread, ring, eq_open, cq_table, events, irq, inflight,
                 hw, timer, carrier, orphans, ops>>

\* The poll function arms the completion queue after napi_complete.
PollArm(q) ==
  /\ cq[q].tail
  /\ ArmCq(q, [cq[q] EXCEPT !.tail = FALSE])
  /\ UNCHANGED <<priv, port_up, thread, ring, eq_open, cq_table, irq, pending, inflight,
                 hw, timer, carrier, orphans, ops>>

\* mqnic_link_status_timeout: report the link and rearm.
LinkTimeout(up) ==
  /\ timer
  /\ carrier' = up
  /\ UNCHANGED <<priv, port_up, thread, cq, ring, eq_open, cq_table, events, irq,
                 pending, inflight, hw, timer, orphans, ops>>

\* The device starts an operation on an enabled ring ...
DeviceStart(q) ==
  /\ ring[q].enabled /\ q \notin inflight
  /\ inflight' = inflight \cup {q}
  /\ UNCHANGED <<priv, port_up, thread, cq, ring, eq_open, cq_table, events, irq,
                 pending, hw, timer, carrier, orphans, ops>>

\* ... and later writes its completion record.
DeviceComplete(q) ==
  /\ q \in inflight
  /\ inflight' = inflight \ {q}
  /\ pending' = IF cq[q].enabled THEN pending \cup {q} ELSE pending
  /\ events' = IF cq[q].armed THEN Post(q) ELSE events
  /\ cq' = [cq EXCEPT ![q].armed = FALSE]
  /\ UNCHANGED <<priv, port_up, thread, ring, eq_open, cq_table, irq, hw, timer,
                 carrier, orphans, ops>>

---------------------------------------------------------------------------
Request ==
  \/ mqnic_open \/ mqnic_close \/ mqnic_set_ringparam
  \/ \E m \in MTUS : mqnic_change_mtu(m)
  \/ \E r \in 1..RXQ_MAX, t \in 1..TXQ_MAX : mqnic_set_channels(r, t)
  \/ \E indir \in [0..RXQ_MAX-1 -> 0..RXQ_MAX-1] : mqnic_set_rxfh(indir)

Step == \/ StartCq \/ StartNapi \/ StartRing \/ StartUp \/ StartEnable \/ StartLink
        \/ StopTimer \/ StopLink \/ StopDrain \/ StopNapi \/ StopRing \/ StopCq
        \/ StopDone

Interrupt == \E e \in EQs : IrqLookup(e) \/ IrqHandle(e)
Napi == \E q \in Queues : Poll(q) \/ PollArm(q)
Timer == \E up \in BOOLEAN : LinkTimeout(up)
Device == \E q \in Queues : DeviceStart(q) \/ DeviceComplete(q)

NetNext == Request \/ Step \/ Interrupt \/ Napi \/ Timer \/ Device

\* The thread runs on, an interrupt is delivered and handled, a scheduled poll
\* runs, the device finishes what it has started.
NetFairness ==
  /\ WF_netVars(Step)
  /\ \A e \in EQs : WF_netVars(IrqLookup(e)) /\ WF_netVars(IrqHandle(e))
  /\ \A q \in Queues : /\ WF_netVars(Poll(q)) /\ WF_netVars(PollArm(q))
                       /\ WF_netVars(DeviceComplete(q))

NetSpec == NetInit /\ [][NetNext]_netVars /\ NetFairness
---------------------------------------------------------------------------
\* What an event queue's table finds for a completion queue number is the open
\* queue that owns the number, and every open queue is found in the table of
\* its own event queue: mqnic_process_eq never dispatches an event of a number
\* that was reused to the queue that had it before (mqnic_eq.c:150-180).
TableLive ==
  \A e \in EQs, n \in Cqns, q \in Queues :
    cq_table[e][n] = q <=> cq[q].cqn = n /\ cq[q].enabled /\ EqOf(q) = e

\* While a poll is scheduled or still running, its completion queue and its
\* ring exist: mqnic_stop_port frees neither under mqnic_poll_rx_cq or
\* mqnic_poll_tx_cq, not even in the part after napi_complete.
PollSafe ==
  \A q \in Queues : cq[q].napi \in {"sched", "disabling"} \/ cq[q].tail =>
                     cq[q].enabled /\ Open(q)

\* Neither an event nor a poll reaches a queue that is gone or another one's.
QueuesLive == TableLive /\ PollSafe

\* A stopped port holds nothing, whichever step of mqnic_start_port failed: no
\* ring, no completion queue number, no table entry, no enabled queue, no timer,
\* no carrier.
StoppedClean ==
  thread.pc = "idle" /\ ~port_up =>
    /\ \A q \in Queues : cq[q] = NoCq /\ ring[q] = NoRing
    /\ \A e \in EQs, n \in Cqns : cq_table[e][n] = NoQueue
    /\ ~timer /\ ~carrier /\ inflight = {} /\ pending = {}

\* A port that is up has every configured queue open, enabled, built for the
\* current MTU, and no other; the device splits packets only over those.
UpComplete ==
  thread.pc = "idle" /\ port_up =>
    /\ {q \in Queues : Open(q)} = {QueueAt(i) : i \in 0..priv.rxq_count+priv.txq_count-1}
    /\ \A q \in Queues : Open(q) => ring[q].enabled /\ ring[q].mtu = priv.mtu
                                     /\ cq[q].enabled /\ cq[q].handler
    /\ hw.mtu = priv.mtu
    /\ \A k \in 0..RXQ_MAX-1 : hw.indir[k] = ring[<<"rx", priv.indir[k]>>].index

\* Between two changes of its state a port is all there or not at all, whatever
\* failed on the way: up with exactly its configuration, or stopped and empty.
UpOrClean == UpComplete /\ StoppedClean

\* A completion record never waits unnoticed on a port that is up: its event
\* is in the event queue or in the handler's hands, or the poll that will see
\* it is scheduled or about to arm the queue.  Restarts, reused numbers and
\* events that arrive before the handler is installed do not break this.
NoStall ==
  \A q \in Queues : port_up /\ thread.pc = "idle" /\ q \in pending =>
    \/ cq[q].cqn \in events[EqOf(q)] \/ irq[EqOf(q)] = q
    \/ cq[q].napi = "sched" \/ cq[q].tail

\* Every request ends: mqnic_stop_port's napi_disable is not kept waiting by
\* the interrupts of completions nobody takes any more.
RequestsEnd == thread.pc # "idle" ~> thread.pc = "idle"
============================================================================
