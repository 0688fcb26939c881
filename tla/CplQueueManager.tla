-------------------------- MODULE CplQueueManager --------------------------
(***************************************************************************)
(* The completion queue manager, fpga/common/rtl/cpl_queue_manager.v,      *)
(* clock by clock, from the reservation of a slot to the interrupt and the *)
(* driver's poll loop.  Its pipeline and operation table are those of      *)
(* QueueManager; what differs is that the hardware produces and the host   *)
(* consumes, and that a queue that is armed emits an event.                *)
(*                                                                         *)
(* The module is closed with cpl_write.v, which writes each completion to  *)
(* host memory before it commits it; with the posted register writes of    *)
(* the host bus; and with the driver: mqnic_open_cq, the NAPI poll loops   *)
(* of mqnic_tx.c and mqnic_rx.c, mqnic_arm_cq and mqnic_close_cq.  The     *)
(* path of an event through the event queue to the driver is a bag of      *)
(* pending events.  The same module, with interrupts for events, serves    *)
(* the event queues.                                                       *)
(*                                                                         *)
(* Left out, as in QueueManager: request tags, VF ID, AXI-Lite responses   *)
(* and read data.  The `continuous' bit is never written by any command    *)
(* and keeps its reset value 0.                                            *)
(***************************************************************************)
EXTENDS Integers, Sequences, FiniteSets

CONSTANTS
    QUEUE_COUNT,       \* number of completion queues
    OP_TABLE_SIZE,     \* number of outstanding operations
    PIPELINE,          \* pipeline stages
    QUEUE_PTR_WIDTH,   \* bits of a queue pointer
    LogSizes,          \* log2 of the queue sizes the driver opens
    Bases,             \* DMA addresses the driver may allocate for a queue
    EQ_COUNT,          \* number of event queues
    ReadQueues,        \* queues whose registers a tool (mqnic-dump) reads
    RING_SIZE,         \* descriptors in flight per queue: bounds completions
    EventReady,        \* values the event FIFO may drive on m_axis_event_ready
    Budget,            \* NAPI budget
    MaxPosted,         \* bound: register writes in flight on the host bus
    MaxArming,         \* bound: CPUs between napi_complete and mqnic_arm_cq
    MaxPending         \* bound: events of a queue on their way to the driver

PtrMod == 2^QUEUE_PTR_WIDTH
Queues == 0 .. QUEUE_COUNT - 1
OpIdx  == 0 .. OP_TABLE_SIZE - 1
Stages == 0 .. PIPELINE - 1
Ptrs   == 0 .. PtrMod - 1
Bit    == {0, 1}

ASSUME CplQueueCountAssumption == QUEUE_COUNT \in Nat \ {0}
ASSUME CplOpTableAssumption    == OP_TABLE_SIZE \in Nat \ {0}
ASSUME CplPipelineAssumption   == PIPELINE \in Nat /\ PIPELINE >= 2
ASSUME CplPtrModAssumption     == PtrMod \in Nat /\ PtrMod > OP_TABLE_SIZE
ASSUME CplLogSizesAssumption   == /\ QUEUE_PTR_WIDTH \in Nat
                                  /\ LogSizes \subseteq 0 .. QUEUE_PTR_WIDTH - 1
\* Facts about powers of two, which the provers do not know: twice a queue size
\* divides the range of the pointers.
ASSUME CplSizesAssumption      == /\ 2^0 = 1
                                  /\ \A l \in LogSizes \cup {0} :
                                        /\ 2^l \in Nat \ {0}
                                        /\ \E n \in 1 .. PtrMod : PtrMod = n * (2 * 2^l)
ASSUME CplConfigAssumption     == /\ Bases \subseteq Nat
                                  /\ EQ_COUNT \in Nat \ {0}
                                  /\ ReadQueues \subseteq Queues
ASSUME CplDriverAssumption     == /\ RING_SIZE \in Nat \ {0}
                                  /\ Budget \in Nat \ {0}
                                  /\ MaxPosted \in Nat \ {0}
                                  /\ MaxArming \in Nat \ {0}
                                  /\ MaxPending \in Nat \ {0}
ASSUME CplEventReadyAssumption == EventReady \subseteq BOOLEAN

VARIABLES
    queue_ram,             \* queue state words
    pipe,                  \* the operation in every pipeline stage
    op_table,              \* enqueues in flight
    op_table_start_ptr,    \* next op_table entry to allocate
    op_table_finish_ptr,   \* next op_table entry to retire
    resp,                  \* enqueue response output register
    event,                 \* event output register: a set of at most one event
    held,                  \* slots cpl_write fills
    buf,                   \* completion records in host memory
    slots,                 \* descriptors the hardware may still complete
    mmio,                  \* posted register writes, oldest first
    pending,               \* events on their way to the driver
    cq,                    \* the driver's completion queues
    napi                   \* their NAPI contexts

hw_vars  == <<queue_ram, pipe, op_table, op_table_start_ptr,
              op_table_finish_ptr, resp, event>>
vars == <<queue_ram, pipe, op_table, op_table_start_ptr, op_table_finish_ptr,
          resp, event, held, buf, slots, mmio, pending, cq, napi>>
-----------------------------------------------------------------------------
(* Pointer arithmetic, modulo 2^QUEUE_PTR_WIDTH.                           *)

Inc(p) == (p + 1) % PtrMod

\* How far pointer b is ahead of pointer a.
Dist(a, b) == (b - a) % PtrMod

Slot(p, log_size)  == p % 2^log_size
Phase(p, log_size) == (p \div 2^log_size) % 2 = 0

NextIdx(i) == IF i = OP_TABLE_SIZE - 1 THEN 0 ELSE i + 1
-----------------------------------------------------------------------------
(* State.                                                                  *)

ResetWord == [prod |-> 0, cons |-> 0, event |-> 0, log_size |-> 0, armed |-> 0,
              enable |-> 0, op_index |-> 0, base |-> 0]

SetOps  == {"set_base", "set_size", "set_eqn", "set_prod", "set_cons",
            "set_cons_arm", "set_enable", "set_arm"}
OpKinds == SetOps \cup {"none", "read", "commit", "req"}

NoOp == [op |-> "none", addr |-> 0, data |-> ResetWord, wdata |-> 0]
FreeEntry == [active |-> FALSE, commit |-> FALSE, queue |-> 0, queue_ptr |-> 0]
NoResp == [valid |-> FALSE]

\* mqnic_open_cq fills the buffer with ones bytes: phase bit clear.
NoRecord == [phase |-> FALSE, ptr |-> PtrMod]

CqClosed == [pc |-> "opening", step |-> 0, cons |-> 0, log_size |-> 0,
             base |-> 0, free |-> 0]

NapiIdle == [state |-> "idle", done |-> 0, missed |-> FALSE, arming |-> 0]

Init ==
    /\ queue_ram = [q \in Queues |-> ResetWord]
    /\ pipe = [j \in Stages |-> NoOp]
    /\ op_table = [i \in OpIdx |-> FreeEntry]
    /\ op_table_start_ptr = 0
    /\ op_table_finish_ptr = 0
    /\ resp = NoResp
    /\ event = {}
    /\ held = {}
    /\ buf = [q \in Queues |-> [p \in Ptrs |-> NoRecord]]
    /\ slots = [q \in Queues |-> 0]
    /\ mmio = <<>>
    /\ pending = [q \in Queues |-> 0]
    /\ cq = [q \in Queues |-> CqClosed]
    /\ napi = [q \in Queues |-> NapiIdle]
-----------------------------------------------------------------------------
(* Stage 0: accept at most one operation per clock.                        *)

PipeHazard(q) == \E j \in Stages : pipe[j].op # "none" /\ pipe[j].addr = q

InPipe(ops) == \E j \in Stages : pipe[j].op \in ops

Shift(e) == pipe' = [j \in Stages |-> IF j = 0 THEN e ELSE pipe[j - 1]]

Load(o, q, w) == Shift([op |-> o, addr |-> q, data |-> queue_ram[q], wdata |-> w])

\* The oldest posted write is accepted.
AxilWrite ==
    /\ mmio # <<>>
    /\ Head(mmio).op \in SetOps
    /\ ~InPipe(SetOps)
    /\ ~PipeHazard(Head(mmio).addr)
    /\ Load(Head(mmio).op, Head(mmio).addr, Head(mmio).wdata)
    /\ mmio' = Tail(mmio)
    /\ UNCHANGED slots

AxilRead(q) ==
    /\ ~InPipe({"read"})
    /\ ~PipeHazard(q)
    /\ Load("read", q, 0)
    /\ UNCHANGED <<mmio, slots>>

\* The oldest operation is committed, and its event, if there is one, will
\* find the event register free: retire it.
CommitReady(event_ready) ==
    LET e == op_table[op_table_finish_ptr]
    IN  /\ e.active
        /\ e.commit
        /\ event # {} => event_ready
        /\ ~InPipe({"commit"})
        /\ ~PipeHazard(e.queue)

CommitFinalize(event_ready) ==
    LET e == op_table[op_table_finish_ptr]
    IN  /\ CommitReady(event_ready)
        /\ Load("commit", e.queue, e.queue_ptr)
        /\ UNCHANGED <<mmio, slots>>

\* A completion is requested for one of the descriptors of queue q's ring.
EnqueueRequest(q, resp_ready, event_ready) ==
    /\ ~CommitReady(event_ready)
    /\ ~op_table[op_table_start_ptr].active
    /\ resp.valid => resp_ready
    /\ ~InPipe({"req"})
    /\ ~PipeHazard(q)
    /\ slots[q] > 0
    /\ slots' = [slots EXCEPT ![q] = @ - 1]
    /\ Load("req", q, 0)
    /\ UNCHANGED mmio

Bubble(event_ready) ==
    /\ ~CommitReady(event_ready)
    /\ Shift(NoOp)
    /\ UNCHANGED <<mmio, slots>>
-----------------------------------------------------------------------------
(* Last stage: perform the operation on the word read at stage 0.          *)

Last == pipe[PIPELINE - 1]

QueueActive == /\ op_table[Last.data.op_index].active
               /\ op_table[Last.data.op_index].queue = Last.addr

\* Mutant: enqueues in flight are forgotten.
ActiveProdPtr_Idle == Last.data.prod

ActiveProdPtr == IF QueueActive THEN op_table[Last.data.op_index].queue_ptr
                                ELSE Last.data.prod

\* (prod - cons) has a bit set above the size.
QueueFull == Dist(Last.data.cons, ActiveProdPtr) >= 2^Last.data.log_size

StartEn == Last.op = "req" /\ Last.data.enable = 1 /\ ~QueueFull

FinishEn == pipe'[0].op = "commit"

RespNext(resp_ready) ==
    resp' = IF Last.op = "req"
            THEN [valid  |-> TRUE,
                  queue  |-> Last.addr,
                  ptr    |-> ActiveProdPtr,
                  phase  |-> Phase(ActiveProdPtr, Last.data.log_size),
                  base   |-> Last.data.base,
                  slot   |-> Slot(ActiveProdPtr, Last.data.log_size),
                  op_tag |-> op_table_start_ptr,
                  error  |-> Last.data.enable = 0,
                  full   |-> Last.data.enable = 1 /\ QueueFull]
            ELSE IF resp.valid /\ resp_ready THEN NoResp ELSE resp

\* The consumer pointer a write sets, and the one an arm is compared with.
ConsAfter == IF Last.op \in {"set_cons", "set_cons_arm"} THEN Last.wdata
                                                         ELSE Last.data.cons

\* Mutant: arming a queue that is not empty just arms it.
ArmEvent_Never == FALSE

\* An arm finds the queue enabled and not empty: the event is due at once.
ArmEvent ==
    /\ Last.op = "set_cons_arm" \/ (Last.op = "set_arm" /\ Last.wdata = 1)
    /\ Last.data.enable = 1
    /\ Last.data.prod # ConsAfter

\* The producer pointer of an armed queue moves.
CommitEvent == Last.op = "commit" /\ Last.data.armed = 1

\* What a register write makes of word w.  Base, size, event queue and
\* producer pointer change only while the queue is disabled.  Size, armed and
\* enable share a byte: writing one rewrites the others with the values read at
\* stage 0.
WriteWord(w) ==
    LET off == Last.data.enable = 0
        config(o, old) == IF Last.op = o /\ off THEN Last.wdata ELSE old
        byte6 == Last.op \in {"set_cons_arm", "set_enable", "set_arm"}
                 \/ (Last.op = "set_size" /\ off)
    IN  [prod     |-> config("set_prod", w.prod),
         cons     |-> IF Last.op \in {"set_cons", "set_cons_arm"} THEN Last.wdata
                                                                  ELSE w.cons,
         event    |-> config("set_eqn", w.event),
         base     |-> config("set_base", w.base),
         log_size |-> IF Last.op = "set_size" /\ off THEN Last.wdata
                      ELSE IF byte6 THEN Last.data.log_size ELSE w.log_size,
         armed    |-> IF ArmEvent THEN 0
                      ELSE IF Last.op = "set_cons_arm" THEN 1
                      ELSE IF Last.op = "set_arm" THEN Last.wdata
                      ELSE IF byte6 THEN Last.data.armed ELSE w.armed,
         enable   |-> IF Last.op = "set_enable" THEN Last.wdata
                      ELSE IF byte6 THEN Last.data.enable ELSE w.enable,
         op_index |-> w.op_index]

PerformReq ==
    /\ Last.op = "req"
    /\ queue_ram' = IF StartEn
                    THEN [queue_ram EXCEPT ![Last.addr].op_index = op_table_start_ptr]
                    ELSE queue_ram

\* Mutant: an event does not disarm the queue.
PerformCommit_StayArmed ==
    /\ Last.op = "commit"
    /\ queue_ram' = [queue_ram EXCEPT ![Last.addr].prod = Last.wdata]

PerformCommit ==
    /\ Last.op = "commit"
    /\ queue_ram' = [queue_ram EXCEPT ![Last.addr].prod = Last.wdata,
                                      ![Last.addr].armed = IF CommitEvent THEN 0 ELSE @]

PerformWrite ==
    /\ Last.op \in SetOps
    /\ queue_ram' = [queue_ram EXCEPT ![Last.addr] = WriteWord(@)]

\* An AXI-Lite read returns the word; a bubble does nothing.
PerformNothing ==
    /\ Last.op \in {"read", "none"}
    /\ queue_ram' = queue_ram

Perform == PerformReq \/ PerformCommit \/ PerformWrite \/ PerformNothing

\* The event register.  A commit waits at stage 0 until it is free; a write
\* that arms a queue does not, and overwrites what is in it.  Events the FIFO
\* takes are on their way to the driver.
EventNext(event_ready) ==
    /\ event' = IF ArmEvent \/ CommitEvent THEN {[event |-> Last.data.event, source |-> Last.addr]}
                ELSE IF event_ready THEN {} ELSE event
    /\ pending' = [q \in Queues |->
                     IF event_ready /\ \E e \in event : e.source = q
                     THEN pending[q] + 1 ELSE pending[q]]
    /\ \A q \in Queues : pending'[q] <= MaxPending
-----------------------------------------------------------------------------
(* The operation table.                                                    *)

\* Start allocates the entry at start_ptr, finish frees the one at
\* finish_ptr, a commit handshake marks the entries in tags (at most one per
\* clock).  The fields of a free entry are never read.
OpTableNext(tags) ==
    /\ op_table' =
         [i \in OpIdx |->
            IF FinishEn /\ i = op_table_finish_ptr THEN FreeEntry
            ELSE IF StartEn /\ i = op_table_start_ptr
            THEN [active |-> TRUE, commit |-> i \in tags,
                  queue |-> Last.addr, queue_ptr |-> Inc(ActiveProdPtr)]
            ELSE [op_table[i] EXCEPT !.commit = @ \/ i \in tags]]
    /\ op_table_start_ptr' = IF StartEn THEN NextIdx(op_table_start_ptr)
                                        ELSE op_table_start_ptr
    /\ op_table_finish_ptr' = IF FinishEn THEN NextIdx(op_table_finish_ptr)
                                          ELSE op_table_finish_ptr
-----------------------------------------------------------------------------
(* cpl_write: a slot that was granted is written to host memory, then      *)
(* committed; a completion that was refused (queue full or disabled) is    *)
(* dropped.                                                                *)

Job(r) == [queue |-> r.queue, ptr |-> r.ptr, phase |-> r.phase, slot |-> r.slot,
           base |-> r.base, op_tag |-> r.op_tag, written |-> FALSE]

HeldNext(resp_ready, done) ==
    held' = (held \ done) \cup
            (IF resp.valid /\ resp_ready /\ ~resp.error /\ ~resp.full
             THEN {Job(resp)} ELSE {})

\* Mutant: an operation is committed before its record is written.
CommitChoices_Early == {{}} \cup {{h} : h \in held}

\* Operations cpl_write may commit this clock: none or one.
CommitChoices == {{}} \cup {{h} : h \in {g \in held : g.written}}

DmaWrite(h) ==
    /\ ~h.written
    /\ held' = (held \ {h}) \cup {[h EXCEPT !.written = TRUE]}
    /\ buf' = [buf EXCEPT ![h.queue][h.slot] = [phase |-> h.phase, ptr |-> h.ptr]]
    /\ UNCHANGED <<hw_vars, slots, mmio, pending, cq, napi>>

Stage0(resp_ready, event_ready) ==
    \/ AxilWrite
    \/ \E q \in ReadQueues : AxilRead(q)
    \/ CommitFinalize(event_ready)
    \/ \E q \in Queues : EnqueueRequest(q, resp_ready, event_ready)
    \/ Bubble(event_ready)

Clock ==
    \E resp_ready \in BOOLEAN, event_ready \in EventReady, done \in CommitChoices :
        /\ Stage0(resp_ready, event_ready)
        /\ Perform
        /\ RespNext(resp_ready)
        /\ EventNext(event_ready)
        /\ OpTableNext({h.op_tag : h \in done})
        /\ HeldNext(resp_ready, done)
        /\ UNCHANGED <<buf, cq, napi>>
-----------------------------------------------------------------------------
(* The driver.                                                             *)

Post(writes) ==
    /\ Len(mmio) + Len(writes) <= MaxPosted
    /\ mmio' = mmio \o writes

Write(o, q, w) == [op |-> o, addr |-> q, wdata |-> w]

\* mqnic_open_cq's register writes, then mqnic_arm_cq, then the producer
\* pointer of the ring that completes here.
OpenWrites(q, c) ==
    << Write("set_enable", q, 0), Write("set_base", q, c.base),
       Write("set_size", q, c.log_size), Write("set_eqn", q, q % EQ_COUNT),
       Write("set_prod", q, 0), Write("set_cons", q, 0),
       Write("set_enable", q, 1), Write("set_arm", q, 1),
       Write("ring", q, RING_SIZE) >>

OpenLast == 9

\* mqnic_start_port opens one queue after the other.
StepOpen(q, c) ==
    /\ Post(<<OpenWrites(q, c)[c.step + 1]>>)
    /\ cq' = [cq EXCEPT ![q] = [c EXCEPT !.step = @ + 1,
                                        !.pc = IF c.step + 1 = OpenLast THEN "open"
                                                                        ELSE @]]
    /\ UNCHANGED <<hw_vars, held, slots, pending, napi>>

OpenCq(q) ==
    /\ cq[q] = CqClosed
    /\ \A r \in Queues : IF r < q THEN cq[r].pc = "open" ELSE cq[r] = CqClosed
    /\ \E l \in LogSizes, b \in Bases :
          StepOpen(q, [cq[q] EXCEPT !.log_size = l, !.base = b])
    /\ buf' = [buf EXCEPT ![q] = [p \in Ptrs |-> NoRecord]]

OpenCqNext(q) ==
    /\ cq[q].pc = "opening" /\ cq[q].step > 0
    /\ StepOpen(q, cq[q])
    /\ UNCHANGED buf

\* The ring's producer pointer reaches its queue manager: the bus makes one
\* write at a time, and the write before it has been performed.
RingPosted ==
    /\ mmio # <<>> /\ Head(mmio).op = "ring"
    /\ ~InPipe(SetOps)
    /\ slots' = [slots EXCEPT ![Head(mmio).addr] = @ + Head(mmio).wdata]
    /\ mmio' = Tail(mmio)
    /\ UNCHANGED <<hw_vars, held, buf, pending, cq, napi>>

\* The driver posts again the descriptors whose completions it has consumed.
Refill(q) ==
    /\ cq[q].pc = "open" /\ cq[q].free > 0
    /\ Post(<<Write("ring", q, cq[q].free)>>)
    /\ cq' = [cq EXCEPT ![q].free = 0]
    /\ UNCHANGED <<hw_vars, held, buf, slots, pending, napi>>

\* mqnic_tx_irq, mqnic_rx_irq: napi_schedule, from the interrupt handler.  An
\* event of an earlier life of the queue finds no handler and is dropped.
Interrupt(q) ==
    /\ pending[q] > 0
    /\ pending' = [pending EXCEPT ![q] = @ - 1]
    /\ napi' = IF cq[q].pc = "opening" THEN napi
               ELSE IF napi[q].state = "idle"
               THEN [napi EXCEPT ![q].state = "sched"]
               ELSE [napi EXCEPT ![q].missed = TRUE]
    /\ UNCHANGED <<hw_vars, held, buf, slots, mmio, cq>>

\* Mutant: the phase bit is not compared with the lap.
RecordReady_AnyLap(q) == buf[q][Slot(cq[q].cons, cq[q].log_size)].phase

\* The phase bit says that the record at the consumer pointer is of this lap.
RecordReady(q) ==
    buf[q][Slot(cq[q].cons, cq[q].log_size)].phase = Phase(cq[q].cons, cq[q].log_size)

\* The poll starts; once the port is down it consumes nothing.
PollStart(q) ==
    /\ napi[q].state = "sched"
    /\ napi' = [napi EXCEPT ![q].state = IF cq[q].pc = "down" THEN "complete" ELSE "poll"]
    /\ UNCHANGED <<hw_vars, held, buf, slots, mmio, pending, cq>>

\* mqnic_process_tx_cq, mqnic_process_rx_cq: one turn of the loop.
PollRecord(q) ==
    /\ napi[q].state = "poll" /\ napi[q].done < Budget
    /\ RecordReady(q)
    /\ cq' = [cq EXCEPT ![q].cons = Inc(@)]
    /\ napi' = [napi EXCEPT ![q].done = @ + 1]
    /\ UNCHANGED <<hw_vars, held, buf, slots, mmio, pending>>

\* Mutant: the consumer pointer that is written is the one read before the loop.
PollEnd_Stale(q) ==
    /\ napi[q].state = "poll"
    /\ Post(<<Write("set_cons", q, (cq[q].cons - napi[q].done) % PtrMod)>>)
    /\ cq' = [cq EXCEPT ![q].free = @ + napi[q].done]
    /\ napi' = [napi EXCEPT ![q].done = 0,
                            ![q].state = IF napi[q].done = Budget THEN "sched" ELSE "complete"]
    /\ UNCHANGED <<hw_vars, held, buf, slots, pending>>

\* The loop ends: no record is ready, the budget is used up (the kernel polls
\* again), or there is no memory for an skb (mqnic_rx.c:339).  The consumer
\* pointer is written and the descriptors are free.
PollEnd(q) ==
    /\ napi[q].state = "poll"
    /\ Post(<<Write("set_cons", q, cq[q].cons)>>)
    /\ cq' = [cq EXCEPT ![q].free = @ + napi[q].done]
    /\ napi' = [napi EXCEPT ![q].done = 0,
                            ![q].state = IF napi[q].done = Budget THEN "sched" ELSE "complete"]
    /\ UNCHANGED <<hw_vars, held, buf, slots, pending>>

\* napi_complete: an interrupt that came meanwhile schedules the poll again.
\* The queue is armed in either case.
NapiComplete(q) ==
    /\ napi[q].state = "complete" /\ napi[q].arming < MaxArming
    /\ napi' = [napi EXCEPT ![q] = [state  |-> IF @.missed THEN "sched" ELSE "idle",
                                    done   |-> 0,
                                    missed |-> FALSE,
                                    arming |-> @.arming + 1]]
    /\ UNCHANGED <<hw_vars, held, buf, slots, mmio, pending, cq>>

ArmCq(q) ==
    /\ napi[q].arming > 0
    /\ Post(<<Write("set_arm", q, 1)>>)
    /\ napi' = [napi EXCEPT ![q].arming = @ - 1]
    /\ UNCHANGED <<hw_vars, held, buf, slots, pending, cq>>

\* mqnic_stop_port disables the rings: what they have not started is not
\* completed.
StopPort ==
    /\ \A q \in Queues : cq[q].pc = "open"
    /\ \A k \in 1 .. Len(mmio) : mmio[k].op # "ring"
    /\ cq' = [q \in Queues |-> [cq[q] EXCEPT !.pc = "stopping"]]
    /\ slots' = [q \in Queues |-> 0]
    /\ UNCHANGED <<hw_vars, held, buf, mmio, pending, napi>>

\* Nothing of queue q is in progress in the hardware.
Drained(q) ==
    /\ \A i \in OpIdx : ~(op_table[i].active /\ op_table[i].queue = q)
    /\ \A j \in Stages : pipe[j].addr = q => pipe[j].op \notin {"req", "commit"}
    /\ \A h \in held : h.queue # q
    /\ resp.valid => resp.queue # q

\* After 20 ms, in which the operations in flight are taken to end, port_up is
\* cleared.
PortDown ==
    /\ \A q \in Queues : cq[q].pc = "stopping" /\ Drained(q)
    /\ cq' = [q \in Queues |-> [cq[q] EXCEPT !.pc = "down"]]
    /\ UNCHANGED <<hw_vars, held, buf, slots, mmio, pending, napi>>

\* mqnic_close_cq, after napi_disable has waited for the poll to complete and
\* netif_napi_del for the function that polled to return.
CloseCq(q) ==
    /\ cq[q].pc = "down"
    /\ \A r \in Queues : r < q => cq[r].pc = "opening"
    /\ napi[q].state = "idle" /\ napi[q].arming = 0
    /\ Post(<<Write("set_enable", q, 0)>>)
    /\ cq' = [cq EXCEPT ![q] = CqClosed]
    /\ napi' = [napi EXCEPT ![q] = NapiIdle]
    /\ UNCHANGED <<hw_vars, held, buf, slots, pending>>

Driver(q) == \/ OpenCq(q) \/ OpenCqNext(q) \/ Refill(q) \/ Interrupt(q)
             \/ PollRecord(q) \/ PollEnd(q) \/ PollStart(q)
             \/ NapiComplete(q) \/ ArmCq(q) \/ CloseCq(q)

Next == \/ Clock
        \/ RingPosted
        \/ \E h \in held : DmaWrite(h)
        \/ \E q \in Queues : Driver(q)
        \/ StopPort
        \/ PortDown

Spec == Init /\ [][Next]_vars
-----------------------------------------------------------------------------
(* Properties.                                                             *)

\* Whenever the phase bit tells the driver that there is a record at its
\* consumer pointer, it is the record of that pointer, not one of an earlier
\* lap or of an earlier life of the queue (mqnic_tx.c:251, mqnic_rx.c:321).
RecordsFresh ==
    \A q \in Queues : cq[q].step > 0 /\ RecordReady(q) =>
        buf[q][Slot(cq[q].cons, cq[q].log_size)].ptr = cq[q].cons

\* A slot the hardware is about to write is in the buffer of the open queue
\* and holds no record the driver has yet to consume.
SlotsOwned ==
    \A h \in held : ~h.written =>
        /\ cq[h.queue].pc # "opening"
        /\ h.base = cq[h.queue].base
        /\ h.slot = Slot(h.ptr, cq[h.queue].log_size)
        /\ Dist(cq[h.queue].cons, h.ptr) < 2^cq[h.queue].log_size

\* A completion is never dropped (cpl_write.v:376-380) if the queue is as large
\* as the ring, as the driver makes it: the consumer pointer is written before
\* the descriptors are posted again, so the queue has room for every completion.
NeverDropped ==
    resp.valid /\ RING_SIZE <= 2^queue_ram[resp.queue].log_size => ~resp.full /\ ~resp.error

ArmInFlight(q) == \/ \E k \in 1 .. Len(mmio) : mmio[k].op = "set_arm" /\ mmio[k].addr = q
                  \/ \E j \in Stages : pipe[j].op = "set_arm" /\ pipe[j].addr = q

EventInFlight(q) == pending[q] > 0 \/ \E e \in event : e.source = q

\* The record at the consumer pointer is in memory and its enqueue is retired.
Published(q) ==
    /\ RecordReady(q)
    /\ \A i \in OpIdx : op_table[i].active /\ op_table[i].queue = q =>
                            op_table[i].queue_ptr # Inc(cq[q].cons)
    /\ \A j \in Stages : pipe[j].op = "commit" /\ pipe[j].addr = q =>
                            pipe[j].wdata # Inc(cq[q].cons)

\* No wake-up is lost: when the driver sleeps on an open queue (it is not
\* polling, not about to arm the queue, and no arm is in flight), an event is
\* on its way or the queue is armed and has nothing published.
NoLostWakeup ==
    \A q \in Queues :
        /\ cq[q].pc = "open"
        /\ napi[q].state = "idle" /\ napi[q].arming = 0 /\ ~ArmInFlight(q)
        /\ ~EventInFlight(q)
        => queue_ram[q].armed = 1 /\ ~Published(q)

\* The shadow producer pointer: the slot the next enqueue of queue q takes.
ShadowPtr(q) ==
    LET last == op_table[queue_ram[q].op_index]
        commits == {j \in Stages : pipe[j].op = "commit" /\ pipe[j].addr = q}
    IN  IF last.active /\ last.queue = q THEN last.queue_ptr
        ELSE IF commits # {} THEN pipe[CHOOSE j \in commits : TRUE].wdata
        ELSE queue_ram[q].prod

CQ == INSTANCE CplQueue WITH
        enabled  <- [q \in Queues |-> queue_ram[q].enable = 1],
        size     <- [q \in Queues |-> 2^queue_ram[q].log_size],
        prod     <- [q \in Queues |-> queue_ram[q].prod],
        shadow   <- [q \in Queues |-> ShadowPtr(q)],
        cons     <- [q \in Queues |-> queue_ram[q].cons],
        armed    <- [q \in Queues |-> queue_ram[q].armed = 1],
        notified <- {e.source : e \in event}

\* The pipelined module implements the completion queue of CplQueue: slots
\* are reserved only when the host has freed them, published in order, and an
\* armed queue notifies once.
ImplementsCplQueue == CQ!Spec

\* The clock ticks; cpl_write takes its responses, writes its records and
\* commits them; the host bus leaves clocks without a register access; posted
\* writes are performed and events delivered; the kernel runs a poll that is
\* scheduled to its end, and an skb allocation retried forever succeeds.
Fairness ==
    /\ WF_vars(Clock)
    /\ WF_vars(Clock /\ resp.valid /\ resp' # resp)
    /\ WF_vars(Clock /\ \E h \in held : h.op_tag = op_table_finish_ptr /\ h \notin held')
    /\ WF_vars(Clock /\ event # {} /\ pending' # pending)
    /\ SF_vars(Clock /\ CommitFinalize(TRUE))
    /\ SF_vars(Clock /\ AxilWrite)
    /\ SF_vars(RingPosted)
    /\ WF_vars(\E h \in held : DmaWrite(h))
    /\ \A q \in Queues :
          /\ WF_vars(Interrupt(q))
          /\ WF_vars(PollStart(q))
          /\ SF_vars(PollRecord(q))
          /\ SF_vars(PollEnd(q))
          /\ WF_vars(NapiComplete(q))
          /\ SF_vars(ArmCq(q))

FairSpec == Spec /\ Fairness

\* The driver consumes every completion that was given a slot of an open
\* queue, although it sleeps without looking at the queue again: its record is
\* written before it is published, and the interrupt of an armed queue
\* (cpl_queue_manager.v:463) or of the arm itself (:560) wakes the driver.
CompletionsDelivered ==
    \A q \in Queues, p \in Ptrs :
        (/\ cq[q].pc = "open" /\ Dist(cq[q].cons, p) < 2^cq[q].log_size
         /\ \E h \in held : h.queue = q /\ h.ptr = p)
            ~> cq[q].cons = Inc(p) \/ cq[q].pc # "open"
=============================================================================
