---------------------------- MODULE TxScheduler ----------------------------
(***************************************************************************)
(* The round-robin transmit scheduler, fpga/common/rtl/tx_scheduler_rr.v,  *)
(* clock by clock.  A queue that a doorbell has made active circulates     *)
(* through a FIFO; each time it comes out a transmit request is issued for *)
(* it, and the status of the request says whether the queue was empty.     *)
(* Several requests of a queue are in flight at once, and a doorbell may   *)
(* overtake the status of a request that found the queue empty: the        *)
(* operation table keeps doorbells so that they are not lost.              *)
(*                                                                         *)
(* The module is closed with the driver, which posts packets and enables   *)
(* the scheduler, with the descriptor queue, a count of packets, and with  *)
(* the transmit engine, which dequeues a packet for each request in turn   *)
(* and reports the result: at once if there was none, else when the packet *)
(* is sent.                                                                *)
(*                                                                         *)
(* Left out: the number of scheduled queues (the output `active' is not    *)
(* connected), AXI-Lite reads' data and responses, and the latency of the  *)
(* doorbell FIFO.                                                          *)
(***************************************************************************)
EXTENDS Integers, FiniteSets, SequencesExt

CONSTANTS
    QUEUE_COUNT,        \* number of queues
    OP_TABLE_SIZE,      \* number of requests in flight
    PIPELINE,           \* pipeline stages
    SCHED_CTRL_ENABLE,  \* is there a scheduler controller (TDMA)?
    AnyOrder,           \* may statuses come in any order?
    MaxPosts            \* bound: packets the driver posts

ASSUME SchedAssumption ==
    /\ QUEUE_COUNT \in Nat \ {0}
    /\ OP_TABLE_SIZE \in Nat \ {0}
    /\ PIPELINE \in Nat /\ PIPELINE >= 2
    /\ SCHED_CTRL_ENABLE \in BOOLEAN
    /\ AnyOrder \in BOOLEAN
    /\ MaxPosts \in Nat \ {0}

Queues == 0 .. QUEUE_COUNT - 1
OpIdx  == 0 .. OP_TABLE_SIZE - 1
Stages == 0 .. PIPELINE - 1

VARIABLES
    queue_ram,      \* queue state words
    pipe,           \* the operation in every pipeline stage
    op_table,       \* requests in flight
    doorbell_fifo,  \* doorbells to handle
    rr_fifo,        \* scheduled queues
    tx_req,         \* transmit request output register: a set of at most one
    finish_fifo,    \* statuses received
    finish,         \* the status to handle next: a set of at most one
    init_index,     \* next word to initialise
    enable,         \* the scheduler is enabled
    writes,         \* queues whose enabling write is in flight
    engine,         \* requests the transmit engine has yet to dequeue for
    results,        \* their results, in the order of dequeueing
    packets,        \* packets in every descriptor queue
    posted          \* packets posted so far

vars == <<queue_ram, pipe, op_table, doorbell_fifo, rr_fifo, tx_req, finish_fifo,
          finish, init_index, enable, writes, engine, results, packets, posted>>
hw_vars == <<queue_ram, pipe, op_table, rr_fifo, tx_req, finish_fifo, finish, init_index>>
-----------------------------------------------------------------------------
ResetWord == [enabled |-> FALSE, global |-> FALSE, sched |-> FALSE,
              active |-> FALSE, scheduled |-> FALSE, tail |-> 0]

OpKinds == {"none", "init", "write", "read", "doorbell", "complete", "ctrl", "req"}

NoOp == [op |-> "none", addr |-> 0, data |-> ResetWord, wdata |-> FALSE, index |-> 0]

FreeEntry == [active |-> FALSE, queue |-> 0, doorbell |-> FALSE, is_head |-> FALSE,
              next |-> 0, prev |-> 0]

Init ==
    /\ queue_ram = [q \in Queues |-> ResetWord]
    /\ pipe = [j \in Stages |-> NoOp]
    /\ op_table = [i \in OpIdx |-> FreeEntry]
    /\ doorbell_fifo = <<>>
    /\ rr_fifo = <<>>
    /\ tx_req = {}
    /\ finish_fifo = <<>>
    /\ finish = {}
    /\ init_index = 0
    /\ enable = FALSE
    /\ writes = {}
    /\ engine = <<>>
    /\ results = <<>>
    /\ packets = [q \in Queues |-> 0]
    /\ posted = 0
-----------------------------------------------------------------------------
(* Stage 0: accept at most one operation per clock.  Operations have fixed *)
(* priorities: an operation is accepted only if those before it are not    *)
(* ready.                                                                  *)

PipeHazard(q) == \E j \in Stages : pipe[j].op # "none" /\ pipe[j].addr = q

InPipe(o) == \E j \in Stages : pipe[j].op = o

Shift(e) == pipe' = [j \in Stages |-> IF j = 0 THEN e ELSE pipe[j - 1]]

Load(o, q, w, i) ==
    Shift([op |-> o, addr |-> q, data |-> queue_ram[q], wdata |-> w, index |-> i])

InitReady == init_index < QUEUE_COUNT /\ ~PipeHazard(init_index)

DoorbellReady == doorbell_fifo # <<>> /\ ~PipeHazard(Head(doorbell_fifo))

CompleteReady ==
    \E f \in finish : pipe[0].op # "complete" /\ ~PipeHazard(op_table[f.tag].queue)

\* The lowest free entry of the operation table (priority_encoder).
StartPtr == CHOOSE i \in OpIdx : /\ ~op_table[i].active
                                 /\ \A k \in OpIdx : k < i => op_table[k].active

InitQueue ==
    /\ InitReady
    /\ Load("init", init_index, FALSE, 0)
    /\ init_index' = init_index + 1
    /\ UNCHANGED <<doorbell_fifo, writes>>

AxilWrite(q) ==
    /\ ~InitReady
    /\ q \in writes /\ \A p \in writes : q <= p
    /\ ~InPipe("write") /\ ~PipeHazard(q)
    /\ Load("write", q, TRUE, 0)
    /\ writes' = writes \ {q}
    /\ UNCHANGED <<doorbell_fifo, init_index>>

AxilRead(q) ==
    /\ ~InitReady
    /\ ~InPipe("read") /\ ~PipeHazard(q)
    /\ Load("read", q, FALSE, 0)
    /\ UNCHANGED <<doorbell_fifo, init_index, writes>>

Doorbell ==
    /\ ~InitReady /\ DoorbellReady
    /\ Load("doorbell", Head(doorbell_fifo), FALSE, 0)
    /\ doorbell_fifo' = Tail(doorbell_fifo)
    /\ UNCHANGED <<init_index, writes>>

\* Mutant: the doorbell recorded for the request is not looked at.
CompleteStatus_NoDoorbell(f) == f.status

\* Is the queue still active: the request succeeded, or a doorbell came after it.
CompleteStatus(f) == f.status \/ op_table[f.tag].doorbell

Complete ==
    /\ ~InitReady /\ ~DoorbellReady /\ CompleteReady
    /\ \E f \in finish : Load("complete", op_table[f.tag].queue, CompleteStatus(f), f.tag)
    /\ UNCHANGED <<doorbell_fifo, init_index, writes>>

\* The scheduler controller enables or disables a queue.
SchedCtrl(q, v) ==
    /\ ~InitReady /\ ~DoorbellReady /\ ~CompleteReady
    /\ SCHED_CTRL_ENABLE
    /\ pipe[0].op # "ctrl" /\ ~PipeHazard(q)
    /\ Load("ctrl", q, v, 0)
    /\ UNCHANGED <<doorbell_fifo, init_index, writes>>

\* The queue at the front of the FIFO is given an operation table entry.
TxRequest(req_ready) ==
    /\ ~InitReady /\ ~DoorbellReady /\ ~CompleteReady
    /\ enable
    /\ \E i \in OpIdx : ~op_table[i].active
    /\ rr_fifo # <<>>
    /\ tx_req # {} => req_ready
    /\ ~InPipe("req") /\ ~PipeHazard(Head(rr_fifo))
    /\ Load("req", Head(rr_fifo), FALSE, StartPtr)
    /\ UNCHANGED <<doorbell_fifo, init_index, writes>>

\* Nothing is accepted: nothing was ready, or the front of the FIFO has not
\* reached its output register.
Bubble ==
    /\ ~InitReady /\ ~DoorbellReady /\ ~CompleteReady
    /\ Shift(NoOp)
    /\ UNCHANGED <<doorbell_fifo, init_index, writes>>

Stage0(req_ready) ==
    \/ InitQueue \/ Doorbell \/ Complete \/ TxRequest(req_ready) \/ Bubble
    \/ \E q \in Queues : \/ AxilWrite(q) \/ AxilRead(q)
                         \/ \E v \in BOOLEAN : SchedCtrl(q, v)

Accepted(o) == pipe'[0].op = o
-----------------------------------------------------------------------------
(* Last stage: perform the operation on the word read at stage 0.          *)

LastOp == pipe[PIPELINE - 1]

Schedulable(w) == w.enabled /\ (~SCHED_CTRL_ENABLE \/ w.global \/ w.sched)

\* The newest request of the queue is in flight.
TailActive == /\ op_table[LastOp.data.tail].active
              /\ op_table[LastOp.data.tail].queue = LastOp.addr

\* A request is issued; otherwise the queue leaves the FIFO.
Issue == /\ LastOp.op = "req"
         /\ Schedulable(LastOp.data) /\ LastOp.data.active /\ LastOp.data.scheduled

\* The word after the operation, without `scheduled'.  A completion or a
\* doorbell decides whether the queue is active.
Update ==
    LET d == LastOp.data
    IN  [enabled |-> IF LastOp.op = "init" THEN FALSE ELSE d.enabled \/ LastOp.op = "write",
         global  |-> IF LastOp.op = "init" /\ SCHED_CTRL_ENABLE THEN FALSE
                     ELSE d.global \/ LastOp.op = "write",
         sched   |-> IF LastOp.op = "init" /\ SCHED_CTRL_ENABLE THEN FALSE
                     ELSE IF LastOp.op = "ctrl" THEN LastOp.wdata ELSE d.sched,
         active  |-> IF LastOp.op = "init" THEN FALSE
                     ELSE IF LastOp.op = "doorbell" THEN TRUE
                     ELSE IF LastOp.op = "complete" THEN LastOp.wdata ELSE d.active]

\* Mutant: a scheduler control operation does not test whether the queue is scheduled.
Enter_Twice ==
    /\ LastOp.op \in {"doorbell", "complete", "ctrl", "write"}
    /\ LastOp.op # "ctrl" => ~LastOp.data.scheduled
    /\ Update.active
    /\ IF LastOp.op = "complete" THEN ~SCHED_CTRL_ENABLE \/ LastOp.data.sched
                               ELSE Schedulable(Update)

\* The queue enters the FIFO: an operation finds it active and not scheduled.
\* A completion does not test the enable bits, and the global enable it tests
\* is bit 1 of its write data, which is 0 (line 676).
Enter ==
    /\ LastOp.op \in {"doorbell", "complete", "ctrl", "write"}
    /\ ~LastOp.data.scheduled
    /\ Update.active
    /\ IF LastOp.op = "complete" THEN ~SCHED_CTRL_ENABLE \/ LastOp.data.sched
                               ELSE Schedulable(Update)

Perform ==
    queue_ram' =
      IF LastOp.op \in {"none", "read"} THEN queue_ram
      ELSE [queue_ram EXCEPT ![LastOp.addr] =
              [enabled   |-> Update.enabled,
               global    |-> Update.global,
               sched     |-> Update.sched,
               active    |-> Update.active,
               scheduled |-> IF LastOp.op = "init" THEN FALSE
                             ELSE IF LastOp.op = "req" THEN Issue
                             ELSE LastOp.data.scheduled \/ Enter,
               tail      |-> IF Issue THEN LastOp.index ELSE @.tail]]

RrFifoNext ==
    rr_fifo' = (IF Accepted("req") THEN Tail(rr_fifo) ELSE rr_fifo)
               \o (IF Enter \/ Issue THEN <<LastOp.addr>> ELSE <<>>)

\* The request register; the engine takes a request when it is ready.
TxReqNext(req_ready) ==
    /\ tx_req' = (IF req_ready THEN {} ELSE tx_req) \cup
                 (IF Issue THEN {[queue |-> LastOp.addr, tag |-> LastOp.index]} ELSE {})
    /\ engine' = IF req_ready /\ tx_req # {}
                 THEN Append(engine, CHOOSE r \in tx_req : TRUE) ELSE engine
-----------------------------------------------------------------------------
(* The operation table.  The requests of a queue form a doubly linked list *)
(* from the oldest, the head, to the newest, the tail.  A doorbell is      *)
(* recorded at the tail; a request that completes passes its doorbell on   *)
(* to the one before it.                                                   *)

DoorbellAt ==
    LET e == op_table[LastOp.index]
    IN  IF LastOp.op = "doorbell" /\ TailActive THEN {LastOp.data.tail}
        ELSE IF LastOp.op = "complete" /\ ~e.is_head /\ e.doorbell THEN {e.prev} ELSE {}

\* The entries whose next, and whose prev, change, with the new value.
NextUpdate ==
    LET e == op_table[LastOp.index]
    IN  CASE Issue /\ TailActive /\ LastOp.index # LastOp.data.tail ->
                 {<<LastOp.data.tail, LastOp.index>>}
          [] LastOp.op = "complete" /\ ~e.is_head -> {<<e.prev, e.next>>}
          [] OTHER -> {}

PrevUpdate ==
    LET e == op_table[LastOp.index]
    IN  CASE Issue -> {<<LastOp.index, LastOp.data.tail,
                         ~(TailActive /\ LastOp.index # LastOp.data.tail)>>}
          [] LastOp.op = "complete" /\ LastOp.index # LastOp.data.tail ->
                 {<<e.next, e.prev, e.is_head>>}
          [] OTHER -> {}

\* Mutant: an entry of a queue that leaves the FIFO is kept.
Released_OnlyComplete == IF LastOp.op = "complete" THEN {LastOp.index} ELSE {}

Released == IF LastOp.op = "complete" \/ (LastOp.op = "req" /\ ~Issue) THEN {LastOp.index} ELSE {}

OpTableNext ==
    op_table' =
      [i \in OpIdx |->
         LET start == Accepted("req") /\ i = StartPtr
             e == op_table[i]
         IN  [active   |-> i \notin Released /\ (start \/ e.active),
              queue    |-> IF start THEN Head(rr_fifo) ELSE e.queue,
              doorbell |-> i \in DoorbellAt \/ (~start /\ e.doorbell),
              next     |-> IF \E u \in NextUpdate : u[1] = i
                           THEN (CHOOSE u \in NextUpdate : TRUE)[2] ELSE e.next,
              prev     |-> IF \E u \in PrevUpdate : u[1] = i
                           THEN (CHOOSE u \in PrevUpdate : TRUE)[2] ELSE e.prev,
              is_head  |-> IF \E u \in PrevUpdate : u[1] = i
                           THEN (CHOOSE u \in PrevUpdate : TRUE)[3] ELSE e.is_head]]
-----------------------------------------------------------------------------
(* Statuses.                                                               *)

\* The results the engine may report next: the first that found the queue empty,
\* early, or the oldest of all, when its packet is sent.
Reportable ==
    LET empty == {k \in DOMAIN results : ~results[k].status}
    IN  IF AnyOrder THEN DOMAIN results
        ELSE {k \in DOMAIN results : k = 1 \/ (k \in empty /\ k = Min(empty))}

\* One result, or none, is reported; the oldest status moves to the register.
FinishNext(report) ==
    /\ results' = IF report = {} THEN results ELSE RemoveAt(results, Min(report))
    /\ LET load == finish = {} /\ finish_fifo # <<>>
           new  == IF report = {} THEN <<>> ELSE <<results[Min(report)]>>
       IN  /\ finish_fifo' = (IF load THEN Tail(finish_fifo) ELSE finish_fifo) \o new
           /\ finish' = IF load THEN {Head(finish_fifo)}
                        ELSE IF Accepted("complete") THEN {} ELSE finish

Clock ==
    \E req_ready \in BOOLEAN, report \in {{}} \cup {{k} : k \in Reportable} :
        /\ Stage0(req_ready)
        /\ Perform
        /\ RrFifoNext
        /\ TxReqNext(req_ready)
        /\ OpTableNext
        /\ FinishNext(report)
        /\ UNCHANGED <<enable, packets, posted>>
-----------------------------------------------------------------------------
(* The transmit engine and the driver.                                     *)

\* The engine tries to dequeue a packet for its oldest request.
Dequeue ==
    /\ engine # <<>>
    /\ LET r == Head(engine)
       IN  /\ results' = Append(results, [tag |-> r.tag, status |-> packets[r.queue] > 0])
           /\ packets' = [packets EXCEPT ![r.queue] = IF @ > 0 THEN @ - 1 ELSE 0]
    /\ engine' = Tail(engine)
    /\ UNCHANGED <<hw_vars, doorbell_fifo, enable, writes, posted>>

\* Another port's scheduler sends a packet of the queue.
OtherPort(q) ==
    /\ packets[q] > 0
    /\ packets' = [packets EXCEPT ![q] = @ - 1]
    /\ UNCHANGED <<hw_vars, doorbell_fifo, enable, writes, engine, results, posted>>

\* The driver posts a packet; the queue manager rings the doorbell.
Post(q) ==
    /\ posted < MaxPosts
    /\ posted' = posted + 1
    /\ packets' = [packets EXCEPT ![q] = @ + 1]
    /\ doorbell_fifo' = Append(doorbell_fifo, q)
    /\ UNCHANGED <<hw_vars, enable, writes, engine, results>>

\* mqnic_scheduler_enable: the scheduler, then every queue.
SchedulerEnable ==
    /\ ~enable /\ writes = {}
    /\ enable' = TRUE
    /\ writes' = Queues
    /\ UNCHANGED <<hw_vars, doorbell_fifo, engine, results, packets, posted>>

\* mqnic_scheduler_disable: the queues keep their state.
SchedulerDisable ==
    /\ enable /\ writes = {}
    /\ enable' = FALSE
    /\ UNCHANGED <<hw_vars, doorbell_fifo, writes, engine, results, packets, posted>>

Next == \/ Clock \/ Dequeue \/ SchedulerEnable \/ SchedulerDisable
        \/ \E q \in Queues : Post(q) \/ OtherPort(q)

Spec == Init /\ [][Next]_vars
-----------------------------------------------------------------------------
(* Properties.                                                             *)

\* The places where queue q circulates.
Tokens(q) == {<<"fifo", k>> : k \in {l \in 1 .. Len(rr_fifo) : rr_fifo[l] = q}} \cup
             {<<"pipe", j>> : j \in {l \in Stages : pipe[l].op = "req" /\ pipe[l].addr = q}}

\* A scheduled queue circulates exactly once, another not at all: it is neither
\* served twice per round nor forgotten, and the FIFO, whose ready signal is
\* ignored (tx_scheduler_rr.v:327), never overflows.
CirculatesOnce ==
    \A q \in Queues : Cardinality(Tokens(q)) = IF queue_ram[q].scheduled THEN 1 ELSE 0

InFlight == {r.tag : r \in tx_req} \cup {engine[k].tag : k \in 1 .. Len(engine)} \cup
            {results[k].tag : k \in 1 .. Len(results)} \cup
            {finish_fifo[k].tag : k \in 1 .. Len(finish_fifo)} \cup
            {f.tag : f \in finish} \cup
            {pipe[j].index : j \in {l \in Stages : pipe[l].op \in {"req", "complete"}}}

\* An entry is active as long as its request is somewhere in the hardware, and
\* no longer: no entry leaks, and no tag is in two places.
EntriesLive ==
    /\ \A i \in OpIdx : op_table[i].active <=> i \in InFlight
    /\ Cardinality(InFlight) =
         Cardinality(tx_req) + Len(engine) + Len(results) + Len(finish_fifo)
         + Cardinality(finish)
         + Cardinality({l \in Stages : pipe[l].op \in {"req", "complete"}})

\* Nothing about queue q is on its way: no doorbell, operation or request.
Quiet(q) ==
    /\ \A k \in 1 .. Len(doorbell_fifo) : doorbell_fifo[k] # q
    /\ ~PipeHazard(q)
    /\ \A i \in OpIdx : op_table[i].active => op_table[i].queue # q

\* A queue with packets is never mistaken for empty: when nothing about it is on
\* its way, it is active and circulates.
Circulates(q) == Quiet(q) /\ packets[q] > 0 => queue_ram[q].active /\ queue_ram[q].scheduled

\* That holds for a queue that is enabled, and that the controller, if there is
\* one, has enabled too.
NeverForgotten ==
    \A q \in Queues : LET w == queue_ram[q] IN
        w.enabled /\ (SCHED_CTRL_ENABLE => w.sched) => Circulates(q)

\* It holds for every queue that may be scheduled, as it would if a completion
\* tested the same enable bits as the other operations.
NeverStuck == \A q \in Queues : Schedulable(queue_ram[q]) => Circulates(q)
=============================================================================
