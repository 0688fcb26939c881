---------------------------- MODULE QueueManager ----------------------------
(***************************************************************************)
(* The descriptor queue manager, fpga/common/rtl/queue_manager.v, clock by *)
(* clock.  The state of every queue is a word of queue_ram; an operation   *)
(* reads its word when stage 0 accepts it and acts on that copy PIPELINE   *)
(* clocks later, when it reaches the last stage.  Dequeues in flight are   *)
(* kept in op_table, a ring between op_table_start_ptr and                 *)
(* op_table_finish_ptr, and retire in order.                               *)
(*                                                                         *)
(* The module is closed with its two users: the driver, which programs a   *)
(* queue and posts descriptors (modules/mqnic/mqnic_tx.c, mqnic_rx.c), and *)
(* the fetch engine, which takes dequeue responses and commits them in any *)
(* order (desc_fetch.v).                                                   *)
(*                                                                         *)
(* Left out: the request tag (copied from request to response), the VF ID  *)
(* command (a TODO in the RTL), block size (part of the address stride),   *)
(* the data returned by AXI-Lite reads, and the AXI-Lite response          *)
(* handshake, whose only effect is to delay the next access; the `enable'  *)
(* input is tied to 1 in mqnic_interface.v.                                *)
(***************************************************************************)
EXTENDS Integers, FiniteSets

CONSTANTS
    QUEUE_COUNT,       \* number of queues
    OP_TABLE_SIZE,     \* number of outstanding operations
    PIPELINE,          \* pipeline stages
    QUEUE_PTR_WIDTH,   \* bits of a queue pointer
    LogSizes,          \* log2 of the ring sizes the driver opens
    Bases,             \* DMA addresses the driver may allocate for a ring
    Cqns,              \* completion queues a ring may be bound to
    ReadQueues         \* queues whose registers a tool (mqnic-dump) reads

PtrMod == 2^QUEUE_PTR_WIDTH
Queues == 0 .. QUEUE_COUNT - 1
OpIdx  == 0 .. OP_TABLE_SIZE - 1
Stages == 0 .. PIPELINE - 1
Ptrs   == 0 .. PtrMod - 1
Bit    == {0, 1}

ASSUME QueueCountAssumption == QUEUE_COUNT \in Nat \ {0}
ASSUME OpTableAssumption    == OP_TABLE_SIZE \in Nat \ {0}
ASSUME PipelineAssumption   == PIPELINE \in Nat /\ PIPELINE >= 2
ASSUME PtrModAssumption     == PtrMod \in Nat /\ PtrMod > OP_TABLE_SIZE
ASSUME LogSizesAssumption   == /\ QUEUE_PTR_WIDTH \in Nat
                               /\ LogSizes \subseteq 0 .. QUEUE_PTR_WIDTH - 1
ASSUME SizesAssumption      == \A l \in LogSizes \cup {0} :
                                  2^l \in Nat \ {0} /\ 2^l < PtrMod
ASSUME ConfigAssumption     == Bases \subseteq Nat /\ Cqns \subseteq Nat
ASSUME ReadQueuesAssumption == ReadQueues \subseteq Queues

VARIABLES
    queue_ram,             \* queue state words
    pipe,                  \* the operation in every pipeline stage
    op_table,              \* dequeues in flight
    op_table_start_ptr,    \* next op_table entry to allocate
    op_table_finish_ptr,   \* next op_table entry to retire
    resp,                  \* dequeue response output register
    doorbell,              \* queues whose doorbell is output this clock
    drv,                   \* the driver's view of every queue
    held,                  \* responses taken by the fetch engine, uncommitted
    fetched                \* committed pointers the driver has not reaped

vars == <<queue_ram, pipe, op_table, op_table_start_ptr, op_table_finish_ptr,
          resp, doorbell, drv, held, fetched>>
-----------------------------------------------------------------------------
(* Pointer arithmetic, modulo 2^QUEUE_PTR_WIDTH.                           *)

Inc(p) == (p + 1) % PtrMod

\* How far pointer b is ahead of pointer a.
Dist(a, b) == (b - a) % PtrMod

\* The slot of the ring a pointer designates, and the lap it is on.
Slot(p, log_size)  == p % 2^log_size
Phase(p, log_size) == (p \div 2^log_size) % 2 = 0

\* Successor of an op_table index: the index register wraps.
NextIdx(i) == IF i = OP_TABLE_SIZE - 1 THEN 0 ELSE i + 1
-----------------------------------------------------------------------------
(* State.                                                                  *)

ResetWord == [prod |-> 0, cons |-> 0, cqn |-> 0, log_size |-> 0,
              enable |-> 0, op_index |-> 0, base |-> 0]

SetOps  == {"set_base", "set_size", "set_cqn", "set_prod", "set_cons", "set_enable"}
OpKinds == SetOps \cup {"none", "read", "commit", "req"}

NoOp   == [op |-> "none", addr |-> 0, data |-> ResetWord, wdata |-> 0]
FreeEntry == [active |-> FALSE, commit |-> FALSE, queue |-> 0, queue_ptr |-> 0]
NoResp == [valid |-> FALSE]

DrvStates == {"closed", "set_base", "set_size", "set_cqn", "set_prod",
              "set_cons", "opened", "enabled", "disabled"}

DrvClosed == [pc |-> "closed", prod |-> 0, cons |-> 0, log_size |-> 0,
              base |-> 0, cqn |-> 0]

Init ==
    /\ queue_ram = [q \in Queues |-> ResetWord]
    /\ pipe = [j \in Stages |-> NoOp]
    /\ op_table = [i \in OpIdx |-> FreeEntry]
    /\ op_table_start_ptr = 0
    /\ op_table_finish_ptr = 0
    /\ resp = NoResp
    /\ doorbell = {}
    /\ drv = [q \in Queues |-> DrvClosed]
    /\ held = {}
    /\ fetched = [q \in Queues |-> {}]
-----------------------------------------------------------------------------
(* Stage 0: accept at most one operation per clock.                        *)

\* Mutant: the stage that writes back at this clock is not compared.
PipeHazard_NotLast(q) ==
    \E j \in Stages \ {PIPELINE - 1} : pipe[j].op # "none" /\ pipe[j].addr = q

\* A stage holds an operation on queue q: its word may be about to change.
PipeHazard(q) == \E j \in Stages : pipe[j].op # "none" /\ pipe[j].addr = q

InPipe(ops) == \E j \in Stages : pipe[j].op \in ops

\* The clock edge: entry e enters stage 0, the other stages advance.
Shift(e) == pipe' = [j \in Stages |-> IF j = 0 THEN e ELSE pipe[j - 1]]

\* Operation o on queue q with data w enters; it reads the queue's word.
Load(o, q, w) == Shift([op |-> o, addr |-> q, data |-> queue_ram[q], wdata |-> w])

AxilWrite(o, q, w) ==
    /\ ~InPipe(SetOps)
    /\ ~PipeHazard(q)
    /\ Load(o, q, w)

AxilRead(q) ==
    /\ ~InPipe({"read"})
    /\ ~PipeHazard(q)
    /\ Load("read", q, 0)

\* Mutant: the commit flag is not tested.
CommitReady_Early ==
    LET e == op_table[op_table_finish_ptr]
    IN  /\ e.active
        /\ pipe[0].op # "commit"
        /\ ~PipeHazard(e.queue)

\* The oldest operation is committed: retire it.
CommitReady ==
    LET e == op_table[op_table_finish_ptr]
    IN  /\ e.active
        /\ e.commit
        /\ pipe[0].op # "commit"
        /\ ~PipeHazard(e.queue)

CommitFinalize ==
    LET e == op_table[op_table_finish_ptr]
    IN  /\ CommitReady
        /\ Load("commit", e.queue, e.queue_ptr)

\* Mutant: several requests may be in the pipeline.
DequeueRequest_Overlap(q, resp_ready) ==
    /\ ~CommitReady
    /\ ~op_table[op_table_start_ptr].active
    /\ resp.valid => resp_ready
    /\ ~PipeHazard(q)
    /\ Load("req", q, 0)

DequeueRequest(q, resp_ready) ==
    /\ ~CommitReady
    /\ ~op_table[op_table_start_ptr].active
    /\ resp.valid => resp_ready
    /\ ~InPipe({"req"})
    /\ ~PipeHazard(q)
    /\ Load("req", q, 0)

\* No operation is offered, or none can be accepted.
Bubble ==
    /\ ~CommitReady
    /\ Shift(NoOp)
-----------------------------------------------------------------------------
(* Last stage: perform the operation on the word read at stage 0.          *)

Last == pipe[PIPELINE - 1]

\* Mutant: the entry's queue is not compared, so that an entry reused by
\* another queue counts.
QueueActive_AnyQueue == op_table[Last.data.op_index].active

\* The word's last dequeue is still in flight, so the pointer to use next is
\* in the operation table rather than in the word.
QueueActive == /\ op_table[Last.data.op_index].active
               /\ op_table[Last.data.op_index].queue = Last.addr

ActiveConsPtr == IF QueueActive THEN op_table[Last.data.op_index].queue_ptr
                                ELSE Last.data.cons

QueueEmpty == Last.data.prod = ActiveConsPtr

\* A dequeue starts: op_table_start_en.
StartEn == Last.op = "req" /\ Last.data.enable = 1 /\ ~QueueEmpty

\* A dequeue retires: op_table_finish_en.
FinishEn == pipe'[0].op = "commit"

\* The response register, emptied when the fetch engine takes it.
RespNext(resp_ready) ==
    resp' = IF Last.op = "req"
            THEN [valid    |-> TRUE,
                  queue    |-> Last.addr,
                  ptr      |-> ActiveConsPtr,
                  phase    |-> Phase(ActiveConsPtr, Last.data.log_size),
                  base     |-> Last.data.base,
                  slot     |-> Slot(ActiveConsPtr, Last.data.log_size),
                  cqn      |-> Last.data.cqn,
                  op_tag   |-> op_table_start_ptr,
                  error    |-> Last.data.enable = 0,
                  empty    |-> Last.data.enable = 1 /\ QueueEmpty]
            ELSE IF resp.valid /\ resp_ready THEN NoResp ELSE resp

\* What a register write makes of word w.  Base, size, completion queue and
\* consumer pointer change only while the queue is disabled.  Size and enable
\* share a byte of the word, so writing one rewrites the other with the value
\* read at stage 0.
WriteWord(w) ==
    LET off == Last.data.enable = 0
        field(o, old) == IF Last.op = o THEN Last.wdata ELSE old
        config(o, old) == IF Last.op = o /\ off THEN Last.wdata ELSE old
    IN  [prod     |-> field("set_prod", w.prod),
         cons     |-> config("set_cons", w.cons),
         cqn      |-> config("set_cqn", w.cqn),
         log_size |-> IF Last.op = "set_enable" THEN Last.data.log_size
                      ELSE config("set_size", w.log_size),
         enable   |-> IF Last.op = "set_size" /\ off THEN Last.data.enable
                      ELSE field("set_enable", w.enable),
         op_index |-> w.op_index,
         base     |-> config("set_base", w.base)]

PerformReq ==
    /\ Last.op = "req"
    /\ queue_ram' = IF StartEn
                    THEN [queue_ram EXCEPT ![Last.addr].op_index = op_table_start_ptr]
                    ELSE queue_ram
    /\ doorbell' = {}

PerformCommit ==
    /\ Last.op = "commit"
    /\ queue_ram' = [queue_ram EXCEPT ![Last.addr].cons = Last.wdata]
    /\ doorbell' = {}

PerformWrite ==
    /\ Last.op \in SetOps
    /\ queue_ram' = [queue_ram EXCEPT ![Last.addr] = WriteWord(@)]
    /\ doorbell' = IF Last.op = "set_prod" /\ Last.data.enable = 1
                   THEN {Last.addr} ELSE {}

\* An AXI-Lite read returns the word; a bubble does nothing.
PerformNothing ==
    /\ Last.op \in {"read", "none"}
    /\ queue_ram' = queue_ram
    /\ doorbell' = {}

Perform == PerformReq \/ PerformCommit \/ PerformWrite \/ PerformNothing
-----------------------------------------------------------------------------
(* The operation table, with the commits the fetch engine makes.           *)

\* Mutant: a commit that comes in the clock of a start is lost.
OpTableNext_LostCommit(tags) ==
    /\ op_table' =
         [i \in OpIdx |->
            IF FinishEn /\ i = op_table_finish_ptr THEN FreeEntry
            ELSE IF StartEn /\ i = op_table_start_ptr
            THEN [active |-> TRUE, commit |-> FALSE,
                  queue |-> Last.addr, queue_ptr |-> Inc(ActiveConsPtr)]
            ELSE [op_table[i] EXCEPT !.commit = @ \/ (i \in tags /\ ~StartEn)]]
    /\ op_table_start_ptr' = IF StartEn THEN NextIdx(op_table_start_ptr)
                                        ELSE op_table_start_ptr
    /\ op_table_finish_ptr' = IF FinishEn THEN NextIdx(op_table_finish_ptr)
                                          ELSE op_table_finish_ptr

\* Mutant: a rejected dequeue takes an entry of the table too.
OpTableNext_SkipEntry(tags) ==
    /\ op_table' =
         [i \in OpIdx |->
            IF FinishEn /\ i = op_table_finish_ptr THEN FreeEntry
            ELSE IF StartEn /\ i = op_table_start_ptr
            THEN [active |-> TRUE, commit |-> i \in tags,
                  queue |-> Last.addr, queue_ptr |-> Inc(ActiveConsPtr)]
            ELSE [op_table[i] EXCEPT !.commit = @ \/ i \in tags]]
    /\ op_table_start_ptr' = IF Last.op = "req" THEN NextIdx(op_table_start_ptr)
                                                ELSE op_table_start_ptr
    /\ op_table_finish_ptr' = IF FinishEn THEN NextIdx(op_table_finish_ptr)
                                          ELSE op_table_finish_ptr

\* Start allocates the entry at start_ptr, finish frees the one at
\* finish_ptr, and a commit handshake marks the entries in tags (at most one
\* per clock).  The fields of a free entry are never read (every use tests
\* its active flag first), so freeing an entry also clears them here.
OpTableNext(tags) ==
    /\ op_table' =
         [i \in OpIdx |->
            IF FinishEn /\ i = op_table_finish_ptr THEN FreeEntry
            ELSE IF StartEn /\ i = op_table_start_ptr
            THEN [active |-> TRUE, commit |-> i \in tags,
                  queue |-> Last.addr, queue_ptr |-> Inc(ActiveConsPtr)]
            ELSE [op_table[i] EXCEPT !.commit = @ \/ i \in tags]]
    /\ op_table_start_ptr' = IF StartEn THEN NextIdx(op_table_start_ptr)
                                        ELSE op_table_start_ptr
    /\ op_table_finish_ptr' = IF FinishEn THEN NextIdx(op_table_finish_ptr)
                                          ELSE op_table_finish_ptr

\* The fetch engine takes a response (a rejected dequeue leaves nothing to
\* commit) and commits operations it holds.
FetchNext(resp_ready, done) ==
    /\ held' = (held \ done) \cup
               (IF resp.valid /\ resp_ready /\ ~resp.error /\ ~resp.empty
                THEN {resp} ELSE {})
    /\ fetched' = [q \in Queues |->
                     IF drv'[q].pc = "closed" THEN {}
                     ELSE fetched[q] \cup {h.ptr : h \in {d \in done : d.queue = q}}]
-----------------------------------------------------------------------------
(* The driver.  Each step is one register write of mqnic_open_tx_ring,     *)
(* mqnic_enable_tx_ring, mqnic_tx_write_prod_ptr, mqnic_disable_tx_ring    *)
(* (or their rx counterparts), taken when stage 0 accepts the write.       *)
(* mqnic_start_port opens the rings one after the other, then enables      *)
(* them; mqnic_stop_port disables all, waits, then closes all.             *)

Advance(q, d) == drv' = [drv EXCEPT ![q] = d]

GoTo(q, pc) == Advance(q, [drv[q] EXCEPT !.pc = pc])

\* The loops of mqnic_start_port and mqnic_stop_port have come to queue q.
LoopAt(q, before, after) ==
    /\ drv[q].pc = before
    /\ \A r \in Queues : IF r < q THEN drv[r].pc = after
                                  ELSE drv[r].pc = before

OpenRing(q) ==
    \E l \in LogSizes, b \in Bases, c \in Cqns :
        /\ LoopAt(q, "closed", "opened")
        /\ Advance(q, [pc |-> "set_base", prod |-> 0, cons |-> 0,
                       log_size |-> l, base |-> b, cqn |-> c])
        /\ AxilWrite("set_enable", q, 0)

SetBase(q) == /\ drv[q].pc = "set_base"
              /\ GoTo(q, "set_size")
              /\ AxilWrite("set_base", q, drv[q].base)

SetSize(q) == /\ drv[q].pc = "set_size"
              /\ GoTo(q, "set_cqn")
              /\ AxilWrite("set_size", q, drv[q].log_size)

SetCqn(q) == /\ drv[q].pc = "set_cqn"
             /\ GoTo(q, "set_prod")
             /\ AxilWrite("set_cqn", q, drv[q].cqn)

SetProd(q) == /\ drv[q].pc = "set_prod"
              /\ GoTo(q, "set_cons")
              /\ AxilWrite("set_prod", q, drv[q].prod)

SetCons(q) == /\ drv[q].pc = "set_cons"
              /\ GoTo(q, "opened")
              /\ AxilWrite("set_cons", q, drv[q].cons)

EnableRing(q) == /\ LoopAt(q, "opened", "enabled")
                 /\ GoTo(q, "enabled")
                 /\ AxilWrite("set_enable", q, 1)

\* Descriptors are posted up to the size of the ring (is_rx_ring_full; the
\* transmit ring stops at half of it), then the producer pointer is written.
\* The receive ring is filled from the moment it is open, and until its NAPI
\* context is stopped, after the ring was disabled.
WriteProdPtr(q) ==
    /\ drv[q].pc \in {"opened", "enabled", "disabled"}
    /\ \E n \in 1 .. 2^drv[q].log_size - Dist(drv[q].cons, drv[q].prod) :
          LET p == (drv[q].prod + n) % PtrMod
          IN  /\ Advance(q, [drv[q] EXCEPT !.prod = p])
              /\ AxilWrite("set_prod", q, p)

DisableRing(q) == /\ LoopAt(q, "enabled", "disabled")
                  /\ GoTo(q, "disabled")
                  /\ AxilWrite("set_enable", q, 0)

\* Mutant: the driver closes a ring as soon as it is disabled.
Drained_NoWait(q) == queue_ram[q].enable = 0

\* Nothing of queue q is in progress in the hardware.  mqnic_stop_port waits
\* 20 ms for this between disabling a ring and closing it.
Drained(q) ==
    /\ queue_ram[q].enable = 0
    /\ \A i \in OpIdx : ~(op_table[i].active /\ op_table[i].queue = q)
    /\ \A j \in Stages : pipe[j].addr = q => pipe[j].op \in {"none", "read", "req"}
    /\ \A h \in held : h.queue # q
    /\ resp.valid /\ resp.queue = q => resp.error \/ resp.empty

\* mqnic_close_tx_ring, which disables the ring once more and frees what is
\* still in it (FetchNext forgets it).
CloseRing(q) ==
    /\ LoopAt(q, "disabled", "closed")
    /\ \A r \in Queues : drv[r].pc = "disabled" => Drained(r)
    /\ Advance(q, DrvClosed)
    /\ AxilWrite("set_enable", q, 0)

DriverWrite(q) == \/ OpenRing(q) \/ SetBase(q) \/ SetSize(q) \/ SetCqn(q)
                  \/ SetProd(q) \/ SetCons(q) \/ EnableRing(q)
                  \/ WriteProdPtr(q) \/ DisableRing(q) \/ CloseRing(q)

\* The driver frees the slots behind the descriptors that were read, oldest
\* first (the completion that tells it so follows the read).
Reap(q) ==
    /\ drv[q].cons \in fetched[q]
    /\ fetched' = [fetched EXCEPT ![q] = @ \ {drv[q].cons}]
    /\ Advance(q, [drv[q] EXCEPT !.cons = Inc(@)])
    /\ UNCHANGED <<queue_ram, pipe, op_table, op_table_start_ptr,
                   op_table_finish_ptr, resp, doorbell, held>>

-----------------------------------------------------------------------------
(* One clock: stage 0, the last stage, the operation table, the users.     *)

Stage0(resp_ready) ==
    \/ \E q \in Queues : DriverWrite(q)
    \/ /\ \/ \E q \in ReadQueues : AxilRead(q)
          \/ CommitFinalize
          \/ \E q \in Queues : DequeueRequest(q, resp_ready)
          \/ Bubble
       /\ UNCHANGED drv

\* Operations the fetch engine may commit this clock: none or one.
CommitChoices == {{}} \cup {{h} : h \in held}

Clock ==
    \E resp_ready \in BOOLEAN, done \in CommitChoices :
        /\ Stage0(resp_ready)
        /\ Perform
        /\ RespNext(resp_ready)
        /\ OpTableNext({h.op_tag : h \in done})
        /\ FetchNext(resp_ready, done)

Next == Clock \/ \E q \in Queues : Reap(q)

Spec == Init /\ [][Next]_vars
-----------------------------------------------------------------------------
(* Properties.                                                             *)

Words == [prod : Ptrs, cons : Ptrs, cqn : Cqns \cup {0},
          log_size : LogSizes \cup {0}, enable : Bit, op_index : OpIdx,
          base : Bases \cup {0}]

Resps == [valid : {TRUE}, queue : Queues, ptr : Ptrs, phase : BOOLEAN,
          base : Bases \cup {0}, slot : Nat, cqn : Cqns \cup {0},
          op_tag : OpIdx, error : BOOLEAN, empty : BOOLEAN]

Entries == [op : OpKinds, addr : Queues, data : Words, wdata : Nat]

\* The value entry e carries suits its operation.
GoodData(e) ==
    /\ e.op = "set_base" => e.wdata \in Bases \cup {0}
    /\ e.op = "set_size" => e.wdata \in LogSizes \cup {0}
    /\ e.op = "set_cqn" => e.wdata \in Cqns \cup {0}
    /\ e.op \in {"set_prod", "set_cons", "commit"} => e.wdata \in Ptrs
    /\ e.op = "set_enable" => e.wdata \in Bit

Drvs == [pc : DrvStates, prod : Ptrs, cons : Ptrs, log_size : LogSizes \cup {0},
         base : Bases \cup {0}, cqn : Cqns \cup {0}]

OpEntries == [active : BOOLEAN, commit : BOOLEAN, queue : Queues, queue_ptr : Ptrs]

\* Every register of the module and of its users holds a value of its type.
TypeOK ==
    /\ queue_ram \in [Queues -> Words]
    /\ pipe \in [Stages -> Entries]
    /\ \A j \in Stages : GoodData(pipe[j])
    /\ op_table \in [OpIdx -> OpEntries]
    /\ op_table_start_ptr \in OpIdx
    /\ op_table_finish_ptr \in OpIdx
    /\ resp \in Resps \cup {NoResp}
    /\ doorbell \subseteq Queues
    /\ drv \in [Queues -> Drvs]
    /\ held \subseteq Resps
    /\ fetched \in [Queues -> SUBSET Ptrs]

\* The copy of a queue's word carried by an operation is never stale: the
\* hazard check admits one operation per queue, so between the read at stage 0
\* and the write-back at the last stage nobody else writes that word
\* (queue_manager.v:363-369).
PipeCoherent ==
    \A j \in Stages : pipe[j].op # "none" =>
        /\ pipe[j].data = queue_ram[pipe[j].addr]
        /\ \A k \in Stages \ {j} : pipe[k].op # "none" => pipe[k].addr # pipe[j].addr

\* A dequeue that reaches the last stage finds the response register empty and
\* its operation table entry free, although both were tested PIPELINE clocks
\* before, at stage 0 (queue_manager.v:405): no response is overwritten.
ReqResourcesFree ==
    InPipe({"req"}) => ~resp.valid /\ ~op_table[op_table_start_ptr].active

\* Index i is between finish_ptr and start_ptr on the ring of entries.
InRing(i) ==
    IF op_table_finish_ptr < op_table_start_ptr
    THEN op_table_finish_ptr <= i /\ i < op_table_start_ptr
    ELSE i < op_table_start_ptr \/ op_table_finish_ptr <= i

\* The active entries are exactly those from finish_ptr up to start_ptr; when
\* the two meet the table is either full or empty.
OpTableRing ==
    \/ \A i \in OpIdx : op_table[i].active <=> InRing(i)
    \/ op_table_start_ptr = op_table_finish_ptr /\ \A i \in OpIdx : ~op_table[i].active

\* Dequeues handed out and not committed: with the fetch engine, or still in
\* the response register.
Granted == held \cup {r \in {resp} : r.valid /\ ~r.error /\ ~r.empty}

\* An operation tag names one dequeue until it is committed: the table entry
\* of every dequeue handed out is active, uncommitted and its own, so a late
\* commit never retires somebody else's descriptor.
TagsExclusive ==
    \A g \in Granted :
        /\ op_table[g.op_tag].active
        /\ ~op_table[g.op_tag].commit
        /\ op_table[g.op_tag].queue = g.queue
        /\ op_table[g.op_tag].queue_ptr = Inc(g.ptr)
        /\ \A h \in Granted : h.op_tag = g.op_tag => h = g

\* A descriptor the hardware is reading is one the driver posted, in the ring
\* it posted it to, and the driver has not taken the slot back: "entries
\* between the consumer pointer and the producer pointer are under the control
\* of the NIC" (docs/source/modules/queue_manager.rst).
GrantedOwned ==
    \A g \in Granted :
        LET d == drv[g.queue]
        IN  /\ Dist(d.cons, g.ptr) < Dist(d.cons, d.prod)
            /\ g.base = d.base /\ g.cqn = d.cqn
            /\ g.slot = Slot(g.ptr, d.log_size)
            /\ g.phase = Phase(g.ptr, d.log_size)

\* The shadow consumer pointer: where the next dequeue of queue q will read.
ShadowPtr(q) ==
    LET last == op_table[queue_ram[q].op_index]
        commits == {j \in Stages : pipe[j].op = "commit" /\ pipe[j].addr = q}
    IN  IF last.active /\ last.queue = q THEN last.queue_ptr
        ELSE IF commits # {} THEN pipe[CHOOSE j \in commits : TRUE].wdata
        ELSE queue_ram[q].cons

DQ == INSTANCE DescQueue WITH
        enabled <- [q \in Queues |-> queue_ram[q].enable = 1],
        prod    <- [q \in Queues |-> queue_ram[q].prod],
        shadow  <- [q \in Queues |-> ShadowPtr(q)],
        cons    <- [q \in Queues |-> queue_ram[q].cons]

\* The pipelined module with out-of-order commits implements the three-pointer
\* queue of DescQueue: descriptors are handed out once each, in order, and the
\* host-facing consumer pointer passes them in that order.
ImplementsDescQueue == DQ!Spec

\* The fetch engine reads every descriptor it was given and commits it; the
\* host leaves clocks without a register access, so that a retirement, the
\* lower priority at stage 0, is accepted in the end.
Fairness ==
    /\ WF_vars(Clock)
    /\ WF_vars(Clock /\ resp.valid /\ resp' # resp)
    /\ WF_vars(Clock /\ \E h \in held : h.op_tag = op_table_finish_ptr /\ h \notin held')
    /\ SF_vars(Clock /\ CommitFinalize)

FairSpec == Spec /\ Fairness

\* Every operation table entry is freed again: an uncommitted operation at the
\* head delays the ones behind it but no dequeue is stuck in the table.
OpsRetire == \A i \in OpIdx : op_table[i].active ~> ~op_table[i].active
=============================================================================
