------------------------ MODULE TxScheduler_proofs ------------------------
(***************************************************************************)
(* Theorems on the transmit scheduler: tx_scheduler_rr.v with the order in  *)
(* which the transmit engine answers it.                                   *)
(*                                                                         *)
(* A request passes through a line of places: the pipeline (req), the      *)
(* request register, the engine, its results, the finish FIFO, the finish  *)
(* register, the pipeline again (complete).  SchedIInv says that the       *)
(* pipeline acts on current words, that every active table entry is at     *)
(* exactly one place of the line, and that a scheduled queue is in the     *)
(* FIFO or in a request and nowhere else.  SchedOrder adds where in the    *)
(* line a recorded doorbell is, relative to the statuses that would make   *)
(* the queue inactive.                                                     *)
(***************************************************************************)
EXTENDS TxScheduler, PointerTheorems, FiniteSetTheorems, TLAPS

Words    == [enabled : BOOLEAN, global : BOOLEAN, sched : BOOLEAN,
             active : BOOLEAN, scheduled : BOOLEAN, tail : OpIdx]
Ops      == [op : OpKinds, addr : Queues, data : Words, wdata : BOOLEAN, index : OpIdx]
Requests == [queue : Queues, tag : OpIdx]
Statuses == [tag : OpIdx, status : BOOLEAN]

SchedType ==
    /\ queue_ram \in [Queues -> Words]
    /\ pipe \in [Stages -> Ops]
    /\ DOMAIN op_table = OpIdx
    /\ \A i \in OpIdx : /\ op_table[i].active \in BOOLEAN
                        /\ op_table[i].queue \in Queues
                        /\ op_table[i].doorbell \in BOOLEAN
    /\ doorbell_fifo \in Seq(Queues)
    /\ rr_fifo \in Seq(Queues)
    /\ tx_req \in SUBSET Requests /\ \A r, t \in tx_req : r = t
    /\ finish_fifo \in Seq(Statuses)
    /\ finish \in SUBSET Statuses /\ \A f, g \in finish : f = g
    /\ init_index \in 0 .. QUEUE_COUNT
    /\ writes \in SUBSET Queues
    /\ engine \in Seq(Requests)
    /\ results \in Seq(Statuses)
    /\ packets \in [Queues -> Nat]

\* The pipeline: one operation per queue, acting on the word as it is; one request.
SchedPipe ==
    /\ \A j, k \in Stages :
         pipe[j].op # "none" /\ pipe[k].op # "none" /\ pipe[j].addr = pipe[k].addr => j = k
    /\ \A j \in Stages : pipe[j].op # "none" => pipe[j].data = queue_ram[pipe[j].addr]
    /\ \A j, k \in Stages : pipe[j].op = "req" /\ pipe[k].op = "req" => j = k

\* Until every word is initialised nothing else is done.
SchedInit ==
    /\ init_index < QUEUE_COUNT =>
         \A j \in Stages : /\ pipe[j].op \in {"none", "init"}
                           /\ pipe[j].op = "init" => pipe[j].addr < init_index
    /\ init_index < QUEUE_COUNT =>
         \A q \in Queues : ~queue_ram[q].active /\ ~queue_ram[q].scheduled
    /\ \A j \in Stages : pipe[j].op = "init" => ~pipe[j].data.active /\ ~pipe[j].data.scheduled

\* A queue is in the FIFO or in a request at most once, and exactly if scheduled.
InFifo(q) == \E k \in 1 .. Len(rr_fifo) : rr_fifo[k] = q
InReq(q)  == \E j \in Stages : pipe[j].op = "req" /\ pipe[j].addr = q

SchedTokens ==
    /\ \A k, l \in 1 .. Len(rr_fifo) : rr_fifo[k] = rr_fifo[l] => k = l
    /\ \A q \in Queues : ~(InFifo(q) /\ InReq(q))
    /\ \A q \in Queues : queue_ram[q].scheduled <=> InFifo(q) \/ InReq(q)

\* The places a request passes through on its way, in the order in which it leaves:
\* tag i is at place k of part s.
AtComplete(i, k) == k \in Stages /\ pipe[k].op = "complete" /\ pipe[k].index = i
AtFinish(i, k)   == k = 0 /\ \E f \in finish : f.tag = i
AtFifo(i, k)     == k \in 1 .. Len(finish_fifo) /\ finish_fifo[k].tag = i
AtResults(i, k)  == k \in 1 .. Len(results) /\ results[k].tag = i
AtEngine(i, k)   == k \in 1 .. Len(engine) /\ engine[k].tag = i
AtRegister(i, k) == k = 0 /\ \E r \in tx_req : r.tag = i
AtRequest(i, k)  == k \in Stages /\ pipe[k].op = "req" /\ pipe[k].index = i

At(i, s, k) ==
    \/ s = 0 /\ AtComplete(i, k)
    \/ s = 1 /\ AtFinish(i, k)
    \/ s = 2 /\ AtFifo(i, k)
    \/ s = 3 /\ AtResults(i, k)
    \/ s = 4 /\ AtEngine(i, k)
    \/ s = 5 /\ AtRegister(i, k)
    \/ s = 6 /\ AtRequest(i, k)

Parts == 0 .. 6

\* A tag is at one place, and its entry is active exactly while it is at one.
SchedTags ==
    /\ \A i \in OpIdx : \A s, t \in Parts : \A k, l \in Nat :
         At(i, s, k) /\ At(i, t, l) => s = t /\ k = l
    /\ \A i \in OpIdx : op_table[i].active <=> \E s \in Parts, k \in Nat : At(i, s, k)

\* Entries in use name the queue their request is for; one request at a time.
SchedEntries ==
    /\ InPipe("req") => tx_req = {}
    /\ \A j \in Stages : pipe[j].op \in {"req", "complete"} =>
                            op_table[pipe[j].index].queue = pipe[j].addr
    /\ \A r \in tx_req : op_table[r.tag].queue = r.queue
    /\ \A k \in 1 .. Len(engine) : op_table[engine[k].tag].queue = engine[k].queue

\* An enabled, active queue is scheduled.
SchedWord ==
    \A q \in Queues :
        LET w == queue_ram[q]
        IN  w.enabled /\ (SCHED_CTRL_ENABLE => w.sched) /\ w.active => w.scheduled

\* The status of the request at a place is, or may be, that the queue was empty.
Found(i, s, k) ==
    \/ s = 0 /\ At(i, s, k) /\ ~pipe[k].wdata
    \/ s = 1 /\ k = 0 /\ \E f \in finish : f.tag = i /\ ~f.status
    \/ s = 2 /\ At(i, s, k) /\ ~finish_fifo[k].status
    \/ s = 3 /\ At(i, s, k) /\ ~results[k].status
Doubt(i, s, k) == Found(i, s, k) \/ (s \in {4, 5} /\ At(i, s, k))

\* Place (t, l) leaves the line no earlier than place (s, k).
NotBefore(s, k, t, l) == s < t \/ (s = t /\ IF s = 0 THEN l <= k ELSE k <= l)

\* The newest request of the queue that request i is for, by the queue's word.
TailOf(i) == queue_ram[op_table[i].queue].tail

\* Behind every request that may find its queue empty is the tail of that queue.
SchedTail ==
    \A i \in OpIdx, s \in Parts, k \in Nat : Doubt(i, s, k) =>
        \E a \in OpIdx : /\ a = TailOf(i) /\ op_table[a].queue = op_table[i].queue
                         /\ \E t \in 0 .. 5, l \in Nat :
                               At(a, t, l) /\ NotBefore(s, k, t, l)

\* A doorbell of the queue has not reached the last stage yet.
Pending(q) == \/ \E k \in 1 .. Len(doorbell_fifo) : doorbell_fifo[k] = q
              \/ \E j \in Stages : pipe[j].op = "doorbell" /\ pipe[j].addr = q

\* Request i, at that place, carries a recorded doorbell.
Rung(i, s, k) == /\ At(i, s, k)
                 /\ IF s = 0 THEN pipe[k].wdata ELSE op_table[i].doorbell

\* The queue has packets and no doorbell on the way will say so.
Waiting(q) == packets[q] > 0 /\ ~Pending(q)

\* A waiting queue is active or has a recorded doorbell, and no status that finds
\* it empty leaves after the last recorded doorbell.
SchedRung ==
    /\ \A i \in OpIdx, s \in Parts, k \in Nat : Found(i, s, k) /\ Waiting(op_table[i].queue) =>
         \E d \in OpIdx, t \in 0 .. 5, l \in Nat :
            /\ Rung(d, t, l) /\ op_table[d].queue = op_table[i].queue
            /\ NotBefore(s, k, t, l)
    /\ \A q \in Queues : Waiting(q) =>
         \/ queue_ram[q].active
         \/ \E d \in OpIdx, t \in 0 .. 5, l \in Nat : Rung(d, t, l) /\ op_table[d].queue = q
-----------------------------------------------------------------------------
(* The clock, taken apart.                                                 *)

ClockWith(req_ready, report) ==
    /\ Stage0(req_ready)
    /\ Perform
    /\ RrFifoNext
    /\ TxReqNext(req_ready)
    /\ OpTableNext
    /\ FinishNext(report)
    /\ UNCHANGED <<enable, packets, posted>>

Reports == {{}} \cup {{k} : k \in Reportable}

\* A clock is the conjunction of its register groups for some readiness of the
\* transmit engine and some status that arrives.
LEMMA ClockIs ==
    ASSUME Clock
    PROVE  \E req_ready \in BOOLEAN, report \in Reports : ClockWith(req_ready, report)
BY DEF Clock, ClockWith, Reports

\* What the assumptions say of the index sets: stages have neighbours.
LEMMA Dimensions ==
    /\ 0 \in Queues /\ 0 \in OpIdx /\ 0 \in Stages
    /\ PIPELINE - 1 \in Stages /\ PIPELINE \in Nat /\ PIPELINE >= 2
    /\ \A j \in Stages : j # 0 => j - 1 \in Stages
    /\ \A j \in Stages : j # PIPELINE - 1 => j + 1 \in Stages
    /\ Queues \subseteq Nat /\ Stages \subseteq Nat /\ OpIdx \subseteq Nat
BY SchedAssumption DEF Queues, OpIdx, Stages

\* The priority encoder finds a free entry when there is one.
LEMMA StartPtrFree ==
    ASSUME SchedType, \E i \in OpIdx : ~op_table[i].active
    PROVE  StartPtr \in OpIdx /\ ~op_table[StartPtr].active
<1> DEFINE P(i) == i \in OpIdx /\ ~op_table[i].active
<1>1. \E i \in Nat : P(i)
  BY Dimensions
<1>2. \E n \in Nat : P(n) /\ \A m \in 0 .. n - 1 : ~P(m)
  <2> HIDE DEF P
  <2>1. PICK S \in SUBSET Nat : S = {i \in Nat : P(i)}
    OBVIOUS
  <2>2. S # {}
    BY <1>1, <2>1
  <2>3. \E n \in S : \A m \in S : n <= m
    BY <2>1, <2>2, LeastExists
  <2> QED
    BY <2>1, <2>3
<1>3. \E i \in OpIdx : /\ ~op_table[i].active
                       /\ \A k \in OpIdx : k < i => op_table[k].active
  BY <1>2 DEF OpIdx
<1> QED
  BY <1>3 DEF StartPtr

\* What stage 0 accepts, and what it needs for that.
LEMMA Accepting ==
    ASSUME SchedType, NEW rr \in BOOLEAN, Stage0(rr)
    PROVE  /\ pipe' \in [Stages -> Ops]
           /\ \A j \in Stages : j # 0 => pipe'[j] = pipe[j - 1]
           /\ pipe'[0].op # "none" => /\ ~PipeHazard(pipe'[0].addr)
                                      /\ pipe'[0].data = queue_ram[pipe'[0].addr]
           /\ pipe'[0].op = "req" =>
                /\ rr_fifo # <<>> /\ pipe'[0].addr = Head(rr_fifo)
                /\ pipe'[0].index = StartPtr /\ StartPtr \in OpIdx
                /\ ~op_table[StartPtr].active
                /\ ~InPipe("req") /\ (tx_req # {} => rr)
           /\ pipe'[0].op = "complete" =>
                \E f \in finish : /\ pipe'[0].addr = op_table[f.tag].queue
                                  /\ pipe'[0].index = f.tag
                                  /\ pipe'[0].wdata = CompleteStatus(f)
           /\ pipe'[0].op = "doorbell" => /\ doorbell_fifo # <<>>
                                          /\ pipe'[0].addr = Head(doorbell_fifo)
                                          /\ doorbell_fifo' = Tail(doorbell_fifo)
           /\ pipe'[0].op # "doorbell" => doorbell_fifo' = doorbell_fifo
           /\ InitReady => /\ pipe'[0].op = "init" /\ pipe'[0].addr = init_index
                           /\ init_index' = init_index + 1
           /\ ~InitReady => pipe'[0].op # "init" /\ init_index' = init_index
           /\ writes' \subseteq writes
<1> DEFINE L(o, q, w, i) ==
        [op |-> o, addr |-> q, data |-> queue_ram[q], wdata |-> w, index |-> i]
<1>0. \A o \in OpKinds, q \in Queues, w \in BOOLEAN, i \in OpIdx :
        Load(o, q, w, i) => /\ pipe' \in [Stages -> Ops]
                            /\ \A j \in Stages : j # 0 => pipe'[j] = pipe[j - 1]
                            /\ pipe'[0].op = o /\ pipe'[0].addr = q
                            /\ pipe'[0].data = queue_ram[q]
                            /\ pipe'[0].wdata = w /\ pipe'[0].index = i
  BY Dimensions DEF Load, Shift, SchedType, Ops
<1>1. CASE InitQueue
  <2>1. init_index \in Queues
    BY <1>1, SchedAssumption DEF InitQueue, InitReady, SchedType, Queues
  <2>2. Load("init", init_index, FALSE, 0)
    BY <1>1 DEF InitQueue
  <2> QED
    BY <1>0, <1>1, <2>1, <2>2, Dimensions DEF InitQueue, InitReady, OpKinds
<1>2. CASE Doorbell
  <2>1. doorbell_fifo # <<>> /\ Head(doorbell_fifo) \in Queues
    BY <1>2 DEF Doorbell, DoorbellReady, SchedType
  <2>2. Load("doorbell", Head(doorbell_fifo), FALSE, 0)
    BY <1>2 DEF Doorbell
  <2> QED
    BY <1>0, <1>2, <2>1, <2>2, Dimensions DEF Doorbell, DoorbellReady, OpKinds
<1>3. CASE Complete
  <2>1. PICK f \in finish : Load("complete", op_table[f.tag].queue, CompleteStatus(f), f.tag)
    BY <1>3 DEF Complete
  <2>2. f.tag \in OpIdx /\ op_table[f.tag].queue \in Queues
    BY DEF SchedType, Statuses
  <2>3. CompleteStatus(f) \in BOOLEAN
    BY DEF CompleteStatus
  <2>4. ~PipeHazard(op_table[f.tag].queue)
    BY <1>3 DEF Complete, CompleteReady, SchedType
  <2>5. PICK w \in BOOLEAN : w = CompleteStatus(f)
    BY <2>3, Zenon
  <2>6. Load("complete", op_table[f.tag].queue, w, f.tag)
    BY <2>1, <2>5, Zenon
  <2>7. /\ pipe' \in [Stages -> Ops]
        /\ \A j \in Stages : j # 0 => pipe'[j] = pipe[j - 1]
        /\ pipe'[0].op = "complete" /\ pipe'[0].addr = op_table[f.tag].queue
        /\ pipe'[0].data = queue_ram[op_table[f.tag].queue] /\ pipe'[0].index = f.tag
    BY <1>0, <2>2, <2>6 DEF OpKinds
  <2>8. pipe'[0].wdata = CompleteStatus(f)
    BY <1>0, <2>2, <2>5, <2>6, Zenon DEF OpKinds
  <2>9. \E g \in finish : /\ pipe'[0].addr = op_table[g.tag].queue
                          /\ pipe'[0].index = g.tag
                          /\ pipe'[0].wdata = CompleteStatus(g)
    BY <2>7, <2>8, Zenon
  <2> QED
    BY <1>3, <2>4, <2>7, <2>9 DEF Complete
<1>4. CASE TxRequest(rr)
  <2>1. rr_fifo # <<>> /\ Head(rr_fifo) \in Queues
    BY <1>4 DEF TxRequest, SchedType
  <2>2. StartPtr \in OpIdx /\ ~op_table[StartPtr].active
    BY <1>4, StartPtrFree DEF TxRequest
  <2>3. Load("req", Head(rr_fifo), FALSE, StartPtr)
    BY <1>4 DEF TxRequest
  <2> QED
    BY <1>0, <1>4, <2>1, <2>2, <2>3, Dimensions DEF TxRequest, OpKinds
<1>5. CASE Bubble
  <2>1. NoOp \in Ops
    BY Dimensions DEF NoOp, Ops, ResetWord, Words, OpKinds
  <2> QED
    BY <1>5, <2>1, Dimensions DEF Bubble, Shift, NoOp, SchedType, Ops
<1>6. CASE \E q \in Queues : AxilWrite(q)
  <2>1. PICK q \in Queues : AxilWrite(q)
    BY <1>6
  <2>2. Load("write", q, TRUE, 0)
    BY <2>1 DEF AxilWrite
  <2> QED
    BY <1>0, <2>1, <2>2, Dimensions DEF AxilWrite, OpKinds
<1>7. CASE \E q \in Queues : AxilRead(q)
  <2>1. PICK q \in Queues : AxilRead(q)
    BY <1>7
  <2>2. Load("read", q, FALSE, 0)
    BY <2>1 DEF AxilRead
  <2> QED
    BY <1>0, <2>1, <2>2, Dimensions DEF AxilRead, OpKinds
<1>8. CASE \E q \in Queues : \E v \in BOOLEAN : SchedCtrl(q, v)
  <2>1. PICK q \in Queues, v \in BOOLEAN : SchedCtrl(q, v)
    BY <1>8
  <2>2. Load("ctrl", q, v, 0)
    BY <2>1 DEF SchedCtrl
  <2> QED
    BY <1>0, <2>1, <2>2, Dimensions DEF SchedCtrl, OpKinds
<1> QED
  BY <1>1, <1>2, <1>3, <1>4, <1>5, <1>6, <1>7, <1>8 DEF Stage0
-----------------------------------------------------------------------------
(* What the last stage does.                                               *)

\* The operation in the last stage is well-formed.
LEMMA LastOpType ==
    ASSUME SchedType
    PROVE  /\ LastOp \in Ops /\ LastOp.op \in OpKinds /\ LastOp.addr \in Queues
           /\ LastOp.index \in OpIdx /\ LastOp.wdata \in BOOLEAN
           /\ LastOp.data \in Words
           /\ LastOp.data.active \in BOOLEAN /\ LastOp.data.scheduled \in BOOLEAN
           /\ LastOp.data.enabled \in BOOLEAN /\ LastOp.data.global \in BOOLEAN
           /\ LastOp.data.sched \in BOOLEAN /\ LastOp.data.tail \in OpIdx
BY Dimensions DEF LastOp, SchedType, Ops, Words

\* The fields of the word before `scheduled' is decided.
LEMMA UpdateFields ==
    ASSUME SchedType
    PROVE  /\ Update.enabled \in BOOLEAN /\ Update.global \in BOOLEAN
           /\ Update.sched \in BOOLEAN /\ Update.active \in BOOLEAN
           /\ Update.enabled <=> LastOp.op # "init" /\
                                 (LastOp.data.enabled \/ LastOp.op = "write")
           /\ Update.sched <=> IF LastOp.op = "init" /\ SCHED_CTRL_ENABLE THEN FALSE
                               ELSE IF LastOp.op = "ctrl" THEN LastOp.wdata
                               ELSE LastOp.data.sched
           /\ Update.active <=> IF LastOp.op = "init" THEN FALSE
                                ELSE IF LastOp.op = "doorbell" THEN TRUE
                                ELSE IF LastOp.op = "complete" THEN LastOp.wdata
                                ELSE LastOp.data.active
BY LastOpType DEF Update

\* What the last stage writes back (tx_scheduler_rr.v:562-720): only the word of
\* its own queue, and of that the fields of Update with `scheduled' and `tail'.
LEMMA Performing ==
    ASSUME SchedType, Perform
    PROVE  /\ queue_ram' \in [Queues -> Words]
           /\ \A q \in Queues : q # LastOp.addr => queue_ram'[q] = queue_ram[q]
           /\ LastOp.op \in {"none", "read"} => queue_ram' = queue_ram
           /\ LastOp.op \notin {"none", "read"} =>
                /\ queue_ram'[LastOp.addr].enabled = Update.enabled
                /\ queue_ram'[LastOp.addr].sched = Update.sched
                /\ queue_ram'[LastOp.addr].active = Update.active
                /\ queue_ram'[LastOp.addr].scheduled <=>
                     IF LastOp.op = "init" THEN FALSE
                     ELSE IF LastOp.op = "req" THEN Issue
                     ELSE LastOp.data.scheduled \/ Enter
                /\ queue_ram'[LastOp.addr].tail =
                     IF Issue THEN LastOp.index ELSE queue_ram[LastOp.addr].tail
<1> DEFINE S == IF LastOp.op = "init" THEN FALSE
                ELSE IF LastOp.op = "req" THEN Issue
                ELSE LastOp.data.scheduled \/ Enter
           N == [enabled   |-> Update.enabled,
                 global    |-> Update.global,
                 sched     |-> Update.sched,
                 active    |-> Update.active,
                 scheduled |-> S,
                 tail      |-> IF Issue THEN LastOp.index ELSE queue_ram[LastOp.addr].tail]
<1>1. LastOp.addr \in Queues /\ queue_ram \in [Queues -> Words]
  BY LastOpType DEF SchedType
<1>2. S \in BOOLEAN
  BY LastOpType DEF Issue, Enter
<1>3. (IF Issue THEN LastOp.index ELSE queue_ram[LastOp.addr].tail) \in OpIdx
  BY <1>1, LastOpType DEF Words
<1>4. N \in Words
  <2> HIDE DEF S
  <2> QED
    BY <1>2, <1>3, UpdateFields DEF Words
<1>5. CASE LastOp.op \in {"none", "read"}
  BY <1>1, <1>5 DEF Perform
<1>6. CASE LastOp.op \notin {"none", "read"}
  <2>1. queue_ram' = [queue_ram EXCEPT ![LastOp.addr] = N]
    BY <1>6, Zenon DEF Perform
  <2>2. queue_ram'[LastOp.addr] = N
    BY <1>1, <2>1
  <2>3. queue_ram'[LastOp.addr].scheduled = S
    BY <2>2
  <2>4. queue_ram' \in [Queues -> Words]
    <3> HIDE DEF N
    <3> QED BY <1>1, <1>4, <2>1
  <2>5. \A q \in Queues : q # LastOp.addr => queue_ram'[q] = queue_ram[q]
    <3> HIDE DEF N
    <3> QED BY <1>1, <2>1
  <2>6. /\ queue_ram'[LastOp.addr].enabled = Update.enabled
        /\ queue_ram'[LastOp.addr].sched = Update.sched
        /\ queue_ram'[LastOp.addr].active = Update.active
        /\ queue_ram'[LastOp.addr].tail =
             IF Issue THEN LastOp.index ELSE queue_ram[LastOp.addr].tail
    <3> HIDE DEF S
    <3> QED BY <2>2
  <2> QED
    BY <1>6, <2>3, <2>4, <2>5, <2>6, Zenon
<1> QED
  BY <1>5, <1>6

Starts(i) == pipe'[0].op = "req" /\ i = StartPtr

\* The fields of the operation table that matter here.
LEMMA TableFields ==
    ASSUME SchedType, NEW rr \in BOOLEAN, Stage0(rr), OpTableNext
    PROVE  /\ DOMAIN op_table' = OpIdx
           /\ \A i \in OpIdx :
                /\ op_table'[i].active \in BOOLEAN
                /\ op_table'[i].queue \in Queues
                /\ op_table'[i].doorbell \in BOOLEAN
                /\ op_table'[i].active <=> i \notin Released /\ (Starts(i) \/ op_table[i].active)
                /\ op_table'[i].queue = IF Starts(i) THEN Head(rr_fifo) ELSE op_table[i].queue
                /\ op_table'[i].doorbell <=>
                     i \in DoorbellAt \/ (~Starts(i) /\ op_table[i].doorbell)
<1>1. DOMAIN op_table' = OpIdx
  BY Zenon DEF OpTableNext
<1>2. ASSUME NEW i \in OpIdx
      PROVE  /\ op_table'[i].active = (i \notin Released /\ (Starts(i) \/ op_table[i].active))
             /\ op_table'[i].queue = IF Starts(i) THEN Head(rr_fifo) ELSE op_table[i].queue
             /\ op_table'[i].doorbell =
                  (i \in DoorbellAt \/ (~Starts(i) /\ op_table[i].doorbell))
  BY DEF OpTableNext, Starts, Accepted
<1>3. ASSUME NEW i \in OpIdx PROVE op_table'[i].queue \in Queues
  <2>1. Starts(i) => Head(rr_fifo) \in Queues
    BY Accepting, Dimensions DEF Starts, SchedType
  <2> QED
    BY <1>2, <2>1 DEF SchedType
<1> QED
  BY <1>1, <1>2, <1>3, Zenon

\* A status leaves the results and joins the FIFO; the oldest of the FIFO moves on.
LEMMA Removing ==
    ASSUME NEW S, NEW s \in Seq(S), NEW m \in 1 .. Len(s)
    PROVE  /\ RemoveAt(s, m) \in Seq(S)
           /\ Len(RemoveAt(s, m)) = Len(s) - 1
           /\ \A k \in 1 .. Len(s) - 1 :
                RemoveAt(s, m)[k] = IF k < m THEN s[k] ELSE s[k + 1]
<1> DEFINE a == SubSeq(s, 1, m - 1)
           b == SubSeq(s, m + 1, Len(s))
<1>1. a \in Seq(S) /\ Len(a) = m - 1 /\ \A k \in 1 .. m - 1 : a[k] = s[k]
  OBVIOUS
<1>2. /\ b \in Seq(S) /\ Len(b) = Len(s) - m
      /\ \A k \in 1 .. Len(s) - m : b[k] = s[k + m]
  OBVIOUS
<1>3. RemoveAt(s, m) = a \o b
  BY DEF RemoveAt
<1> HIDE DEF a, b
<1>4. RemoveAt(s, m) \in Seq(S) /\ Len(RemoveAt(s, m)) = Len(s) - 1
  BY <1>1, <1>2, <1>3
<1>5. ASSUME NEW k \in 1 .. Len(s) - 1, k < m PROVE RemoveAt(s, m)[k] = s[k]
  BY <1>1, <1>2, <1>3, <1>5
<1>6. ASSUME NEW k \in 1 .. Len(s) - 1, ~(k < m) PROVE RemoveAt(s, m)[k] = s[k + 1]
  <2>1. k - Len(a) \in 1 .. Len(s) - m /\ (k - Len(a)) + m = k + 1
    BY <1>1, <1>6
  <2>2. RemoveAt(s, m)[k] = b[k - Len(a)]
    BY <1>1, <1>2, <1>3, <1>6, <2>1
  <2> QED
    BY <1>2, <2>1, <2>2
<1> QED
  BY <1>4, <1>5, <1>6

Ld == IF finish = {} /\ finish_fifo # <<>> THEN 1 ELSE 0

\* What a clock does with statuses: at most one result is reported and joins the
\* end of the finish FIFO, whose oldest one moves to the finish register.
LEMMA Reporting ==
    ASSUME SchedType, NEW report \in Reports, FinishNext(report)
    PROVE  /\ results' \in Seq(Statuses) /\ finish_fifo' \in Seq(Statuses)
           /\ Ld \in {0, 1} /\ Ld <= Len(finish_fifo)
           /\ \A k \in 1 .. Len(finish_fifo) - Ld : finish_fifo'[k] = finish_fifo[k + Ld]
           /\ \/ /\ results' = results
                 /\ Len(finish_fifo') = Len(finish_fifo) - Ld
              \/ \E m \in Reportable :
                   /\ m \in 1 .. Len(results)
                   /\ Len(results') = Len(results) - 1
                   /\ \A k \in 1 .. Len(results) - 1 :
                        results'[k] = IF k < m THEN results[k] ELSE results[k + 1]
                   /\ Len(finish_fifo') = Len(finish_fifo) - Ld + 1
                   /\ finish_fifo'[Len(finish_fifo) - Ld + 1] = results[m]
<1> DEFINE rest == IF finish = {} /\ finish_fifo # <<>> THEN Tail(finish_fifo) ELSE finish_fifo
<1>1. /\ rest \in Seq(Statuses) /\ Len(rest) = Len(finish_fifo) - Ld
      /\ Ld \in {0, 1} /\ Ld <= Len(finish_fifo)
      /\ \A k \in 1 .. Len(finish_fifo) - Ld : rest[k] = finish_fifo[k + Ld]
  BY DEF Ld, SchedType
<1>2. finish_fifo' = rest \o (IF report = {} THEN <<>> ELSE <<results[Min(report)]>>)
  BY DEF FinishNext
<1> HIDE DEF rest
<1>3. CASE report = {}
  <2>1. finish_fifo' = rest /\ results' = results
    BY <1>1, <1>2, <1>3 DEF FinishNext
  <2> QED
    BY <1>1, <2>1 DEF SchedType
<1>4. CASE report # {}
  <2>1. PICK m \in Reportable : report = {m}
    BY <1>4 DEF Reports
  <2>2. m \in 1 .. Len(results)
    BY <2>1 DEF Reportable, SchedType
  <2>3. Min(report) = m
    BY <2>1, <2>2 DEF Min
  <2>4. results' = RemoveAt(results, m)
    BY <1>4, <2>3 DEF FinishNext
  <2>5. finish_fifo' = rest \o <<results[m]>>
    BY <1>2, <1>4, <2>3
  <2>6. results[m] \in Statuses
    BY <2>2 DEF SchedType
  <2>7. /\ results' \in Seq(Statuses)
        /\ Len(results') = Len(results) - 1
        /\ \A k \in 1 .. Len(results) - 1 :
             results'[k] = IF k < m THEN results[k] ELSE results[k + 1]
    BY <2>2, <2>4, Removing DEF SchedType
  <2>8. /\ finish_fifo' \in Seq(Statuses)
        /\ Len(finish_fifo') = Len(finish_fifo) - Ld + 1
        /\ finish_fifo'[Len(finish_fifo) - Ld + 1] = results[m]
        /\ \A k \in 1 .. Len(finish_fifo) - Ld : finish_fifo'[k] = finish_fifo[k + Ld]
    BY <1>1, <2>5, <2>6 DEF SchedType
  <2> QED
    BY <1>1, <2>2, <2>7, <2>8
<1> QED
  BY <1>3, <1>4

\* The queues and registers keep their types.
LEMMA ClockType ==
    ASSUME SchedType, NEW rr \in BOOLEAN, NEW report \in Reports, ClockWith(rr, report),
           InPipe("req") => tx_req = {}
    PROVE  SchedType'
<1>1. pipe' \in [Stages -> Ops] /\ writes' \in SUBSET Queues
  BY Accepting DEF ClockWith, SchedType
<1>2. queue_ram' \in [Queues -> Words]
  BY Performing DEF ClockWith
<1>3. /\ DOMAIN op_table' = OpIdx
      /\ \A i \in OpIdx : /\ op_table'[i].active \in BOOLEAN
                          /\ op_table'[i].queue \in Queues
                          /\ op_table'[i].doorbell \in BOOLEAN
  BY TableFields DEF ClockWith
<1>4. doorbell_fifo' \in Seq(Queues)
  <2>1. \/ doorbell_fifo' = doorbell_fifo
        \/ doorbell_fifo # <<>> /\ doorbell_fifo' = Tail(doorbell_fifo)
    BY Accepting DEF ClockWith
  <2>2. doorbell_fifo \in Seq(Queues)
    BY DEF SchedType
  <2>3. doorbell_fifo # <<>> => Tail(doorbell_fifo) \in Seq(Queues)
    BY <2>2
  <2> QED
    BY <2>1, <2>2, <2>3
<1>5. init_index' \in 0 .. QUEUE_COUNT
  <2>1. (InitReady => init_index' = init_index + 1) /\ (~InitReady => init_index' = init_index)
    BY Accepting DEF ClockWith
  <2> QED
    BY <2>1, SchedAssumption DEF SchedType, InitReady
<1>6. rr_fifo' \in Seq(Queues)
  <2>1. pipe'[0].op = "req" => rr_fifo # <<>>
    BY Accepting DEF ClockWith
  <2>2. Tail(rr_fifo) \in Seq(Queues) \/ rr_fifo = <<>>
    BY DEF SchedType
  <2> QED
    BY <2>1, <2>2, LastOpType DEF ClockWith, RrFifoNext, Accepted, SchedType
<1>7. tx_req' \in SUBSET Requests /\ \A r, t \in tx_req' : r = t
  <2>1. Issue => InPipe("req")
    BY Dimensions DEF Issue, InPipe, LastOp
  <2>2. Issue => tx_req' = {[queue |-> LastOp.addr, tag |-> LastOp.index]}
    BY <2>1 DEF ClockWith, TxReqNext
  <2>3. [queue |-> LastOp.addr, tag |-> LastOp.index] \in Requests
    BY LastOpType DEF Requests
  <2>4. ~Issue => tx_req' \subseteq tx_req
    BY DEF ClockWith, TxReqNext
  <2> QED
    BY <2>2, <2>3, <2>4 DEF SchedType
<1>8. engine' \in Seq(Requests)
  <2>1. tx_req # {} => (CHOOSE r \in tx_req : TRUE) \in Requests
    BY DEF SchedType
  <2> QED
    BY <2>1 DEF ClockWith, TxReqNext, SchedType
<1>9. /\ results' \in Seq(Statuses) /\ finish_fifo' \in Seq(Statuses)
      /\ finish' \in SUBSET Statuses /\ \A f, g \in finish' : f = g
  <2>1. finish' \in SUBSET Statuses /\ \A f, g \in finish' : f = g
    BY DEF ClockWith, FinishNext, SchedType
  <2> QED
    BY <2>1, Reporting DEF ClockWith
<1>10. packets' \in [Queues -> Nat]
  BY DEF ClockWith, SchedType
<1> QED
  BY <1>1, <1>2, <1>3, <1>4, <1>5, <1>6, <1>7, <1>8, <1>9, <1>10, Zenon DEF SchedType
-----------------------------------------------------------------------------
(* A scheduled queue circulates once.                                      *)

\* PipeHazard keeps a second operation of a queue out, so the word read at
\* stage 0 is still the word of the queue at the last stage.
LEMMA ClockPipe ==
    ASSUME SchedType, SchedPipe, NEW rr \in BOOLEAN, NEW report \in Reports,
           ClockWith(rr, report)
    PROVE  SchedPipe'
<1>1. /\ \A j \in Stages : j # 0 => pipe'[j] = pipe[j - 1]
      /\ pipe'[0].op # "none" => /\ ~PipeHazard(pipe'[0].addr)
                                 /\ pipe'[0].data = queue_ram[pipe'[0].addr]
      /\ pipe'[0].op = "req" => ~InPipe("req")
      /\ pipe' \in [Stages -> Ops]
  BY Accepting DEF ClockWith
<1>2. /\ \A q \in Queues : q # LastOp.addr => queue_ram'[q] = queue_ram[q]
      /\ LastOp.op = "none" => queue_ram' = queue_ram
  BY Performing DEF ClockWith
<1>3. \A j \in Stages : pipe[j].addr \in Queues /\ pipe'[j].addr \in Queues
  BY <1>1 DEF SchedType, Ops
<1>4. ASSUME NEW j \in Stages, NEW k \in Stages, pipe'[j].op # "none", pipe'[k].op # "none",
             pipe'[j].addr = pipe'[k].addr
      PROVE  j = k
  <2>1. \A i \in Stages : i # 0 => i - 1 \in Stages /\ pipe'[i] = pipe[i - 1]
    BY <1>1, Dimensions
  <2>2. CASE j = 0 \/ k = 0
    BY <1>1, <1>4, <2>1, <2>2 DEF PipeHazard
  <2>3. CASE j # 0 /\ k # 0
    <3>1. j - 1 = k - 1
      BY <1>4, <2>1, <2>3 DEF SchedPipe
    <3> QED
      BY <3>1, Dimensions
  <2> QED
    BY <2>2, <2>3
<1>5. ASSUME NEW j \in Stages, pipe'[j].op # "none"
      PROVE  pipe'[j].data = queue_ram'[pipe'[j].addr]
  <2>1. CASE j = 0
    <3>1. LastOp.op = "none" \/ LastOp.addr # pipe'[0].addr
      BY <1>1, <1>5, <2>1, Dimensions DEF PipeHazard, LastOp
    <3> QED
      BY <1>1, <1>2, <1>3, <1>5, <2>1, <3>1
  <2>2. CASE j # 0
    <3>1. j - 1 \in Stages /\ j - 1 # PIPELINE - 1 /\ pipe'[j] = pipe[j - 1]
      BY <1>1, <2>2, Dimensions DEF Stages
    <3>2. LastOp.op = "none" \/ LastOp.addr # pipe'[j].addr
      BY <1>5, <3>1, Dimensions DEF SchedPipe, LastOp
    <3> QED
      BY <1>2, <1>3, <1>5, <3>1, <3>2 DEF SchedPipe
  <2> QED
    BY <2>1, <2>2
<1>6. ASSUME NEW j \in Stages, NEW k \in Stages, pipe'[j].op = "req", pipe'[k].op = "req"
      PROVE  j = k
  <2>1. \A i \in Stages : i # 0 /\ pipe'[i].op = "req" => i - 1 \in Stages /\ pipe[i - 1].op = "req"
    BY <1>1, Dimensions
  <2>2. CASE pipe'[0].op = "req"
    BY <1>1, <1>6, <2>1, <2>2 DEF InPipe
  <2>3. CASE pipe'[0].op # "req"
    <3>1. j # 0 /\ k # 0
      BY <1>6, <2>3
    <3>2. j - 1 = k - 1
      BY <1>6, <2>1, <3>1 DEF SchedPipe
    <3> QED
      BY <3>2, Dimensions
  <2> QED
    BY <2>2, <2>3
<1> QED
  BY <1>4, <1>5, <1>6 DEF SchedPipe

\* The words are initialised before anything else: InitQueue has priority and
\* meets no hazard.
LEMMA ClockInit ==
    ASSUME SchedType, SchedPipe, SchedInit, NEW rr \in BOOLEAN, NEW report \in Reports,
           ClockWith(rr, report)
    PROVE  SchedInit'
<1>1. /\ \A j \in Stages : j # 0 => pipe'[j] = pipe[j - 1]
      /\ pipe'[0].op # "none" => pipe'[0].data = queue_ram[pipe'[0].addr]
      /\ InitReady => /\ pipe'[0].op = "init" /\ pipe'[0].addr = init_index
                      /\ init_index' = init_index + 1
      /\ ~InitReady => pipe'[0].op # "init" /\ init_index' = init_index
      /\ pipe' \in [Stages -> Ops]
  BY Accepting DEF ClockWith
<1>2. init_index < QUEUE_COUNT => InitReady
  <2> SUFFICES ASSUME init_index < QUEUE_COUNT, NEW j \in Stages, pipe[j].op # "none"
               PROVE  pipe[j].addr # init_index
    BY DEF InitReady, PipeHazard
  <2>1. pipe[j].addr \in Int /\ init_index \in Int
    BY SchedAssumption DEF SchedType, Ops, Queues
  <2> QED
    BY <2>1 DEF SchedInit
<1>3. ASSUME init_index' < QUEUE_COUNT
      PROVE  init_index < QUEUE_COUNT /\ init_index' = init_index + 1
  BY <1>1, <1>2, <1>3, SchedAssumption DEF SchedType
<1>4. ASSUME init_index' < QUEUE_COUNT, NEW j \in Stages
      PROVE  /\ pipe'[j].op \in {"none", "init"}
             /\ pipe'[j].op = "init" => pipe'[j].addr < init_index'
  <2>1. init_index \in Int /\ init_index < QUEUE_COUNT /\ init_index' = init_index + 1
    BY <1>3, <1>4, SchedAssumption DEF SchedType
  <2>2. CASE j = 0
    BY <1>1, <1>2, <2>1, <2>2
  <2>3. CASE j # 0
    <3>1. j - 1 \in Stages /\ pipe'[j] = pipe[j - 1]
      BY <1>1, <2>3, Dimensions
    <3>2. pipe[j - 1].addr \in Int
      BY <3>1, SchedAssumption DEF SchedType, Ops, Queues
    <3> QED
      BY <2>1, <3>1, <3>2 DEF SchedInit
  <2> QED
    BY <2>2, <2>3
<1>5. ASSUME init_index' < QUEUE_COUNT, NEW q \in Queues
      PROVE  ~queue_ram'[q].active /\ ~queue_ram'[q].scheduled
  <2>1. LastOp.op \in {"none", "init"}
    BY <1>3, <1>5, Dimensions DEF SchedInit, LastOp
  <2>2. ~queue_ram[q].active /\ ~queue_ram[q].scheduled
    BY <1>3, <1>5 DEF SchedInit
  <2>3. LastOp.op = "init" => ~Update.active
    BY UpdateFields
  <2> QED
    BY <2>1, <2>2, <2>3, Performing DEF ClockWith
<1>6. ASSUME NEW j \in Stages, pipe'[j].op = "init"
      PROVE  ~pipe'[j].data.active /\ ~pipe'[j].data.scheduled
  <2>1. CASE j = 0
    <3>1. InitReady /\ init_index \in Queues
      BY <1>1, <1>6, <2>1, SchedAssumption DEF SchedType, InitReady, Queues
    <3>2. ~queue_ram[init_index].active /\ ~queue_ram[init_index].scheduled
      BY <3>1 DEF SchedInit, InitReady
    <3> QED
      BY <1>1, <1>6, <2>1, <3>1, <3>2
  <2>2. CASE j # 0
    BY <1>1, <1>6, <2>2, Dimensions DEF SchedInit
  <2> QED
    BY <2>1, <2>2
<1> QED
  BY <1>4, <1>5, <1>6 DEF SchedInit

\* A queue that is active and enabled by the controller too is scheduled: every
\* operation that makes it so puts it into the FIFO.
LEMMA ClockWord ==
    ASSUME SchedType, SchedPipe, SchedTokens, SchedWord, NEW rr \in BOOLEAN,
           NEW report \in Reports, ClockWith(rr, report)
    PROVE  SchedWord'
<1> SUFFICES ASSUME NEW q \in Queues, queue_ram'[q].enabled,
                    SCHED_CTRL_ENABLE => queue_ram'[q].sched, queue_ram'[q].active
             PROVE  queue_ram'[q].scheduled
  BY DEF SchedWord
<1>1. CASE q # LastOp.addr \/ LastOp.op \in {"none", "read"}
  <2>1. queue_ram'[q] = queue_ram[q]
    BY <1>1, Performing DEF ClockWith
  <2> QED
    BY <2>1 DEF SchedWord
<1>2. CASE q = LastOp.addr /\ LastOp.op \notin {"none", "read"}
  <2>1. /\ queue_ram'[q].enabled = Update.enabled
        /\ queue_ram'[q].sched = Update.sched
        /\ queue_ram'[q].active = Update.active
        /\ queue_ram'[q].scheduled <=>
             IF LastOp.op = "init" THEN FALSE
             ELSE IF LastOp.op = "req" THEN Issue
             ELSE LastOp.data.scheduled \/ Enter
    BY <1>2, Performing DEF ClockWith
  <2>2. Update.enabled /\ Update.active /\ (SCHED_CTRL_ENABLE => Update.sched)
    BY <2>1, Zenon
  <2>3. LastOp.data = queue_ram[q]
    BY <1>2, Dimensions DEF SchedPipe, LastOp
  <2>4. CASE LastOp.op = "req"
    <3>1. queue_ram[q].scheduled
      BY <1>2, <2>4, Dimensions DEF SchedTokens, InReq, LastOp
    <3>2. /\ LastOp.data.enabled /\ LastOp.data.active
          /\ SCHED_CTRL_ENABLE => LastOp.data.sched
      BY <2>2, <2>4, UpdateFields
    <3> QED
      BY <2>1, <2>3, <2>4, <3>1, <3>2 DEF Issue, Schedulable
  <2>5. CASE LastOp.op \in {"doorbell", "complete", "ctrl", "write"}
    <3>1. Schedulable(Update)
      BY <2>2 DEF Schedulable
    <3>2. LastOp.op = "complete" => ~SCHED_CTRL_ENABLE \/ LastOp.data.sched
      BY <2>2, UpdateFields
    <3> QED
      BY <2>1, <2>2, <2>5, <3>1, <3>2 DEF Enter
  <2>6. LastOp.op # "init"
    BY <2>2, UpdateFields
  <2> QED
    BY <1>2, <2>4, <2>5, <2>6, LastOpType DEF OpKinds
<1> QED
  BY <1>1, <1>2

\* The FIFO loses the queue that is accepted and gains the one that enters.
LEMMA ClockFifo ==
    ASSUME SchedType, SchedPipe, SchedTokens, NEW rr \in BOOLEAN,
           NEW report \in Reports, ClockWith(rr, report)
    PROVE  /\ \A k, l \in 1 .. Len(rr_fifo') : rr_fifo'[k] = rr_fifo'[l] => k = l
           /\ \A q \in Queues : InFifo(q)' <=>
                \/ InFifo(q) /\ ~(pipe'[0].op = "req" /\ pipe'[0].addr = q)
                \/ (Enter \/ Issue) /\ q = LastOp.addr
           /\ (Enter \/ Issue) => ~InFifo(LastOp.addr)
<1> DEFINE rest == IF pipe'[0].op = "req" THEN Tail(rr_fifo) ELSE rr_fifo
<1>1. rr_fifo \in Seq(Queues) /\ LastOp.addr \in Queues
  BY LastOpType DEF SchedType
<1>2. pipe'[0].op = "req" => rr_fifo # <<>> /\ pipe'[0].addr = Head(rr_fifo)
  BY Accepting DEF ClockWith
<1>3. rest \in Seq(Queues)
  BY <1>1, <1>2
<1>4. \A k, l \in 1 .. Len(rest) : rest[k] = rest[l] => k = l
  <2>1. CASE pipe'[0].op = "req"
    <3>1. /\ Len(rest) = Len(rr_fifo) - 1
          /\ \A k \in 1 .. Len(rest) : rest[k] = rr_fifo[k + 1]
      BY <1>1, <1>2, <2>1
    <3> QED
      BY <1>1, <1>3, <3>1 DEF SchedTokens
  <2>2. CASE pipe'[0].op # "req"
    BY <2>2 DEF SchedTokens
  <2> QED
    BY <2>1, <2>2
<1>5. \A q \in Queues : (\E k \in 1 .. Len(rest) : rest[k] = q) <=>
                           InFifo(q) /\ ~(pipe'[0].op = "req" /\ pipe'[0].addr = q)
  <2> SUFFICES ASSUME NEW q \in Queues
               PROVE (\E k \in 1 .. Len(rest) : rest[k] = q) <=>
                           InFifo(q) /\ ~(pipe'[0].op = "req" /\ pipe'[0].addr = q)
    OBVIOUS
  <2>1. CASE pipe'[0].op = "req"
    <3>1. /\ Len(rest) = Len(rr_fifo) - 1 /\ Len(rr_fifo) \in Nat /\ Len(rr_fifo) > 0
          /\ \A k \in 1 .. Len(rest) : rest[k] = rr_fifo[k + 1]
          /\ Head(rr_fifo) = rr_fifo[1]
      BY <1>1, <1>2, <2>1
    <3> HIDE DEF rest
    <3>2. ASSUME NEW k \in 1 .. Len(rest), rest[k] = q
          PROVE  InFifo(q) /\ q # rr_fifo[1]
      BY <3>1, <3>2 DEF InFifo, SchedTokens
    <3>3. ASSUME InFifo(q), q # rr_fifo[1]
          PROVE  \E k \in 1 .. Len(rest) : rest[k] = q
      <4>1. PICK k \in 1 .. Len(rr_fifo) : rr_fifo[k] = q
        BY <3>3 DEF InFifo
      <4>2. k - 1 \in 1 .. Len(rest) /\ (k - 1) + 1 = k
        BY <3>1, <3>3, <4>1
      <4> QED
        BY <3>1, <4>1, <4>2
    <3> QED
      BY <1>2, <2>1, <3>1, <3>2, <3>3
  <2>2. CASE pipe'[0].op # "req"
    BY <2>2 DEF InFifo
  <2> QED
    BY <2>1, <2>2
<1>6. (Enter \/ Issue) => ~InFifo(LastOp.addr)
  <2>1. Enter => ~queue_ram[LastOp.addr].scheduled
    BY Dimensions DEF Enter, SchedPipe, LastOp
  <2>2. Issue => InReq(LastOp.addr)
    BY Dimensions DEF Issue, InReq, LastOp
  <2> QED
    BY <1>1, <2>1, <2>2 DEF SchedTokens
<1>7. rr_fifo' = rest \o (IF Enter \/ Issue THEN <<LastOp.addr>> ELSE <<>>)
  BY DEF ClockWith, RrFifoNext, Accepted
<1> HIDE DEF rest
<1>8. CASE Enter \/ Issue
  <2>1. /\ Len(rr_fifo') = Len(rest) + 1 /\ Len(rest) \in Nat
        /\ \A k \in 1 .. Len(rest) : rr_fifo'[k] = rest[k]
        /\ rr_fifo'[Len(rest) + 1] = LastOp.addr
    BY <1>1, <1>3, <1>7, <1>8
  <2>2. \A k \in 1 .. Len(rest) : rest[k] # LastOp.addr
    BY <1>1, <1>5, <1>6, <1>8
  <2>3. \A k, l \in 1 .. Len(rr_fifo') : rr_fifo'[k] = rr_fifo'[l] => k = l
    BY <1>4, <2>1, <2>2
  <2>4. \A q \in Queues : InFifo(q)' <=>
           (\E k \in 1 .. Len(rest) : rest[k] = q) \/ q = LastOp.addr
    BY <2>1 DEF InFifo
  <2> QED
    BY <1>5, <1>6, <1>8, <2>3, <2>4
<1>9. CASE ~(Enter \/ Issue)
  <2>1. rr_fifo' = rest
    BY <1>3, <1>7, <1>9
  <2> QED
    BY <1>4, <1>5, <1>9, <2>1 DEF InFifo
<1> QED
  BY <1>8, <1>9

\* A clock keeps SchedTokens: a queue leaves the FIFO only for a request, and a
\* queue enters it only from there or when `scheduled' is set for it.
LEMMA ClockTokens ==
    ASSUME SchedType, SchedPipe, SchedInit, SchedTokens, NEW rr \in BOOLEAN,
           NEW report \in Reports, ClockWith(rr, report)
    PROVE  SchedTokens'
<1>1. /\ \A k, l \in 1 .. Len(rr_fifo') : rr_fifo'[k] = rr_fifo'[l] => k = l
      /\ \A q \in Queues : InFifo(q)' <=>
           \/ InFifo(q) /\ ~(pipe'[0].op = "req" /\ pipe'[0].addr = q)
           \/ (Enter \/ Issue) /\ q = LastOp.addr
  BY ClockFifo
<1>2. /\ \A j \in Stages : j # 0 => pipe'[j] = pipe[j - 1]
      /\ pipe'[0].op # "none" => ~PipeHazard(pipe'[0].addr)
      /\ pipe'[0].op = "req" => InFifo(pipe'[0].addr)
  <2>1. /\ \A j \in Stages : j # 0 => pipe'[j] = pipe[j - 1]
        /\ pipe'[0].op # "none" => ~PipeHazard(pipe'[0].addr)
        /\ pipe'[0].op = "req" => rr_fifo # <<>> /\ pipe'[0].addr = Head(rr_fifo)
    BY Accepting DEF ClockWith
  <2>2. rr_fifo # <<>> => InFifo(Head(rr_fifo))
    <3>1. rr_fifo # <<>> => 1 \in 1 .. Len(rr_fifo) /\ Head(rr_fifo) = rr_fifo[1]
      BY DEF SchedType
    <3> QED
      BY <3>1 DEF InFifo
  <2> QED
    BY <2>1, <2>2
<1>3. \A q \in Queues : InReq(q)' <=>
        \/ pipe'[0].op = "req" /\ pipe'[0].addr = q
        \/ InReq(q) /\ ~(LastOp.op = "req" /\ LastOp.addr = q)
  <2> SUFFICES ASSUME NEW q \in Queues
               PROVE  InReq(q)' <=>
                        \/ pipe'[0].op = "req" /\ pipe'[0].addr = q
                        \/ InReq(q) /\ ~(LastOp.op = "req" /\ LastOp.addr = q)
    OBVIOUS
  <2>1. ASSUME NEW j \in Stages, pipe'[j].op = "req", pipe'[j].addr = q, j # 0
        PROVE  InReq(q) /\ ~(LastOp.op = "req" /\ LastOp.addr = q)
    <3>1. j - 1 \in Stages /\ j - 1 # PIPELINE - 1 /\ pipe[j - 1] = pipe'[j]
      BY <1>2, <2>1, Dimensions DEF Stages
    <3> QED
      BY <2>1, <3>1, Dimensions DEF InReq, LastOp, SchedPipe
  <2>2. ASSUME NEW j \in Stages, pipe[j].op = "req", pipe[j].addr = q,
               ~(LastOp.op = "req" /\ LastOp.addr = q)
        PROVE  InReq(q)'
    <3>1. j + 1 \in Stages /\ j + 1 # 0 /\ (j + 1) - 1 = j
      BY <2>2, Dimensions DEF LastOp, Stages
    <3>2. pipe'[j + 1] = pipe[j]
      BY <1>2, <3>1
    <3> QED
      BY <2>2, <3>1, <3>2 DEF InReq
  <2> QED
    BY <2>1, <2>2, Dimensions DEF InReq
<1>4. LastOp.addr \in Queues /\ (LastOp.op # "none" => LastOp.data = queue_ram[LastOp.addr])
  BY LastOpType, Dimensions DEF SchedPipe, LastOp
<1>5. /\ LastOp.op = "req" => InReq(LastOp.addr)
      /\ LastOp.op \notin {"req", "none"} => ~InReq(LastOp.addr)
      /\ pipe'[0].op = "req" => LastOp.op = "none" \/ pipe'[0].addr # LastOp.addr
  BY <1>2, Dimensions DEF InReq, LastOp, SchedPipe, PipeHazard
<1>6. ASSUME NEW q \in Queues PROVE ~(InFifo(q) /\ InReq(q))'
  <2>1. Enter => LastOp.op \notin {"req", "none"}
    BY DEF Enter
  <2>2. Issue => LastOp.op = "req"
    BY DEF Issue
  <2>3. ~(InFifo(q) /\ InReq(q))
    BY DEF SchedTokens
  <2> QED
    BY <1>1, <1>3, <1>5, <2>1, <2>2, <2>3
<1>7. ASSUME NEW q \in Queues PROVE queue_ram'[q].scheduled <=> (InFifo(q) \/ InReq(q))'
  <2>1. queue_ram[q].scheduled <=> InFifo(q) \/ InReq(q)
    BY DEF SchedTokens
  <2>2. (Enter => LastOp.op \in {"doorbell", "complete", "ctrl", "write"})
        /\ (Issue => LastOp.op = "req")
    BY DEF Enter, Issue
  <2>3. CASE q # LastOp.addr \/ LastOp.op \in {"none", "read"}
    <3>1. queue_ram'[q] = queue_ram[q]
      BY <2>3, Performing DEF ClockWith
    <3>2. (InFifo(q) \/ InReq(q))' <=> InFifo(q) \/ InReq(q)
      BY <1>1, <1>2, <1>3, <2>2, <2>3
    <3> QED
      BY <2>1, <3>1, <3>2
  <2>4. CASE q = LastOp.addr /\ LastOp.op \notin {"none", "read"}
    <3>1. queue_ram'[q].scheduled <=>
             IF LastOp.op = "init" THEN FALSE
             ELSE IF LastOp.op = "req" THEN Issue
             ELSE LastOp.data.scheduled \/ Enter
      BY <2>4, Performing DEF ClockWith
    <3>2. LastOp.op = "init" => ~queue_ram[q].scheduled
      BY <1>4, <2>4, Dimensions DEF SchedInit, LastOp
    <3>3. ~(pipe'[0].op = "req" /\ pipe'[0].addr = q)
      BY <1>5, <2>4
    <3>4. LastOp.data = queue_ram[q]
      BY <1>4, <2>4
    <3>5. LastOp.op = "req" => ~InFifo(q)
      BY <1>5, <2>4 DEF SchedTokens
    <3> QED
      BY <1>1, <1>3, <1>5, <2>1, <2>2, <2>4, <3>1, <3>2, <3>3, <3>4, <3>5
  <2> QED
    BY <2>3, <2>4
<1> QED
  BY <1>1, <1>6, <1>7 DEF SchedTokens
-----------------------------------------------------------------------------
(* How requests move.                                                      *)

\* The effect of a clock on the places of requests: tk is 1 if the engine
\* takes the request register, m which result is reported, 0 for none.
Moved(tk, m) ==
    /\ m \in 0 .. Len(results) /\ (m # 0 => m \in Reportable)
    /\ Len(finish_fifo) \in Nat /\ Len(results) \in Nat /\ Len(engine) \in Nat
    /\ \A j \in Stages : j # 0 => pipe'[j] = pipe[j - 1]
    /\ pipe'[0].op = "complete" =>
         /\ Ld = 0
         /\ \E f \in finish : /\ pipe'[0].index = f.tag
                              /\ pipe'[0].wdata = CompleteStatus(f)
    /\ pipe'[0].op = "req" => ~InPipe("req") /\ (tx_req # {} => tk = 1)
    /\ Ld \in {0, 1} /\ Ld <= Len(finish_fifo)
    /\ Ld = 1 => finish = {} /\ finish' = {finish_fifo[1]}
    /\ Ld = 0 => finish' = IF pipe'[0].op = "complete" THEN {} ELSE finish
    /\ Len(finish_fifo') = Len(finish_fifo) - Ld + (IF m = 0 THEN 0 ELSE 1)
    /\ \A k \in 1 .. Len(finish_fifo) - Ld : finish_fifo'[k] = finish_fifo[k + Ld]
    /\ m # 0 => finish_fifo'[Len(finish_fifo) - Ld + 1] = results[m]
    /\ Len(results') = Len(results) - (IF m = 0 THEN 0 ELSE 1)
    /\ \A k \in 1 .. Len(results') :
         results'[k] = IF m = 0 \/ k < m THEN results[k] ELSE results[k + 1]
    /\ Len(engine') = Len(engine) + tk
    /\ \A k \in 1 .. Len(engine) : engine'[k] = engine[k]
    /\ tk = 1 => tx_req # {} /\ engine'[Len(engine) + 1] \in tx_req
    /\ Issue => /\ tx_req = {} /\ tk = 0
                /\ tx_req' = {[queue |-> LastOp.addr, tag |-> LastOp.index]}
    /\ ~Issue => tx_req' = IF tk = 1 THEN {} ELSE tx_req

\* Every clock moves the requests as Moved says: tk = 1 if the engine takes the
\* request register, m is the place of the result reported (0 for none).
LEMMA ClockMoves ==
    ASSUME SchedType, SchedEntries, NEW rr \in BOOLEAN, NEW report \in Reports,
           ClockWith(rr, report)
    PROVE  \E tk \in {0, 1}, m \in Nat : Moved(tk, m)
<1>1. /\ Len(finish_fifo) \in Nat /\ Len(results) \in Nat /\ Len(engine) \in Nat
      /\ engine \in Seq(Requests) /\ finish_fifo \in Seq(Statuses)
  BY DEF SchedType
<1>2. /\ \A j \in Stages : j # 0 => pipe'[j] = pipe[j - 1]
      /\ pipe'[0].op = "complete" =>
           \E f \in finish : /\ pipe'[0].index = f.tag
                             /\ pipe'[0].wdata = CompleteStatus(f)
  BY Accepting, Zenon DEF ClockWith
<1>3. pipe'[0].op = "complete" => Ld = 0
  BY <1>2 DEF Ld
<1>4. /\ Ld = 1 => finish = {} /\ finish' = {finish_fifo[1]}
      /\ Ld = 0 => finish' = IF pipe'[0].op = "complete" THEN {} ELSE finish
  <2>1. finish_fifo # <<>> => Head(finish_fifo) = finish_fifo[1]
    BY <1>1
  <2> QED
    BY <2>1 DEF Ld, ClockWith, FinishNext, Accepted
<1>5. PICK tk \in {0, 1} : tk = IF rr /\ tx_req # {} THEN 1 ELSE 0
  OBVIOUS
<1>51. pipe'[0].op = "req" => ~InPipe("req") /\ (tx_req # {} => tk = 1)
  <2>1. pipe'[0].op = "req" => ~InPipe("req") /\ (tx_req # {} => rr)
    BY Accepting DEF ClockWith
  <2> QED
    BY <1>5, <2>1
<1>6. /\ Len(engine') = Len(engine) + tk
      /\ \A k \in 1 .. Len(engine) : engine'[k] = engine[k]
      /\ tk = 1 => tx_req # {} /\ engine'[Len(engine) + 1] \in tx_req
  <2>1. CASE rr /\ tx_req # {}
    <3> DEFINE r == CHOOSE r \in tx_req : TRUE
    <3>1. r \in tx_req
      BY <2>1
    <3>2. engine' = Append(engine, r)
      BY <2>1 DEF ClockWith, TxReqNext
    <3> HIDE DEF r
    <3> QED
      BY <1>1, <1>5, <2>1, <3>1, <3>2
  <2>2. CASE ~(rr /\ tx_req # {})
    <3>1. engine' = engine
      BY <2>2 DEF ClockWith, TxReqNext
    <3> QED
      BY <1>1, <1>5, <2>2, <3>1
  <2> QED
    BY <2>1, <2>2
<1>7. /\ Issue => /\ tx_req = {} /\ tk = 0
                  /\ tx_req' = {[queue |-> LastOp.addr, tag |-> LastOp.index]}
      /\ ~Issue => tx_req' = IF tk = 1 THEN {} ELSE tx_req
  <2>1. Issue => tx_req = {}
    BY Dimensions DEF SchedEntries, InPipe, Issue, LastOp
  <2> QED
    BY <1>5, <2>1 DEF ClockWith, TxReqNext
<1>8. \E m \in Nat :
        /\ m \in 0 .. Len(results) /\ (m # 0 => m \in Reportable)
        /\ Len(finish_fifo') = Len(finish_fifo) - Ld + (IF m = 0 THEN 0 ELSE 1)
        /\ m # 0 => finish_fifo'[Len(finish_fifo) - Ld + 1] = results[m]
        /\ Len(results') = Len(results) - (IF m = 0 THEN 0 ELSE 1)
        /\ \A k \in 1 .. Len(results') :
             results'[k] = IF m = 0 \/ k < m THEN results[k] ELSE results[k + 1]
  <2>1. \/ /\ results' = results
           /\ Len(finish_fifo') = Len(finish_fifo) - Ld
        \/ \E m \in Reportable :
             /\ m \in 1 .. Len(results)
             /\ Len(results') = Len(results) - 1
             /\ \A k \in 1 .. Len(results) - 1 :
                  results'[k] = IF k < m THEN results[k] ELSE results[k + 1]
             /\ Len(finish_fifo') = Len(finish_fifo) - Ld + 1
             /\ finish_fifo'[Len(finish_fifo) - Ld + 1] = results[m]
    BY Reporting DEF ClockWith
  <2>2. Ld \in {0, 1}
    BY DEF Ld
  <2>3. CASE results' = results /\ Len(finish_fifo') = Len(finish_fifo) - Ld
    <3> WITNESS 0 \in Nat
    <3> QED
      BY <1>1, <2>2, <2>3
  <2>4. CASE \E m \in Reportable :
             /\ m \in 1 .. Len(results)
             /\ Len(results') = Len(results) - 1
             /\ \A k \in 1 .. Len(results) - 1 :
                  results'[k] = IF k < m THEN results[k] ELSE results[k + 1]
             /\ Len(finish_fifo') = Len(finish_fifo) - Ld + 1
             /\ finish_fifo'[Len(finish_fifo) - Ld + 1] = results[m]
    <3>1. PICK m \in Reportable :
             /\ m \in 1 .. Len(results)
             /\ Len(results') = Len(results) - 1
             /\ \A k \in 1 .. Len(results) - 1 :
                  results'[k] = IF k < m THEN results[k] ELSE results[k + 1]
             /\ Len(finish_fifo') = Len(finish_fifo) - Ld + 1
             /\ finish_fifo'[Len(finish_fifo) - Ld + 1] = results[m]
      BY <2>4
    <3>2. m \in Nat
      BY <1>1, <3>1
    <3> WITNESS m \in Nat
    <3> QED
      BY <1>1, <2>2, <3>1
  <2> QED
    BY <2>1, <2>3, <2>4
<1>9. /\ Ld \in {0, 1} /\ Ld <= Len(finish_fifo)
      /\ \A k \in 1 .. Len(finish_fifo) - Ld : finish_fifo'[k] = finish_fifo[k + Ld]
  BY Reporting DEF ClockWith
<1> QED
  BY <1>1, <1>2, <1>3, <1>4, <1>51, <1>6, <1>7, <1>8, <1>9 DEF Moved

\* The request at place k of part s has come from place l of part t.
From(tk, m, s, k, t, l) ==
    \/ s = 0 /\ k = 0 /\ pipe'[0].op = "complete" /\ t = 1 /\ l = 0
    \/ s = 0 /\ k # 0 /\ k \in Stages /\ t = 0 /\ l = k - 1
    \/ s = 1 /\ k = 0 /\ Ld = 1 /\ t = 2 /\ l = 1
    \/ s = 1 /\ k = 0 /\ Ld = 0 /\ pipe'[0].op # "complete" /\ t = 1 /\ l = 0
    \/ s = 2 /\ k \in 1 .. Len(finish_fifo) - Ld /\ t = 2 /\ l = k + Ld
    \/ s = 2 /\ k = Len(finish_fifo) - Ld + 1 /\ m # 0 /\ t = 3 /\ l = m
    \/ s = 3 /\ k \in Nat /\ (m = 0 \/ k < m) /\ t = 3 /\ l = k
    \/ s = 3 /\ k \in Nat /\ m # 0 /\ ~(k < m) /\ t = 3 /\ l = k + 1
    \/ s = 4 /\ k \in 1 .. Len(engine) /\ t = 4 /\ l = k
    \/ s = 4 /\ k = Len(engine) + 1 /\ tk = 1 /\ t = 5 /\ l = 0
    \/ s = 5 /\ k = 0 /\ Issue /\ t = 6 /\ l = PIPELINE - 1
    \/ s = 5 /\ k = 0 /\ ~Issue /\ tk = 0 /\ t = 5 /\ l = 0
    \/ s = 6 /\ k # 0 /\ k \in Stages /\ t = 6 /\ l = k - 1

\* Every request comes from one place, except the one that is accepted.
LEMMA Origins ==
    ASSUME SchedType, NEW tk \in {0, 1}, NEW m \in Nat, Moved(tk, m),
           NEW i, NEW s \in Parts, NEW k \in Nat, At(i, s, k)'
    PROVE  \/ \E t \in Parts, l \in Nat : At(i, t, l) /\ From(tk, m, s, k, t, l)
           \/ s = 6 /\ k = 0 /\ pipe'[0].op = "req" /\ pipe'[0].index = i
<1> USE Dimensions DEF Parts
<1>1. CASE s = 0
  <2>1. AtComplete(i, k)'
    BY <1>1 DEF At
  <2>2. CASE k = 0
    <3>1. AtFinish(i, 0) /\ pipe'[0].op = "complete"
      BY <2>1, <2>2 DEF AtComplete, AtFinish, Moved
    <3>2. At(i, 1, 0) /\ From(tk, m, s, k, 1, 0)
      BY <1>1, <2>2, <3>1 DEF At, From
    <3> QED
      BY <3>2
  <2>3. CASE k # 0
    <3>1. AtComplete(i, k - 1) /\ k \in Stages
      BY <2>1, <2>3 DEF AtComplete, Moved
    <3>2. At(i, 0, k - 1) /\ From(tk, m, s, k, 0, k - 1) /\ k - 1 \in Nat
      BY <1>1, <2>3, <3>1 DEF At, From
    <3> QED
      BY <3>2
  <2> QED
    BY <2>2, <2>3
<1>2. CASE s = 1
  <2>1. AtFinish(i, k)'
    BY <1>2 DEF At
  <2>2. CASE Ld = 1
    <3>1. AtFifo(i, 1) /\ k = 0
      BY <2>1, <2>2 DEF AtFinish, AtFifo, Moved
    <3>2. At(i, 2, 1) /\ From(tk, m, s, k, 2, 1)
      BY <1>2, <2>2, <3>1 DEF At, From
    <3> QED
      BY <3>2
  <2>3. CASE Ld = 0
    <3>1. AtFinish(i, 0) /\ k = 0 /\ pipe'[0].op # "complete"
      BY <2>1, <2>3 DEF AtFinish, Moved
    <3>2. At(i, 1, 0) /\ From(tk, m, s, k, 1, 0)
      BY <1>2, <2>3, <3>1 DEF At, From
    <3> QED
      BY <3>2
  <2> QED
    BY <2>2, <2>3 DEF Ld
<1>3. CASE s = 2
  <2>1. AtFifo(i, k)'
    BY <1>3 DEF At
  <2>2. CASE k \in 1 .. Len(finish_fifo) - Ld
    <3>1. AtFifo(i, k + Ld) /\ k + Ld \in Nat
      <4>1. /\ Ld \in {0, 1} /\ Len(finish_fifo) \in Nat
            /\ finish_fifo'[k] = finish_fifo[k + Ld]
        BY <2>2 DEF Moved
      <4> QED
        BY <2>1, <2>2, <4>1 DEF AtFifo
    <3>2. At(i, 2, k + Ld) /\ From(tk, m, s, k, 2, k + Ld)
      BY <1>3, <2>2, <3>1 DEF At, From
    <3> QED
      BY <3>1, <3>2
  <2>3. CASE k \notin 1 .. Len(finish_fifo) - Ld
    <3>1. k = Len(finish_fifo) - Ld + 1 /\ m # 0
      BY <2>1, <2>3 DEF AtFifo, Moved
    <3>2. AtResults(i, m)
      BY <2>1, <3>1 DEF AtFifo, AtResults, Moved
    <3>3. At(i, 3, m) /\ From(tk, m, s, k, 3, m)
      BY <1>3, <3>1, <3>2 DEF At, From
    <3> QED
      BY <3>3
  <2> QED
    BY <2>2, <2>3
<1>4. CASE s = 3
  <2>1. AtResults(i, k)'
    BY <1>4 DEF At
  <2>2. CASE m = 0 \/ k < m
    <3>1. AtResults(i, k)
      BY <2>1, <2>2 DEF AtResults, Moved
    <3>2. At(i, 3, k) /\ From(tk, m, s, k, 3, k)
      BY <1>4, <2>2, <3>1 DEF At, From
    <3> QED
      BY <3>2
  <2>3. CASE m # 0 /\ ~(k < m)
    <3>1. AtResults(i, k + 1)
      BY <2>1, <2>3 DEF AtResults, Moved
    <3>2. At(i, 3, k + 1) /\ From(tk, m, s, k, 3, k + 1)
      BY <1>4, <2>3, <3>1 DEF At, From
    <3> QED
      BY <3>2
  <2> QED
    BY <2>2, <2>3
<1>5. CASE s = 4
  <2>1. AtEngine(i, k)'
    BY <1>5 DEF At
  <2>2. CASE k \in 1 .. Len(engine)
    <3>1. AtEngine(i, k)
      BY <2>1, <2>2 DEF AtEngine, Moved
    <3>2. At(i, 4, k) /\ From(tk, m, s, k, 4, k)
      BY <1>5, <2>2, <3>1 DEF At, From
    <3> QED
      BY <3>2
  <2>3. CASE k \notin 1 .. Len(engine)
    <3>1. k = Len(engine) + 1 /\ tk = 1
      <4>1. Len(engine') = Len(engine) + tk /\ Len(engine) \in Nat
        BY DEF Moved
      <4> QED
        BY <2>1, <2>3, <4>1 DEF AtEngine
    <3>2. AtRegister(i, 0)
      BY <2>1, <3>1 DEF AtEngine, AtRegister, Moved
    <3>3. At(i, 5, 0) /\ From(tk, m, s, k, 5, 0)
      BY <1>5, <3>1, <3>2 DEF At, From
    <3> QED
      BY <3>3
  <2> QED
    BY <2>2, <2>3
<1>6. CASE s = 5
  <2>1. AtRegister(i, k)'
    BY <1>6 DEF At
  <2>2. CASE Issue
    <3>1. AtRequest(i, PIPELINE - 1) /\ k = 0
      BY <2>1, <2>2 DEF AtRegister, AtRequest, Moved, Issue, LastOp
    <3>2. At(i, 6, PIPELINE - 1) /\ From(tk, m, s, k, 6, PIPELINE - 1) /\ PIPELINE - 1 \in Nat
      BY <1>6, <2>2, <3>1 DEF At, From
    <3> QED
      BY <3>2
  <2>3. CASE ~Issue
    <3>1. AtRegister(i, 0) /\ k = 0 /\ tk = 0
      BY <2>1, <2>3 DEF AtRegister, Moved
    <3>2. At(i, 5, 0) /\ From(tk, m, s, k, 5, 0)
      BY <1>6, <2>3, <3>1 DEF At, From
    <3> QED
      BY <3>2
  <2> QED
    BY <2>2, <2>3
<1>7. CASE s = 6
  <2>1. AtRequest(i, k)'
    BY <1>7 DEF At
  <2>2. CASE k = 0
    BY <1>7, <2>1, <2>2 DEF AtRequest
  <2>3. CASE k # 0
    <3>1. AtRequest(i, k - 1) /\ k \in Stages
      BY <2>1, <2>3 DEF AtRequest, Moved
    <3>2. At(i, 6, k - 1) /\ From(tk, m, s, k, 6, k - 1) /\ k - 1 \in Nat
      BY <1>7, <2>3, <3>1 DEF At, From
    <3> QED
      BY <3>2
  <2> QED
    BY <2>2, <2>3
<1> QED
  BY <1>1, <1>2, <1>3, <1>4, <1>5, <1>6, <1>7

\* Two requests do not come from the same place.
LEMMA OriginsApart ==
    ASSUME NEW tk \in {0, 1}, NEW m \in Nat, Moved(tk, m),
           NEW s \in Parts, NEW k \in Nat, NEW u \in Parts, NEW n \in Nat,
           NEW t \in Parts, NEW l \in Nat,
           From(tk, m, s, k, t, l), From(tk, m, u, n, t, l)
    PROVE  s = u /\ k = n
<1>1. Ld \in {0, 1} /\ Len(finish_fifo) \in Nat /\ Len(engine) \in Nat /\ Len(results) \in Nat
  BY DEF Moved
<1> QED
  BY <1>1, Dimensions DEF From, Stages, Parts

\* Every request goes on, unless its entry is released.
LEMMA Onward ==
    ASSUME SchedType, NEW tk \in {0, 1}, NEW m \in Nat, Moved(tk, m),
           NEW i, NEW t \in Parts, NEW l \in Nat, At(i, t, l), i \notin Released
    PROVE  \E s \in Parts, k \in Nat : At(i, s, k)' /\ From(tk, m, s, k, t, l)
<1> USE Dimensions DEF Parts
<1>1. CASE t = 0
  <2>1. AtComplete(i, l) /\ l # PIPELINE - 1
    BY <1>1 DEF At, AtComplete, Released, LastOp
  <2>2. l + 1 \in Stages /\ (l + 1) - 1 = l /\ l + 1 # 0 /\ l + 1 \in Nat
    BY <2>1 DEF AtComplete
  <2>3. AtComplete(i, l + 1)'
    BY <2>1, <2>2 DEF AtComplete, Moved
  <2>4. At(i, 0, l + 1)' /\ From(tk, m, 0, l + 1, t, l)
    BY <1>1, <2>2, <2>3 DEF At, From
  <2> QED
    BY <2>2, <2>4
<1>2. CASE t = 1
  <2>1. AtFinish(i, l) /\ Ld = 0 /\ l = 0
    BY <1>2 DEF At, AtFinish, Ld
  <2>2. CASE pipe'[0].op = "complete"
    <3>1. AtComplete(i, 0)'
      BY <2>1, <2>2 DEF AtComplete, AtFinish, Moved, SchedType
    <3>2. At(i, 0, 0)' /\ From(tk, m, 0, 0, t, l)
      BY <1>2, <2>1, <2>2, <3>1 DEF At, From
    <3> QED
      BY <3>2
  <2>3. CASE pipe'[0].op # "complete"
    <3>1. AtFinish(i, 0)'
      BY <2>1, <2>3 DEF AtFinish, Moved
    <3>2. At(i, 1, 0)' /\ From(tk, m, 1, 0, t, l)
      BY <1>2, <2>1, <2>3, <3>1 DEF At, From
    <3> QED
      BY <3>2
  <2> QED
    BY <2>2, <2>3
<1>3. CASE t = 2
  <2>1. AtFifo(i, l)
    BY <1>3 DEF At
  <2>2. CASE l = 1 /\ Ld = 1
    <3>1. AtFinish(i, 0)'
      BY <2>1, <2>2 DEF AtFinish, AtFifo, Moved
    <3>2. At(i, 1, 0)' /\ From(tk, m, 1, 0, t, l)
      BY <1>3, <2>2, <3>1 DEF At, From
    <3> QED
      BY <3>2
  <2>3. CASE ~(l = 1 /\ Ld = 1)
    <3>1. PICK n \in Nat : /\ n = l - Ld /\ l = n + Ld
                           /\ n \in 1 .. Len(finish_fifo) - Ld
                           /\ n \in 1 .. Len(finish_fifo')
      BY <2>1, <2>3 DEF AtFifo, Moved
    <3>2. finish_fifo'[n] = finish_fifo[l]
      BY <3>1 DEF Moved
    <3>3. AtFifo(i, n)'
      BY <2>1, <3>1, <3>2 DEF AtFifo
    <3>4. At(i, 2, n)' /\ From(tk, m, 2, n, t, l)
      BY <1>3, <3>1, <3>3 DEF At, From
    <3> QED
      BY <3>4
  <2> QED
    BY <2>2, <2>3
<1>4. CASE t = 3
  <2>1. AtResults(i, l)
    BY <1>4 DEF At
  <2>2. CASE l = m
    <3>0. Len(finish_fifo) \in Nat /\ Ld \in {0, 1} /\ Ld <= Len(finish_fifo)
      BY DEF Moved
    <3>01. Len(finish_fifo) - Ld + 1 \in Nat
      BY <3>0
    <3>1. PICK n \in Nat : n = Len(finish_fifo) - Ld + 1
      BY <3>01, Zenon
    <3>2. AtFifo(i, n)' /\ m # 0
      BY <2>1, <2>2, <3>1 DEF AtFifo, AtResults, Moved
    <3>3. At(i, 2, n)' /\ From(tk, m, 2, n, t, l)
      BY <1>4, <2>2, <3>1, <3>2 DEF At, From
    <3> QED
      BY <3>3
  <2>3. CASE l # m /\ (m = 0 \/ l < m)
    <3>1. AtResults(i, l)'
      BY <2>1, <2>3 DEF AtResults, Moved
    <3>2. At(i, 3, l)' /\ From(tk, m, 3, l, t, l)
      BY <1>4, <2>3, <3>1 DEF At, From
    <3> QED
      BY <3>2
  <2>4. CASE l # m /\ ~(m = 0 \/ l < m)
    <3>1. PICK n \in Nat : n = l - 1
      BY <2>1 DEF AtResults, Moved
    <3>2. AtResults(i, n)' /\ ~(n < m) /\ l = n + 1
      BY <2>1, <2>4, <3>1 DEF AtResults, Moved
    <3>3. At(i, 3, n)' /\ From(tk, m, 3, n, t, l)
      BY <1>4, <2>4, <3>2 DEF At, From
    <3> QED
      BY <3>3
  <2> QED
    BY <2>2, <2>3, <2>4
<1>5. CASE t = 4
  <2>1. AtEngine(i, l)
    BY <1>5 DEF At
  <2>2. AtEngine(i, l)' /\ l \in 1 .. Len(engine)
    <3>1. /\ Len(engine') = Len(engine) + tk /\ Len(engine) \in Nat
          /\ \A k \in 1 .. Len(engine) : engine'[k] = engine[k]
      BY DEF Moved
    <3> QED
      BY <2>1, <3>1 DEF AtEngine
  <2>3. At(i, 4, l)' /\ From(tk, m, 4, l, t, l)
    BY <1>5, <2>2 DEF At, From
  <2> QED
    BY <2>3
<1>6. CASE t = 5
  <2>1. AtRegister(i, l) /\ l = 0 /\ ~Issue
    BY <1>6 DEF At, AtRegister, Moved
  <2>2. CASE tk = 1
    <3>1. PICK n \in Nat : n = Len(engine) + 1
      BY DEF Moved
    <3>2. AtEngine(i, n)'
      BY <2>1, <2>2, <3>1 DEF AtEngine, AtRegister, Moved, SchedType
    <3>3. At(i, 4, n)' /\ From(tk, m, 4, n, t, l)
      BY <1>6, <2>1, <2>2, <3>1, <3>2 DEF At, From
    <3> QED
      BY <3>3
  <2>3. CASE tk = 0
    <3>1. AtRegister(i, 0)'
      BY <2>1, <2>3 DEF AtRegister, Moved
    <3>2. At(i, 5, 0)' /\ From(tk, m, 5, 0, t, l)
      BY <1>6, <2>1, <2>3, <3>1 DEF At, From
    <3> QED
      BY <3>2
  <2> QED
    BY <2>2, <2>3
<1>7. CASE t = 6
  <2>1. AtRequest(i, l)
    BY <1>7 DEF At
  <2>2. CASE l = PIPELINE - 1
    <3>1. Issue /\ LastOp.index = i
      BY <2>1, <2>2 DEF AtRequest, Released, LastOp
    <3>2. AtRegister(i, 0)'
      <4>1. tx_req' = {[queue |-> LastOp.addr, tag |-> LastOp.index]}
        BY <3>1 DEF Moved
      <4> QED
        BY <3>1, <4>1 DEF AtRegister
    <3>3. At(i, 5, 0)' /\ From(tk, m, 5, 0, t, l)
      BY <1>7, <2>2, <3>1, <3>2 DEF At, From
    <3> QED
      BY <3>3
  <2>3. CASE l # PIPELINE - 1
    <3>1. l + 1 \in Stages /\ (l + 1) - 1 = l /\ l + 1 # 0 /\ l + 1 \in Nat
      BY <2>1, <2>3 DEF AtRequest
    <3>2. AtRequest(i, l + 1)'
      BY <2>1, <3>1 DEF AtRequest, Moved
    <3>3. At(i, 6, l + 1)' /\ From(tk, m, 6, l + 1, t, l)
      BY <1>7, <3>1, <3>2 DEF At, From
    <3> QED
      BY <3>1, <3>3
  <2> QED
    BY <2>2, <2>3
<1> QED
  BY <1>1, <1>2, <1>3, <1>4, <1>5, <1>6, <1>7
-----------------------------------------------------------------------------
(* Every entry belongs to one request.                                     *)

\* A request in flight keeps its entry: the entry given away is a free one.
LEMMA SameQueue ==
    ASSUME SchedType, SchedTags, NEW rr \in BOOLEAN, Stage0(rr), OpTableNext,
           NEW i \in OpIdx, NEW t \in Parts, NEW l \in Nat, At(i, t, l)
    PROVE  /\ op_table'[i].queue = op_table[i].queue /\ ~Starts(i)
           /\ op_table[i].doorbell => op_table'[i].doorbell
<1>1. op_table[i].active
  BY DEF SchedTags
<1>2. ~Starts(i)
  BY <1>1, Accepting DEF Starts
<1> QED
  BY <1>2, TableFields

\* What is at a place of the line is a tag of the table.
LEMMA TagType ==
    ASSUME SchedType, NEW i, NEW s \in Parts, NEW k \in Nat, At(i, s, k)
    PROVE  i \in OpIdx
<1>1. CASE s \in {0, 6}
  BY <1>1 DEF SchedType, At, AtComplete, AtRequest, Ops
<1>2. CASE s = 1
  BY <1>2 DEF SchedType, At, AtFinish, Statuses
<1>3. CASE s = 2
  <2>1. k \in 1 .. Len(finish_fifo) /\ finish_fifo[k].tag = i
    BY <1>3 DEF At, AtFifo
  <2>2. finish_fifo \in Seq(Statuses)
    BY DEF SchedType
  <2>3. finish_fifo[k] \in Statuses
    BY <2>1, <2>2
  <2> QED
    BY <2>1, <2>3 DEF Statuses
<1>4. CASE s = 3
  <2>1. k \in 1 .. Len(results) /\ results[k].tag = i
    BY <1>4 DEF At, AtResults
  <2>2. results \in Seq(Statuses)
    BY DEF SchedType
  <2>3. results[k] \in Statuses
    BY <2>1, <2>2
  <2> QED
    BY <2>1, <2>3 DEF Statuses
<1>5. CASE s = 4
  <2>1. k \in 1 .. Len(engine) /\ engine[k].tag = i
    BY <1>5 DEF At, AtEngine
  <2>2. engine \in Seq(Requests)
    BY DEF SchedType
  <2>3. engine[k] \in Requests
    BY <2>1, <2>2
  <2> QED
    BY <2>1, <2>3 DEF Requests
<1>6. CASE s = 5
  BY <1>6 DEF SchedType, At, AtRegister, Requests
<1> QED
  BY <1>1, <1>2, <1>3, <1>4, <1>5, <1>6 DEF Parts

\* A clock keeps SchedTags: Origins gives each tag one place, the new tag was free,
\* and the tag released is the one that leaves the line.
LEMMA ClockTags ==
    ASSUME SchedType, SchedTags, NEW rr \in BOOLEAN, NEW report \in Reports,
           ClockWith(rr, report), NEW tk \in {0, 1}, NEW m \in Nat, Moved(tk, m)
    PROVE  SchedTags'
<1> DEFINE New(i, s, k) == s = 6 /\ k = 0 /\ pipe'[0].op = "req" /\ pipe'[0].index = i
<1>1. ASSUME NEW i, NEW s \in Parts, NEW k \in Nat, At(i, s, k)'
      PROVE  \/ \E t \in Parts, l \in Nat : At(i, t, l) /\ From(tk, m, s, k, t, l)
             \/ New(i, s, k)
  BY <1>1, Origins
<1>2. ASSUME NEW i \in OpIdx, NEW s \in Parts, NEW k \in Nat, New(i, s, k)
      PROVE  /\ i = StartPtr /\ ~op_table[i].active
             /\ \A t \in Parts, l \in Nat : ~At(i, t, l)
  <2>1. i = StartPtr /\ ~op_table[i].active
    BY <1>2, Accepting DEF ClockWith
  <2> QED
    BY <2>1 DEF SchedTags
<1>3. ASSUME NEW i \in OpIdx, NEW s \in Parts, NEW t \in Parts, NEW k \in Nat, NEW l \in Nat,
             At(i, s, k)', At(i, t, l)'
      PROVE  s = t /\ k = l
  <2>1. CASE New(i, s, k) \/ New(i, t, l)
    <3>1. New(i, s, k) /\ New(i, t, l)
      BY <1>1, <1>2, <1>3, <2>1
    <3> QED
      BY <3>1
  <2>2. CASE ~New(i, s, k) /\ ~New(i, t, l)
    <3>1. PICK u \in Parts, v \in Nat : At(i, u, v) /\ From(tk, m, s, k, u, v)
      BY <1>1, <1>3, <2>2
    <3>2. PICK x \in Parts, y \in Nat : At(i, x, y) /\ From(tk, m, t, l, x, y)
      BY <1>1, <1>3, <2>2
    <3>3. u = x /\ v = y
      BY <3>1, <3>2 DEF SchedTags
    <3> QED
      BY <3>1, <3>2, <3>3, OriginsApart
  <2> QED
    BY <2>1, <2>2
<1>4. \A i \in OpIdx : op_table'[i].active <=> i \notin Released /\ (Starts(i) \/ op_table[i].active)
  BY TableFields DEF ClockWith
<1>5. ASSUME NEW i \in OpIdx, i \in Released
      PROVE  /\ \E t \in {0, 6} : At(i, t, PIPELINE - 1) /\ (t = 6 => ~Issue)
             /\ PIPELINE - 1 \in Nat
  <2>1. i = LastOp.index /\ (LastOp.op = "complete" \/ (LastOp.op = "req" /\ ~Issue))
    BY <1>5 DEF Released
  <2>2. LastOp.op = "complete" => At(i, 0, PIPELINE - 1)
    BY <2>1, Dimensions DEF At, AtComplete, LastOp
  <2>3. LastOp.op = "req" => At(i, 6, PIPELINE - 1)
    BY <2>1, Dimensions DEF At, AtRequest, LastOp
  <2> QED
    BY <2>1, <2>2, <2>3, Dimensions
<1>6. ASSUME NEW i \in OpIdx, NEW s \in Parts, NEW k \in Nat, At(i, s, k)'
      PROVE  op_table'[i].active
  <2>1. CASE New(i, s, k)
    <3>1. Starts(i) /\ \A t \in Parts, l \in Nat : ~At(i, t, l)
      BY <1>2, <2>1 DEF Starts
    <3>2. i \notin Released
      BY <1>5, <3>1 DEF Parts
    <3> QED
      BY <1>4, <3>1, <3>2
  <2>2. CASE ~New(i, s, k)
    <3>1. PICK t \in Parts, l \in Nat : At(i, t, l) /\ From(tk, m, s, k, t, l)
      BY <1>1, <1>6, <2>2
    <3>2. op_table[i].active
      BY <3>1 DEF SchedTags
    <3>3. i \notin Released
      <4> SUFFICES ASSUME i \in Released PROVE FALSE
        OBVIOUS
      <4>1. PICK u \in {0, 6} : At(i, u, PIPELINE - 1) /\ (u = 6 => ~Issue)
        BY <1>5
      <4>2. t = u /\ l = PIPELINE - 1
        BY <1>5, <3>1, <4>1 DEF SchedTags, Parts
      <4> QED
        BY <3>1, <4>1, <4>2, Dimensions DEF From, Stages
    <3> QED
      BY <1>4, <3>2, <3>3
  <2> QED
    BY <2>1, <2>2
<1>7. ASSUME NEW i \in OpIdx, op_table'[i].active
      PROVE  \E s \in Parts, k \in Nat : At(i, s, k)'
  <2>1. CASE Starts(i)
    <3>1. pipe'[0].op = "req" /\ pipe'[0].index = i
      BY <2>1, Accepting DEF Starts, ClockWith
    <3>2. At(i, 6, 0)'
      BY <3>1, Dimensions DEF At, AtRequest
    <3> QED
      BY <3>2 DEF Parts
  <2>2. CASE ~Starts(i)
    <3>1. i \notin Released /\ op_table[i].active
      BY <1>4, <1>7, <2>2
    <3>2. PICK t \in Parts, l \in Nat : At(i, t, l)
      BY <3>1 DEF SchedTags
    <3> QED
      BY <3>1, <3>2, Onward
  <2> QED
    BY <2>1, <2>2
<1> QED
  BY <1>3, <1>6, <1>7 DEF SchedTags

\* A clock keeps SchedEntries: an entry in use keeps its queue, and a request is
\* only accepted while the request register is empty and stays so.
LEMMA ClockEntries ==
    ASSUME SchedType, SchedPipe, SchedTags, SchedEntries, NEW rr \in BOOLEAN,
           NEW report \in Reports, ClockWith(rr, report),
           NEW tk \in {0, 1}, NEW m \in Nat, Moved(tk, m)
    PROVE  SchedEntries'
<1>1. \A j \in Stages : j # 0 => pipe'[j] = pipe[j - 1]
  BY DEF Moved
<1>2. \A i \in OpIdx, t \in Parts, l \in Nat : At(i, t, l) => op_table'[i].queue = op_table[i].queue
  BY SameQueue DEF ClockWith
<1>3. InPipe("req")' => tx_req' = {}
  <2>1. CASE pipe'[0].op = "req"
    <3>1. ~Issue
      BY <2>1, Dimensions DEF Moved, Issue, InPipe, LastOp
    <3> QED
      BY <2>1, <3>1 DEF Moved
  <2>2. ASSUME NEW j \in Stages, j # 0, pipe'[j].op = "req" PROVE tx_req' = {}
    <3>1. j - 1 \in Stages /\ j - 1 # PIPELINE - 1 /\ pipe[j - 1].op = "req"
      BY <1>1, <2>2, Dimensions DEF Stages
    <3>2. ~Issue
      BY <3>1, Dimensions DEF Issue, SchedPipe, LastOp
    <3>3. tx_req = {}
      BY <3>1 DEF SchedEntries, InPipe
    <3> QED
      BY <3>2, <3>3 DEF Moved
  <2> QED
    BY <2>1, <2>2 DEF InPipe
<1>4. ASSUME NEW j \in Stages, pipe'[j].op \in {"req", "complete"}
      PROVE  op_table'[pipe'[j].index].queue = pipe'[j].addr
  <2>1. CASE j = 0 /\ pipe'[j].op = "req"
    <3>1. /\ pipe'[0].index = StartPtr /\ StartPtr \in OpIdx
          /\ pipe'[0].addr = Head(rr_fifo) /\ Starts(StartPtr)
      BY <2>1, Accepting DEF ClockWith, Starts
    <3>2. op_table'[StartPtr].queue = Head(rr_fifo)
      BY <3>1, TableFields DEF ClockWith
    <3> QED
      BY <2>1, <3>1, <3>2
  <2>2. CASE j = 0 /\ pipe'[j].op = "complete"
    <3>1. PICK f \in finish : pipe'[0].addr = op_table[f.tag].queue /\ pipe'[0].index = f.tag
      BY <2>2, Accepting DEF ClockWith
    <3>2. At(f.tag, 1, 0) /\ f.tag \in OpIdx
      BY DEF At, AtFinish, SchedType, Statuses
    <3> QED
      BY <1>2, <2>2, <3>1, <3>2 DEF Parts
  <2>3. CASE j # 0
    <3>1. j - 1 \in Stages /\ j - 1 \in Nat /\ pipe'[j] = pipe[j - 1]
      BY <1>1, <2>3, Dimensions
    <3>2. At(pipe[j - 1].index, 0, j - 1) \/ At(pipe[j - 1].index, 6, j - 1)
      BY <1>4, <3>1 DEF At, AtComplete, AtRequest
    <3>3. pipe[j - 1].index \in OpIdx
      BY <3>1 DEF SchedType, Ops
    <3> QED
      BY <1>2, <1>4, <3>1, <3>2, <3>3 DEF Parts, SchedEntries
  <2> QED
    BY <1>4, <2>1, <2>2, <2>3
<1>5. ASSUME NEW r \in tx_req
      PROVE  r.tag \in OpIdx /\ op_table'[r.tag].queue = r.queue
  <2>1. At(r.tag, 5, 0) /\ r.tag \in OpIdx
    BY DEF At, AtRegister, SchedType, Requests
  <2> QED
    BY <1>2, <2>1 DEF Parts, SchedEntries
<1>6. ASSUME NEW r \in tx_req' PROVE op_table'[r.tag].queue = r.queue
  <2>1. CASE Issue
    <3>1. r.tag = LastOp.index /\ r.queue = LastOp.addr
      BY <1>6, <2>1 DEF Moved
    <3>2. At(LastOp.index, 6, PIPELINE - 1) /\ PIPELINE - 1 \in Nat /\ LastOp.index \in OpIdx
      BY <2>1, Dimensions, LastOpType DEF At, AtRequest, Issue, LastOp
    <3>3. op_table[LastOp.index].queue = LastOp.addr
      BY <2>1, Dimensions DEF Issue, SchedEntries, LastOp
    <3> QED
      BY <1>2, <3>1, <3>2, <3>3 DEF Parts
  <2>2. CASE ~Issue
    BY <1>5, <1>6, <2>2 DEF Moved
  <2> QED
    BY <2>1, <2>2
<1>7. ASSUME NEW k \in 1 .. Len(engine') PROVE op_table'[engine'[k].tag].queue = engine'[k].queue
  <2>1. CASE k \in 1 .. Len(engine)
    <3>1. engine[k] \in Requests /\ engine[k].tag \in OpIdx /\ k \in Nat
      <4>1. engine \in Seq(Requests)
        BY DEF SchedType
      <4>2. engine[k] \in Requests
        BY <2>1, <4>1
      <4> QED
        BY <2>1, <4>1, <4>2 DEF Requests
    <3>2. engine'[k] = engine[k]
      BY <2>1 DEF Moved
    <3>3. At(engine[k].tag, 4, k)
      BY <2>1 DEF At, AtEngine
    <3>4. op_table'[engine[k].tag].queue = op_table[engine[k].tag].queue
      BY <1>2, <3>1, <3>3 DEF Parts
    <3> QED
      BY <2>1, <3>2, <3>4 DEF SchedEntries
  <2>2. CASE k \notin 1 .. Len(engine)
    <3>1. Len(engine') = Len(engine) + tk /\ Len(engine) \in Nat
      BY DEF Moved
    <3>2. k = Len(engine) + 1 /\ tk = 1
      BY <2>2, <3>1
    <3>3. engine'[k] \in tx_req
      BY <3>2 DEF Moved
    <3> QED
      BY <1>5, <3>3
  <2> QED
    BY <2>1, <2>2
<1> QED
  BY <1>3, <1>4, <1>6, <1>7 DEF SchedEntries
-----------------------------------------------------------------------------
(* The transmit engine's dequeue moves its oldest request to the results.  *)

FromD(s, k, t, l) ==
    \/ s \notin {3, 4} /\ t = s /\ l = k
    \/ s = 3 /\ k \in 1 .. Len(results) /\ t = s /\ l = k
    \/ s = 3 /\ k = Len(results) + 1 /\ t = 4 /\ l = 1
    \/ s = 4 /\ k \in 1 .. Len(engine) - 1 /\ t = 4 /\ l = k + 1

\* What the transmit engine's answer does to its lists.
LEMMA DequeueMoves ==
    ASSUME SchedType, Dequeue
    PROVE  /\ Len(engine) \in Nat /\ Len(engine) >= 1 /\ Len(results) \in Nat
           /\ Len(engine') = Len(engine) - 1 /\ Len(results') = Len(results) + 1
           /\ \A k \in 1 .. Len(engine) - 1 : engine'[k] = engine[k + 1]
           /\ \A k \in 1 .. Len(results) : results'[k] = results[k]
           /\ results'[Len(results) + 1].tag = engine[1].tag
           /\ results'[Len(results) + 1].status <=> packets[engine[1].queue] > 0
           /\ engine' \in Seq(Requests) /\ results' \in Seq(Statuses)
           /\ engine[1] \in Requests
           /\ UNCHANGED <<hw_vars, doorbell_fifo, enable, writes, posted>>
<1>1. engine \in Seq(Requests) /\ engine # <<>> /\ results \in Seq(Statuses)
  BY DEF SchedType, Dequeue
<1>2. Head(engine) = engine[1] /\ engine[1] \in Requests /\ engine[1].tag \in OpIdx
  <2>1. Head(engine) = engine[1] /\ engine[1] \in Requests
    BY <1>1
  <2> QED
    BY <2>1 DEF Requests
<1>3. PICK st \in BOOLEAN : st <=> packets[engine[1].queue] > 0
  <2>1. CASE packets[engine[1].queue] > 0
    BY <2>1
  <2>2. CASE ~(packets[engine[1].queue] > 0)
    BY <2>2
  <2> QED
    BY <2>1, <2>2
<1>4. engine' = Tail(engine) /\ results' = Append(results, [tag |-> engine[1].tag, status |-> st])
  <2>1. [tag |-> engine[1].tag, status |-> packets[engine[1].queue] > 0]
          = [tag |-> engine[1].tag, status |-> st]
    BY <1>3
  <2> QED
    BY <1>2, <2>1 DEF Dequeue
<1>5. [tag |-> engine[1].tag, status |-> st] \in Statuses
  BY <1>2 DEF Statuses
<1>6. PICK r \in Statuses : r = [tag |-> engine[1].tag, status |-> st]
  BY <1>5
<1>7. /\ Len(results') = Len(results) + 1 /\ results' \in Seq(Statuses)
      /\ \A k \in 1 .. Len(results) : results'[k] = results[k]
      /\ results'[Len(results) + 1] = r /\ Len(results) \in Nat
  BY <1>1, <1>4, <1>6
<1>8. r.tag = engine[1].tag /\ r.status = st
  BY <1>6
<1>9. /\ Len(engine) \in Nat /\ Len(engine) >= 1 /\ Len(engine') = Len(engine) - 1
      /\ engine' \in Seq(Requests)
      /\ \A k \in 1 .. Len(engine) - 1 : engine'[k] = engine[k + 1]
  BY <1>1, <1>4
<1>10. results'[Len(results) + 1].status <=> packets[engine[1].queue] > 0
  BY <1>3, <1>7, <1>8
<1>11. UNCHANGED <<hw_vars, doorbell_fifo, enable, writes, posted>>
  BY DEF Dequeue
<1> QED
  BY <1>2, <1>7, <1>8, <1>9, <1>10, <1>11

\* Every place of the line after an answer was reached from a place before it.
LEMMA DequeueOrigins ==
    ASSUME SchedType, Dequeue, NEW i, NEW s \in Parts, NEW k \in Nat, At(i, s, k)'
    PROVE  \E t \in Parts, l \in Nat : At(i, t, l) /\ FromD(s, k, t, l)
<1> USE DEF Parts
<1>1. CASE s \notin {3, 4}
  <2>1. At(i, s, k) /\ FromD(s, k, s, k)
    BY <1>1, DequeueMoves DEF At, hw_vars, AtComplete, AtFinish, AtFifo, AtRegister,
                              AtRequest, FromD
  <2> QED
    BY <2>1
<1>2. CASE s = 3
  <2>1. AtResults(i, k)'
    BY <1>2 DEF At
  <2>2. CASE k \in 1 .. Len(results)
    <3>1. AtResults(i, k)
      BY <2>1, <2>2, DequeueMoves DEF AtResults
    <3>2. At(i, 3, k) /\ FromD(s, k, 3, k)
      BY <1>2, <2>2, <3>1 DEF At, FromD
    <3> QED
      BY <3>2
  <2>3. CASE k \notin 1 .. Len(results)
    <3>1. k = Len(results) + 1
      BY <2>1, <2>3, DequeueMoves DEF AtResults
    <3>2. AtEngine(i, 1)
      BY <2>1, <3>1, DequeueMoves DEF AtResults, AtEngine
    <3>3. At(i, 4, 1) /\ FromD(s, k, 4, 1)
      BY <1>2, <3>1, <3>2 DEF At, FromD
    <3> QED
      BY <3>3
  <2> QED
    BY <2>2, <2>3
<1>3. CASE s = 4
  <2>1. AtEngine(i, k)'
    BY <1>3 DEF At
  <2>2. AtEngine(i, k + 1) /\ k \in 1 .. Len(engine) - 1
    BY <2>1, DequeueMoves DEF AtEngine
  <2>3. At(i, 4, k + 1) /\ FromD(s, k, 4, k + 1)
    BY <1>3, <2>2 DEF At, FromD
  <2> QED
    BY <2>3
<1> QED
  BY <1>1, <1>2, <1>3

\* No request is lost by an answer of the transmit engine.
LEMMA DequeueOnward ==
    ASSUME SchedType, Dequeue, NEW i, NEW t \in Parts, NEW l \in Nat, At(i, t, l)
    PROVE  \E s \in Parts, k \in Nat : At(i, s, k)' /\ FromD(s, k, t, l)
<1> USE DEF Parts
<1>1. CASE t \notin {3, 4}
  <2>1. At(i, t, l)' /\ FromD(t, l, t, l)
    BY <1>1, DequeueMoves DEF At, hw_vars, AtComplete, AtFinish, AtFifo, AtRegister,
                              AtRequest, FromD
  <2> QED
    BY <2>1
<1>2. CASE t = 3
  <2>1. AtResults(i, l)
    BY <1>2 DEF At
  <2>2. AtResults(i, l)' /\ l \in 1 .. Len(results)
    BY <2>1, DequeueMoves DEF AtResults
  <2>3. At(i, 3, l)' /\ FromD(3, l, t, l)
    BY <1>2, <2>2 DEF At, FromD
  <2> QED
    BY <2>3
<1>3. CASE t = 4
  <2>1. AtEngine(i, l)
    BY <1>3 DEF At
  <2>2. CASE l = 1
    <3>1. PICK n \in Nat : n = Len(results) + 1
      BY DequeueMoves
    <3>2. AtResults(i, n)'
      BY <2>1, <2>2, <3>1, DequeueMoves DEF AtResults, AtEngine
    <3>3. At(i, 3, n)' /\ FromD(3, n, t, l)
      BY <1>3, <2>2, <3>1, <3>2 DEF At, FromD
    <3> QED
      BY <3>3
  <2>3. CASE l # 1
    <3>1. PICK n \in Nat : n = l - 1 /\ l = n + 1 /\ n \in 1 .. Len(engine) - 1
      BY <2>1, <2>3, DequeueMoves DEF AtEngine
    <3>2. AtEngine(i, n)'
      BY <2>1, <3>1, DequeueMoves DEF AtEngine
    <3>3. At(i, 4, n)' /\ FromD(4, n, t, l)
      BY <1>3, <3>1, <3>2 DEF At, FromD
    <3> QED
      BY <3>3
  <2> QED
    BY <2>2, <2>3
<1> QED
  BY <1>1, <1>2, <1>3

\* Two places after an answer do not stem from the same place before it.
LEMMA DequeueApart ==
    ASSUME SchedType, Dequeue, NEW s \in Parts, NEW k \in Nat, NEW u \in Parts, NEW n \in Nat,
           NEW t \in Parts, NEW l \in Nat, FromD(s, k, t, l), FromD(u, n, t, l)
    PROVE  s = u /\ k = n
<1>1. Len(results) \in Nat /\ Len(engine) \in Nat
  BY DEF SchedType
<1> QED
  BY <1>1 DEF FromD, Parts

\* An answer of the transmit engine keeps types, tags and entries.
LEMMA DequeueEntries ==
    ASSUME SchedType, SchedTags, SchedEntries, Dequeue
    PROVE  SchedType' /\ SchedTags' /\ SchedEntries'
<1>1. /\ engine' \in Seq(Requests) /\ results' \in Seq(Statuses)
      /\ UNCHANGED <<queue_ram, pipe, op_table, rr_fifo, tx_req, finish_fifo, finish, init_index>>
      /\ UNCHANGED <<doorbell_fifo, writes>>
  BY DequeueMoves DEF hw_vars
<1>2. packets' \in [Queues -> Nat]
  <2>1. packets' = [packets EXCEPT ![Head(engine).queue] =
                        IF packets[Head(engine).queue] > 0 THEN packets[Head(engine).queue] - 1 ELSE 0]
    BY DEF Dequeue
  <2>2. engine \in Seq(Requests) /\ engine # <<>> /\ packets \in [Queues -> Nat]
    BY DEF SchedType, Dequeue
  <2>3. Head(engine).queue \in Queues
    <3>1. Head(engine) \in Requests
      BY <2>2
    <3> QED
      BY <3>1 DEF Requests
  <2> QED
    BY <2>1, <2>2, <2>3
<1>3. SchedType'
  BY <1>1, <1>2 DEF SchedType
<1>4. ASSUME NEW i \in OpIdx, NEW s \in Parts, NEW t \in Parts, NEW k \in Nat, NEW l \in Nat,
             At(i, s, k)', At(i, t, l)'
      PROVE  s = t /\ k = l
  <2>1. PICK u \in Parts, v \in Nat : At(i, u, v) /\ FromD(s, k, u, v)
    BY <1>4, DequeueOrigins
  <2>2. PICK x \in Parts, y \in Nat : At(i, x, y) /\ FromD(t, l, x, y)
    BY <1>4, DequeueOrigins
  <2>3. u = x /\ v = y
    BY <2>1, <2>2 DEF SchedTags
  <2> QED
    BY <2>1, <2>2, <2>3, DequeueApart
<1>5. ASSUME NEW i \in OpIdx
      PROVE  op_table'[i].active <=> \E s \in Parts, k \in Nat : At(i, s, k)'
  <2>1. (\E s \in Parts, k \in Nat : At(i, s, k)') => \E s \in Parts, k \in Nat : At(i, s, k)
    BY DequeueOrigins
  <2>2. (\E s \in Parts, k \in Nat : At(i, s, k)) => \E s \in Parts, k \in Nat : At(i, s, k)'
    BY DequeueOnward
  <2> QED
    BY <1>1, <2>1, <2>2 DEF SchedTags
<1>6. SchedTags'
  BY <1>4, <1>5 DEF SchedTags
<1>7. \A k \in 1 .. Len(engine') : op_table'[engine'[k].tag].queue = engine'[k].queue
  BY <1>1, DequeueMoves DEF SchedEntries
<1>8. SchedEntries'
  BY <1>1, <1>7 DEF SchedEntries, InPipe
<1> QED
  BY <1>3, <1>6, <1>8
-----------------------------------------------------------------------------
(* The inductive invariant.                                                *)

SchedIInv == /\ SchedType /\ SchedPipe /\ SchedInit /\ SchedTokens
             /\ SchedWord /\ SchedTags /\ SchedEntries

\* The state after reset satisfies the invariant.
LEMMA SchedStart == ASSUME Init PROVE SchedIInv
<1> USE DEF Init
<1>1. SchedType
  <2>1. ResetWord \in Words /\ NoOp \in Ops
    BY Dimensions DEF ResetWord, Words, NoOp, Ops, OpKinds
  <2>2. queue_ram \in [Queues -> Words] /\ pipe \in [Stages -> Ops]
    BY <2>1
  <2>3. /\ DOMAIN op_table = OpIdx
        /\ \A i \in OpIdx : /\ op_table[i].active \in BOOLEAN
                            /\ op_table[i].queue \in Queues
                            /\ op_table[i].doorbell \in BOOLEAN
    BY Dimensions DEF FreeEntry
  <2>4. init_index \in 0 .. QUEUE_COUNT /\ packets \in [Queues -> Nat]
    BY SchedAssumption
  <2>5. /\ <<>> \in Seq(Queues) /\ <<>> \in Seq(Statuses) /\ <<>> \in Seq(Requests)
    OBVIOUS
  <2> QED
    BY <2>2, <2>3, <2>4, <2>5 DEF SchedType
<1>2. SchedPipe /\ SchedInit /\ SchedWord
  BY Dimensions DEF SchedPipe, SchedInit, SchedWord, NoOp, ResetWord
<1>3. SchedTokens
  BY DEF SchedTokens, InFifo, InReq, NoOp, ResetWord
<1>4. SchedEntries
  BY DEF SchedEntries, NoOp
<1>5. \A i, s, k : ~At(i, s, k)
  BY DEF At, AtComplete, AtFinish, AtFifo, AtResults, AtEngine, AtRegister, AtRequest, NoOp
<1>6. SchedTags
  BY <1>5 DEF SchedTags, FreeEntry
<1> QED
  BY <1>1, <1>2, <1>3, <1>4, <1>6 DEF SchedIInv

\* The steps of the driver and of other ports do not touch the hardware.
LEMMA OutsideStep ==
    ASSUME SchedIInv, UNCHANGED <<hw_vars, engine, results>>,
           doorbell_fifo' \in Seq(Queues), writes' \in SUBSET Queues,
           packets' \in [Queues -> Nat]
    PROVE  SchedIInv'
<1>1. UNCHANGED <<queue_ram, pipe, op_table, rr_fifo, tx_req, finish_fifo, finish, init_index,
                  engine, results>>
  BY DEF hw_vars
<1>2. SchedType' /\ SchedPipe' /\ SchedInit' /\ SchedTokens' /\ SchedWord' /\ SchedEntries'
  BY <1>1 DEF SchedIInv, SchedType, SchedPipe, SchedInit, SchedTokens, InFifo, InReq, SchedWord,
              SchedEntries, InPipe
<1>3. SchedTags'
  <2>1. \A i \in OpIdx, s \in Parts, k \in Nat : At(i, s, k)' <=> At(i, s, k)
    BY <1>1 DEF At, AtComplete, AtFinish, AtFifo, AtResults, AtEngine, AtRegister, AtRequest
  <2> QED
    BY <1>1, <2>1 DEF SchedIInv, SchedTags
<1> QED
  BY <1>2, <1>3 DEF SchedIInv

\* Every step keeps the invariant.
LEMMA SchedInductive == ASSUME SchedIInv, [Next]_vars PROVE SchedIInv'
<1> USE DEF SchedIInv
<1>1. CASE Clock
  <2>1. PICK rr \in BOOLEAN, report \in Reports : ClockWith(rr, report)
    BY <1>1, ClockIs
  <2>2. PICK tk \in {0, 1}, m \in Nat : Moved(tk, m)
    BY <2>1, ClockMoves
  <2>3. InPipe("req") => tx_req = {}
    BY DEF SchedEntries
  <2>4. SchedType' /\ SchedPipe' /\ SchedInit'
    BY <2>1, <2>3, ClockType, ClockPipe, ClockInit
  <2>5. SchedTokens' /\ SchedWord'
    BY <2>1, ClockTokens, ClockWord
  <2>6. SchedTags' /\ SchedEntries'
    BY <2>1, <2>2, ClockTags, ClockEntries
  <2> QED
    BY <2>4, <2>5, <2>6
<1>2. CASE Dequeue
  <2>1. SchedType' /\ SchedTags' /\ SchedEntries'
    BY <1>2, DequeueEntries
  <2>2. UNCHANGED <<queue_ram, pipe, rr_fifo, init_index>>
    BY <1>2 DEF Dequeue, hw_vars
  <2>3. SchedPipe' /\ SchedInit' /\ SchedTokens' /\ SchedWord'
    BY <2>2 DEF SchedPipe, SchedInit, SchedTokens, InFifo, InReq, SchedWord
  <2> QED
    BY <2>1, <2>3
<1>3. CASE SchedulerEnable \/ SchedulerDisable \/ UNCHANGED vars
  BY <1>3, OutsideStep DEF SchedulerEnable, SchedulerDisable, vars, hw_vars, SchedType
<1>4. ASSUME NEW q \in Queues, Post(q) PROVE SchedIInv'
  <2>1. doorbell_fifo' \in Seq(Queues)
    BY <1>4 DEF Post, SchedType
  <2>2. packets' \in [Queues -> Nat]
    BY <1>4 DEF Post, SchedType
  <2> QED
    BY <1>4, <2>1, <2>2, OutsideStep DEF Post, SchedType
<1>5. ASSUME NEW q \in Queues, OtherPort(q) PROVE SchedIInv'
  <2>1. packets' \in [Queues -> Nat]
    BY <1>5 DEF OtherPort, SchedType
  <2> QED
    BY <1>5, <2>1, OutsideStep DEF OtherPort, SchedType
<1> QED
  BY <1>1, <1>2, <1>3, <1>4, <1>5 DEF Next

\* The invariant of the scheduler, whatever order statuses come back in.
LEMMA SchedInvariance == Spec => []SchedIInv
<1>1. Init => SchedIInv
  BY SchedStart
<1>2. SchedIInv /\ [Next]_vars => SchedIInv'
  BY SchedInductive
<1> QED
  BY <1>1, <1>2, PTL DEF Spec
-----------------------------------------------------------------------------
(* The first two theorems.                                                 *)

\* A scheduled queue is in the FIFO or in a request at the pipeline exactly once,
\* another queue nowhere: the round-robin FIFO of tx_scheduler_rr.v holds each
\* queue at most once.
THEOREM QueuesCirculateOnce == Spec => []CirculatesOnce
<1>1. ASSUME SchedIInv PROVE CirculatesOnce
  <2> SUFFICES ASSUME NEW q \in Queues
               PROVE  Cardinality(Tokens(q)) = IF queue_ram[q].scheduled THEN 1 ELSE 0
    BY DEF CirculatesOnce
  <2>1. /\ \A k, l \in 1 .. Len(rr_fifo) : rr_fifo[k] = rr_fifo[l] => k = l
        /\ ~(InFifo(q) /\ InReq(q))
        /\ queue_ram[q].scheduled <=> InFifo(q) \/ InReq(q)
    BY <1>1 DEF SchedIInv, SchedTokens
  <2>2. CASE ~queue_ram[q].scheduled
    <3>1. Tokens(q) = {}
      BY <2>1, <2>2 DEF Tokens, InFifo, InReq
    <3> QED
      BY <2>2, <3>1, FS_EmptySet
  <2>3. CASE queue_ram[q].scheduled
    <3>1. \E x : Tokens(q) = {x}
      <4>1. CASE InFifo(q)
        <5>1. PICK k \in 1 .. Len(rr_fifo) : rr_fifo[k] = q
          BY <4>1 DEF InFifo
        <5>2. {l \in 1 .. Len(rr_fifo) : rr_fifo[l] = q} = {k}
          BY <2>1, <5>1
        <5>3. {l \in Stages : pipe[l].op = "req" /\ pipe[l].addr = q} = {}
          BY <2>1, <4>1 DEF InReq
        <5>4. Tokens(q) = {<<"fifo", k>>}
          BY <5>2, <5>3 DEF Tokens
        <5> QED
          BY <5>4
      <4>2. CASE InReq(q)
        <5>1. PICK j \in Stages : pipe[j].op = "req" /\ pipe[j].addr = q
          BY <4>2 DEF InReq
        <5>2. {l \in Stages : pipe[l].op = "req" /\ pipe[l].addr = q} = {j}
          BY <1>1, <5>1 DEF SchedIInv, SchedPipe
        <5>3. {l \in 1 .. Len(rr_fifo) : rr_fifo[l] = q} = {}
          BY <2>1, <4>2 DEF InFifo
        <5>4. Tokens(q) = {<<"pipe", j>>}
          BY <5>2, <5>3 DEF Tokens
        <5> QED
          BY <5>4
      <4> QED
        BY <2>1, <2>3, <4>1, <4>2
    <3> QED
      BY <2>3, <3>1, FS_Singleton
  <2> QED
    BY <2>2, <2>3
<1> QED
  BY <1>1, SchedInvariance, PTL

\* A one-to-one function has as many values as arguments.
LEMMA ImageCount ==
    ASSUME NEW S, IsFiniteSet(S), NEW T, NEW g \in [S -> T],
           \A y \in T : \E x \in S : g[x] = y,
           \A x, y \in S : g[x] = g[y] => x = y
    PROVE  IsFiniteSet(T) /\ Cardinality(T) = Cardinality(S)
<1>1. g \in Surjection(S, T)
  BY DEF Surjection
<1>2. g \in Injection(S, T)
  BY DEF Injection, IsInjective
<1> QED
  BY <1>1, <1>2, FS_Surjection

\* A sequence whose tags differ has as many tags as elements.
LEMMA SequenceTags ==
    ASSUME NEW S, NEW s \in Seq(S), \A k, l \in 1 .. Len(s) : s[k].tag = s[l].tag => k = l
    PROVE  LET tags == {s[k].tag : k \in 1 .. Len(s)}
           IN  IsFiniteSet(tags) /\ Cardinality(tags) = Len(s)
<1> DEFINE g == [k \in 1 .. Len(s) |-> s[k].tag]
           T == {s[k].tag : k \in 1 .. Len(s)}
           I == 1 .. Len(s)
<1>1. g \in [I -> T] /\ \A y \in T : \E k \in I : g[k] = y
  OBVIOUS
<1>2. \A k, l \in I : g[k] = g[l] => k = l
  OBVIOUS
<1>3. IsFiniteSet(I) /\ Cardinality(I) = Len(s)
  <2>1. Len(s) \in Nat
    OBVIOUS
  <2>2. PICK n \in Nat : n = Len(s)
    BY <2>1
  <2>3. IsFiniteSet(1 .. n) /\ Cardinality(1 .. n) = IF 1 > n THEN 0 ELSE n - 1 + 1
    BY FS_Interval
  <2> QED
    BY <2>2, <2>3
<1> HIDE DEF g, T, I
<1>4. IsFiniteSet(T) /\ Cardinality(T) = Len(s)
  BY <1>1, <1>2, <1>3, ImageCount
<1> QED
  BY <1>4 DEF T

\* A register that holds at most one element has as many tags as elements.
LEMMA RegisterTags ==
    ASSUME NEW S, \A x, y \in S : x = y
    PROVE  LET tags == {x.tag : x \in S}
           IN  /\ IsFiniteSet(tags) /\ IsFiniteSet(S)
               /\ Cardinality(tags) = Cardinality(S)
<1>1. CASE S = {}
  BY <1>1, FS_EmptySet
<1>2. CASE S # {}
  <2>1. PICK x : S = {x}
    BY <1>2
  <2>2. {y.tag : y \in S} = {x.tag}
    BY <2>1
  <2> QED
    BY <2>1, <2>2, FS_Singleton
<1> QED
  BY <1>1, <1>2

\* Cardinalities of disjoint finite sets add up.
LEMMA DisjointUnion ==
    ASSUME NEW S, NEW T, IsFiniteSet(S), IsFiniteSet(T), \A x \in S : x \notin T
    PROVE  IsFiniteSet(S \cup T) /\ Cardinality(S \cup T) = Cardinality(S) + Cardinality(T)
<1>1. S \cap T = {}
  OBVIOUS
<1> QED
  BY <1>1, FS_Union, FS_EmptySet, FS_CardinalityType

\* An entry of the operation table is active exactly while its request is
\* somewhere in the hardware, and no tag is in two places: entries neither leak
\* nor are given away twice.
THEOREM EntriesAreLive == Spec => []EntriesLive
<1>1. ASSUME SchedIInv PROVE EntriesLive
  <2> DEFINE L == {l \in Stages : pipe[l].op \in {"req", "complete"}}
             A == {r.tag : r \in tx_req}
             B == {engine[k].tag : k \in 1 .. Len(engine)}
             C == {results[k].tag : k \in 1 .. Len(results)}
             D == {finish_fifo[k].tag : k \in 1 .. Len(finish_fifo)}
             E == {f.tag : f \in finish}
             F == {pipe[j].index : j \in L}
  <2>1. /\ \A i \in OpIdx : \A s, t \in Parts : \A k, l \in Nat :
              At(i, s, k) /\ At(i, t, l) => s = t /\ k = l
        /\ \A i \in OpIdx : op_table[i].active <=> \E s \in Parts, k \in Nat : At(i, s, k)
        /\ SchedType
    BY <1>1 DEF SchedIInv, SchedTags
  <2>2. /\ \A k \in Stages : k \in Nat
        /\ \A k \in 1 .. Len(finish_fifo) : k \in Nat
        /\ \A k \in 1 .. Len(results) : k \in Nat
        /\ \A k \in 1 .. Len(engine) : k \in Nat
    <3>1. Len(finish_fifo) \in Nat /\ Len(results) \in Nat /\ Len(engine) \in Nat
      BY <2>1 DEF SchedType
    <3> QED
      BY <3>1, Dimensions
  <2>3. /\ \A i : i \in A <=> At(i, 5, 0)
        /\ \A i : i \in B <=> \E k \in Nat : At(i, 4, k)
        /\ \A i : i \in C <=> \E k \in Nat : At(i, 3, k)
        /\ \A i : i \in D <=> \E k \in Nat : At(i, 2, k)
        /\ \A i : i \in E <=> At(i, 1, 0)
        /\ \A i : i \in F <=> \E k \in Nat : At(i, 0, k) \/ At(i, 6, k)
    <3>1. \A i : i \in A <=> At(i, 5, 0)
      BY DEF At, AtRegister
    <3>2. \A i : i \in B <=> \E k \in Nat : At(i, 4, k)
      BY <2>2 DEF At, AtEngine
    <3>3. \A i : i \in C <=> \E k \in Nat : At(i, 3, k)
      BY <2>2 DEF At, AtResults
    <3>4. \A i : i \in D <=> \E k \in Nat : At(i, 2, k)
      BY <2>2 DEF At, AtFifo
    <3>5. \A i : i \in E <=> At(i, 1, 0)
      BY DEF At, AtFinish
    <3>6. \A i : i \in F <=> \E k \in Nat : At(i, 0, k) \/ At(i, 6, k)
      BY <2>2 DEF At, AtComplete, AtRequest
    <3> QED
      BY <3>1, <3>2, <3>3, <3>4, <3>5, <3>6
  <2>4. \A i, s, k : s \in Parts /\ k \in Nat /\ At(i, s, k) => i \in OpIdx
    BY <2>1, TagType
  <2>5. \A i, k : At(i, 5, k) \/ At(i, 1, k) => k = 0
    BY DEF At, AtRegister, AtFinish
  <2>6. InFlight = ((((A \cup B) \cup C) \cup D) \cup E) \cup F
    BY DEF InFlight
  <2>7. /\ IsFiniteSet(A) /\ Cardinality(A) = Cardinality(tx_req) /\ IsFiniteSet(tx_req)
        /\ IsFiniteSet(E) /\ Cardinality(E) = Cardinality(finish) /\ IsFiniteSet(finish)
    BY <2>1, RegisterTags DEF SchedType
  <2>8. IsFiniteSet(B) /\ Cardinality(B) = Len(engine)
    <3>1. \A k, l \in 1 .. Len(engine) : engine[k].tag = engine[l].tag => k = l
      <4> SUFFICES ASSUME NEW k \in 1 .. Len(engine), NEW l \in 1 .. Len(engine),
                          engine[k].tag = engine[l].tag
                   PROVE  k = l
        OBVIOUS
      <4>1. At(engine[k].tag, 4, k) /\ At(engine[k].tag, 4, l)
        BY DEF At, AtEngine
      <4> QED
        BY <2>1, <2>2, <2>4, <4>1 DEF Parts
    <3> QED
      BY <2>1, <3>1, SequenceTags DEF SchedType
  <2>9. IsFiniteSet(C) /\ Cardinality(C) = Len(results)
    <3>1. \A k, l \in 1 .. Len(results) : results[k].tag = results[l].tag => k = l
      <4> SUFFICES ASSUME NEW k \in 1 .. Len(results), NEW l \in 1 .. Len(results),
                          results[k].tag = results[l].tag
                   PROVE  k = l
        OBVIOUS
      <4>1. At(results[k].tag, 3, k) /\ At(results[k].tag, 3, l)
        BY DEF At, AtResults
      <4> QED
        BY <2>1, <2>2, <2>4, <4>1 DEF Parts
    <3> QED
      BY <2>1, <3>1, SequenceTags DEF SchedType
  <2>10. IsFiniteSet(D) /\ Cardinality(D) = Len(finish_fifo)
    <3>1. \A k, l \in 1 .. Len(finish_fifo) : finish_fifo[k].tag = finish_fifo[l].tag => k = l
      <4> SUFFICES ASSUME NEW k \in 1 .. Len(finish_fifo), NEW l \in 1 .. Len(finish_fifo),
                          finish_fifo[k].tag = finish_fifo[l].tag
                   PROVE  k = l
        OBVIOUS
      <4>1. At(finish_fifo[k].tag, 2, k) /\ At(finish_fifo[k].tag, 2, l)
        BY DEF At, AtFifo
      <4> QED
        BY <2>1, <2>2, <2>4, <4>1 DEF Parts
    <3> QED
      BY <2>1, <3>1, SequenceTags DEF SchedType
  <2>11. IsFiniteSet(F) /\ Cardinality(F) = Cardinality(L) /\ IsFiniteSet(L)
    <3> DEFINE g == [j \in L |-> pipe[j].index]
    <3>1. IsFiniteSet(L)
      <4>1. IsFiniteSet(0 .. PIPELINE - 1)
        BY FS_Interval, SchedAssumption
      <4>2. L \in SUBSET Stages
        OBVIOUS
      <4> HIDE DEF L
      <4> QED
        BY <4>1, <4>2, FS_Subset DEF Stages
    <3>2. \A k, l \in L : g[k] = g[l] => k = l
      <4> SUFFICES ASSUME NEW k \in L, NEW l \in L, pipe[k].index = pipe[l].index PROVE k = l
        OBVIOUS
      <4>1. /\ At(pipe[k].index, 0, k) \/ At(pipe[k].index, 6, k)
            /\ At(pipe[k].index, 0, l) \/ At(pipe[k].index, 6, l)
        BY DEF At, AtComplete, AtRequest
      <4> QED
        BY <2>1, <2>2, <2>4, <4>1 DEF Parts
    <3>3. g \in [L -> F] /\ \A y \in F : \E j \in L : g[j] = y
      OBVIOUS
    <3> HIDE DEF g, F, L
    <3> QED
      BY <3>1, <3>2, <3>3, ImageCount
  <2> HIDE DEF A, B, C, D, E, F, L
  <2>12. \A i \in OpIdx : op_table[i].active <=> i \in InFlight
    BY <2>1, <2>3, <2>5, <2>6 DEF Parts, At
  <2>13. /\ \A i \in A : i \notin B
         /\ \A i \in A \cup B : i \notin C
         /\ \A i \in (A \cup B) \cup C : i \notin D
         /\ \A i \in ((A \cup B) \cup C) \cup D : i \notin E
         /\ \A i \in (((A \cup B) \cup C) \cup D) \cup E : i \notin F
    BY <2>1, <2>3, <2>4 DEF Parts
  <2>14. Cardinality(InFlight) = Cardinality(A) + Cardinality(B) + Cardinality(C)
                                 + Cardinality(D) + Cardinality(E) + Cardinality(F)
    <3>1. IsFiniteSet(A \cup B) /\ Cardinality(A \cup B) = Cardinality(A) + Cardinality(B)
      BY <2>7, <2>8, <2>13, DisjointUnion
    <3>2. /\ IsFiniteSet((A \cup B) \cup C)
          /\ Cardinality((A \cup B) \cup C) = Cardinality(A \cup B) + Cardinality(C)
      BY <2>9, <2>13, <3>1, DisjointUnion
    <3>3. /\ IsFiniteSet(((A \cup B) \cup C) \cup D)
          /\ Cardinality(((A \cup B) \cup C) \cup D) =
               Cardinality((A \cup B) \cup C) + Cardinality(D)
      BY <2>10, <2>13, <3>2, DisjointUnion
    <3>4. /\ IsFiniteSet((((A \cup B) \cup C) \cup D) \cup E)
          /\ Cardinality((((A \cup B) \cup C) \cup D) \cup E) =
               Cardinality(((A \cup B) \cup C) \cup D) + Cardinality(E)
      BY <2>7, <2>13, <3>3, DisjointUnion
    <3>5. Cardinality(InFlight) =
            Cardinality((((A \cup B) \cup C) \cup D) \cup E) + Cardinality(F)
      BY <2>6, <2>11, <2>13, <3>4, DisjointUnion
    <3> QED
      BY <3>1, <3>2, <3>3, <3>4, <3>5
  <2> QED
    BY <2>7, <2>8, <2>9, <2>10, <2>11, <2>12, <2>14 DEF EntriesLive, L
<1> QED
  BY <1>1, SchedInvariance, PTL
-----------------------------------------------------------------------------
(* A queue with packets is not forgotten.  Statuses that a queue was empty *)
(* leave in the order of the requests (AnyOrder = FALSE), so a doorbell    *)
(* recorded at the newest request of the queue leaves after all of them.   *)

\* A result reported before its turn is the oldest that found its queue empty.
LEMMA FirstEmpty ==
    ASSUME SchedType, AnyOrder = FALSE, NEW m \in Reportable, m # 1
    PROVE  \A l \in 1 .. Len(results) : ~results[l].status => m <= l
<1> DEFINE S == {k \in DOMAIN results : ~results[k].status}
<1>1. DOMAIN results = 1 .. Len(results) /\ Len(results) \in Nat
  BY DEF SchedType
<1>2. m \in S /\ m = Min(S)
  BY DEF Reportable
<1>3. S \in SUBSET Nat
  BY <1>1
<1> HIDE DEF S
<1>4. \E x \in S : \A y \in S : x <= y
  BY <1>2, <1>3, LeastExists
<1>5. \A y \in S : m <= y
  BY <1>2, <1>4 DEF Min
<1> QED
  BY <1>1, <1>5 DEF S

\* A clock keeps the order, except that a status may be reported before older ones.
LEMMA OrderKept ==
    ASSUME NEW tk \in {0, 1}, NEW m \in Nat, Moved(tk, m),
           NEW s \in Parts, NEW k \in Nat, NEW t \in Parts, NEW l \in Nat,
           NEW u \in Parts, NEW n \in Nat, NEW x \in Parts, NEW y \in Nat,
           From(tk, m, s, k, t, l), From(tk, m, u, n, x, y),
           NotBefore(t, l, x, y), x # 6,
           ~(t = 3 /\ x = 3 /\ y = m /\ l < m)
    PROVE  NotBefore(s, k, u, n)
<1>1. /\ Ld \in {0, 1} /\ Len(finish_fifo) \in Nat /\ Ld <= Len(finish_fifo)
      /\ Len(engine) \in Nat
  BY DEF Moved
<1>2. Stages \subseteq Nat
  BY Dimensions
<1>3. CASE t = x
  <2>1. CASE t \in {0, 1, 2}
    BY <1>1, <1>2, <1>3, <2>1 DEF From, NotBefore
  <2>2. CASE t \in {3, 4, 5}
    BY <1>1, <1>2, <1>3, <2>2 DEF From, NotBefore
  <2> QED
    BY <1>3, <2>1, <2>2 DEF Parts
<1>4. CASE t # x
  BY <1>1, <1>2, <1>4 DEF From, NotBefore, Parts
<1> QED
  BY <1>3, <1>4

\* A status that says empty said so before the clock too, or was made by no one:
\* a clock does not turn a success into a failure.
LEMMA FoundFrom ==
    ASSUME SchedType, NEW tk \in {0, 1}, NEW m \in Nat, Moved(tk, m),
           NEW i, NEW s \in Parts, NEW k \in Nat, Found(i, s, k)',
           NEW t \in Parts, NEW l \in Nat, At(i, t, l), From(tk, m, s, k, t, l)
    PROVE  Found(i, t, l)
<1>1. CASE s = 0
  <2>1. At(i, 0, k)' /\ ~pipe'[k].wdata
    BY <1>1 DEF Found
  <2>2. CASE k = 0
    <3>1. pipe'[0].op = "complete" /\ t = 1 /\ l = 0
      BY <1>1, <2>2 DEF From
    <3>2. PICK f \in finish : pipe'[0].index = f.tag /\ pipe'[0].wdata = CompleteStatus(f)
      BY <3>1 DEF Moved
    <3>3. ~f.status
      BY <2>1, <2>2, <3>2 DEF CompleteStatus
    <3>4. f.tag = i
      BY <2>1, <2>2, <3>2 DEF At, AtComplete
    <3> QED
      BY <3>1, <3>3, <3>4 DEF Found
  <2>3. CASE k # 0
    <3>1. t = 0 /\ l = k - 1 /\ k \in Stages
      BY <1>1, <2>3 DEF From
    <3>2. pipe'[k] = pipe[l]
      BY <2>3, <3>1 DEF Moved
    <3> QED
      BY <2>1, <3>1, <3>2 DEF Found
  <2> QED
    BY <2>2, <2>3
<1>2. CASE s = 1
  <2>1. PICK f \in finish' : f.tag = i /\ ~f.status /\ k = 0
    BY <1>2 DEF Found
  <2>2. CASE Ld = 1
    <3>1. t = 2 /\ l = 1 /\ f = finish_fifo[1]
      BY <1>2, <2>1, <2>2 DEF From, Moved
    <3> QED
      BY <2>1, <3>1 DEF Found
  <2>3. CASE Ld = 0
    <3>1. t = 1 /\ l = 0 /\ f \in finish
      BY <1>2, <2>1, <2>3 DEF From, Moved
    <3> QED
      BY <2>1, <3>1 DEF Found
  <2> QED
    BY <2>2, <2>3 DEF Ld
<1>3. CASE s = 2
  <2>1. ~finish_fifo'[k].status
    BY <1>3 DEF Found
  <2>2. CASE k \in 1 .. Len(finish_fifo) - Ld /\ t = 2 /\ l = k + Ld
    <3>1. finish_fifo'[k] = finish_fifo[l]
      BY <2>2 DEF Moved
    <3> QED
      BY <2>1, <2>2, <3>1 DEF Found
  <2>3. CASE k = Len(finish_fifo) - Ld + 1 /\ m # 0 /\ t = 3 /\ l = m
    <3>1. finish_fifo'[k] = results[m]
      BY <2>3 DEF Moved
    <3> QED
      BY <2>1, <2>3, <3>1 DEF Found
  <2> QED
    BY <1>3, <2>2, <2>3 DEF From
<1>4. CASE s = 3
  <2>1. ~results'[k].status /\ k \in 1 .. Len(results')
    BY <1>4 DEF Found, At, AtResults
  <2>2. t = 3 /\ results'[k] = results[l]
    BY <1>4, <2>1 DEF From, Moved
  <2> QED
    BY <2>1, <2>2 DEF Found
<1> QED
  BY <1>1, <1>2, <1>3, <1>4 DEF Found

\* Of two requests of a queue at most one is completing.
LEMMA OneCompletes ==
    ASSUME SchedType, SchedPipe, SchedEntries, NEW i, NEW d, NEW k \in Nat, NEW l \in Nat,
           At(i, 0, k), At(d, 0, l), op_table[i].queue = op_table[d].queue
    PROVE  k = l
BY DEF At, AtComplete, SchedPipe, SchedEntries

\* A request behind one that stays is not released.
LEMMA NotReleased ==
    ASSUME SchedType, SchedPipe, SchedTags, SchedEntries,
           NEW tk \in {0, 1}, NEW m \in Nat, Moved(tk, m),
           NEW i \in OpIdx, NEW s \in Parts, NEW k \in Nat, NEW t \in Parts, NEW l \in Nat,
           At(i, t, l), From(tk, m, s, k, t, l),
           NEW d \in OpIdx, NEW x \in 0 .. 5, NEW y \in Nat, At(d, x, y),
           NotBefore(t, l, x, y), op_table[d].queue = op_table[i].queue
    PROVE  d \notin Released
<1> SUFFICES ASSUME d \in Released PROVE FALSE
  OBVIOUS
<1>1. d = LastOp.index /\ (LastOp.op = "complete" \/ LastOp.op = "req")
  BY DEF Released
<1>2. PIPELINE - 1 \in Nat /\ PIPELINE - 1 \in Stages
  BY Dimensions
<1>3. At(d, 0, PIPELINE - 1) \/ At(d, 6, PIPELINE - 1)
  BY <1>1, <1>2 DEF At, AtComplete, AtRequest, LastOp
<1>4. x = 0 /\ y = PIPELINE - 1
  BY <1>2, <1>3 DEF SchedTags, Parts
<1>5. t = 0
  BY <1>4 DEF NotBefore, Parts
<1>6. l = PIPELINE - 1
  BY <1>2, <1>4, <1>5, OneCompletes
<1> QED
  BY <1>5, <1>6, Dimensions DEF From, Stages

\* A request in front of another one that may have found its queue empty is not
\* overtaken.
LEMMA NotOvertaken ==
    ASSUME SchedType, AnyOrder = FALSE, NEW tk \in {0, 1}, NEW m \in Nat, Moved(tk, m),
           NEW i, NEW t \in Parts, NEW l \in Nat, Doubt(i, t, l), NEW x \in Parts, NEW y \in Nat
    PROVE  ~(t = 3 /\ x = 3 /\ y = m /\ l < m)
<1> SUFFICES ASSUME t = 3, l < m PROVE FALSE
  OBVIOUS
<1>1. l \in 1 .. Len(results) /\ ~results[l].status
  BY DEF Doubt, Found, At, AtResults
<1>2. m # 1 /\ m \in Reportable
  <2>1. l >= 1 /\ m # 0
    BY <1>1
  <2> QED
    BY <2>1 DEF Moved
<1>3. m <= l
  BY <1>1, <1>2, FirstEmpty
<1> QED
  BY <1>3

\* A request that may find, or has found, its queue empty has the newest request of
\* the queue, or is it: the tail leaves last.
LEMMA ClockTail ==
    ASSUME SchedIInv, SchedTail, AnyOrder = FALSE, NEW rr \in BOOLEAN, NEW report \in Reports,
           ClockWith(rr, report), NEW tk \in {0, 1}, NEW m \in Nat, Moved(tk, m)
    PROVE  SchedTail'
<1> USE DEF SchedIInv
<1> SUFFICES ASSUME NEW i \in OpIdx, NEW s \in Parts, NEW k \in Nat, Doubt(i, s, k)'
             PROVE  \E a \in OpIdx :
                       /\ a = TailOf(i)' /\ op_table'[a].queue = op_table'[i].queue
                       /\ \E t \in 0 .. 5, l \in Nat : At(a, t, l)' /\ NotBefore(s, k, t, l)
  BY DEF SchedTail
<1>1. At(i, s, k)' /\ s # 6 /\ s \in 0 .. 5
  BY DEF Doubt, Found, At, AtFinish, Parts
<1>2. PICK t \in Parts, l \in Nat : At(i, t, l) /\ From(tk, m, s, k, t, l)
  BY <1>1, Origins
<1>3. PICK q \in Queues : q = op_table[i].queue /\ q = op_table'[i].queue
  BY <1>2, SameQueue DEF ClockWith, SchedType
<1>4. TailOf(i)' = queue_ram'[q].tail /\ TailOf(i) = queue_ram[q].tail
  BY <1>3 DEF TailOf
<1>5. CASE Issue /\ LastOp.addr = q
  <2>1. PICK a \in OpIdx : a = LastOp.index
    BY LastOpType
  <2>2. queue_ram'[q].tail = a
    BY <1>5, <2>1, Performing DEF ClockWith, Issue
  <2>3. At(a, 5, 0)'
    <3>1. tx_req' = {[queue |-> LastOp.addr, tag |-> LastOp.index]}
      BY <1>5 DEF Moved
    <3>2. \E r \in tx_req' : r.tag = a
      BY <2>1, <3>1
    <3> QED
      BY <3>2 DEF At, AtRegister
  <2>4. At(a, 6, PIPELINE - 1) /\ PIPELINE - 1 \in Nat
    BY <1>5, <2>1, Dimensions DEF At, AtRequest, Issue, LastOp
  <2>5. op_table[a].queue = q
    BY <1>5, <2>1, Dimensions DEF Issue, SchedEntries, LastOp
  <2>6. op_table'[a].queue = q
    BY <2>4, <2>5, SameQueue DEF ClockWith, Parts
  <2>7. NotBefore(s, k, 5, 0)
    BY <1>1 DEF NotBefore, At, AtRegister
  <2> QED
    BY <1>3, <1>4, <2>2, <2>3, <2>6, <2>7
<1>6. CASE ~(Issue /\ LastOp.addr = q)
  <2>1. t # 6
    <3> SUFFICES ASSUME t = 6 PROVE FALSE
      OBVIOUS
    <3>1. Issue /\ l = PIPELINE - 1
      BY <1>1, <1>2 DEF From
    <3>2. LastOp.index = i
      BY <1>2, <3>1 DEF At, AtRequest, LastOp
    <3> QED
      BY <1>3, <1>6, <3>1, <3>2, Dimensions DEF Issue, SchedEntries, LastOp
  <2>2. Doubt(i, t, l)
    <3>1. CASE Found(i, s, k)'
      BY <1>2, <3>1, FoundFrom DEF Doubt
    <3>2. CASE s \in {4, 5}
      <4>1. t \in {4, 5}
        BY <1>2, <2>1, <3>2 DEF From
      <4> QED
        BY <1>2, <4>1 DEF Doubt
    <3> QED
      BY <3>1, <3>2 DEF Doubt
  <2>3. PICK a \in OpIdx, x \in 0 .. 5, y \in Nat :
           /\ a = TailOf(i) /\ op_table[a].queue = op_table[i].queue
           /\ At(a, x, y) /\ NotBefore(t, l, x, y)
    BY <2>2 DEF SchedTail
  <2>4. x \in Parts /\ x # 6
    BY DEF Parts
  <2>5. a \notin Released
    BY <1>2, <2>3, NotReleased
  <2>6. PICK u \in Parts, n \in Nat : At(a, u, n)' /\ From(tk, m, u, n, x, y)
    BY <2>3, <2>4, <2>5, Onward
  <2>7. u \in 0 .. 5
    BY <2>4, <2>6 DEF From, Parts
  <2>8. NotBefore(s, k, u, n)
    BY <1>2, <2>2, <2>3, <2>4, <2>6, OrderKept, NotOvertaken
  <2>9. queue_ram'[q].tail = queue_ram[q].tail
    BY <1>6, Performing DEF ClockWith
  <2>10. op_table'[a].queue = q
    BY <1>3, <2>3, <2>4, SameQueue DEF ClockWith
  <2> QED
    BY <1>3, <1>4, <2>3, <2>6, <2>7, <2>8, <2>9, <2>10
<1> QED
  BY <1>5, <1>6

\* Only the last stage takes a doorbell off its way.
LEMMA PendingStep ==
    ASSUME SchedType, NEW rr \in BOOLEAN, Stage0(rr), NEW q \in Queues, Pending(q), ~Pending(q)'
    PROVE  LastOp.op = "doorbell" /\ LastOp.addr = q
<1>1. /\ \A j \in Stages : j # 0 => pipe'[j] = pipe[j - 1]
      /\ pipe'[0].op = "doorbell" => /\ doorbell_fifo # <<>>
                                     /\ pipe'[0].addr = Head(doorbell_fifo)
                                     /\ doorbell_fifo' = Tail(doorbell_fifo)
      /\ pipe'[0].op # "doorbell" => doorbell_fifo' = doorbell_fifo
  BY Accepting
<1>2. ASSUME NEW k \in 1 .. Len(doorbell_fifo), doorbell_fifo[k] = q PROVE FALSE
  <2>1. CASE pipe'[0].op # "doorbell"
    BY <1>1, <1>2, <2>1 DEF Pending
  <2>2. CASE pipe'[0].op = "doorbell" /\ k = 1
    <3>1. Head(doorbell_fifo) = doorbell_fifo[1]
      BY <1>1, <2>2 DEF SchedType
    <3> QED
      BY <1>1, <1>2, <2>2, <3>1, Dimensions DEF Pending
  <2>3. CASE pipe'[0].op = "doorbell" /\ k # 1
    <3>1. /\ doorbell_fifo \in Seq(Queues) /\ doorbell_fifo # <<>>
          /\ doorbell_fifo' = Tail(doorbell_fifo)
      BY <1>1, <2>3 DEF SchedType
    <3>2. /\ k - 1 \in 1 .. Len(doorbell_fifo') /\ doorbell_fifo'[k - 1] = doorbell_fifo[k]
      BY <2>3, <3>1
    <3> QED
      BY <1>2, <3>2 DEF Pending
  <2> QED
    BY <2>1, <2>2, <2>3
<1>3. PICK j \in Stages : pipe[j].op = "doorbell" /\ pipe[j].addr = q
  BY <1>2 DEF Pending
<1>4. j = PIPELINE - 1
  <2> SUFFICES ASSUME j # PIPELINE - 1 PROVE FALSE
    OBVIOUS
  <2>1. j + 1 \in Stages /\ j + 1 # 0 /\ (j + 1) - 1 = j
    BY Dimensions
  <2>2. pipe'[j + 1] = pipe[j]
    BY <1>1, <2>1
  <2> QED
    BY <1>3, <2>1, <2>2 DEF Pending
<1> QED
  BY <1>3, <1>4 DEF LastOp

\* A request with a doorbell keeps it, and takes it into the pipeline.
LEMMA RungOnward ==
    ASSUME SchedType, SchedTags, NEW rr \in BOOLEAN, NEW report \in Reports,
           ClockWith(rr, report), NEW tk \in {0, 1}, NEW m \in Nat, Moved(tk, m),
           NEW d \in OpIdx, NEW x \in 0 .. 5, NEW y \in Nat, Rung(d, x, y), d \notin Released
    PROVE  \E u \in 0 .. 5, n \in Nat : Rung(d, u, n)' /\ From(tk, m, u, n, x, y)
<1>1. At(d, x, y) /\ x \in Parts /\ x # 6
  BY DEF Rung, Parts
<1>2. PICK u \in Parts, n \in Nat : At(d, u, n)' /\ From(tk, m, u, n, x, y)
  BY <1>1, Onward
<1>3. u \in 0 .. 5
  BY <1>1, <1>2 DEF From, Parts
<1>4. op_table[d].doorbell => op_table'[d].doorbell
  BY <1>1, SameQueue DEF ClockWith
<1>5. CASE u # 0
  <2>1. x # 0
    BY <1>2, <1>5 DEF From
  <2> QED
    BY <1>2, <1>3, <1>4, <1>5, <2>1 DEF Rung
<1>6. CASE u = 0 /\ n = 0
  <2>1. x = 1 /\ pipe'[0].op = "complete"
    BY <1>2, <1>6 DEF From
  <2>2. PICK f \in finish : pipe'[0].index = f.tag /\ pipe'[0].wdata = CompleteStatus(f)
    BY <2>1 DEF Moved
  <2>3. f.tag = d
    BY <1>2, <1>6, <2>2 DEF At, AtComplete
  <2>4. CompleteStatus(f) = TRUE
    BY <2>1, <2>3 DEF CompleteStatus, Rung
  <2>5. pipe'[0].wdata = TRUE
    BY <2>2, <2>4, Zenon
  <2> QED
    BY <1>2, <1>3, <1>6, <2>5 DEF Rung
<1>7. CASE u = 0 /\ n # 0
  <2>1. x = 0 /\ y = n - 1 /\ n \in Stages
    BY <1>2, <1>7 DEF From
  <2>2. pipe'[n] = pipe[y]
    BY <1>7, <2>1 DEF Moved
  <2> QED
    BY <1>2, <1>3, <1>7, <2>1, <2>2 DEF Rung
<1> QED
  BY <1>5, <1>6, <1>7

\* A clock keeps SchedRung. A doorbell that reaches the last stage marks the tail
\* of its queue (tx_scheduler_rr.v:597), which by SchedTail leaves after every status that
\* finds the queue empty; the mark is read when the tail itself completes.
LEMMA ClockRung ==
    ASSUME SchedIInv, SchedTail, SchedRung, AnyOrder = FALSE, NEW rr \in BOOLEAN,
           NEW report \in Reports, ClockWith(rr, report),
           NEW tk \in {0, 1}, NEW m \in Nat, Moved(tk, m)
    PROVE  SchedRung'
<1> USE DEF SchedIInv
<1>1. packets' = packets /\ Stage0(rr) /\ OpTableNext
  BY DEF ClockWith
<1>2. ASSUME NEW q \in Queues, Waiting(q)'
      PROVE  Waiting(q) \/ (LastOp.op = "doorbell" /\ LastOp.addr = q)
  BY <1>1, <1>2, PendingStep DEF Waiting
<1>3. ASSUME NEW i \in OpIdx, NEW s \in Parts, NEW k \in Nat, Found(i, s, k)',
             Waiting(op_table[i].queue)'
      PROVE  \E d \in OpIdx, t \in 0 .. 5, l \in Nat :
                 /\ Rung(d, t, l)' /\ op_table'[d].queue = op_table'[i].queue
                 /\ NotBefore(s, k, t, l)
  <2>1. At(i, s, k)' /\ s # 6
    BY <1>3 DEF Found, At, AtFinish
  <2>2. PICK t \in Parts, l \in Nat : At(i, t, l) /\ From(tk, m, s, k, t, l)
    BY <2>1, Origins
  <2>3. PICK q \in Queues : q = op_table[i].queue /\ q = op_table'[i].queue
    BY <1>1, <2>2, SameQueue DEF SchedType
  <2>4. Found(i, t, l) /\ Doubt(i, t, l)
    BY <1>3, <2>2, FoundFrom DEF Doubt
  <2>5. Waiting(q)'
    BY <1>3, <2>3 DEF Waiting, Pending
  <2>6. CASE LastOp.op = "doorbell" /\ LastOp.addr = q
    <3>1. PICK a \in OpIdx, x \in 0 .. 5, y \in Nat :
             /\ a = TailOf(i) /\ op_table[a].queue = op_table[i].queue
             /\ At(a, x, y) /\ NotBefore(t, l, x, y)
      BY <2>4 DEF SchedTail
    <3>2. x \in Parts /\ x # 6
      BY DEF Parts
    <3>3. a \notin Released
      BY <2>6 DEF Released
    <3>4. PICK u \in Parts, n \in Nat : At(a, u, n)' /\ From(tk, m, u, n, x, y)
      BY <3>1, <3>2, <3>3, Onward
    <3>5. u \in 0 .. 5
      BY <3>2, <3>4 DEF From, Parts
    <3>6. NotBefore(s, k, u, n)
      BY <2>2, <2>4, <3>1, <3>2, <3>4, OrderKept, NotOvertaken
    <3>7. op_table'[a].queue = q
      BY <1>1, <2>3, <3>1, <3>2, SameQueue
    <3>8. LastOp.data.tail = a
      BY <2>3, <2>6, <3>1, Dimensions DEF SchedPipe, LastOp, TailOf
    <3>9. op_table[a].active
      BY <3>1, <3>2 DEF SchedTags
    <3>10. op_table'[a].doorbell
      <4>1. a \in DoorbellAt
        BY <2>3, <2>6, <3>1, <3>8, <3>9 DEF DoorbellAt, TailActive
      <4> QED
        BY <1>1, <4>1, TableFields
    <3>11. u # 0
      <4> SUFFICES ASSUME u = 0 PROVE FALSE
        OBVIOUS
      <4>1. SchedEntries'
        BY ClockEntries
      <4>2. n \in Stages /\ pipe'[n].op = "complete" /\ pipe'[n].index = a
        BY <3>4 DEF At, AtComplete
      <4>3. pipe'[n].addr = q
        BY <3>7, <4>1, <4>2 DEF SchedEntries
      <4>4. CASE n = 0
        BY <1>1, <2>6, <4>2, <4>3, <4>4, Accepting, Dimensions DEF PipeHazard, LastOp
      <4>5. CASE n # 0
        <5>1. pipe'[n] = pipe[n - 1]
          BY <4>2, <4>5 DEF Moved
        <5>2. n - 1 \in Stages /\ n - 1 # PIPELINE - 1
          BY <4>2, <4>5, Dimensions DEF Stages
        <5> QED
          BY <2>6, <4>2, <4>3, <5>1, <5>2, Dimensions DEF SchedPipe, LastOp
      <4> QED
        BY <4>4, <4>5
    <3>12. Rung(a, u, n)'
      BY <3>4, <3>10, <3>11 DEF Rung
    <3> QED
      BY <2>3, <3>5, <3>6, <3>7, <3>12
  <2>7. CASE ~(LastOp.op = "doorbell" /\ LastOp.addr = q)
    <3>1. Waiting(op_table[i].queue)
      BY <1>2, <2>3, <2>5, <2>7
    <3>2. PICK d \in OpIdx, x \in 0 .. 5, y \in Nat :
             /\ Rung(d, x, y) /\ op_table[d].queue = op_table[i].queue
             /\ NotBefore(t, l, x, y)
      BY <2>4, <3>1 DEF SchedRung
    <3>3. x \in Parts /\ x # 6 /\ At(d, x, y)
      BY <3>2 DEF Parts, Rung
    <3>4. d \notin Released
      BY <2>2, <3>2, <3>3, NotReleased
    <3>5. PICK u \in 0 .. 5, n \in Nat : Rung(d, u, n)' /\ From(tk, m, u, n, x, y)
      BY <3>2, <3>4, RungOnward
    <3>6. NotBefore(s, k, u, n)
      <4>1. u \in Parts
        BY DEF Parts
      <4> QED
        BY <2>2, <2>4, <3>2, <3>3, <3>5, <4>1, OrderKept, NotOvertaken
    <3>7. op_table'[d].queue = q
      BY <1>1, <2>3, <3>2, <3>3, SameQueue
    <3> QED
      BY <2>3, <3>5, <3>6, <3>7
  <2> QED
    BY <2>6, <2>7
<1>4. ASSUME NEW q \in Queues, Waiting(q)'
      PROVE  \/ queue_ram'[q].active
             \/ \E d \in OpIdx, t \in 0 .. 5, l \in Nat :
                  Rung(d, t, l)' /\ op_table'[d].queue = q
  <2>1. CASE LastOp.op = "doorbell" /\ LastOp.addr = q
    <3>1. Update.active
      BY <2>1, UpdateFields
    <3> QED
      BY <2>1, <3>1, Performing DEF ClockWith
  <2>2. CASE ~(LastOp.op = "doorbell" /\ LastOp.addr = q)
    <3>1. Waiting(q)
      BY <1>2, <1>4, <2>2
    <3>2. ASSUME NEW d \in OpIdx, NEW x \in 0 .. 5, NEW y \in Nat, Rung(d, x, y),
                 op_table[d].queue = q
          PROVE  \/ queue_ram'[q].active
                 \/ \E e \in OpIdx, t \in 0 .. 5, l \in Nat :
                      Rung(e, t, l)' /\ op_table'[e].queue = q
      <4>1. x \in Parts /\ x # 6 /\ At(d, x, y)
        BY <3>2 DEF Parts, Rung
      <4>2. op_table'[d].queue = q
        BY <1>1, <3>2, <4>1, SameQueue
      <4>3. CASE d \notin Released
        BY <3>2, <4>2, <4>3, RungOnward
      <4>4. CASE d \in Released
        <5>1. d = LastOp.index /\ (LastOp.op = "complete" \/ LastOp.op = "req")
          BY <4>4 DEF Released
        <5>2. PIPELINE - 1 \in Nat /\ PIPELINE - 1 \in Stages
          BY Dimensions
        <5>3. At(d, 0, PIPELINE - 1) \/ At(d, 6, PIPELINE - 1)
          BY <5>1, <5>2 DEF At, AtComplete, AtRequest, LastOp
        <5>4. x = 0 /\ y = PIPELINE - 1
          BY <4>1, <5>2, <5>3 DEF SchedTags, Parts
        <5>5. LastOp.op = "complete" /\ LastOp.wdata
          BY <3>2, <4>1, <5>4 DEF Rung, At, AtComplete, LastOp
        <5>6. LastOp.addr = q
          BY <3>2, <5>1, <5>2, <5>5 DEF SchedEntries, LastOp
        <5>7. Update.active
          BY <5>5, UpdateFields
        <5> QED
          BY <5>5, <5>6, <5>7, Performing DEF ClockWith
      <4> QED
        BY <4>3, <4>4
    <3>3. CASE queue_ram[q].active /\ ~queue_ram'[q].active
      <4>1. LastOp.addr = q /\ LastOp.op \notin {"none", "read"}
        BY <3>3, Performing DEF ClockWith
      <4>2. LastOp.data = queue_ram[q]
        BY <4>1, Dimensions DEF SchedPipe, LastOp
      <4>3. ~Update.active
        BY <3>3, <4>1, Performing DEF ClockWith
      <4>4. LastOp.op # "init"
        BY <3>3, <4>2, Dimensions DEF SchedInit, LastOp
      <4>5. LastOp.op = "complete" /\ ~LastOp.wdata
        BY <3>3, <4>2, <4>3, <4>4, UpdateFields
      <4>6. PICK i \in OpIdx : i = LastOp.index
        BY LastOpType
      <4>7. /\ Found(i, 0, PIPELINE - 1) /\ PIPELINE - 1 \in Nat
            /\ op_table[i].queue = q
        BY <4>1, <4>5, <4>6, Dimensions DEF Found, At, AtComplete, LastOp, SchedEntries
      <4>8. \E d \in OpIdx, t \in 0 .. 5, l \in Nat : Rung(d, t, l) /\ op_table[d].queue = q
        <5>1. Waiting(op_table[i].queue) /\ 0 \in Parts
          BY <3>1, <4>7 DEF Parts
        <5> QED
          BY <4>7, <5>1 DEF SchedRung
      <4> QED
        BY <3>2, <4>8
    <3>4. \/ queue_ram[q].active
          \/ \E d \in OpIdx, t \in 0 .. 5, l \in Nat : Rung(d, t, l) /\ op_table[d].queue = q
      BY <3>1 DEF SchedRung
    <3> QED
      BY <3>2, <3>3, <3>4
  <2> QED
    BY <2>1, <2>2
<1> QED
  BY <1>3, <1>4 DEF SchedRung

\* An answer of the transmit engine does not change the order of two requests.
LEMMA DequeueOrder ==
    ASSUME SchedType, Dequeue, NEW s \in Parts, NEW k \in Nat, NEW t \in Parts, NEW l \in Nat,
           NEW u \in Parts, NEW n \in Nat, NEW x \in Parts, NEW y \in Nat,
           FromD(s, k, t, l), FromD(u, n, x, y), NotBefore(t, l, x, y)
    PROVE  NotBefore(s, k, u, n)
<1>1. Len(results) \in Nat /\ Len(engine) \in Nat
  BY DEF SchedType
<1> QED
  BY <1>1 DEF FromD, NotBefore, Parts

\* An answer of the transmit engine keeps SchedTail.
LEMMA DequeueTail ==
    ASSUME SchedIInv, SchedTail, Dequeue
    PROVE  SchedTail'
<1> USE DEF SchedIInv
<1>1. UNCHANGED <<queue_ram, pipe, op_table, tx_req, finish_fifo, finish>>
  BY DequeueMoves DEF hw_vars
<1> SUFFICES ASSUME NEW i \in OpIdx, NEW s \in Parts, NEW k \in Nat, Doubt(i, s, k)'
             PROVE  \E a \in OpIdx :
                       /\ a = TailOf(i)' /\ op_table'[a].queue = op_table'[i].queue
                       /\ \E t \in 0 .. 5, l \in Nat : At(a, t, l)' /\ NotBefore(s, k, t, l)
  BY DEF SchedTail
<1>2. At(i, s, k)' /\ s # 6
  BY DEF Doubt, Found, At, AtFinish
<1>3. PICK t \in Parts, l \in Nat : At(i, t, l) /\ FromD(s, k, t, l)
  BY <1>2, DequeueOrigins
<1>4. Doubt(i, t, l)
  <2>1. CASE s \in {0, 1, 2}
    BY <1>1, <1>3, <2>1 DEF FromD, Doubt, Found, At, AtComplete, AtFifo, AtFinish
  <2>2. CASE s = 3 /\ t = 3
    <3>1. ~results'[k].status /\ l = k /\ k \in 1 .. Len(results)
      BY <2>2, <1>3 DEF FromD, Doubt, Found
    <3>2. results'[k] = results[k]
      BY <3>1, DequeueMoves
    <3> QED
      BY <1>3, <2>2, <3>1, <3>2 DEF Doubt, Found
  <2>3. CASE t \in {4, 5}
    BY <1>3, <2>3 DEF Doubt
  <2> QED
    BY <1>2, <1>3, <2>1, <2>2, <2>3 DEF FromD, Parts
<1>5. PICK a \in OpIdx, x \in 0 .. 5, y \in Nat :
         /\ a = TailOf(i) /\ op_table[a].queue = op_table[i].queue
         /\ At(a, x, y) /\ NotBefore(t, l, x, y)
  BY <1>4 DEF SchedTail
<1>6. x \in Parts /\ x # 6
  BY DEF Parts
<1>7. PICK u \in Parts, n \in Nat : At(a, u, n)' /\ FromD(u, n, x, y)
  BY <1>5, <1>6, DequeueOnward
<1>8. u \in 0 .. 5
  BY <1>6, <1>7 DEF FromD, Parts
<1>9. NotBefore(s, k, u, n)
  BY <1>3, <1>5, <1>6, <1>7, DequeueOrder
<1>10. a = TailOf(i)' /\ op_table'[a].queue = op_table'[i].queue
  BY <1>1, <1>5 DEF TailOf
<1> QED
  BY <1>7, <1>8, <1>9, <1>10

\* A dequeue that finds the queue empty leaves no packet waiting.
LEMMA DequeueRung ==
    ASSUME SchedIInv, SchedRung, Dequeue
    PROVE  SchedRung'
<1> USE DEF SchedIInv
<1>1. UNCHANGED <<queue_ram, pipe, op_table, tx_req, finish_fifo, finish, doorbell_fifo>>
  BY DequeueMoves DEF hw_vars
<1>2. packets' = [packets EXCEPT ![engine[1].queue] =
                     IF packets[engine[1].queue] > 0 THEN packets[engine[1].queue] - 1 ELSE 0]
  <2>1. engine \in Seq(Requests) /\ engine # <<>>
    BY DEF SchedType, Dequeue
  <2>2. Head(engine) = engine[1]
    BY <2>1
  <2> QED
    BY <2>2 DEF Dequeue
<1>3. engine[1].queue \in Queues /\ engine[1].queue = op_table[engine[1].tag].queue
  BY DequeueMoves DEF Requests, SchedEntries
<1>4. ASSUME NEW q \in Queues, Waiting(q)'
      PROVE  Waiting(q) /\ (q = engine[1].queue => packets[q] > 0)
  BY <1>1, <1>2, <1>3, <1>4 DEF Waiting, Pending, SchedType
<1>5. ASSUME NEW d \in OpIdx, NEW x \in 0 .. 5, NEW y \in Nat, Rung(d, x, y)
      PROVE  \E u \in 0 .. 5, n \in Nat : Rung(d, u, n)' /\ FromD(u, n, x, y)
  <2>1. At(d, x, y) /\ x \in Parts /\ x # 6
    BY <1>5 DEF Rung, Parts
  <2>2. PICK u \in Parts, n \in Nat : At(d, u, n)' /\ FromD(u, n, x, y)
    BY <2>1, DequeueOnward
  <2>3. u \in 0 .. 5 /\ (u = 0 <=> x = 0) /\ (u = 0 => n = y)
    BY <2>1, <2>2 DEF FromD, Parts
  <2> QED
    BY <1>1, <1>5, <2>2, <2>3 DEF Rung
<1>6. ASSUME NEW i \in OpIdx, NEW s \in Parts, NEW k \in Nat, Found(i, s, k)',
             Waiting(op_table[i].queue)'
      PROVE  \E d \in OpIdx, t \in 0 .. 5, l \in Nat :
                 /\ Rung(d, t, l)' /\ op_table'[d].queue = op_table'[i].queue
                 /\ NotBefore(s, k, t, l)
  <2>1. At(i, s, k)' /\ s \in {0, 1, 2, 3}
    BY <1>6 DEF Found, At, AtFinish
  <2>2. PICK q \in Queues : q = op_table[i].queue
    BY DEF SchedType
  <2>3. Waiting(q)'
    BY <1>1, <1>6, <2>2 DEF Waiting, Pending
  <2>4. PICK t \in Parts, l \in Nat : At(i, t, l) /\ FromD(s, k, t, l)
    BY <2>1, DequeueOrigins
  <2>5. Found(i, t, l)
    <3>1. CASE s \in {0, 1, 2}
      BY <1>1, <1>6, <2>4, <3>1 DEF FromD, Found, At, AtComplete, AtFifo, AtFinish
    <3>2. CASE s = 3 /\ t = 3
      <4>1. ~results'[k].status /\ l = k /\ k \in 1 .. Len(results)
        BY <1>6, <2>4, <3>2 DEF FromD, Found
      <4>2. results'[k] = results[k]
        BY <4>1, DequeueMoves
      <4> QED
        BY <2>4, <3>2, <4>1, <4>2 DEF Found
    <3>3. CASE s = 3 /\ t = 4
      <4>1. l = 1 /\ k = Len(results) + 1 /\ ~results'[k].status
        BY <1>6, <2>4, <3>3 DEF FromD, Found
      <4>2. engine[1].tag = i
        BY <2>4, <3>3, <4>1 DEF At, AtEngine
      <4>3. ~(packets[engine[1].queue] > 0)
        BY <4>1, DequeueMoves
      <4> QED
        BY <1>3, <1>4, <2>2, <2>3, <4>2, <4>3
    <3> QED
      BY <2>1, <2>4, <3>1, <3>2, <3>3 DEF FromD
  <2>6. Waiting(op_table[i].queue)
    BY <1>4, <2>2, <2>3
  <2>7. PICK d \in OpIdx, x \in 0 .. 5, y \in Nat :
           /\ Rung(d, x, y) /\ op_table[d].queue = op_table[i].queue
           /\ NotBefore(t, l, x, y)
    BY <2>5, <2>6 DEF SchedRung
  <2>8. PICK u \in 0 .. 5, n \in Nat : Rung(d, u, n)' /\ FromD(u, n, x, y)
    BY <1>5, <2>7
  <2>9. u \in Parts /\ x \in Parts
    BY DEF Parts
  <2>10. NotBefore(s, k, u, n)
    BY <2>4, <2>7, <2>8, <2>9, DequeueOrder
  <2> QED
    BY <1>1, <2>7, <2>8, <2>10
<1>7. ASSUME NEW q \in Queues, Waiting(q)'
      PROVE  \/ queue_ram'[q].active
             \/ \E d \in OpIdx, t \in 0 .. 5, l \in Nat :
                  Rung(d, t, l)' /\ op_table'[d].queue = q
  <2>1. Waiting(q)
    BY <1>4, <1>7
  <2>2. \/ queue_ram[q].active
        \/ \E d \in OpIdx, t \in 0 .. 5, l \in Nat : Rung(d, t, l) /\ op_table[d].queue = q
    BY <2>1 DEF SchedRung
  <2> QED
    BY <1>1, <1>5, <2>2
<1> QED
  BY <1>6, <1>7 DEF SchedRung

\* A step outside the hardware that adds no waiting packet keeps the order.
LEMMA OutsideRung ==
    ASSUME SchedType, SchedTail, SchedRung, UNCHANGED <<hw_vars, engine, results>>,
           \A q \in Queues : Waiting(q)' => Waiting(q)
    PROVE  SchedTail' /\ SchedRung'
<1>1. UNCHANGED <<queue_ram, pipe, op_table, rr_fifo, tx_req, finish_fifo, finish, init_index,
                  engine, results>>
  BY DEF hw_vars
<1>2. \A i \in OpIdx, s \in Parts, k \in Nat : At(i, s, k)' <=> At(i, s, k)
  BY <1>1 DEF At, AtComplete, AtFinish, AtFifo, AtResults, AtEngine, AtRegister, AtRequest
<1>3. \A i \in OpIdx, s \in Parts, k \in Nat :
         /\ Found(i, s, k)' <=> Found(i, s, k)
         /\ Doubt(i, s, k)' <=> Doubt(i, s, k)
  BY <1>1, <1>2 DEF Found, Doubt
<1>4. \A i \in OpIdx, s \in 0 .. 5, k \in Nat : Rung(i, s, k)' <=> Rung(i, s, k)
  BY <1>1, <1>2 DEF Rung, Parts
<1>5. SchedTail'
  <2>1. \A i \in OpIdx : TailOf(i)' = TailOf(i)
    BY <1>1 DEF TailOf
  <2>2. 0 .. 5 \subseteq Parts
    BY DEF Parts
  <2> QED
    BY <1>1, <1>2, <1>3, <2>1, <2>2 DEF SchedTail
<1>6. ASSUME NEW i \in OpIdx, Waiting(op_table[i].queue)'
      PROVE  Waiting(op_table[i].queue)
  <2>1. PICK q \in Queues : q = op_table[i].queue
    BY DEF SchedType
  <2>2. Waiting(q)'
    BY <1>1, <1>6, <2>1 DEF Waiting, Pending
  <2> QED
    BY <2>1, <2>2
<1>7. SchedRung'
  BY <1>1, <1>3, <1>4, <1>6 DEF SchedRung
<1> QED
  BY <1>5, <1>7

SchedOrder == SchedIInv /\ SchedTail /\ SchedRung

\* Every step keeps the order, if empty statuses leave in the order of requests.
LEMMA OrderInductive ==
    ASSUME AnyOrder = FALSE, SchedOrder, [Next]_vars
    PROVE  SchedOrder'
<1> USE DEF SchedOrder
<1>0. SchedIInv' /\ SchedType
  BY SchedInductive DEF SchedIInv
<1>1. CASE Clock
  <2>1. PICK rr \in BOOLEAN, report \in Reports : ClockWith(rr, report)
    BY <1>1, ClockIs
  <2>2. PICK tk \in {0, 1}, m \in Nat : Moved(tk, m)
    BY <2>1, ClockMoves DEF SchedIInv
  <2> QED
    BY <1>0, <2>1, <2>2, ClockTail, ClockRung
<1>2. CASE Dequeue
  BY <1>0, <1>2, DequeueTail, DequeueRung
<1>3. CASE SchedulerEnable \/ SchedulerDisable \/ UNCHANGED vars
  <2>1. UNCHANGED <<hw_vars, engine, results, doorbell_fifo, packets, pipe>>
    BY <1>3 DEF SchedulerEnable, SchedulerDisable, vars, hw_vars
  <2>2. \A q \in Queues : Waiting(q)' => Waiting(q)
    BY <2>1 DEF Waiting, Pending
  <2> QED
    BY <1>0, <2>1, <2>2, OutsideRung
<1>4. ASSUME NEW p \in Queues, Post(p) PROVE SchedOrder'
  <2>1. UNCHANGED <<hw_vars, engine, results, pipe>>
    BY <1>4 DEF Post, hw_vars
  <2>2. /\ packets \in [Queues -> Nat] /\ packets' = [packets EXCEPT ![p] = packets[p] + 1]
        /\ doorbell_fifo \in Seq(Queues) /\ doorbell_fifo' = Append(doorbell_fifo, p)
    BY <1>0, <1>4 DEF Post, SchedType
  <2>3. /\ Len(doorbell_fifo) \in Nat /\ Len(doorbell_fifo') = Len(doorbell_fifo) + 1
        /\ \A k \in 1 .. Len(doorbell_fifo) : doorbell_fifo'[k] = doorbell_fifo[k]
        /\ doorbell_fifo'[Len(doorbell_fifo) + 1] = p
    BY <2>2
  <2>4. Pending(p)'
    BY <2>3 DEF Pending
  <2>5. \A q \in Queues : Pending(q) => Pending(q)'
    BY <2>1, <2>3 DEF Pending
  <2>6. \A q \in Queues : Waiting(q)' => Waiting(q)
    BY <2>2, <2>4, <2>5 DEF Waiting
  <2> QED
    BY <1>0, <2>1, <2>6, OutsideRung
<1>5. ASSUME NEW p \in Queues, OtherPort(p) PROVE SchedOrder'
  <2>1. UNCHANGED <<hw_vars, engine, results, doorbell_fifo, pipe>>
    BY <1>5 DEF OtherPort, hw_vars
  <2>2. /\ packets \in [Queues -> Nat] /\ packets' = [packets EXCEPT ![p] = packets[p] - 1]
    BY <1>0, <1>5 DEF OtherPort, SchedType
  <2>3. \A q \in Queues : Waiting(q)' => Waiting(q)
    BY <2>1, <2>2 DEF Waiting, Pending
  <2> QED
    BY <1>0, <2>1, <2>3, OutsideRung
<1> QED
  BY <1>1, <1>2, <1>3, <1>4, <1>5 DEF Next

\* When statuses that found a queue empty come in the order of the requests, as the
\* transmit engine sends them, no queue with packets is mistaken for empty: once no
\* doorbell, operation or request of the queue is on its way, the queue is active
\* and in the FIFO, although a doorbell may overtake the status of a failed request.
THEOREM NothingForgotten ==
    ASSUME AnyOrder = FALSE
    PROVE  Spec => []NeverForgotten
<1>1. ASSUME Init PROVE SchedOrder
  <2>1. SchedIInv
    BY <1>1, SchedStart
  <2>2. \A i, s, k : ~At(i, s, k)
    BY <1>1 DEF Init, At, AtComplete, AtFinish, AtFifo, AtResults, AtEngine, AtRegister,
                AtRequest, NoOp
  <2>3. \A i, s, k : ~Found(i, s, k) /\ ~Doubt(i, s, k)
    BY <1>1, <2>2 DEF Init, Found, Doubt
  <2>4. \A q \in Queues : ~Waiting(q)
    BY <1>1 DEF Init, Waiting
  <2> QED
    BY <2>1, <2>3, <2>4 DEF SchedOrder, SchedTail, SchedRung
<1>2. ASSUME SchedOrder, [Next]_vars PROVE SchedOrder'
  BY <1>2, OrderInductive
<1>3. ASSUME SchedOrder PROVE NeverForgotten
  <2> SUFFICES ASSUME NEW q \in Queues, queue_ram[q].enabled,
                      SCHED_CTRL_ENABLE => queue_ram[q].sched, Quiet(q), packets[q] > 0
               PROVE  queue_ram[q].active /\ queue_ram[q].scheduled
    BY DEF NeverForgotten, Circulates
  <2>1. Waiting(q)
    BY DEF Waiting, Pending, Quiet, PipeHazard
  <2>2. ~\E d \in OpIdx, t \in 0 .. 5, l \in Nat : Rung(d, t, l) /\ op_table[d].queue = q
    BY <1>3 DEF SchedOrder, SchedIInv, SchedTags, Rung, Quiet, Parts
  <2>3. queue_ram[q].active
    BY <1>3, <2>1, <2>2 DEF SchedOrder, SchedRung
  <2> QED
    BY <1>3, <2>3 DEF SchedOrder, SchedIInv, SchedWord
<1> QED
  BY <1>1, <1>2, <1>3, PTL DEF Spec
=============================================================================
