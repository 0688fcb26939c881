----------------------- MODULE CplQueueManager_proofs -----------------------
(***************************************************************************)
(* Theorems about CplQueueManager, for every number of queues, operation   *)
(* table size, pipeline depth, pointer width, number of register writes on *)
(* the bus and NAPI budget: the records the driver reads are fresh, the    *)
(* slots the hardware writes are free, no completion is dropped, no        *)
(* wake-up is lost, and the module implements CplQueue.                    *)
(***************************************************************************)
EXTENDS CplQueueManager, PointerTheorems

(* Types.                                                                  *)

Words == [prod : Ptrs, cons : Ptrs, event : Nat, log_size : LogSizes \cup {0},
          armed : Bit, enable : Bit, op_index : OpIdx, base : Bases \cup {0}]

Entries == [op : OpKinds, addr : Queues, data : Words, wdata : Nat]

\* The value a write, or an operation of the pipeline, carries suits it.
GoodData(e) ==
    /\ e.op = "set_base" => e.wdata \in Bases \cup {0}
    /\ e.op = "set_size" => e.wdata \in LogSizes \cup {0}
    /\ e.op \in {"set_prod", "set_cons", "set_cons_arm", "commit"} => e.wdata \in Ptrs
    /\ e.op \in {"set_enable", "set_arm"} => e.wdata \in Bit

OpEntries == [active : BOOLEAN, commit : BOOLEAN, queue : Queues, queue_ptr : Ptrs]

Resps == [valid : {TRUE}, queue : Queues, ptr : Ptrs, phase : BOOLEAN,
          base : Bases \cup {0}, slot : Ptrs, op_tag : OpIdx, error : BOOLEAN,
          full : BOOLEAN]

Jobs == [queue : Queues, ptr : Ptrs, phase : BOOLEAN, slot : Ptrs,
         base : Bases \cup {0}, op_tag : OpIdx, written : BOOLEAN]

Records == [phase : BOOLEAN, ptr : 0 .. PtrMod]

Writes == [op : SetOps \cup {"ring"}, addr : Queues, wdata : Nat]

CqStates == {"opening", "open", "stopping", "down"}

Cqs == [pc : CqStates, step : 0 .. 9, cons : Ptrs, log_size : LogSizes \cup {0},
        base : Bases \cup {0}, free : Nat]

Napis == [state : {"idle", "sched", "poll", "complete"}, done : Nat,
          missed : BOOLEAN, arming : Nat]

\* Every register of the module, and what the driver and the bus keep, has its type.
TypeOK ==
    /\ queue_ram \in [Queues -> Words]
    /\ pipe \in [Stages -> Entries]
    /\ \A j \in Stages : GoodData(pipe[j])
    /\ op_table \in [OpIdx -> OpEntries]
    /\ op_table_start_ptr \in OpIdx
    /\ op_table_finish_ptr \in OpIdx
    /\ resp \in Resps \cup {NoResp}
    /\ \A e \in event : e.source \in Queues
    /\ held \subseteq Jobs
    /\ buf \in [Queues -> [Ptrs -> Records]]
    /\ slots \in [Queues -> Nat]
    /\ mmio \in Seq(Writes)
    /\ \A k \in 1 .. Len(mmio) : GoodData(mmio[k])
    /\ pending \in [Queues -> Nat]
    /\ cq \in [Queues -> Cqs]
    /\ napi \in [Queues -> Napis]

\* The index and pointer sets are what their bounds say, and never empty.
LEMMA Constants ==
    /\ 0 \in Queues /\ 0 \in OpIdx /\ 0 \in Stages /\ 0 \in Ptrs
    /\ PIPELINE - 1 \in Stages
    /\ \A j \in Stages \ {0} : j - 1 \in Stages
BY CplQueueCountAssumption, CplOpTableAssumption, CplPipelineAssumption, CplPtrModAssumption
   DEF Queues, OpIdx, Stages, Ptrs

\* The sizes of the queues: a pointer goes an even number of laps before it wraps.
LEMMA Sizes ==
    ASSUME NEW l \in LogSizes \cup {0}
    PROVE  /\ 2^l \in Nat \ {0} /\ 2^l < PtrMod
           /\ \E n \in Nat \ {0} : PtrMod = n * (2 * 2^l)
<1>1. PICK m : m = 2^l
  OBVIOUS
<1>2. m \in Nat \ {0} /\ \E n \in 1 .. PtrMod : PtrMod = n * (2 * m)
  BY <1>1, CplSizesAssumption
<1>3. PICK n \in 1 .. PtrMod : PtrMod = n * (2 * m)
  BY <1>2
<1>4. n \in Nat \ {0} /\ PtrMod \in Nat
  BY CplPtrModAssumption
<1>5. m < n * (2 * m)
  BY <1>2, <1>4
<1> QED BY <1>1, <1>2, <1>3, <1>4, <1>5

\* Pointer and index arithmetic stays in range.
LEMMA Arithmetic ==
    /\ \A p \in Int : p % PtrMod \in Ptrs
    /\ \A p \in Ptrs : Inc(p) \in Ptrs
    /\ \A i \in OpIdx : NextIdx(i) \in OpIdx
    /\ \A p \in Ptrs, l \in LogSizes \cup {0} : Slot(p, l) \in Ptrs
<1>1. \A p \in Int : p % PtrMod \in Ptrs
  BY CplPtrModAssumption, CplOpTableAssumption DEF Ptrs
<1>2. \A p \in Ptrs : Inc(p) \in Ptrs
  BY <1>1, CplPtrModAssumption DEF Inc, Ptrs
<1>3. \A i \in OpIdx : NextIdx(i) \in OpIdx
  BY CplOpTableAssumption DEF NextIdx, OpIdx
<1>4. \A p \in Ptrs, l \in LogSizes \cup {0} : Slot(p, l) \in Ptrs
  <2> SUFFICES ASSUME NEW p \in Ptrs, NEW l \in LogSizes \cup {0}
               PROVE  Slot(p, l) \in Ptrs
    OBVIOUS
  <2>1. p \in Nat
    BY CplPtrModAssumption DEF Ptrs
  <2>2. PICK m \in Nat \ {0} : m = 2^l /\ m < PtrMod
    BY Sizes
  <2>3. p % m \in 0 .. m - 1
    BY <2>1
  <2> QED BY <2>2, <2>3, CplPtrModAssumption DEF Slot, Ptrs
<1> QED BY <1>1, <1>2, <1>3, <1>4

\* The reset state is well typed.
LEMMA TypeInit == Init => TypeOK
<1> SUFFICES ASSUME Init PROVE TypeOK
  OBVIOUS
<1>1. ResetWord \in Words /\ 0 \in Nat
  BY Constants DEF ResetWord, Words, Bit
<1>2. NoOp \in Entries /\ GoodData(NoOp)
  BY <1>1, Constants DEF NoOp, Entries, OpKinds, GoodData
<1>3. FreeEntry \in OpEntries
  BY Constants DEF FreeEntry, OpEntries
<1>4. NoRecord \in Records
  BY CplPtrModAssumption DEF NoRecord, Records
<1>5. CqClosed \in Cqs /\ NapiIdle \in Napis
  BY Constants DEF CqClosed, Cqs, CqStates, NapiIdle, Napis
<1>6. mmio = <<>> /\ Len(mmio) = 0 /\ mmio \in Seq(Writes)
  BY DEF Init
<1>7. /\ queue_ram \in [Queues -> Words] /\ pipe \in [Stages -> Entries]
      /\ \A j \in Stages : GoodData(pipe[j])
      /\ op_table \in [OpIdx -> OpEntries]
  BY <1>1, <1>2, <1>3 DEF Init
<1>8. buf \in [Queues -> [Ptrs -> Records]]
  BY <1>4 DEF Init
<1> QED BY <1>1, <1>5, <1>6, <1>7, <1>8, Constants DEF Init, TypeOK

\* What stage 0 loads: an entry of the right type that carries the current word of a
\* queue no other stage works on, with the conditions under which a register write, a
\* reservation or a retirement is accepted, and what becomes of the bus and the rings.
Loads(e, r, v) ==
    /\ GoodData(e)
    /\ Shift(e)
    /\ e.op # "none" => e.data = queue_ram[e.addr] /\ ~PipeHazard(e.addr)
    /\ e.op = "req" => /\ ~op_table[op_table_start_ptr].active
                       /\ resp.valid => r
                       /\ ~InPipe({"req"})
                       /\ slots[e.addr] > 0
                       /\ slots' = [slots EXCEPT ![e.addr] = @ - 1]
    /\ e.op # "req" => slots' = slots
    /\ e.op = "commit" => /\ CommitReady(v)
                          /\ e.addr = op_table[op_table_finish_ptr].queue
                          /\ e.wdata = op_table[op_table_finish_ptr].queue_ptr
    /\ e.op \in SetOps => /\ ~InPipe(SetOps) /\ mmio # <<>>
                          /\ e.op = Head(mmio).op /\ e.addr = Head(mmio).addr
                          /\ e.wdata = Head(mmio).wdata
                          /\ mmio' = Tail(mmio)
    /\ e.op \notin SetOps => mmio' = mmio

\* The write at the head of the bus.
LEMMA HeadType ==
    ASSUME TypeOK, mmio # <<>>
    PROVE  /\ Head(mmio) = mmio[1] /\ 1 \in 1 .. Len(mmio) /\ Len(mmio) \in Nat
           /\ Head(mmio) \in Writes /\ GoodData(Head(mmio))
           /\ Tail(mmio) \in Seq(Writes) /\ Len(Tail(mmio)) = Len(mmio) - 1
           /\ \A k \in 1 .. Len(mmio) - 1 : /\ Tail(mmio)[k] = mmio[k + 1]
                                            /\ k + 1 \in 1 .. Len(mmio)
<1>1. mmio \in Seq(Writes)
  BY DEF TypeOK
<1>2. Len(mmio) \in Nat /\ Len(mmio) > 0
  BY <1>1
<1>3. Head(mmio) = mmio[1] /\ 1 \in 1 .. Len(mmio) /\ mmio[1] \in Writes
  BY <1>1, <1>2
<1>4. Tail(mmio) \in Seq(Writes) /\ Len(Tail(mmio)) = Len(mmio) - 1
  BY <1>1, <1>2
<1>5. \A k \in 1 .. Len(mmio) - 1 : Tail(mmio)[k] = mmio[k + 1]
  BY <1>1, <1>2
<1> QED BY <1>2, <1>3, <1>4, <1>5 DEF TypeOK

\* Stage 0 loads one entry per clock, whatever it accepts.
LEMMA Stage0Loads ==
    ASSUME TypeOK, NEW r \in BOOLEAN, NEW v, Stage0(r, v)
    PROVE  \E e \in Entries : Loads(e, r, v)
<1> USE DEF SetOps
<1>1. CASE AxilWrite
  <2>1. PICK w : w = Head(mmio)
    OBVIOUS
  <2>2. w \in Writes /\ GoodData(w) /\ w.op # "ring" /\ w.op \in SetOps
    BY <1>1, <2>1, HeadType DEF AxilWrite
  <2> DEFINE e == [op |-> w.op, addr |-> w.addr, data |-> queue_ram[w.addr],
                   wdata |-> w.wdata]
  <2>3. e \in Entries
    BY <2>2 DEF TypeOK, Entries, OpKinds, Writes
  <2>4. GoodData(e)
    BY <2>2 DEF GoodData
  <2>5. /\ ~InPipe(SetOps) /\ ~PipeHazard(w.addr) /\ mmio # <<>> /\ Shift(e)
        /\ mmio' = Tail(mmio) /\ slots' = slots
    BY <1>1, <2>1 DEF AxilWrite, Load
  <2>6. Loads(e, r, v)
    BY <2>1, <2>2, <2>4, <2>5 DEF Loads
  <2> QED BY <2>3, <2>6
<1>2. CASE \E q \in ReadQueues : AxilRead(q)
  <2>1. PICK q \in Queues : AxilRead(q)
    BY <1>2, CplConfigAssumption
  <2> DEFINE e == [op |-> "read", addr |-> q, data |-> queue_ram[q], wdata |-> 0]
  <2>2. e \in Entries
    BY DEF TypeOK, Entries, OpKinds
  <2>3. Loads(e, r, v)
    BY <2>1 DEF Loads, AxilRead, Load, GoodData
  <2> QED BY <2>2, <2>3
<1>3. CASE CommitFinalize(v)
  <2> DEFINE t == op_table[op_table_finish_ptr]
             e == [op |-> "commit", addr |-> t.queue, data |-> queue_ram[t.queue],
                   wdata |-> t.queue_ptr]
  <2>1. t \in OpEntries
    BY DEF TypeOK
  <2>2. t.queue \in Queues /\ t.queue_ptr \in Ptrs /\ t.queue_ptr \in Nat
    BY <2>1, CplPtrModAssumption DEF OpEntries, Ptrs
  <2>3. e \in Entries
    BY <2>2 DEF TypeOK, Entries, OpKinds
  <2>4. Loads(e, r, v)
    BY <1>3, <2>2 DEF Loads, CommitFinalize, CommitReady, Load, GoodData
  <2> QED BY <2>3, <2>4
<1>4. CASE \E q \in Queues : EnqueueRequest(q, r, v)
  <2>1. PICK q \in Queues : EnqueueRequest(q, r, v)
    BY <1>4
  <2> DEFINE e == [op |-> "req", addr |-> q, data |-> queue_ram[q], wdata |-> 0]
  <2>2. e \in Entries
    BY DEF TypeOK, Entries, OpKinds
  <2>3. Loads(e, r, v)
    BY <2>1 DEF Loads, EnqueueRequest, Load, GoodData
  <2> QED BY <2>2, <2>3
<1>5. CASE Bubble(v)
  <2>1. NoOp \in Entries
    BY Constants DEF NoOp, Entries, OpKinds, Words, ResetWord, Bit
  <2>2. Loads(NoOp, r, v)
    BY <1>5 DEF Loads, Bubble, GoodData, NoOp
  <2> QED BY <2>1, <2>2
<1> QED BY <1>1, <1>2, <1>3, <1>4, <1>5 DEF Stage0

\* The operation in the last stage, and the pointer a reservation there would use.
LEMMA LastType ==
    ASSUME TypeOK
    PROVE  /\ Last \in Entries /\ GoodData(Last)
           /\ Last.addr \in Queues /\ Last.data \in Words
           /\ ActiveProdPtr \in Ptrs
<1>1. Last \in Entries /\ GoodData(Last)
  BY Constants DEF TypeOK, Last
<1>2. Last.addr \in Queues /\ Last.data \in Words
  BY <1>1 DEF Entries
<1>3. Last.data.op_index \in OpIdx /\ Last.data.prod \in Ptrs
  BY <1>2 DEF Words
<1>4. op_table[Last.data.op_index].queue_ptr \in Ptrs
  BY <1>3 DEF TypeOK, OpEntries
<1> QED BY <1>1, <1>2, <1>3, <1>4 DEF ActiveProdPtr

\* Performing the operation in the last stage keeps the queue words typed.
LEMMA PerformType ==
    ASSUME TypeOK, Perform
    PROVE  queue_ram' \in [Queues -> Words]
<1>1. /\ Last \in Entries /\ GoodData(Last) /\ Last.addr \in Queues /\ Last.data \in Words
      /\ queue_ram \in [Queues -> Words] /\ op_table_start_ptr \in OpIdx
  BY LastType DEF TypeOK
<1>2. CASE PerformReq
  BY <1>1, <1>2 DEF PerformReq, Words
<1>3. CASE PerformCommit
  <2>1. PICK a : a = IF CommitEvent THEN 0 ELSE queue_ram[Last.addr].armed
    OBVIOUS
  <2>2. a \in Bit
    BY <1>1, <2>1 DEF Words, Bit
  <2>3. Last.wdata \in Ptrs
    BY <1>1, <1>3 DEF PerformCommit, GoodData
  <2>4. queue_ram' = [queue_ram EXCEPT ![Last.addr].prod = Last.wdata, ![Last.addr].armed = a]
    BY <1>1, <1>3, <2>1 DEF PerformCommit
  <2> QED BY <1>1, <2>2, <2>3, <2>4 DEF Words
<1>4. CASE PerformWrite
  <2>1. ASSUME NEW w \in Words PROVE WriteWord(w) \in Words
    <3>1. Last.data.log_size \in LogSizes \cup {0} /\ Last.data.armed \in Bit
          /\ Last.data.enable \in Bit /\ Last.wdata \in Nat
      BY <1>1 DEF Words, Entries
    <3>2. 0 \in Bit /\ 1 \in Bit
      BY DEF Bit
    <3> QED BY <1>1, <1>4, <3>1, <3>2 DEF WriteWord, Words, GoodData
  <2> QED BY <1>1, <1>4, <2>1 DEF PerformWrite
<1>5. CASE PerformNothing
  BY <1>1, <1>5 DEF PerformNothing
<1> QED BY <1>2, <1>3, <1>4, <1>5 DEF Perform

\* One clock: entry e enters, r and v say whether the response and the event are taken,
\* and the operations in done, of the entries in tags, are committed.
TagsOf(done, tags) == tags = {h.op_tag : h \in done}

Tick(e, r, v, done, tags) ==
    /\ e \in Entries /\ r \in BOOLEAN /\ v \in EventReady /\ done \in CommitChoices
    /\ TagsOf(done, tags)
    /\ Loads(e, r, v)
    /\ Perform
    /\ RespNext(r)
    /\ EventNext(v)
    /\ OpTableNext(tags)
    /\ HeldNext(r, done)
    /\ UNCHANGED <<buf, cq, napi>>

\* A step of the clock is one of those.
LEMMA Ticks ==
    ASSUME TypeOK, Clock
    PROVE  \E e, r, v, done, tags : Tick(e, r, v, done, tags)
<1>1. PICK r \in BOOLEAN, v \in EventReady, done \in CommitChoices :
          /\ Stage0(r, v)
          /\ Perform
          /\ RespNext(r)
          /\ EventNext(v)
          /\ OpTableNext({h.op_tag : h \in done})
          /\ HeldNext(r, done)
          /\ UNCHANGED <<buf, cq, napi>>
  BY DEF Clock
<1>2. PICK e \in Entries : Loads(e, r, v)
  BY <1>1, Stage0Loads
<1>3. PICK tags : tags = {h.op_tag : h \in done}
  OBVIOUS
<1>4. Tick(e, r, v, done, tags)
  BY <1>1, <1>2, <1>3 DEF Tick, TagsOf
<1> QED BY <1>4

\* A response becomes a job of cpl_write.
LEMMA JobType ==
    ASSUME NEW x \in Resps
    PROVE  /\ Job(x) \in Jobs /\ ~Job(x).written
           /\ Job(x).queue = x.queue /\ Job(x).ptr = x.ptr /\ Job(x).phase = x.phase
           /\ Job(x).slot = x.slot /\ Job(x).base = x.base /\ Job(x).op_tag = x.op_tag
<1>1. Job(x) = [queue |-> x.queue, ptr |-> x.ptr, phase |-> x.phase, slot |-> x.slot,
                base |-> x.base, op_tag |-> x.op_tag, written |-> FALSE]
  BY DEF Job
<1>2. Job(x) \in Jobs /\ Job(x).written = FALSE
  BY <1>1 DEF Resps, Jobs
<1> QED BY <1>1, <1>2

\* The clock keeps every register typed.
LEMMA ClockType ==
    ASSUME TypeOK, NEW e, NEW r, NEW v, NEW done, NEW tags, Tick(e, r, v, done, tags)
    PROVE  TypeOK'
<1>1. /\ Last \in Entries /\ GoodData(Last) /\ Last.addr \in Queues /\ Last.data \in Words
      /\ ActiveProdPtr \in Ptrs
  BY LastType
<1>2. queue_ram' \in [Queues -> Words]
  BY PerformType DEF Tick
<1>3. pipe' \in [Stages -> Entries] /\ \A j \in Stages : GoodData(pipe'[j])
  BY Constants DEF Tick, Loads, Shift, TypeOK
<1>4. resp' \in Resps \cup {NoResp}
  <2>1. CASE Last.op = "req"
    <3>1. Slot(ActiveProdPtr, Last.data.log_size) \in Ptrs
      BY <1>1, Arithmetic DEF Words
    <3>2. Last.data.base \in Bases \cup {0} /\ op_table_start_ptr \in OpIdx
      BY <1>1 DEF Words, TypeOK
    <3>3. PICK p, f, er : /\ p = Phase(ActiveProdPtr, Last.data.log_size)
                          /\ f = (Last.data.enable = 1 /\ QueueFull)
                          /\ er = (Last.data.enable = 0)
      OBVIOUS
    <3>4. p \in BOOLEAN /\ f \in BOOLEAN /\ er \in BOOLEAN
      BY <3>3 DEF Phase
    <3>5. resp' = [valid |-> TRUE, queue |-> Last.addr, ptr |-> ActiveProdPtr, phase |-> p,
                   base |-> Last.data.base, slot |-> Slot(ActiveProdPtr, Last.data.log_size),
                   op_tag |-> op_table_start_ptr, error |-> er, full |-> f]
      BY <2>1, <3>3, Zenon DEF Tick, RespNext
    <3> QED BY <1>1, <3>1, <3>2, <3>4, <3>5 DEF Resps
  <2>2. CASE Last.op # "req"
    BY <2>2 DEF Tick, RespNext, TypeOK
  <2> QED BY <2>1, <2>2
<1>5. op_table' \in [OpIdx -> OpEntries]
  <2> SUFFICES ASSUME NEW i \in OpIdx PROVE op_table'[i] \in OpEntries
    BY DEF Tick, OpTableNext
  <2>1. FreeEntry \in OpEntries
    BY Constants DEF FreeEntry, OpEntries
  <2>2. Inc(ActiveProdPtr) \in Ptrs
    BY <1>1, Arithmetic
  <2>3. op_table[i] \in OpEntries
    BY DEF TypeOK
  <2>4. [op_table[i] EXCEPT !.commit = @ \/ i \in tags] \in OpEntries
    <3>1. \A b \in BOOLEAN : [op_table[i] EXCEPT !.commit = b] \in OpEntries
      BY <2>3 DEF OpEntries
    <3>2. (op_table[i].commit \/ i \in tags) \in BOOLEAN
      OBVIOUS
    <3> QED BY <3>1, <3>2
  <2>5. [active |-> TRUE, commit |-> i \in tags, queue |-> Last.addr,
         queue_ptr |-> Inc(ActiveProdPtr)] \in OpEntries
    BY <1>1, <2>2 DEF OpEntries
  <2>6. OpTableNext(tags)
    BY DEF Tick
  <2> QED BY <2>1, <2>4, <2>5, <2>6, Zenon DEF OpTableNext
<1>6. op_table_start_ptr' \in OpIdx /\ op_table_finish_ptr' \in OpIdx
  BY Arithmetic DEF Tick, OpTableNext, TypeOK
<1>7. \A x \in event' : x.source \in Queues
  BY <1>1 DEF Tick, EventNext, TypeOK
<1>8. held' \subseteq Jobs
  <2>1. resp.valid => resp \in Resps
    BY DEF TypeOK, NoResp
  <2> QED BY <2>1, JobType DEF Tick, HeldNext, TypeOK
<1>9. slots' \in [Queues -> Nat]
  <2>1. CASE e.op = "req"
    <3>1. e.addr \in Queues /\ slots[e.addr] \in Nat /\ slots[e.addr] > 0
      BY <2>1 DEF Tick, Loads, Entries, TypeOK
    <3>2. slots[e.addr] - 1 \in Nat
      BY <3>1
    <3> QED BY <2>1, <3>1, <3>2 DEF Tick, Loads, TypeOK
  <2> QED BY <2>1 DEF Tick, Loads, TypeOK
<1>10. mmio' \in Seq(Writes) /\ \A k \in 1 .. Len(mmio') : GoodData(mmio'[k])
  <2>1. CASE e.op \in SetOps
    <3>1. mmio # <<>> /\ mmio' = Tail(mmio)
      BY <2>1 DEF Tick, Loads
    <3>2. \A k \in 1 .. Len(mmio) : GoodData(mmio[k])
      BY DEF TypeOK
    <3> QED BY <3>1, <3>2, HeadType
  <2>2. CASE e.op \notin SetOps
    BY <2>2 DEF Tick, Loads, TypeOK
  <2> QED BY <2>1, <2>2
<1>11. pending' \in [Queues -> Nat]
  <2>1. pending' = [q \in Queues |-> IF v /\ \E x \in event : x.source = q
                                     THEN pending[q] + 1 ELSE pending[q]]
    BY DEF Tick, EventNext
  <2> QED BY <2>1 DEF TypeOK
<1>12. UNCHANGED <<buf, cq, napi>>
  BY DEF Tick
<1> QED BY <1>2, <1>3, <1>4, <1>5, <1>6, <1>7, <1>8, <1>9, <1>10, <1>11, <1>12 DEF TypeOK

\* The opening write that the driver makes at step n, and what it does to its record c.
Opens(c, w, n) ==
    \/ n = 1 /\ w.op = "set_enable" /\ w.wdata = 0
    \/ n = 2 /\ w.op = "set_base" /\ w.wdata = c.base
    \/ n = 3 /\ w.op = "set_size" /\ w.wdata = c.log_size
    \/ n = 4 /\ w.op = "set_eqn"
    \/ n = 5 /\ w.op = "set_prod" /\ w.wdata = 0
    \/ n = 6 /\ w.op = "set_cons" /\ w.wdata = 0
    \/ n = 7 /\ w.op = "set_enable" /\ w.wdata = 1
    \/ n = 8 /\ w.op = "set_arm" /\ w.wdata = 1
    \/ n = 9 /\ w.op = "ring" /\ w.wdata = RING_SIZE

\* The list of the opening writes, one by one.
LEMMA OpenWrite ==
    ASSUME NEW q \in Queues, NEW c \in Cqs, c.step < 9
    PROVE  LET w == OpenWrites(q, c)[c.step + 1]
           IN  w \in Writes /\ GoodData(w) /\ w.addr = q /\ Opens(c, w, c.step + 1)
<1> DEFINE w == OpenWrites(q, c)[c.step + 1]
<1>1. c.step \in 0 .. 9 /\ c.base \in Bases \cup {0} /\ c.log_size \in LogSizes \cup {0}
  BY DEF Cqs
<1>2. c.base \in Nat /\ c.log_size \in Nat /\ q \in Nat /\ RING_SIZE \in Nat
  <2>1. Bases \cup {0} \subseteq Nat /\ RING_SIZE \in Nat
    BY CplConfigAssumption, CplDriverAssumption
  <2>2. LogSizes \cup {0} \subseteq Nat
    BY CplLogSizesAssumption
  <2>3. q \in Nat
    BY CplQueueCountAssumption DEF Queues
  <2> QED BY <1>1, <2>1, <2>2, <2>3
<1>3. q % EQ_COUNT \in Nat
  <2>1. EQ_COUNT \in Nat \ {0}
    BY CplConfigAssumption
  <2> QED BY <1>2, <2>1
<1>4. PICK eq \in Nat : eq = q % EQ_COUNT
  BY <1>3
<1> USE DEF Write, Writes, SetOps, GoodData, Opens, Bit
<1>5. \A o \in SetOps \cup {"ring"}, x \in Nat :
         /\ Write(o, q, x) \in Writes /\ Write(o, q, x).addr = q
         /\ Write(o, q, x).op = o /\ Write(o, q, x).wdata = x
  OBVIOUS
<1>6. CASE c.step = 0
  <2>1. w = Write("set_enable", q, 0)
    BY <1>6 DEF OpenWrites
  <2> QED BY <1>5, <1>6, <2>1
<1>7. CASE c.step = 1
  <2>1. w = Write("set_base", q, c.base)
    BY <1>7 DEF OpenWrites
  <2> QED BY <1>1, <1>2, <1>5, <1>7, <2>1
<1>8. CASE c.step = 2
  <2>1. w = Write("set_size", q, c.log_size)
    BY <1>8 DEF OpenWrites
  <2> QED BY <1>1, <1>2, <1>5, <1>8, <2>1
<1>9. CASE c.step = 3
  <2>1. w = Write("set_eqn", q, eq)
    BY <1>4, <1>9 DEF OpenWrites
  <2> QED BY <1>4, <1>5, <1>9, <2>1
<1>10. CASE c.step = 4
  <2>1. w = Write("set_prod", q, 0)
    BY <1>10 DEF OpenWrites
  <2> QED BY <1>5, <1>10, <2>1, Constants
<1>11. CASE c.step = 5
  <2>1. w = Write("set_cons", q, 0)
    BY <1>11 DEF OpenWrites
  <2> QED BY <1>5, <1>11, <2>1, Constants
<1>12. CASE c.step = 6
  <2>1. w = Write("set_enable", q, 1)
    BY <1>12 DEF OpenWrites
  <2> QED BY <1>5, <1>12, <2>1
<1>13. CASE c.step = 7
  <2>1. w = Write("set_arm", q, 1)
    BY <1>13 DEF OpenWrites
  <2> QED BY <1>5, <1>13, <2>1
<1>14. CASE c.step = 8
  <2>1. w = Write("ring", q, RING_SIZE)
    BY <1>14 DEF OpenWrites
  <2> QED BY <1>2, <1>5, <1>14, <2>1
<1>15. \/ c.step = 0 \/ c.step = 1 \/ c.step = 2 \/ c.step = 3 \/ c.step = 4
       \/ c.step = 5 \/ c.step = 6 \/ c.step = 7 \/ c.step = 8
  BY <1>1
<1> QED BY <1>6, <1>7, <1>8, <1>9, <1>10, <1>11, <1>12, <1>13, <1>14, <1>15

\* A register write is posted: it comes behind those that are on the bus.
Posts(w) == /\ w \in Writes /\ GoodData(w) /\ mmio' = Append(mmio, w)

\* What Post does with one write.
LEMMA PostOne ==
    ASSUME TypeOK, NEW w \in Writes, GoodData(w), Post(<<w>>)
    PROVE  Posts(w)
<1>1. mmio \in Seq(Writes) /\ mmio' = mmio \o <<w>>
  BY DEF TypeOK, Post
<1>2. mmio \o <<w>> = Append(mmio, w)
  BY <1>1
<1> QED BY <1>1, <1>2 DEF Posts

\* The bus after a post.
LEMMA Posted ==
    ASSUME TypeOK, NEW w, Posts(w)
    PROVE  /\ mmio' \in Seq(Writes) /\ Len(mmio) \in Nat /\ Len(mmio') = Len(mmio) + 1
           /\ mmio'[Len(mmio) + 1] = w
           /\ \A k \in 1 .. Len(mmio) : mmio'[k] = mmio[k]
           /\ \A k \in 1 .. Len(mmio') : GoodData(mmio'[k])
<1>1. mmio \in Seq(Writes) /\ w \in Writes /\ mmio' = Append(mmio, w) /\ Len(mmio) \in Nat
  BY DEF TypeOK, Posts
<1>2. /\ mmio' \in Seq(Writes) /\ Len(mmio') = Len(mmio) + 1
      /\ mmio'[Len(mmio) + 1] = w
      /\ \A k \in 1 .. Len(mmio) : mmio'[k] = mmio[k]
  BY <1>1
<1>3. \A k \in 1 .. Len(mmio') : k \in 1 .. Len(mmio) \/ k = Len(mmio) + 1
  BY <1>1, <1>2
<1>4. \A k \in 1 .. Len(mmio) : GoodData(mmio[k])
  BY DEF TypeOK
<1>5. GoodData(w)
  BY DEF Posts
<1> QED BY <1>1, <1>2, <1>3, <1>4, <1>5

(* The life of a queue in the driver: what its record, its NAPI context    *)
(* and the writes on the bus have to do with each other.                   *)

Life(q) ==
    /\ cq[q].pc = "opening" <=> cq[q].step < 9
    /\ cq[q].pc = "opening" => /\ napi[q] = NapiIdle
                               /\ cq[q].free = 0 /\ cq[q].cons = 0
    /\ cq[q].step = 0 => cq[q] = CqClosed
    /\ napi[q].done > 0 => napi[q].state = "poll"
    /\ cq[q].pc # "open" => \A k \in 1 .. Len(mmio) :
                               ~(mmio[k].op = "ring" /\ mmio[k].addr = q)

LifeInv == \A q \in Queues : Life(q)

\* Opening write w of queue q.
Opening(q, w) ==
    /\ UNCHANGED <<hw_vars, held, slots, pending, napi>>
    /\ Posts(w) /\ w.addr = q
    /\ cq[q].pc = "opening" /\ cq[q].step < 9
    /\ cq'[q].step = cq[q].step + 1
    /\ Opens(cq'[q], w, cq'[q].step)
    /\ cq'[q].pc = IF cq'[q].step = 9 THEN "open" ELSE "opening"
    /\ cq'[q].cons = 0 /\ cq'[q].free = 0
    /\ cq[q].step > 0 => /\ cq'[q].base = cq[q].base /\ cq'[q].log_size = cq[q].log_size
                         /\ buf' = buf
    /\ cq[q].step = 0 => \A p \in Ptrs : buf'[q][p] = NoRecord
    /\ \A z \in Queues : z # q => cq'[z] = cq[z] /\ buf'[z] = buf[z]
    /\ cq' \in [Queues -> Cqs] /\ buf' \in [Queues -> [Ptrs -> Records]]

\* The steps of OpenCq and OpenCqNext are those.
LEMMA OpenSteps ==
    ASSUME TypeOK, LifeInv, NEW q \in Queues, OpenCq(q) \/ OpenCqNext(q)
    PROVE  \E w : Opening(q, w)
<1>1. cq \in [Queues -> Cqs] /\ cq[q] \in Cqs /\ buf \in [Queues -> [Ptrs -> Records]]
  BY DEF TypeOK
<1>2. ASSUME NEW c \in Cqs, c.step < 9, c.step = cq[q].step, c.pc = "opening",
             c.cons = 0, c.free = 0, StepOpen(q, c)
      PROVE  \E w : /\ UNCHANGED <<hw_vars, held, slots, pending, napi>>
                    /\ Posts(w) /\ w.addr = q
                    /\ cq'[q].step = cq[q].step + 1
                    /\ Opens(cq'[q], w, cq'[q].step)
                    /\ cq'[q].pc = IF cq'[q].step = 9 THEN "open" ELSE "opening"
                    /\ cq'[q].cons = 0 /\ cq'[q].free = 0
                    /\ cq'[q].base = c.base /\ cq'[q].log_size = c.log_size
                    /\ \A z \in Queues : z # q => cq'[z] = cq[z]
                    /\ cq' \in [Queues -> Cqs]
  <2>1. PICK w : w = OpenWrites(q, c)[c.step + 1]
    OBVIOUS
  <2>2. w \in Writes /\ GoodData(w) /\ w.addr = q /\ Opens(c, w, c.step + 1)
    BY <1>2, <2>1, OpenWrite
  <2>3. Posts(w)
    BY <1>2, <2>1, <2>2, PostOne DEF StepOpen
  <2>4. PICK pc : pc = IF c.step + 1 = 9 THEN "open" ELSE c.pc
    OBVIOUS
  <2>5. cq' = [cq EXCEPT ![q] = [c EXCEPT !.step = c.step + 1, !.pc = pc]]
    BY <1>2, <2>4 DEF StepOpen, OpenLast
  <2>6. c.step + 1 \in 0 .. 9 /\ pc \in CqStates
    BY <1>2, <2>4 DEF Cqs, CqStates
  <2>7. /\ cq'[q].step = c.step + 1 /\ cq'[q].pc = pc
        /\ cq'[q].cons = c.cons /\ cq'[q].free = c.free
        /\ cq'[q].base = c.base /\ cq'[q].log_size = c.log_size
        /\ \A z \in Queues : z # q => cq'[z] = cq[z]
        /\ cq' \in [Queues -> Cqs]
    BY <1>1, <1>2, <2>5, <2>6 DEF Cqs
  <2>8. Opens(cq'[q], w, cq'[q].step)
    BY <2>2, <2>7 DEF Opens
  <2>9. UNCHANGED <<hw_vars, held, slots, pending, napi>>
    BY <1>2 DEF StepOpen
  <2>10. cq'[q].pc = IF cq'[q].step = 9 THEN "open" ELSE "opening"
    BY <1>2, <2>4, <2>7
  <2> QED BY <1>2, <2>2, <2>3, <2>7, <2>8, <2>9, <2>10
<1>3. CASE OpenCq(q)
  <2>1. PICK l \in LogSizes, b \in Bases :
           StepOpen(q, [cq[q] EXCEPT !.log_size = l, !.base = b])
    BY <1>3 DEF OpenCq
  <2>2. cq[q] = CqClosed /\ buf' = [buf EXCEPT ![q] = [p \in Ptrs |-> NoRecord]]
    BY <1>3 DEF OpenCq
  <2>3. PICK c : c = [cq[q] EXCEPT !.log_size = l, !.base = b]
    OBVIOUS
  <2>4. c \in Cqs /\ c.step = 0 /\ c.pc = "opening" /\ c.cons = 0 /\ c.free = 0
        /\ cq[q].step = 0 /\ cq[q].pc = "opening"
    <3>1. cq[q].step = 0 /\ cq[q].pc = "opening" /\ cq[q].cons = 0 /\ cq[q].free = 0
      BY <2>2 DEF CqClosed
    <3>2. l \in LogSizes \cup {0} /\ b \in Bases \cup {0}
      OBVIOUS
    <3> QED BY <1>1, <2>3, <3>1, <3>2 DEF Cqs
  <2>5. StepOpen(q, c)
    BY <2>1, <2>3
  <2>6. /\ \A p \in Ptrs : buf'[q][p] = NoRecord
        /\ \A z \in Queues : z # q => buf'[z] = buf[z]
    BY <1>1, <2>2
  <2>7. buf' \in [Queues -> [Ptrs -> Records]]
    <3>1. NoRecord \in Records
      BY CplPtrModAssumption DEF NoRecord, Records
    <3>2. [p \in Ptrs |-> NoRecord] \in [Ptrs -> Records]
      BY <3>1
    <3> QED BY <1>1, <2>2, <3>2
  <2> QED BY <1>2, <2>4, <2>5, <2>6, <2>7 DEF Opening
<1>4. CASE OpenCqNext(q)
  <2>1. cq[q].pc = "opening" /\ cq[q].step > 0 /\ StepOpen(q, cq[q]) /\ buf' = buf
    BY <1>4 DEF OpenCqNext
  <2>2. cq[q].step < 9 /\ cq[q].cons = 0 /\ cq[q].free = 0 /\ cq[q].step # 0
    BY <1>1, <2>1 DEF LifeInv, Life, Cqs
  <2> QED BY <1>1, <1>2, <2>1, <2>2 DEF Opening
<1> QED BY <1>3, <1>4

\* The driver's other steps.  Descriptors are posted again.
Refilling(q, w) ==
    /\ UNCHANGED <<hw_vars, held, buf, slots, pending, napi>>
    /\ Posts(w) /\ w.addr = q /\ w.op = "ring" /\ w.wdata = cq[q].free
    /\ cq[q].pc = "open"
    /\ cq'[q].pc = cq[q].pc /\ cq'[q].step = cq[q].step /\ cq'[q].cons = cq[q].cons
    /\ cq'[q].log_size = cq[q].log_size /\ cq'[q].base = cq[q].base /\ cq'[q].free = 0
    /\ \A z \in Queues : z # q => cq'[z] = cq[z]
    /\ cq' \in [Queues -> Cqs]

\* So does Refill.
LEMMA RefillStep ==
    ASSUME TypeOK, NEW q \in Queues, Refill(q)
    PROVE  \E w : Refilling(q, w)
<1>1. cq \in [Queues -> Cqs] /\ cq[q] \in Cqs /\ cq[q].free \in Nat
  BY DEF TypeOK, Cqs
<1>2. PICK w : w = Write("ring", q, cq[q].free)
  OBVIOUS
<1>3. w \in Writes /\ GoodData(w) /\ w.op = "ring" /\ w.addr = q /\ w.wdata = cq[q].free
  BY <1>1, <1>2 DEF Write, Writes, GoodData
<1>4. Posts(w)
  BY <1>2, <1>3, PostOne DEF Refill
<1>5. cq' = [cq EXCEPT ![q].free = 0] /\ cq[q].pc = "open"
  BY DEF Refill
<1>6. UNCHANGED <<hw_vars, held, buf, slots, pending, napi>>
  BY DEF Refill
<1>7. /\ cq'[q].pc = cq[q].pc /\ cq'[q].step = cq[q].step /\ cq'[q].cons = cq[q].cons
      /\ cq'[q].log_size = cq[q].log_size /\ cq'[q].base = cq[q].base /\ cq'[q].free = 0
      /\ \A z \in Queues : z # q => cq'[z] = cq[z]
      /\ cq' \in [Queues -> Cqs]
  BY <1>1, <1>5 DEF Cqs
<1> QED BY <1>3, <1>4, <1>5, <1>6, <1>7 DEF Refilling

\* The poll loop ends: the consumer pointer is written.
Polled(q, w) ==
    /\ UNCHANGED <<hw_vars, held, buf, slots, pending>>
    /\ Posts(w) /\ w.addr = q /\ w.op = "set_cons" /\ w.wdata = cq[q].cons
    /\ napi[q].state = "poll"
    /\ napi'[q].done = 0 /\ napi'[q].arming = napi[q].arming
    /\ napi'[q].state \in {"sched", "complete"}
    /\ cq'[q].pc = cq[q].pc /\ cq'[q].step = cq[q].step /\ cq'[q].cons = cq[q].cons
    /\ cq'[q].log_size = cq[q].log_size /\ cq'[q].base = cq[q].base
    /\ cq'[q].free = cq[q].free + napi[q].done
    /\ \A z \in Queues : z # q => cq'[z] = cq[z] /\ napi'[z] = napi[z]
    /\ cq' \in [Queues -> Cqs] /\ napi' \in [Queues -> Napis]

\* So does PollEnd.
LEMMA PollEndStep ==
    ASSUME TypeOK, NEW q \in Queues, PollEnd(q)
    PROVE  \E w : Polled(q, w)
<1>1. /\ cq \in [Queues -> Cqs] /\ cq[q] \in Cqs /\ cq[q].free \in Nat /\ cq[q].cons \in Ptrs
      /\ napi \in [Queues -> Napis] /\ napi[q] \in Napis /\ napi[q].done \in Nat
  BY DEF TypeOK, Cqs, Napis
<1>2. cq[q].cons \in Nat
  BY <1>1, CplPtrModAssumption DEF Ptrs
<1>3. PICK w : w = Write("set_cons", q, cq[q].cons)
  OBVIOUS
<1>4. w \in Writes /\ GoodData(w) /\ w.op = "set_cons" /\ w.addr = q /\ w.wdata = cq[q].cons
  BY <1>1, <1>2, <1>3 DEF Write, Writes, GoodData, SetOps
<1>5. Posts(w)
  BY <1>3, <1>4, PostOne DEF PollEnd
<1>6. PICK st : st = IF napi[q].done = Budget THEN "sched" ELSE "complete"
  OBVIOUS
<1>7. /\ cq' = [cq EXCEPT ![q].free = cq[q].free + napi[q].done]
      /\ napi' = [napi EXCEPT ![q].done = 0, ![q].state = st]
      /\ napi[q].state = "poll" /\ st \in {"sched", "complete"}
      /\ UNCHANGED <<hw_vars, held, buf, slots, pending>>
  BY <1>1, <1>6 DEF PollEnd
<1>8. /\ cq'[q].pc = cq[q].pc /\ cq'[q].step = cq[q].step /\ cq'[q].cons = cq[q].cons
      /\ cq'[q].log_size = cq[q].log_size /\ cq'[q].base = cq[q].base
      /\ cq'[q].free = cq[q].free + napi[q].done
      /\ \A z \in Queues : z # q => cq'[z] = cq[z]
      /\ cq' \in [Queues -> Cqs]
  BY <1>1, <1>7 DEF Cqs
<1>9. /\ napi'[q].done = 0 /\ napi'[q].arming = napi[q].arming /\ napi'[q].state = st
      /\ \A z \in Queues : z # q => napi'[z] = napi[z]
      /\ napi' \in [Queues -> Napis]
  BY <1>1, <1>7 DEF Napis
<1> QED BY <1>4, <1>5, <1>7, <1>8, <1>9 DEF Polled

\* The queue is armed.
Arming(q, w) ==
    /\ UNCHANGED <<hw_vars, held, buf, slots, pending, cq>>
    /\ Posts(w) /\ w.addr = q /\ w.op = "set_arm" /\ w.wdata = 1
    /\ napi[q].arming > 0
    /\ napi'[q].done = napi[q].done /\ napi'[q].state = napi[q].state
    /\ \A z \in Queues : z # q => napi'[z] = napi[z]
    /\ napi' \in [Queues -> Napis]

\* So does ArmCq.
LEMMA ArmStep ==
    ASSUME TypeOK, NEW q \in Queues, ArmCq(q)
    PROVE  \E w : Arming(q, w)
<1>1. napi \in [Queues -> Napis] /\ napi[q] \in Napis /\ napi[q].arming \in Nat
  BY DEF TypeOK, Napis
<1>2. PICK w : w = Write("set_arm", q, 1)
  OBVIOUS
<1>3. w \in Writes /\ GoodData(w) /\ w.op = "set_arm" /\ w.addr = q /\ w.wdata = 1
  BY <1>2 DEF Write, Writes, GoodData, SetOps, Bit
<1>4. Posts(w)
  BY <1>2, <1>3, PostOne DEF ArmCq
<1>5. /\ napi[q].arming > 0 /\ napi' = [napi EXCEPT ![q].arming = napi[q].arming - 1]
      /\ UNCHANGED <<hw_vars, held, buf, slots, pending, cq>>
  BY <1>1 DEF ArmCq
<1>6. napi[q].arming - 1 \in Nat
  BY <1>1, <1>5
<1>7. /\ napi'[q].done = napi[q].done /\ napi'[q].state = napi[q].state
      /\ \A z \in Queues : z # q => napi'[z] = napi[z]
      /\ napi' \in [Queues -> Napis]
  BY <1>1, <1>5, <1>6 DEF Napis
<1> QED BY <1>3, <1>4, <1>5, <1>7 DEF Arming

\* The queue is closed.
Closing(q, w) ==
    /\ UNCHANGED <<hw_vars, held, buf, slots, pending>>
    /\ Posts(w) /\ w.addr = q /\ w.op = "set_enable" /\ w.wdata = 0
    /\ cq[q].pc = "down" /\ napi[q].state = "idle"
    /\ cq'[q] = CqClosed /\ napi'[q] = NapiIdle
    /\ \A z \in Queues : z # q => cq'[z] = cq[z] /\ napi'[z] = napi[z]
    /\ cq' \in [Queues -> Cqs] /\ napi' \in [Queues -> Napis]

\* So does CloseCq.
LEMMA CloseStep ==
    ASSUME TypeOK, NEW q \in Queues, CloseCq(q)
    PROVE  \E w : Closing(q, w)
<1>1. cq \in [Queues -> Cqs] /\ napi \in [Queues -> Napis]
  BY DEF TypeOK
<1>2. CqClosed \in Cqs /\ NapiIdle \in Napis
  BY Constants DEF CqClosed, Cqs, CqStates, NapiIdle, Napis
<1>3. PICK w : w = Write("set_enable", q, 0)
  OBVIOUS
<1>4. w \in Writes /\ GoodData(w) /\ w.op = "set_enable" /\ w.addr = q /\ w.wdata = 0
  BY <1>3 DEF Write, Writes, GoodData, SetOps, Bit
<1>5. Posts(w)
  BY <1>3, <1>4, PostOne DEF CloseCq
<1> QED BY <1>1, <1>2, <1>4, <1>5 DEF CloseCq, Closing

\* The steps of NAPI that write no register: an interrupt, the start of a poll, its
\* completion.
Quiet(q) ==
    /\ UNCHANGED <<hw_vars, held, buf, slots, mmio, cq>>
    /\ pending' \in [Queues -> Nat] /\ napi' \in [Queues -> Napis]
    /\ napi'[q].done = napi[q].done
    /\ \A z \in Queues : z # q => napi'[z] = napi[z] /\ pending'[z] = pending[z]
    /\ cq[q].pc = "opening" => napi' = napi
    /\ napi[q].done > 0 => napi'[q].state = "poll"
    /\ \/ napi'[q].state # "idle" \/ napi'[q].arming > 0
       \/ cq[q].pc = "opening"
    
\* So do Interrupt, PollStart and NapiComplete.
LEMMA QuietSteps ==
    ASSUME TypeOK, LifeInv, NEW q \in Queues,
           Interrupt(q) \/ PollStart(q) \/ NapiComplete(q)
    PROVE  Quiet(q)
<1>1. /\ napi \in [Queues -> Napis] /\ napi[q] \in Napis /\ napi[q].arming \in Nat
      /\ napi[q].done \in Nat /\ pending \in [Queues -> Nat] /\ pending[q] \in Nat
      /\ napi[q].missed \in BOOLEAN
      /\ napi[q].state \in {"idle", "sched", "poll", "complete"}
  BY DEF TypeOK, Napis
<1>2. /\ napi[q].done > 0 => napi[q].state = "poll"
      /\ cq[q].pc = "opening" => napi[q].state = "idle" /\ napi[q].arming = 0
  BY DEF LifeInv, Life, NapiIdle
<1>3. CASE Interrupt(q)
  <2>1. /\ pending[q] > 0 /\ pending' = [pending EXCEPT ![q] = pending[q] - 1]
        /\ UNCHANGED <<hw_vars, held, buf, slots, mmio, cq>>
    BY <1>1, <1>3 DEF Interrupt
  <2>2. pending[q] - 1 \in Nat
    BY <1>1, <2>1
  <2>3. pending' \in [Queues -> Nat] /\ \A z \in Queues : z # q => pending'[z] = pending[z]
    BY <1>1, <2>1, <2>2
  <2>4. CASE cq[q].pc = "opening"
    <3>1. napi' = napi
      BY <1>3, <2>4 DEF Interrupt
    <3> QED BY <1>1, <1>2, <2>1, <2>3, <2>4, <3>1 DEF Quiet
  <2>5. CASE cq[q].pc # "opening" /\ napi[q].state = "idle"
    <3>1. napi' = [napi EXCEPT ![q].state = "sched"]
      BY <1>3, <2>5 DEF Interrupt
    <3>2. /\ napi' \in [Queues -> Napis] /\ napi'[q].state = "sched"
          /\ napi'[q].done = napi[q].done
          /\ \A z \in Queues : z # q => napi'[z] = napi[z]
      BY <1>1, <3>1 DEF Napis
    <3> QED BY <1>1, <1>2, <2>1, <2>3, <2>5, <3>2 DEF Quiet
  <2>6. CASE cq[q].pc # "opening" /\ napi[q].state # "idle"
    <3>1. napi' = [napi EXCEPT ![q].missed = TRUE]
      BY <1>3, <2>6 DEF Interrupt
    <3>2. /\ napi' \in [Queues -> Napis] /\ napi'[q].state = napi[q].state
          /\ napi'[q].done = napi[q].done
          /\ \A z \in Queues : z # q => napi'[z] = napi[z]
      BY <1>1, <3>1 DEF Napis
    <3> QED BY <1>1, <1>2, <2>1, <2>3, <2>6, <3>2 DEF Quiet
  <2> QED BY <2>4, <2>5, <2>6
<1>4. CASE PollStart(q)
  <2>1. PICK st : st = IF cq[q].pc = "down" THEN "complete" ELSE "poll"
    OBVIOUS
  <2>2. /\ napi' = [napi EXCEPT ![q].state = st] /\ napi[q].state = "sched"
        /\ UNCHANGED <<hw_vars, held, buf, slots, mmio, pending, cq>>
        /\ st \in {"idle", "sched", "poll", "complete"} /\ st # "idle"
    BY <1>4, <2>1 DEF PollStart
  <2>3. /\ napi' \in [Queues -> Napis] /\ napi'[q].state = st
        /\ napi'[q].done = napi[q].done
        /\ \A z \in Queues : z # q => napi'[z] = napi[z]
    BY <1>1, <2>2 DEF Napis
  <2> QED BY <1>1, <1>2, <2>2, <2>3 DEF Quiet
<1>5. CASE NapiComplete(q)
  <2>1. PICK st : st = IF napi[q].missed THEN "sched" ELSE "idle"
    OBVIOUS
  <2>2. /\ napi' = [napi EXCEPT ![q] = [state |-> st, done |-> 0, missed |-> FALSE,
                                        arming |-> napi[q].arming + 1]]
        /\ napi[q].state = "complete"
        /\ UNCHANGED <<hw_vars, held, buf, slots, mmio, pending, cq>>
        /\ st \in {"idle", "sched", "poll", "complete"}
    BY <1>1, <1>5, <2>1 DEF NapiComplete
  <2>3. /\ napi' \in [Queues -> Napis] /\ napi'[q].arming = napi[q].arming + 1
        /\ napi'[q].done = 0
        /\ \A z \in Queues : z # q => napi'[z] = napi[z]
    BY <1>1, <2>2 DEF Napis
  <2>4. napi[q].done = 0 /\ napi'[q].arming > 0
    BY <1>1, <1>2, <2>2, <2>3
  <2> QED BY <1>1, <1>2, <2>2, <2>3, <2>4 DEF Quiet
<1> QED BY <1>3, <1>4, <1>5

\* A record is consumed.
Consuming(q) ==
    /\ UNCHANGED <<hw_vars, held, buf, slots, mmio, pending>>
    /\ napi[q].state = "poll" /\ RecordReady(q)
    /\ napi'[q].done = napi[q].done + 1
    /\ napi'[q].state = "poll"
    /\ cq'[q].pc = cq[q].pc /\ cq'[q].step = cq[q].step /\ cq'[q].cons = Inc(cq[q].cons)
    /\ cq'[q].log_size = cq[q].log_size /\ cq'[q].base = cq[q].base
    /\ cq'[q].free = cq[q].free
    /\ \A z \in Queues : z # q => cq'[z] = cq[z] /\ napi'[z] = napi[z]
    /\ cq' \in [Queues -> Cqs] /\ napi' \in [Queues -> Napis]

\* So does PollRecord.
LEMMA ConsumeStep ==
    ASSUME TypeOK, NEW q \in Queues, PollRecord(q)
    PROVE  Consuming(q)
<1>1. /\ cq \in [Queues -> Cqs] /\ cq[q] \in Cqs /\ cq[q].cons \in Ptrs
      /\ napi \in [Queues -> Napis] /\ napi[q] \in Napis /\ napi[q].done \in Nat
  BY DEF TypeOK, Cqs, Napis
<1>2. Inc(cq[q].cons) \in Ptrs
  BY <1>1, Arithmetic
<1>3. /\ cq' = [cq EXCEPT ![q].cons = Inc(cq[q].cons)]
      /\ napi' = [napi EXCEPT ![q].done = napi[q].done + 1]
      /\ napi[q].state = "poll" /\ RecordReady(q)
      /\ UNCHANGED <<hw_vars, held, buf, slots, mmio, pending>>
  BY <1>1 DEF PollRecord
<1>4. /\ cq'[q].pc = cq[q].pc /\ cq'[q].step = cq[q].step /\ cq'[q].cons = Inc(cq[q].cons)
      /\ cq'[q].log_size = cq[q].log_size /\ cq'[q].base = cq[q].base
      /\ cq'[q].free = cq[q].free
      /\ \A z \in Queues : z # q => cq'[z] = cq[z]
      /\ cq' \in [Queues -> Cqs]
  BY <1>1, <1>2, <1>3 DEF Cqs
<1>5. /\ napi'[q].done = napi[q].done + 1 /\ napi'[q].state = "poll"
      /\ \A z \in Queues : z # q => napi'[z] = napi[z]
      /\ napi' \in [Queues -> Napis]
  BY <1>1, <1>3 DEF Napis
<1> QED BY <1>3, <1>4, <1>5 DEF Consuming

\* A descriptor ring write arrives.
Landing(q, w) ==
    /\ UNCHANGED <<hw_vars, held, buf, pending, cq, napi>>
    /\ mmio # <<>> /\ w = Head(mmio) /\ w.op = "ring" /\ w.addr = q /\ mmio' = Tail(mmio)
    /\ ~InPipe(SetOps)
    /\ slots'[q] = slots[q] + w.wdata
    /\ \A z \in Queues : z # q => slots'[z] = slots[z]
    /\ slots' \in [Queues -> Nat]

\* So does RingPosted.
LEMMA LandStep ==
    ASSUME TypeOK, RingPosted
    PROVE  \E q \in Queues : \E w : Landing(q, w)
<1>1. PICK w : w = Head(mmio)
  OBVIOUS
<1>2. w \in Writes /\ w.addr \in Queues /\ w.wdata \in Nat
  BY <1>1, HeadType DEF RingPosted, Writes
<1>3. slots \in [Queues -> Nat] /\ slots' = [slots EXCEPT ![w.addr] = slots[w.addr] + w.wdata]
  BY <1>1 DEF RingPosted, TypeOK
<1>4. /\ slots'[w.addr] = slots[w.addr] + w.wdata
      /\ \A z \in Queues : z # w.addr => slots'[z] = slots[z]
      /\ slots' \in [Queues -> Nat]
  BY <1>2, <1>3
<1> QED BY <1>1, <1>2, <1>4 DEF RingPosted, Landing

\* A record is written to host memory.
Writing(h, g) ==
    /\ UNCHANGED <<hw_vars, slots, mmio, pending, cq, napi>>
    /\ h \in held /\ ~h.written
    /\ g \in Jobs /\ g.written
    /\ g.queue = h.queue /\ g.ptr = h.ptr /\ g.phase = h.phase /\ g.slot = h.slot
    /\ g.base = h.base /\ g.op_tag = h.op_tag
    /\ held' = (held \ {h}) \cup {g}
    /\ buf'[h.queue][h.slot].phase = h.phase /\ buf'[h.queue][h.slot].ptr = h.ptr
    /\ \A z \in Queues, p \in Ptrs : z # h.queue \/ p # h.slot => buf'[z][p] = buf[z][p]
    /\ buf' \in [Queues -> [Ptrs -> Records]]

\* So does DmaWrite.
LEMMA WriteStep ==
    ASSUME TypeOK, NEW h \in held, DmaWrite(h)
    PROVE  \E g : Writing(h, g)
<1>1. h \in Jobs /\ buf \in [Queues -> [Ptrs -> Records]]
  BY DEF TypeOK
<1>2. h.queue \in Queues /\ h.slot \in Ptrs /\ h.ptr \in Ptrs /\ h.phase \in BOOLEAN
  BY <1>1 DEF Jobs
<1>3. PICK g : g = [h EXCEPT !.written = TRUE]
  OBVIOUS
<1>4. /\ g \in Jobs /\ g.written = TRUE
      /\ g.queue = h.queue /\ g.ptr = h.ptr /\ g.phase = h.phase /\ g.slot = h.slot
      /\ g.base = h.base /\ g.op_tag = h.op_tag
  BY <1>1, <1>3 DEF Jobs
<1>5. PICK x : x = [phase |-> h.phase, ptr |-> h.ptr]
  OBVIOUS
<1>6. h.ptr \in 0 .. PtrMod
  BY <1>2, CplPtrModAssumption DEF Ptrs
<1>7. x \in Records /\ x.phase = h.phase /\ x.ptr = h.ptr
  BY <1>2, <1>5, <1>6 DEF Records
<1>8. /\ ~h.written /\ held' = (held \ {h}) \cup {g}
      /\ buf' = [buf EXCEPT ![h.queue][h.slot] = x]
      /\ UNCHANGED <<hw_vars, slots, mmio, pending, cq, napi>>
  BY <1>3, <1>5 DEF DmaWrite
<1>9. /\ buf'[h.queue][h.slot] = x
      /\ \A z \in Queues, p \in Ptrs : z # h.queue \/ p # h.slot => buf'[z][p] = buf[z][p]
      /\ buf' \in [Queues -> [Ptrs -> Records]]
  BY <1>1, <1>2, <1>7, <1>8
<1> QED BY <1>4, <1>7, <1>8, <1>9 DEF Writing

\* The port stops, or is down.
Stopping(from, to) ==
    /\ UNCHANGED <<hw_vars, held, buf, mmio, pending, napi>>
    /\ cq' \in [Queues -> Cqs]
    /\ \A q \in Queues :
          /\ cq[q].pc = from /\ cq'[q].pc = to
          /\ cq'[q].step = cq[q].step /\ cq'[q].cons = cq[q].cons
          /\ cq'[q].log_size = cq[q].log_size /\ cq'[q].base = cq[q].base
          /\ cq'[q].free = cq[q].free

\* So do StopPort and PortDown.
LEMMA StopSteps ==
    ASSUME TypeOK
    PROVE  /\ StopPort => /\ Stopping("open", "stopping")
                          /\ \A q \in Queues : slots'[q] = 0
                          /\ slots' \in [Queues -> Nat]
           /\ PortDown => Stopping("stopping", "down") /\ slots' = slots
<1>1. cq \in [Queues -> Cqs]
  BY DEF TypeOK
<1>2. ASSUME NEW to \in CqStates, cq' = [q \in Queues |-> [cq[q] EXCEPT !.pc = to]]
      PROVE  /\ cq' \in [Queues -> Cqs]
             /\ \A q \in Queues :
                  /\ cq'[q].pc = to
                  /\ cq'[q].step = cq[q].step /\ cq'[q].cons = cq[q].cons
                  /\ cq'[q].log_size = cq[q].log_size /\ cq'[q].base = cq[q].base
                  /\ cq'[q].free = cq[q].free
  BY <1>1, <1>2 DEF Cqs
<1>3. "stopping" \in CqStates /\ "down" \in CqStates
  BY DEF CqStates
<1>4. ASSUME StopPort
      PROVE  /\ Stopping("open", "stopping")
             /\ \A q \in Queues : slots'[q] = 0
             /\ slots' \in [Queues -> Nat]
  BY <1>2, <1>3, <1>4 DEF StopPort, Stopping
<1>5. ASSUME PortDown
      PROVE  Stopping("stopping", "down") /\ slots' = slots
  BY <1>2, <1>3, <1>5 DEF PortDown, Stopping
<1> QED BY <1>4, <1>5

\* The steps outside the clock.
Outside ==
    \/ \E q \in Queues : \E w : \/ Opening(q, w) \/ Refilling(q, w) \/ Polled(q, w)
                                \/ Arming(q, w) \/ Closing(q, w) \/ Landing(q, w)
    \/ \E q \in Queues : Quiet(q) \/ Consuming(q)
    \/ \E h, g : Writing(h, g)
    \/ /\ Stopping("open", "stopping") /\ slots' \in [Queues -> Nat]
       /\ \A q \in Queues : slots'[q] = 0
       /\ \A k \in 1 .. Len(mmio) : mmio[k].op # "ring"
    \/ /\ Stopping("stopping", "down") /\ slots' = slots
       /\ \A q \in Queues : Drained(q)

\* Every step is one of the clock or one of these.
LEMMA Steps ==
    ASSUME TypeOK, LifeInv, Next
    PROVE  \/ \E e, r, v, done, tags : Tick(e, r, v, done, tags)
           \/ Outside
<1>1. CASE Clock
  BY <1>1, Ticks
<1>2. CASE RingPosted
  BY <1>2, LandStep DEF Outside
<1>3. CASE \E h \in held : DmaWrite(h)
  BY <1>3, WriteStep DEF Outside
<1>4. ASSUME NEW q \in Queues, Driver(q) PROVE Outside
  <2>1. CASE OpenCq(q) \/ OpenCqNext(q)
    BY <2>1, OpenSteps DEF Outside
  <2>2. CASE Refill(q)
    BY <2>2, RefillStep DEF Outside
  <2>3. CASE Interrupt(q) \/ PollStart(q) \/ NapiComplete(q)
    BY <2>3, QuietSteps DEF Outside
  <2>4. CASE PollRecord(q)
    BY <2>4, ConsumeStep DEF Outside
  <2>5. CASE PollEnd(q)
    BY <2>5, PollEndStep DEF Outside
  <2>6. CASE ArmCq(q)
    BY <2>6, ArmStep DEF Outside
  <2>7. CASE CloseCq(q)
    BY <2>7, CloseStep DEF Outside
  <2> QED BY <1>4, <2>1, <2>2, <2>3, <2>4, <2>5, <2>6, <2>7 DEF Driver
<1>5. CASE StopPort
  <2>1. \A k \in 1 .. Len(mmio) : mmio[k].op # "ring"
    BY <1>5 DEF StopPort
  <2> QED BY <1>5, <2>1, StopSteps DEF Outside
<1>6. CASE PortDown
  <2>1. \A q \in Queues : Drained(q)
    BY <1>6 DEF PortDown
  <2> QED BY <1>6, <2>1, StopSteps DEF Outside
<1> QED BY <1>1, <1>2, <1>3, <1>4, <1>5, <1>6 DEF Next

\* The steps outside the clock keep the types.
LEMMA OutsideType ==
    ASSUME TypeOK, Outside
    PROVE  TypeOK'
<1> USE DEF hw_vars
<1>1. ASSUME NEW q \in Queues, NEW w, Opening(q, w) PROVE TypeOK'
  <2>1. Posts(w)
    BY <1>1 DEF Opening
  <2> QED BY <1>1, <2>1, Posted DEF Opening, TypeOK
<1>2. ASSUME NEW q \in Queues, NEW w, Refilling(q, w) PROVE TypeOK'
  <2>1. Posts(w)
    BY <1>2 DEF Refilling
  <2> QED BY <1>2, <2>1, Posted DEF Refilling, TypeOK
<1>3. ASSUME NEW q \in Queues, NEW w, Polled(q, w) PROVE TypeOK'
  <2>1. Posts(w)
    BY <1>3 DEF Polled
  <2> QED BY <1>3, <2>1, Posted DEF Polled, TypeOK
<1>4. ASSUME NEW q \in Queues, NEW w, Arming(q, w) PROVE TypeOK'
  <2>1. Posts(w)
    BY <1>4 DEF Arming
  <2> QED BY <1>4, <2>1, Posted DEF Arming, TypeOK
<1>5. ASSUME NEW q \in Queues, NEW w, Closing(q, w) PROVE TypeOK'
  <2>1. Posts(w)
    BY <1>5 DEF Closing
  <2> QED BY <1>5, <2>1, Posted DEF Closing, TypeOK
<1>6. ASSUME NEW q \in Queues, NEW w, Landing(q, w) PROVE TypeOK'
  <2>1. mmio # <<>> /\ mmio' = Tail(mmio)
    BY <1>6 DEF Landing
  <2>2. mmio' \in Seq(Writes) /\ \A k \in 1 .. Len(mmio') : GoodData(mmio'[k])
    <3>1. \A k \in 1 .. Len(mmio) : GoodData(mmio[k])
      BY DEF TypeOK
    <3> QED BY <2>1, <3>1, HeadType
  <2> QED BY <1>6, <2>2 DEF Landing, TypeOK
<1>7. ASSUME NEW q \in Queues, Quiet(q) PROVE TypeOK'
  BY <1>7 DEF Quiet, TypeOK
<1>8. ASSUME NEW q \in Queues, Consuming(q) PROVE TypeOK'
  BY <1>8 DEF Consuming, TypeOK
<1>9. ASSUME NEW h, NEW g, Writing(h, g) PROVE TypeOK'
  BY <1>9 DEF Writing, TypeOK
<1>10. ASSUME NEW a, NEW b, Stopping(a, b), slots' \in [Queues -> Nat] PROVE TypeOK'
  BY <1>10 DEF Stopping, TypeOK
<1>11. slots \in [Queues -> Nat]
  BY DEF TypeOK
<1> QED BY <1>1, <1>2, <1>3, <1>4, <1>5, <1>6, <1>7, <1>8, <1>9, <1>10, <1>11 DEF Outside

\* Nothing but a ring write is on the bus behind a post that is none.
LEMMA NoRing ==
    ASSUME TypeOK, NEW w, Posts(w), NEW q \in Queues, ~(w.op = "ring" /\ w.addr = q),
           \A k \in 1 .. Len(mmio) : ~(mmio[k].op = "ring" /\ mmio[k].addr = q)
    PROVE  \A k \in 1 .. Len(mmio') : ~(mmio'[k].op = "ring" /\ mmio'[k].addr = q)
<1>1. \A k \in 1 .. Len(mmio') : k \in 1 .. Len(mmio) \/ k = Len(mmio) + 1
  BY Posted
<1> QED BY <1>1, Posted

\* The same when the head of the bus is taken.
LEMMA NoRingTail ==
    ASSUME TypeOK, mmio # <<>>, mmio' = Tail(mmio), NEW q \in Queues,
           \A k \in 1 .. Len(mmio) : ~(mmio[k].op = "ring" /\ mmio[k].addr = q)
    PROVE  \A k \in 1 .. Len(mmio') : ~(mmio'[k].op = "ring" /\ mmio'[k].addr = q)
<1>1. Len(mmio') = Len(mmio) - 1
  BY HeadType
<1> QED BY <1>1, HeadType

\* The life of a queue goes on as the driver has it.
LEMMA LifeStep ==
    ASSUME TypeOK, LifeInv,
           Outside \/ \E e, r, v, done, tags : Tick(e, r, v, done, tags)
    PROVE  LifeInv'
<1> SUFFICES ASSUME NEW z \in Queues PROVE Life(z)'
  BY DEF LifeInv
<1>1. Life(z)
  BY DEF LifeInv
<1>2. /\ cq[z] \in Cqs /\ cq[z].step \in 0 .. 9 /\ napi[z] \in Napis /\ napi[z].done \in Nat
      /\ cq[z].free \in Nat
  BY DEF TypeOK, Cqs, Napis
<1> DEFINE R == \A k \in 1 .. Len(mmio) : ~(mmio[k].op = "ring" /\ mmio[k].addr = z)
<1> USE DEF Life
<1>3. ASSUME NEW q \in Queues, NEW w, Opening(q, w) PROVE Life(z)'
  <2>1. Posts(w) /\ w.addr = q /\ napi' = napi
    BY <1>3 DEF Opening
  <2>2. CASE z # q
    <3>1. cq'[z] = cq[z] /\ (R => R')
      BY <1>3, <2>1, <2>2, NoRing DEF Opening
    <3> QED BY <1>1, <2>1, <3>1
  <2>3. CASE z = q
    <3>1. /\ cq[q].pc = "opening" /\ cq[q].step < 9 /\ cq'[q].step = cq[q].step + 1
          /\ cq'[q].pc = IF cq'[q].step = 9 THEN "open" ELSE "opening"
          /\ cq'[q].cons = 0 /\ cq'[q].free = 0 /\ Opens(cq'[q], w, cq'[q].step)
      BY <1>3 DEF Opening
    <3>2. cq'[q].step # 9 => w.op # "ring"
      BY <1>2, <2>3, <3>1 DEF Opens
    <3>3. cq'[q].step # 9 => R'
      BY <1>1, <2>1, <2>3, <3>1, <3>2, NoRing
    <3> QED BY <1>1, <1>2, <2>1, <2>3, <3>1, <3>3
  <2> QED BY <2>2, <2>3
<1>4. ASSUME NEW q \in Queues, NEW w, Refilling(q, w) PROVE Life(z)'
  <2>1. Posts(w) /\ w.addr = q /\ napi' = napi /\ cq[q].pc = "open"
    BY <1>4 DEF Refilling
  <2>2. cq'[z].pc = cq[z].pc /\ cq'[z].step = cq[z].step /\ cq'[z].cons = cq[z].cons
    BY <1>4 DEF Refilling
  <2>3. z # q => (R => R')
    BY <2>1, NoRing
  <2>4. z # q => cq'[z] = cq[z]
    BY <1>4 DEF Refilling
  <2> QED BY <1>1, <1>2, <2>1, <2>2, <2>3, <2>4
<1>5. ASSUME NEW q \in Queues, NEW w, Polled(q, w) PROVE Life(z)'
  <2>1. Posts(w) /\ w.op = "set_cons" /\ napi[q].state = "poll"
    BY <1>5 DEF Polled
  <2>2. R => R'
    BY <2>1, NoRing
  <2>3. CASE z = q
    <3>1. cq'[q].pc = cq[q].pc /\ cq'[q].step = cq[q].step /\ napi'[q].done = 0
      BY <1>5 DEF Polled
    <3>2. cq[q].pc # "opening"
      BY <1>1, <2>1, <2>3 DEF NapiIdle
    <3> QED BY <1>1, <1>2, <2>2, <2>3, <3>1, <3>2
  <2>4. CASE z # q
    <3>1. cq'[z] = cq[z] /\ napi'[z] = napi[z]
      BY <1>5, <2>4 DEF Polled
    <3> QED BY <1>1, <2>2, <3>1
  <2> QED BY <2>3, <2>4
<1>6. ASSUME NEW q \in Queues, NEW w, Arming(q, w) PROVE Life(z)'
  <2>1. Posts(w) /\ w.op = "set_arm" /\ napi[q].arming > 0 /\ cq' = cq
    BY <1>6 DEF Arming
  <2>2. R => R'
    BY <2>1, NoRing
  <2>3. CASE z = q
    <3>1. napi'[q].done = napi[q].done /\ napi'[q].state = napi[q].state
      BY <1>6 DEF Arming
    <3>2. cq[q].pc # "opening"
      BY <1>1, <2>1, <2>3 DEF NapiIdle
    <3> QED BY <1>1, <2>1, <2>2, <2>3, <3>1, <3>2
  <2>4. CASE z # q
    <3>1. napi'[z] = napi[z]
      BY <1>6, <2>4 DEF Arming
    <3> QED BY <1>1, <2>1, <2>2, <3>1
  <2> QED BY <2>3, <2>4
<1>7. ASSUME NEW q \in Queues, NEW w, Closing(q, w) PROVE Life(z)'
  <2>1. Posts(w) /\ w.op = "set_enable" /\ cq[q].pc = "down"
    BY <1>7 DEF Closing
  <2>2. R => R'
    BY <2>1, NoRing
  <2>3. CASE z = q
    <3>1. cq'[q] = CqClosed /\ napi'[q] = NapiIdle
      BY <1>7 DEF Closing
    <3>2. /\ cq'[q].pc = "opening" /\ cq'[q].step = 0 /\ cq'[q].cons = 0 /\ cq'[q].free = 0
          /\ napi'[q].done = 0
      BY <3>1 DEF CqClosed, NapiIdle
    <3> QED BY <1>1, <2>1, <2>2, <2>3, <3>1, <3>2
  <2>4. CASE z # q
    <3>1. cq'[z] = cq[z] /\ napi'[z] = napi[z]
      BY <1>7, <2>4 DEF Closing
    <3> QED BY <1>1, <2>2, <3>1
  <2> QED BY <2>3, <2>4
<1>8. ASSUME NEW q \in Queues, NEW w, Landing(q, w) PROVE Life(z)'
  <2>1. mmio # <<>> /\ mmio' = Tail(mmio) /\ cq' = cq /\ napi' = napi
    BY <1>8 DEF Landing
  <2>2. R => R'
    BY <2>1, NoRingTail
  <2> QED BY <1>1, <2>1, <2>2
<1>9. ASSUME NEW q \in Queues, Quiet(q) PROVE Life(z)'
  <2>1. mmio' = mmio /\ cq' = cq
    BY <1>9 DEF Quiet
  <2>2. CASE z = q
    <3>1. /\ napi'[q].done = napi[q].done
          /\ napi[q].done > 0 => napi'[q].state = "poll"
          /\ cq[q].pc = "opening" => napi' = napi
      BY <1>9 DEF Quiet
    <3> QED BY <1>1, <2>1, <2>2, <3>1
  <2>3. CASE z # q
    <3>1. napi'[z] = napi[z]
      BY <1>9, <2>3 DEF Quiet
    <3> QED BY <1>1, <2>1, <3>1
  <2> QED BY <2>2, <2>3
<1>10. ASSUME NEW q \in Queues, Consuming(q) PROVE Life(z)'
  <2>1. mmio' = mmio /\ napi[q].state = "poll"
    BY <1>10 DEF Consuming
  <2>2. CASE z = q
    <3>1. cq'[q].pc = cq[q].pc /\ cq'[q].step = cq[q].step /\ napi'[q].state = "poll"
      BY <1>10 DEF Consuming
    <3>2. cq[q].pc # "opening"
      BY <1>1, <2>1, <2>2 DEF NapiIdle
    <3> QED BY <1>1, <1>2, <2>1, <2>2, <3>1, <3>2
  <2>3. CASE z # q
    <3>1. cq'[z] = cq[z] /\ napi'[z] = napi[z]
      BY <1>10, <2>3 DEF Consuming
    <3> QED BY <1>1, <2>1, <3>1
  <2> QED BY <2>2, <2>3
<1>11. ASSUME NEW h, NEW g, Writing(h, g) PROVE Life(z)'
  BY <1>1, <1>11 DEF Writing
<1>12. ASSUME NEW a, NEW b, Stopping(a, b), a \in {"open", "stopping"},
              b \in {"stopping", "down"}, a = "open" => R
       PROVE  Life(z)'
  <2>1. /\ mmio' = mmio /\ napi' = napi /\ cq[z].pc = a /\ cq'[z].pc = b
        /\ cq'[z].step = cq[z].step /\ cq'[z].cons = cq[z].cons /\ cq'[z].free = cq[z].free
    BY <1>12 DEF Stopping
  <2> QED BY <1>1, <1>2, <1>12, <2>1
<1>13. ASSUME NEW e, NEW r, NEW v, NEW done, NEW tags, Tick(e, r, v, done, tags)
       PROVE  Life(z)'
  <2>1. cq' = cq /\ napi' = napi
    BY <1>13 DEF Tick
  <2>2. mmio' = mmio \/ (mmio # <<>> /\ mmio' = Tail(mmio))
    BY <1>13 DEF Tick, Loads
  <2>3. R => R'
    BY <2>2, NoRingTail
  <2> QED BY <1>1, <2>1, <2>3
<1> HIDE DEF R, Life
<1>14. (\A k \in 1 .. Len(mmio) : mmio[k].op # "ring") => R
  BY DEF R
<1> QED BY <1>3, <1>4, <1>5, <1>6, <1>7, <1>8, <1>9, <1>10, <1>11, <1>12, <1>13, <1>14 DEF Outside

(* The pipeline and the operation table.                                   *)

\* The copy of a queue's word that an operation carries is never stale: one operation
\* per queue is in the pipeline.
PipeCoherent ==
    \A j \in Stages : pipe[j].op # "none" =>
        /\ pipe[j].data = queue_ram[pipe[j].addr]
        /\ \A k \in Stages \ {j} : pipe[k].op # "none" => pipe[k].addr # pipe[j].addr

OneReq == \A j, k \in Stages : pipe[j].op = "req" /\ pipe[k].op = "req" => j = k
OneSet == \A j, k \in Stages : pipe[j].op \in SetOps /\ pipe[k].op \in SetOps => j = k

PipeInv == PipeCoherent /\ OneReq /\ OneSet

\* A reservation that reaches the last stage finds the response register and its
\* operation table entry free.
ReqResourcesFree ==
    InPipe({"req"}) => ~resp.valid /\ ~op_table[op_table_start_ptr].active

InRing(i) ==
    IF op_table_finish_ptr < op_table_start_ptr
    THEN op_table_finish_ptr <= i /\ i < op_table_start_ptr
    ELSE i < op_table_start_ptr \/ op_table_finish_ptr <= i

\* The active entries are those from finish_ptr up to start_ptr.
OpTableRing ==
    \/ \A i \in OpIdx : op_table[i].active <=> InRing(i)
    \/ op_table_start_ptr = op_table_finish_ptr /\ \A i \in OpIdx : ~op_table[i].active

TableInv == ReqResourcesFree /\ OpTableRing

IsGrant(x) == x.valid /\ ~x.error /\ ~x.full

\* Slots handed out and not committed: with cpl_write, or in the response register.
Granted == held \cup {Job(x) : x \in {y \in {resp} : IsGrant(y)}}

\* An operation tag names one job until it is committed.
TagsExclusive ==
    \A g \in Granted :
        /\ op_table[g.op_tag].active
        /\ ~op_table[g.op_tag].commit
        /\ op_table[g.op_tag].queue = g.queue
        /\ op_table[g.op_tag].queue_ptr = Inc(g.ptr)
        /\ \A h \in Granted : h.op_tag = g.op_tag => h = g

RespNotHeld == IsGrant(resp) => Job(resp) \notin held

GrantInv == TagsExclusive /\ RespNotHeld

IInv == TypeOK /\ LifeInv /\ PipeInv /\ TableInv /\ GrantInv

\* The last stage writes the word of its own queue and no other.
LEMMA PerformFrame ==
    ASSUME TypeOK, Perform, NEW q \in Queues, Last.op = "none" \/ q # Last.addr
    PROVE  queue_ram'[q] = queue_ram[q]
<1>1. queue_ram \in [Queues -> Words]
  BY DEF TypeOK
<1>2. CASE PerformReq
  BY <1>1, <1>2 DEF PerformReq
<1>3. CASE PerformCommit
  BY <1>1, <1>3 DEF PerformCommit
<1>4. CASE PerformWrite
  BY <1>1, <1>4 DEF PerformWrite, SetOps
<1>5. CASE PerformNothing
  BY <1>5 DEF PerformNothing
<1> QED BY <1>2, <1>3, <1>4, <1>5 DEF Perform

\* The pipeline part: an accepted operation is on a queue no stage works on.
LEMMA ClockPipe ==
    ASSUME TypeOK, PipeInv, Perform, NEW e \in Entries, NEW r, NEW v, Loads(e, r, v)
    PROVE  PipeInv'
<1>1. /\ pipe'[0] = e
      /\ \A j \in Stages \ {0} : pipe'[j] = pipe[j - 1] /\ j - 1 \in Stages
                                 /\ j - 1 # PIPELINE - 1
  BY Constants, CplPipelineAssumption DEF Loads, Shift, Stages
<1>2. \A j \in Stages : pipe[j] \in Entries /\ pipe[j].addr \in Queues
  BY DEF TypeOK, Entries
<1>3. Last = pipe[PIPELINE - 1] /\ PIPELINE - 1 \in Stages
  BY Constants DEF Last
<1>4. \A j \in Stages : pipe[j].op # "none" /\ e.op # "none" => pipe[j].addr # e.addr
  BY DEF Loads, PipeHazard
<1>5. ASSUME NEW j \in Stages, j # PIPELINE - 1, pipe[j].op # "none"
      PROVE  pipe[j].data = queue_ram'[pipe[j].addr]
  <2>1. Last.op = "none" \/ pipe[j].addr # Last.addr
    BY <1>3, <1>5 DEF PipeInv, PipeCoherent
  <2>2. queue_ram'[pipe[j].addr] = queue_ram[pipe[j].addr]
    BY <1>2, <2>1, PerformFrame
  <2> QED BY <1>5, <2>2 DEF PipeInv, PipeCoherent
<1>6. e.op # "none" => e.data = queue_ram'[e.addr]
  <2> SUFFICES ASSUME e.op # "none" PROVE e.data = queue_ram'[e.addr]
    OBVIOUS
  <2>1. e.addr \in Queues
    BY DEF Entries
  <2>2. queue_ram'[e.addr] = queue_ram[e.addr]
    BY <1>3, <1>4, <2>1, PerformFrame
  <2> QED BY <2>2 DEF Loads
<1>7. PipeCoherent'
  <2> SUFFICES ASSUME NEW j \in Stages, pipe'[j].op # "none"
               PROVE  /\ pipe'[j].data = queue_ram'[pipe'[j].addr]
                      /\ \A k \in Stages \ {j} : pipe'[k].op # "none"
                                                 => pipe'[k].addr # pipe'[j].addr
    BY DEF PipeCoherent
  <2>1. pipe'[j].data = queue_ram'[pipe'[j].addr]
    BY <1>1, <1>5, <1>6
  <2>2. ASSUME NEW k \in Stages \ {j}, pipe'[k].op # "none"
        PROVE  pipe'[k].addr # pipe'[j].addr
    <3>1. CASE j = 0
      BY <1>1, <1>4, <2>2, <3>1
    <3>2. CASE k = 0
      BY <1>1, <1>4, <2>2, <3>2
    <3>3. CASE j # 0 /\ k # 0
      <4>1. j - 1 # k - 1
        BY <2>2, CplPipelineAssumption DEF Stages
      <4> QED BY <1>1, <2>2, <3>3, <4>1 DEF PipeInv, PipeCoherent
    <3> QED BY <3>1, <3>2, <3>3
  <2> QED BY <2>1, <2>2
<1>8. OneReq'
  <2> SUFFICES ASSUME NEW j \in Stages, NEW k \in Stages,
                      pipe'[j].op = "req", pipe'[k].op = "req", j # k
               PROVE  FALSE
    BY DEF OneReq
  <2>1. CASE j = 0
    BY <1>1, <2>1 DEF Loads, InPipe
  <2>2. CASE k = 0
    BY <1>1, <2>2 DEF Loads, InPipe
  <2>3. CASE j # 0 /\ k # 0
    <3>1. j - 1 # k - 1
      BY CplPipelineAssumption DEF Stages
    <3> QED BY <1>1, <2>3, <3>1 DEF PipeInv, OneReq
  <2> QED BY <2>1, <2>2, <2>3
<1>9. OneSet'
  <2> SUFFICES ASSUME NEW j \in Stages, NEW k \in Stages,
                      pipe'[j].op \in SetOps, pipe'[k].op \in SetOps, j # k
               PROVE  FALSE
    BY DEF OneSet
  <2>1. CASE j = 0
    BY <1>1, <2>1 DEF Loads, InPipe
  <2>2. CASE k = 0
    BY <1>1, <2>2 DEF Loads, InPipe
  <2>3. CASE j # 0 /\ k # 0
    <3>1. j - 1 # k - 1
      BY CplPipelineAssumption DEF Stages
    <3> QED BY <1>1, <2>3, <3>1 DEF PipeInv, OneSet
  <2> QED BY <2>1, <2>2, <2>3
<1> QED BY <1>7, <1>8, <1>9 DEF PipeInv

\* The operation table entries after a clock, entry by entry.
LEMMA TableStep ==
    ASSUME TypeOK, NEW tags, OpTableNext(tags), NEW i \in OpIdx
    PROVE  /\ FinishEn /\ i = op_table_finish_ptr => op_table'[i] = FreeEntry
           /\ ~(FinishEn /\ i = op_table_finish_ptr) /\ StartEn /\ i = op_table_start_ptr =>
                /\ op_table'[i].active
                /\ op_table'[i].commit <=> i \in tags
                /\ op_table'[i].queue = Last.addr
                /\ op_table'[i].queue_ptr = Inc(ActiveProdPtr)
           /\ ~(FinishEn /\ i = op_table_finish_ptr) /\ ~(StartEn /\ i = op_table_start_ptr) =>
                /\ op_table'[i].active <=> op_table[i].active
                /\ op_table'[i].commit <=> (op_table[i].commit \/ i \in tags)
                /\ op_table'[i].queue = op_table[i].queue
                /\ op_table'[i].queue_ptr = op_table[i].queue_ptr
<1>1. op_table[i] \in OpEntries
  BY DEF TypeOK
<1>2. CASE FinishEn /\ i = op_table_finish_ptr
  BY <1>2, Zenon DEF OpTableNext
<1>3. CASE ~(FinishEn /\ i = op_table_finish_ptr) /\ StartEn /\ i = op_table_start_ptr
  <2>1. op_table'[i] = [active |-> TRUE, commit |-> i \in tags, queue |-> Last.addr,
                        queue_ptr |-> Inc(ActiveProdPtr)]
    BY <1>3, Zenon DEF OpTableNext
  <2>2. /\ op_table'[i].active = TRUE
        /\ op_table'[i].commit = (i \in tags)
        /\ op_table'[i].queue = Last.addr
        /\ op_table'[i].queue_ptr = Inc(ActiveProdPtr)
    BY <2>1
  <2> QED BY <1>3, <2>2, Zenon
<1>4. CASE ~(FinishEn /\ i = op_table_finish_ptr) /\ ~(StartEn /\ i = op_table_start_ptr)
  <2> DEFINE c == op_table[i].commit \/ i \in tags
  <2>1. op_table'[i] = [op_table[i] EXCEPT !.commit = c]
    BY <1>4, Zenon DEF OpTableNext
  <2>2. \A b \in BOOLEAN : LET t == [op_table[i] EXCEPT !.commit = b]
                          IN  /\ t.active = op_table[i].active
                              /\ t.commit = b
                              /\ t.queue = op_table[i].queue
                              /\ t.queue_ptr = op_table[i].queue_ptr
    BY <1>1 DEF OpEntries
  <2>3. c \in BOOLEAN
    OBVIOUS
  <2>4. /\ op_table'[i].active = op_table[i].active
        /\ op_table'[i].commit = c
        /\ op_table'[i].queue = op_table[i].queue
        /\ op_table'[i].queue_ptr = op_table[i].queue_ptr
    BY <2>1, <2>2, <2>3, Zenon
  <2> QED BY <1>4, <2>4, Zenon
<1> QED BY <1>2, <1>3, <1>4

\* The table part: allocation finds a free entry at start_ptr, retirement frees the one
\* at finish_ptr, and the ring in between stays full.
LEMMA ClockTable ==
    ASSUME TypeOK, PipeInv, TableInv, NEW e \in Entries, NEW r, NEW v, Loads(e, r, v),
           NEW tags, RespNext(r), OpTableNext(tags)
    PROVE  TableInv'
<1> DEFINE s == op_table_start_ptr
           f == op_table_finish_ptr
<1>1. /\ pipe'[0] = e
      /\ \A j \in Stages \ {0} : pipe'[j] = pipe[j - 1] /\ j - 1 \in Stages
                                 /\ j - 1 # PIPELINE - 1
  BY Constants, CplPipelineAssumption DEF Loads, Shift, Stages
<1>2. FinishEn <=> e.op = "commit"
  BY <1>1 DEF FinishEn
<1>3. FinishEn => op_table[f].active
  BY <1>2 DEF Loads, CommitReady
<1>4. StartEn => Last.op = "req" /\ ~op_table[s].active /\ ~resp.valid
  BY Constants DEF StartEn, Last, TableInv, ReqResourcesFree, InPipe
<1>5. s \in OpIdx /\ f \in OpIdx /\ s' \in OpIdx /\ f' \in OpIdx
  BY Arithmetic DEF OpTableNext, TypeOK
<1>6. \A i \in OpIdx : op_table'[i].active <=>
         /\ ~(FinishEn /\ i = f)
         /\ op_table[i].active \/ (StartEn /\ i = s)
  <2> SUFFICES ASSUME NEW i \in OpIdx
               PROVE  op_table'[i].active <=>
                        /\ ~(FinishEn /\ i = f)
                        /\ op_table[i].active \/ (StartEn /\ i = s)
    OBVIOUS
  <2>1. ~FreeEntry.active
    BY DEF FreeEntry
  <2>2. CASE FinishEn /\ i = f
    BY <2>1, <2>2, TableStep, Zenon
  <2>3. CASE ~(FinishEn /\ i = f) /\ StartEn /\ i = s
    BY <2>3, TableStep, Zenon
  <2>4. CASE ~(FinishEn /\ i = f) /\ ~(StartEn /\ i = s)
    BY <2>4, TableStep, Zenon
  <2> QED BY <2>2, <2>3, <2>4, Zenon
<1>7. ReqResourcesFree'
  <2> SUFFICES ASSUME NEW j \in Stages, pipe'[j].op = "req"
               PROVE  ~resp'.valid /\ ~op_table'[s'].active
    BY DEF ReqResourcesFree, InPipe
  <2>1. Last.op # "req"
    <3>1. CASE j = 0
      BY <1>1, <3>1, Constants DEF Loads, InPipe, Last
    <3>2. CASE j # 0
      BY <1>1, <3>2, Constants DEF PipeInv, OneReq, Last
    <3> QED BY <3>1, <3>2
  <2>2. (resp.valid => r) /\ ~op_table[s].active
    <3>1. CASE j = 0
      BY <1>1, <3>1 DEF Loads
    <3>2. CASE j # 0
      BY <1>1, <3>2 DEF TableInv, ReqResourcesFree, InPipe
    <3> QED BY <3>1, <3>2
  <2>3. ~resp'.valid
    BY <2>1, <2>2 DEF RespNext, NoResp
  <2>4. s' = s /\ ~StartEn
    BY <2>1 DEF OpTableNext, StartEn
  <2> QED BY <1>5, <1>6, <2>2, <2>3, <2>4
<1>8. OpTableRing'
  <2>1. s' = (IF StartEn THEN NextIdx(s) ELSE s) /\ f' = (IF FinishEn THEN NextIdx(f) ELSE f)
    BY DEF OpTableNext
  <2> QED BY <1>3, <1>4, <1>5, <1>6, <2>1, CplOpTableAssumption, SMTT(60)
      DEF TableInv, OpTableRing, InRing, NextIdx, OpIdx
<1> QED BY <1>7, <1>8 DEF TableInv

\* The slots handed out after a clock: those before it that were not committed, and
\* the one that is reserved.
LEMMA GrantStep ==
    ASSUME IInv, NEW e, NEW r, NEW v, NEW done, NEW tags, Tick(e, r, v, done, tags)
    PROVE  /\ \A g \in Granted : g \in Jobs /\ g.op_tag \in OpIdx
           /\ done \subseteq held /\ held \subseteq Granted
           /\ \A g \in Granted : g \notin done =>
                 /\ ~(FinishEn /\ g.op_tag = op_table_finish_ptr)
                 /\ ~(StartEn /\ g.op_tag = op_table_start_ptr)
                 /\ g.op_tag \notin tags
           /\ \A g \in Granted' :
                 \/ g \in Granted /\ g \notin done
                 \/ /\ StartEn /\ g = Job(resp') /\ resp' \in Resps
                    /\ g.op_tag = op_table_start_ptr /\ g.queue = Last.addr
                    /\ g.ptr = ActiveProdPtr
                    /\ g.phase = Phase(ActiveProdPtr, Last.data.log_size)
                    /\ g.slot = Slot(ActiveProdPtr, Last.data.log_size)
                    /\ g.base = Last.data.base
                    /\ ~g.written
           /\ RespNotHeld'
           /\ ~(FinishEn /\ op_table_start_ptr = op_table_finish_ptr /\ StartEn)
           /\ StartEn => op_table_start_ptr \notin tags
<1> DEFINE s == op_table_start_ptr
           f == op_table_finish_ptr
<1>1. TypeOK /\ TableInv /\ TagsExclusive /\ RespNotHeld /\ TypeOK'
  BY ClockType DEF IInv, GrantInv
<1>2. FinishEn => op_table[f].active /\ op_table[f].commit
  <2>1. pipe'[0] = e
    BY Constants DEF Tick, Loads, Shift
  <2> QED BY <2>1 DEF FinishEn, Tick, Loads, CommitReady
<1>3. Last.op = "req" => ~op_table[s].active /\ ~resp.valid
  BY <1>1, Constants DEF Last, TableInv, ReqResourcesFree, InPipe
<1>4. done \subseteq held /\ \A h \in done : h.written
  BY DEF Tick, CommitChoices
<1>5. IsGrant(resp) => resp \in Resps
  BY <1>1 DEF TypeOK, NoResp, IsGrant
<1>6. \A g \in Granted : g \in Jobs /\ g.op_tag \in OpIdx
  BY <1>1, <1>5, JobType DEF Granted, TypeOK, Jobs
<1>7. held \subseteq Granted
  BY DEF Granted
<1>8. tags = {h.op_tag : h \in done}
  BY DEF Tick, TagsOf
<1>9. ASSUME NEW g \in Granted, g \notin done
      PROVE  /\ ~(FinishEn /\ g.op_tag = f)
             /\ ~(StartEn /\ g.op_tag = s)
             /\ g.op_tag \notin tags
  <2>1. op_table[g.op_tag].active /\ ~op_table[g.op_tag].commit
    BY <1>1, <1>9 DEF TagsExclusive
  <2>2. ~(FinishEn /\ g.op_tag = f)
    BY <1>2, <2>1
  <2>3. ~(StartEn /\ g.op_tag = s)
    BY <1>3, <2>1 DEF StartEn
  <2>4. g.op_tag \notin tags
    BY <1>1, <1>4, <1>7, <1>8, <1>9 DEF TagsExclusive
  <2> QED BY <2>1, <2>2, <2>3, <2>4
<1>10. ASSUME Last.op = "req", IsGrant(resp')
       PROVE  /\ StartEn /\ resp' \in Resps
              /\ resp'.op_tag = s /\ resp'.queue = Last.addr /\ resp'.ptr = ActiveProdPtr
              /\ resp'.phase = Phase(ActiveProdPtr, Last.data.log_size)
              /\ resp'.slot = Slot(ActiveProdPtr, Last.data.log_size)
              /\ resp'.base = Last.data.base
  <2>1. Last.data.enable \in Bit
    BY <1>1, LastType DEF Words
  <2>2. /\ resp'.op_tag = s /\ resp'.queue = Last.addr /\ resp'.ptr = ActiveProdPtr
        /\ resp'.phase = Phase(ActiveProdPtr, Last.data.log_size)
        /\ resp'.slot = Slot(ActiveProdPtr, Last.data.log_size)
        /\ resp'.base = Last.data.base
        /\ resp'.error = (Last.data.enable = 0)
        /\ resp'.full = (Last.data.enable = 1 /\ QueueFull)
    BY <1>10 DEF Tick, RespNext
  <2>3. resp' \in Resps
    BY <1>1, <1>10 DEF TypeOK, NoResp, IsGrant
  <2> QED BY <1>10, <2>1, <2>2, <2>3 DEF StartEn, Bit, IsGrant
<1>11. ASSUME Last.op # "req", IsGrant(resp')
       PROVE  resp' = resp /\ IsGrant(resp) /\ ~r
  BY <1>11 DEF Tick, RespNext, NoResp, IsGrant
<1>12. \A g \in held' : g \in Granted /\ g \notin done
  <2>1. held' = (held \ done) \cup (IF resp.valid /\ r /\ ~resp.error /\ ~resp.full
                                    THEN {Job(resp)} ELSE {})
    BY DEF Tick, HeldNext
  <2>2. IsGrant(resp) => Job(resp) \in Granted /\ Job(resp) \notin done
    BY <1>4, <1>5, JobType DEF Granted
  <2> QED BY <1>7, <2>1, <2>2 DEF IsGrant
<1>13. ASSUME NEW g \in Granted'
       PROVE  \/ g \in Granted /\ g \notin done
              \/ /\ StartEn /\ g = Job(resp') /\ resp' \in Resps
                 /\ g.op_tag = s /\ g.queue = Last.addr
                 /\ g.ptr = ActiveProdPtr
                 /\ g.phase = Phase(ActiveProdPtr, Last.data.log_size)
                 /\ g.slot = Slot(ActiveProdPtr, Last.data.log_size)
                 /\ g.base = Last.data.base
                 /\ ~g.written
  <2>1. CASE g \in held'
    BY <1>12, <2>1
  <2>2. CASE g \notin held'
    <3>1. g = Job(resp') /\ IsGrant(resp')
      BY <1>13, <2>2 DEF Granted
    <3>2. CASE Last.op = "req"
      <4>1. /\ StartEn /\ resp' \in Resps
            /\ resp'.op_tag = s /\ resp'.queue = Last.addr /\ resp'.ptr = ActiveProdPtr
            /\ resp'.phase = Phase(ActiveProdPtr, Last.data.log_size)
            /\ resp'.slot = Slot(ActiveProdPtr, Last.data.log_size)
            /\ resp'.base = Last.data.base
        BY <1>10, <3>1, <3>2
      <4>2. /\ ~g.written /\ g.queue = resp'.queue /\ g.ptr = resp'.ptr
            /\ g.phase = resp'.phase /\ g.slot = resp'.slot /\ g.base = resp'.base
            /\ g.op_tag = resp'.op_tag
        BY <3>1, <4>1, JobType
      <4> QED BY <3>1, <4>1, <4>2
    <3>3. CASE Last.op # "req"
      <4>1. resp' = resp /\ IsGrant(resp)
        BY <1>11, <3>1, <3>3
      <4>2. g = Job(resp) /\ g \in Granted /\ ~g.written
        BY <1>5, <3>1, <4>1, JobType DEF Granted
      <4> QED BY <1>4, <4>2
    <3> QED BY <3>2, <3>3
  <2> QED BY <2>1, <2>2
<1>14. RespNotHeld'
  <2> SUFFICES ASSUME IsGrant(resp'), Job(resp') \in held' PROVE FALSE
    BY DEF RespNotHeld
  <2>1. Job(resp') \in Granted /\ Job(resp') \notin done
    BY <1>12
  <2>2. CASE Last.op = "req"
    <3>1. StartEn /\ resp' \in Resps /\ resp'.op_tag = s
      BY <1>10, <2>2
    <3>2. Job(resp').op_tag = s
      BY <3>1, JobType
    <3> QED BY <1>9, <2>1, <3>1, <3>2
  <2>3. CASE Last.op # "req"
    <3>1. resp' = resp /\ IsGrant(resp) /\ ~r
      BY <1>11, <2>3
    <3>2. held' = held \ done
      BY <3>1 DEF Tick, HeldNext
    <3> QED BY <1>1, <3>1, <3>2 DEF RespNotHeld
  <2> QED BY <2>2, <2>3
<1>15. ~(FinishEn /\ s = f /\ StartEn)
  BY <1>2, <1>3 DEF StartEn
<1>16. StartEn => s \notin tags
  BY <1>1, <1>3, <1>4, <1>7, <1>8 DEF StartEn, TagsExclusive
<1> QED BY <1>4, <1>6, <1>7, <1>9, <1>13, <1>14, <1>15, <1>16

\* The grant part: a new response names an entry that was free, a commit touches the
\* entry of its own job only, and a retired entry is committed, hence nobody's.
LEMMA ClockGrant ==
    ASSUME IInv, NEW e, NEW r, NEW v, NEW done, NEW tags, Tick(e, r, v, done, tags)
    PROVE  GrantInv'
<1> DEFINE s == op_table_start_ptr
           f == op_table_finish_ptr
<1>1. TypeOK /\ TagsExclusive /\ OpTableNext(tags) /\ s \in OpIdx
  BY DEF IInv, GrantInv, Tick, TypeOK
<1>2. TagsExclusive'
  <2> SUFFICES ASSUME NEW g \in Granted'
               PROVE  /\ op_table'[g.op_tag].active
                      /\ ~op_table'[g.op_tag].commit
                      /\ op_table'[g.op_tag].queue = g.queue
                      /\ op_table'[g.op_tag].queue_ptr = Inc(g.ptr)
                      /\ \A h \in Granted' : h.op_tag = g.op_tag => h = g
    BY DEF TagsExclusive
  <2>1. CASE g \in Granted /\ g \notin done
    <3>1. /\ op_table[g.op_tag].queue = g.queue
          /\ op_table[g.op_tag].queue_ptr = Inc(g.ptr)
          /\ ~op_table[g.op_tag].commit /\ op_table[g.op_tag].active
      BY <1>1, <2>1 DEF TagsExclusive
    <3>2. /\ ~(FinishEn /\ g.op_tag = f) /\ ~(StartEn /\ g.op_tag = s)
          /\ g.op_tag \notin tags /\ g.op_tag \in OpIdx
      BY <2>1, GrantStep
    <3>3. /\ op_table'[g.op_tag].active <=> op_table[g.op_tag].active
          /\ op_table'[g.op_tag].commit <=> (op_table[g.op_tag].commit \/ g.op_tag \in tags)
          /\ op_table'[g.op_tag].queue = op_table[g.op_tag].queue
          /\ op_table'[g.op_tag].queue_ptr = op_table[g.op_tag].queue_ptr
      BY <1>1, <3>2, TableStep, Zenon
    <3>4. ASSUME NEW h \in Granted', h.op_tag = g.op_tag
          PROVE  h = g
      <4>1. CASE h \in Granted /\ h \notin done
        BY <1>1, <2>1, <3>4, <4>1 DEF TagsExclusive
      <4>2. CASE StartEn /\ h.op_tag = s
        BY <3>2, <3>4, <4>2
      <4> QED BY <3>4, <4>1, <4>2, GrantStep
    <3> QED BY <3>1, <3>2, <3>3, <3>4
  <2>2. CASE /\ StartEn /\ g = Job(resp') /\ g.op_tag = s /\ g.queue = Last.addr
             /\ g.ptr = ActiveProdPtr
    <3>1. ~(FinishEn /\ s = f) /\ s \notin tags
      BY <2>2, GrantStep
    <3>2. /\ op_table'[s].active
          /\ op_table'[s].commit <=> s \in tags
          /\ op_table'[s].queue = Last.addr
          /\ op_table'[s].queue_ptr = Inc(ActiveProdPtr)
      BY <1>1, <2>2, <3>1, TableStep, Zenon
    <3>3. ASSUME NEW h \in Granted', h.op_tag = g.op_tag
          PROVE  h = g
      <4>1. CASE h \in Granted /\ h \notin done
        BY <2>2, <3>3, <4>1, GrantStep
      <4>2. CASE h = Job(resp')
        BY <2>2, <4>2
      <4> QED BY <3>3, <4>1, <4>2, GrantStep
    <3> QED BY <2>2, <3>1, <3>2, <3>3
  <2> QED BY <2>1, <2>2, GrantStep
<1> QED BY <1>2, GrantStep DEF GrantInv

\* A clock keeps the pipeline, the table and the tags in order.
LEMMA ClockBase ==
    ASSUME IInv, NEW e, NEW r, NEW v, NEW done, NEW tags, Tick(e, r, v, done, tags)
    PROVE  IInv'
<1>1. TypeOK'
  BY ClockType DEF IInv
<1>2. LifeInv'
  BY LifeStep DEF IInv
<1>3. e \in Entries /\ Loads(e, r, v) /\ Perform /\ RespNext(r) /\ OpTableNext(tags)
  BY DEF Tick
<1>4. PipeInv'
  BY <1>3, ClockPipe DEF IInv
<1>5. TableInv'
  BY <1>3, ClockTable DEF IInv
<1> QED BY <1>1, <1>2, <1>4, <1>5, ClockGrant DEF IInv

\* So do the steps outside it.
LEMMA OutsideBase ==
    ASSUME IInv, Outside
    PROVE  IInv'
<1>1. TypeOK' /\ LifeInv'
  BY OutsideType, LifeStep DEF IInv
<1>2. UNCHANGED hw_vars /\ (UNCHANGED held \/ \E h, g : Writing(h, g))
  <2>1. \A q \in Queues : \A w : Opening(q, w) => UNCHANGED hw_vars /\ UNCHANGED held
    BY DEF Opening
  <2>2. \A q \in Queues : \A w : Refilling(q, w) => UNCHANGED hw_vars /\ UNCHANGED held
    BY DEF Refilling
  <2>3. \A q \in Queues : \A w : Polled(q, w) => UNCHANGED hw_vars /\ UNCHANGED held
    BY DEF Polled
  <2>4. \A q \in Queues : \A w : Arming(q, w) => UNCHANGED hw_vars /\ UNCHANGED held
    BY DEF Arming
  <2>5. \A q \in Queues : \A w : Closing(q, w) => UNCHANGED hw_vars /\ UNCHANGED held
    BY DEF Closing
  <2>6. \A q \in Queues : \A w : Landing(q, w) => UNCHANGED hw_vars /\ UNCHANGED held
    BY DEF Landing
  <2>7. \A q \in Queues : Quiet(q) => UNCHANGED hw_vars /\ UNCHANGED held
    BY DEF Quiet
  <2>8. \A q \in Queues : Consuming(q) => UNCHANGED hw_vars /\ UNCHANGED held
    BY DEF Consuming
  <2>9. \A h, g : Writing(h, g) => UNCHANGED hw_vars
    BY DEF Writing
  <2>10. \A a, b : Stopping(a, b) => UNCHANGED hw_vars /\ UNCHANGED held
    BY DEF Stopping
  <2> QED BY <2>1, <2>2, <2>3, <2>4, <2>5, <2>6, <2>7, <2>8, <2>9, <2>10 DEF Outside
<1>3. UNCHANGED <<queue_ram, pipe, op_table, op_table_start_ptr, op_table_finish_ptr, resp>>
  BY <1>2 DEF hw_vars
<1>4. PipeInv'
  BY <1>3 DEF IInv, PipeInv, PipeCoherent, OneReq, OneSet
<1>5. TableInv'
  BY <1>3 DEF IInv, TableInv, ReqResourcesFree, InPipe, OpTableRing, InRing
<1>6. GrantInv'
  <2>1. CASE UNCHANGED held
    <3>1. Granted' = Granted
      BY <1>3, <2>1 DEF Granted
    <3> QED BY <1>3, <2>1, <3>1 DEF IInv, GrantInv, TagsExclusive, RespNotHeld
  <2>2. ASSUME NEW h, NEW g, Writing(h, g) PROVE GrantInv'
    <3>1. /\ h \in held /\ ~h.written /\ g.written /\ g.queue = h.queue /\ g.ptr = h.ptr
          /\ g.op_tag = h.op_tag /\ held' = (held \ {h}) \cup {g}
      BY <2>2 DEF Writing
    <3>2. TagsExclusive /\ RespNotHeld /\ TypeOK
      BY DEF IInv, GrantInv
    <3>3. IsGrant(resp) => Job(resp) \in Granted /\ ~Job(resp).written /\ Job(resp) # h
      <4>1. IsGrant(resp) => resp \in Resps
        BY <3>2 DEF TypeOK, NoResp, IsGrant
      <4> QED BY <3>1, <3>2, <4>1, JobType DEF RespNotHeld, Granted
    <3>4. h \in Granted
      BY <3>1 DEF Granted
    <3>5. \A x \in Granted' : x = g \/ (x \in Granted /\ x # h)
      BY <1>3, <3>1, <3>3 DEF Granted
    <3>6. \A x \in Granted : x.op_tag = h.op_tag => x = h
      BY <3>2, <3>4 DEF TagsExclusive
    <3>7. TagsExclusive'
      <4> SUFFICES ASSUME NEW x \in Granted'
                   PROVE  /\ op_table[x.op_tag].active
                          /\ ~op_table[x.op_tag].commit
                          /\ op_table[x.op_tag].queue = x.queue
                          /\ op_table[x.op_tag].queue_ptr = Inc(x.ptr)
                          /\ \A y \in Granted' : y.op_tag = x.op_tag => y = x
        BY <1>3 DEF TagsExclusive
      <4>1. CASE x = g
        BY <3>1, <3>2, <3>4, <3>5, <3>6, <4>1 DEF TagsExclusive
      <4>2. CASE x \in Granted /\ x # h
        BY <3>1, <3>2, <3>5, <3>6, <4>2 DEF TagsExclusive
      <4> QED BY <3>5, <4>1, <4>2
    <3>8. RespNotHeld'
      BY <1>3, <3>1, <3>2, <3>3 DEF RespNotHeld
    <3> QED BY <3>7, <3>8 DEF GrantInv
  <2> QED BY <1>2, <2>1, <2>2
<1> QED BY <1>1, <1>4, <1>5, <1>6 DEF IInv

\* The reset state is in order.
LEMMA BaseInit == Init => IInv
<1> SUFFICES ASSUME Init PROVE IInv
  OBVIOUS
<1>1. TypeOK
  BY TypeInit
<1>2. LifeInv
  BY DEF Init, LifeInv, Life, CqClosed, NapiIdle
<1>3. PipeInv
  BY DEF Init, PipeInv, PipeCoherent, OneReq, OneSet, NoOp, SetOps
<1>4. TableInv
  BY DEF Init, TableInv, ReqResourcesFree, InPipe, OpTableRing, FreeEntry, NoOp
<1>5. GrantInv
  BY DEF Init, GrantInv, TagsExclusive, Granted, RespNotHeld, NoResp, IsGrant
<1> QED BY <1>1, <1>2, <1>3, <1>4, <1>5 DEF IInv

(* The pointers of a queue are remainders of integers that only grow while *)
(* the queue is open: B, where the published completions end; N, the next  *)
(* to reserve; U, the driver's consumer.  The entries of the queue in the  *)
(* operation table are a chain c[B+1] .. c[N], in the order in which they  *)
(* were reserved.                                                          *)

Carrying(q, o, w) == \E j \in Stages : pipe[j].op = o /\ pipe[j].addr = q /\ pipe[j].wdata = w
Doing(q, o)       == \E j \in Stages : pipe[j].op = o /\ pipe[j].addr = q

\* The position of an entry in the table, from the oldest.
Pos(i) == IF i >= op_table_finish_ptr THEN i - op_table_finish_ptr
                                      ELSE i - op_table_finish_ptr + OP_TABLE_SIZE

Mine(q, i) == op_table[i].active /\ op_table[i].queue = q

Chain(q, B, N, c) ==
    /\ B <= N
    /\ \/ ~Doing(q, "commit") /\ queue_ram[q].prod = B % PtrMod
       \/ Carrying(q, "commit", B % PtrMod) /\ queue_ram[q].prod = (B - 1) % PtrMod
    /\ \A k \in Int : B < k /\ k <= N =>
          Mine(q, c[k]) /\ op_table[c[k]].queue_ptr = k % PtrMod
    /\ \A k, l \in Int : B < k /\ k <= l /\ l <= N => Pos(c[l]) - Pos(c[k]) >= l - k
    /\ \A i \in OpIdx : Mine(q, i) => \E k \in Int : B < k /\ k <= N /\ c[k] = i
    /\ B < N => queue_ram[q].op_index = c[N]
    /\ Doing(q, "commit") => N - B < OP_TABLE_SIZE

Chains == [Int -> OpIdx]

\* Pointers as remainders: successors and distances of the integers they stand for.
LEMMA Residues ==
    /\ PtrMod \in Nat \ {0}
    /\ \A x \in Int : x % PtrMod \in Ptrs
    /\ \A x \in Int : Inc(x % PtrMod) = (x + 1) % PtrMod
    /\ \A x, y \in Int : x <= y /\ y - x < PtrMod => Dist(x % PtrMod, y % PtrMod) = y - x
    /\ \A x, y \in Int : x % PtrMod = y % PtrMod /\ -PtrMod < y - x /\ y - x < PtrMod => x = y
    /\ \A x, y \in Int : ((x % PtrMod) + y) % PtrMod = (x + y) % PtrMod
    /\ 0 % PtrMod = 0
<1> DEFINE M == PtrMod
<1>1. M \in Nat \ {0} /\ M \in Int /\ M # 0
  BY CplPtrModAssumption, CplOpTableAssumption
<1>2. \A x \in Int : x % M \in 0 .. M - 1 /\ x % M \in Int
  BY <1>1
<1>3. ASSUME NEW x \in Int, NEW y \in Int
      PROVE  ((x % M) + y) % M = (x + y) % M
  <2> DEFINE k == x \div M
             r == x % M
             z == r + y
  <2>1. x = M * k + r /\ k \in Int /\ r \in Int
    BY <1>1
  <2> HIDE DEF k, r, M
  <2>2. z \in Int /\ z + k * M = x + y
    BY <1>1, <2>1
  <2> HIDE DEF z
  <2>3. (z + k * M) % M = z % M
    BY <1>1, <2>1, <2>2, Multiple
  <2>4. z % M = (x + y) % M
    BY <2>2, <2>3
  <2> QED BY <2>4 DEF z, r
<1>4. ASSUME NEW x \in Int, NEW y \in Int, x <= y, y - x < M
      PROVE  Dist(x % M, y % M) = y - x
  <2> DEFINE k == y \div M
             l == x \div M
             r == y % M
             s == x % M
             z == r - s
             h == l - k
             g == y - x
  <2>1. y = M * k + r /\ k \in Int /\ x = M * l + s /\ l \in Int /\ r \in Int /\ s \in Int
    BY <1>1
  <2> HIDE DEF k, l, r, s, M
  <2>2. z \in Int /\ h \in Int /\ g \in Int /\ z = g + h * M
    BY <1>1, <2>1
  <2>3. g >= 0 /\ g < M
    BY <1>4
  <2> HIDE DEF z, h, g
  <2>4. (g + h * M) % M = g % M
    BY <1>1, <2>2, Multiple
  <2>5. g % M = g
    BY <1>1, <2>2, <2>3
  <2>6. z % M = g
    BY <2>2, <2>4, <2>5
  <2>7. Dist(x % M, y % M) = z % M
    BY DEF Dist, z, r, s, M
  <2> QED BY <2>6, <2>7 DEF g
<1>5. \A x, y \in Int : x % M = y % M /\ -M < y - x /\ y - x < M => x = y
  <2> HIDE DEF M
  <2> QED BY <1>1, SameRemainder
<1>6. 0 % M = 0
  BY <1>1
<1>7. \A x \in Int : Inc(x % M) = (x + 1) % M
  BY <1>3 DEF Inc
<1> QED BY <1>1, <1>2, <1>3, <1>4, <1>5, <1>6, <1>7 DEF Ptrs

\* Queue q has the operation that performs, or the one that is accepted.
LastOn(q)    == Last.op # "none" /\ Last.addr = q
EntryOn(e, q) == e.op # "none" /\ e.addr = q

\* How the pipeline moves.
LEMMA Moving ==
    ASSUME NEW e, NEW r, NEW v, Loads(e, r, v)
    PROVE  /\ pipe'[0] = e
           /\ \A j \in Stages : j # 0 => pipe'[j] = pipe[j - 1] /\ j - 1 \in Stages
                                         /\ j - 1 # PIPELINE - 1
           /\ \A j \in Stages : j # PIPELINE - 1 => j + 1 \in Stages /\ pipe'[j + 1] = pipe[j]
           /\ 0 \in Stages /\ PIPELINE - 1 \in Stages /\ Last = pipe[PIPELINE - 1]
<1>1. pipe' = [j \in Stages |-> IF j = 0 THEN e ELSE pipe[j - 1]]
  BY DEF Loads, Shift
<1>2. PIPELINE \in Nat /\ PIPELINE >= 2 /\ 0 \in Stages /\ PIPELINE - 1 \in Stages
  BY CplPipelineAssumption DEF Stages
<1>3. \A j \in Stages : j # 0 => j - 1 \in Stages /\ j - 1 # PIPELINE - 1
  BY <1>2 DEF Stages
<1>4. \A j \in Stages : j # PIPELINE - 1 => j + 1 \in Stages /\ j + 1 # 0 /\ (j + 1) - 1 = j
  BY <1>2 DEF Stages
<1> QED BY <1>1, <1>2, <1>3, <1>4 DEF Last

\* What the pipeline does on a queue: the operation in it stays until it performs;
\* one is accepted only if there is none, not even one that performs.
LEMMA CarryStep ==
    ASSUME TypeOK, PipeInv, NEW e \in Entries, NEW r, NEW v, Loads(e, r, v), NEW q \in Queues,
           NEW o, o # "none", NEW w
    PROVE  /\ LastOn(q) => /\ ~EntryOn(e, q)
                           /\ ~Carrying(q, o, w)'
                           /\ Carrying(q, o, w) <=> Last.op = o /\ Last.wdata = w
           /\ EntryOn(e, q) => /\ ~Carrying(q, o, w)
                               /\ Carrying(q, o, w)' <=> e.op = o /\ e.wdata = w
           /\ ~LastOn(q) /\ ~EntryOn(e, q) => (Carrying(q, o, w)' <=> Carrying(q, o, w))
<1>1. \A j, k \in Stages : /\ pipe[j].op # "none" /\ pipe[k].op # "none" /\ j # k
                              => pipe[j].addr # pipe[k].addr
  BY DEF PipeInv, PipeCoherent
<1>2. EntryOn(e, q) => \A j \in Stages : ~(pipe[j].op # "none" /\ pipe[j].addr = q)
  BY DEF EntryOn, Loads, PipeHazard
<1>3. Carrying(q, o, w)' <=> \/ e.op = o /\ e.addr = q /\ e.wdata = w
                             \/ \E j \in Stages : /\ j # PIPELINE - 1 /\ pipe[j].op = o
                                                  /\ pipe[j].addr = q /\ pipe[j].wdata = w
  BY Moving DEF Carrying
<1>4. CASE LastOn(q)
  <2>1. ~EntryOn(e, q)
    BY <1>2, <1>4, Moving DEF LastOn
  <2>2. \A j \in Stages : j # PIPELINE - 1 => ~(pipe[j].op # "none" /\ pipe[j].addr = q)
    BY <1>1, <1>4, Moving DEF LastOn
  <2> QED BY <1>3, <1>4, <2>1, <2>2, Moving DEF LastOn, EntryOn, Carrying
<1>5. CASE EntryOn(e, q)
  BY <1>2, <1>3, <1>5, Moving DEF EntryOn, Carrying, LastOn
<1>6. CASE ~LastOn(q) /\ ~EntryOn(e, q)
  BY <1>3, <1>6, Moving DEF EntryOn, Carrying, LastOn
<1> QED BY <1>4, <1>5, <1>6

\* The same without the data.
LEMMA DoingStep ==
    ASSUME TypeOK, PipeInv, NEW e \in Entries, NEW r, NEW v, Loads(e, r, v), NEW q \in Queues,
           NEW o, o # "none"
    PROVE  /\ LastOn(q) => /\ ~EntryOn(e, q)
                           /\ ~Doing(q, o)'
                           /\ Doing(q, o) <=> Last.op = o
           /\ EntryOn(e, q) => ~Doing(q, o) /\ (Doing(q, o)' <=> e.op = o)
           /\ ~LastOn(q) /\ ~EntryOn(e, q) => (Doing(q, o)' <=> Doing(q, o))
<1>1. Doing(q, o) <=> \E w : Carrying(q, o, w)
  BY DEF Doing, Carrying
<1>2. Doing(q, o)' <=> \E w : Carrying(q, o, w)'
  BY DEF Doing, Carrying
<1>3. \A w : /\ LastOn(q) => /\ ~EntryOn(e, q)
                             /\ ~Carrying(q, o, w)'
                             /\ Carrying(q, o, w) <=> Last.op = o /\ Last.wdata = w
             /\ EntryOn(e, q) => /\ ~Carrying(q, o, w)
                                 /\ Carrying(q, o, w)' <=> e.op = o /\ e.wdata = w
             /\ ~LastOn(q) /\ ~EntryOn(e, q) => (Carrying(q, o, w)' <=> Carrying(q, o, w))
  BY CarryStep
<1> QED BY <1>1, <1>2, <1>3

\* Positions in the table.
LEMMA Positions ==
    ASSUME TypeOK
    PROVE  /\ OP_TABLE_SIZE \in Nat /\ OP_TABLE_SIZE >= 1
           /\ \A i \in OpIdx : Pos(i) \in Int /\ Pos(i) >= 0 /\ Pos(i) < OP_TABLE_SIZE
           /\ \A i \in OpIdx : Pos(i) = 0 => i = op_table_finish_ptr
           /\ Pos(op_table_finish_ptr) = 0
           /\ op_table_finish_ptr \in OpIdx /\ op_table_start_ptr \in OpIdx
BY CplOpTableAssumption DEF Pos, OpIdx, TypeOK

\* The oldest entry retires when stage 0 accepts a commit: every other entry
\* moves up by one.
LEMMA PosShift ==
    ASSUME TypeOK, NEW tags, OpTableNext(tags)
    PROVE  \A i \in OpIdx : ~(FinishEn /\ i = op_table_finish_ptr) =>
              Pos(i)' = Pos(i) - (IF FinishEn THEN 1 ELSE 0)
<1>1. op_table_finish_ptr' = IF FinishEn THEN NextIdx(op_table_finish_ptr) ELSE op_table_finish_ptr
  BY DEF OpTableNext
<1>2. op_table_finish_ptr \in OpIdx
  BY DEF TypeOK
<1> QED BY <1>1, <1>2, CplOpTableAssumption DEF Pos, NextIdx, OpIdx

\* What is accepted when the oldest entry retires.
LEMMA Finishing ==
    ASSUME NEW e, NEW r, NEW v, Loads(e, r, v)
    PROVE  /\ FinishEn <=> e.op = "commit"
           /\ FinishEn => /\ op_table[op_table_finish_ptr].active
                          /\ op_table[op_table_finish_ptr].commit
                          /\ e.addr = op_table[op_table_finish_ptr].queue
                          /\ e.wdata = op_table[op_table_finish_ptr].queue_ptr
BY Moving DEF FinishEn, Loads, CommitReady

\* What is allocated when a reservation starts.
LEMMA Starting ==
    ASSUME TableInv, StartEn
    PROVE  /\ LastOn(Last.addr) /\ Last.op = "req" /\ ~op_table[op_table_start_ptr].active
           /\ Last.data.enable = 1 /\ ~QueueFull /\ ~resp.valid
BY Constants DEF StartEn, LastOn, Last, TableInv, ReqResourcesFree, InPipe

\* The entries of a queue for which no reservation starts or retires stay as they are.
LEMMA EntriesStay ==
    ASSUME TypeOK, TableInv, NEW tags, OpTableNext(tags), NEW q \in Queues,
           FinishEn => op_table[op_table_finish_ptr].active
    PROVE  \A i \in OpIdx :
             /\ ~(FinishEn /\ i = op_table_finish_ptr) /\ ~(StartEn /\ i = op_table_start_ptr) =>
                  /\ Mine(q, i)' <=> Mine(q, i)
                  /\ op_table'[i].queue_ptr = op_table[i].queue_ptr
                  /\ op_table'[i].commit <=> op_table[i].commit \/ i \in tags
             /\ FinishEn /\ i = op_table_finish_ptr => ~Mine(q, i)'
             /\ StartEn /\ i = op_table_start_ptr =>
                  /\ ~op_table[i].active /\ ~(FinishEn /\ i = op_table_finish_ptr)
                  /\ Mine(q, i)' <=> q = Last.addr
                  /\ op_table'[i].queue_ptr = Inc(ActiveProdPtr)
<1> SUFFICES ASSUME NEW i \in OpIdx
    PROVE  /\ ~(FinishEn /\ i = op_table_finish_ptr) /\ ~(StartEn /\ i = op_table_start_ptr) =>
                  /\ Mine(q, i)' <=> Mine(q, i)
                  /\ op_table'[i].queue_ptr = op_table[i].queue_ptr
                  /\ op_table'[i].commit <=> op_table[i].commit \/ i \in tags
           /\ FinishEn /\ i = op_table_finish_ptr => ~Mine(q, i)'
           /\ StartEn /\ i = op_table_start_ptr =>
                  /\ ~op_table[i].active /\ ~(FinishEn /\ i = op_table_finish_ptr)
                  /\ Mine(q, i)' <=> q = Last.addr
                  /\ op_table'[i].queue_ptr = Inc(ActiveProdPtr)
  OBVIOUS
<1>1. CASE FinishEn /\ i = op_table_finish_ptr
  <2>1. op_table'[i] = FreeEntry
    BY <1>1, TableStep
  <2>2. ~op_table'[i].active
    BY <2>1 DEF FreeEntry
  <2> QED BY <1>1, <2>2, Starting DEF Mine
<1>2. CASE ~(FinishEn /\ i = op_table_finish_ptr) /\ StartEn /\ i = op_table_start_ptr
  BY <1>2, TableStep, Starting DEF Mine
<1>3. CASE ~(FinishEn /\ i = op_table_finish_ptr) /\ ~(StartEn /\ i = op_table_start_ptr)
  BY <1>3, TableStep DEF Mine
<1> QED BY <1>1, <1>2, <1>3

\* The chain of a queue for which no reservation starts or retires.
LEMMA ChainStays ==
    ASSUME TypeOK, TableInv, NEW e, NEW r, NEW v, Loads(e, r, v), NEW tags, OpTableNext(tags),
           NEW q \in Queues, NEW B \in Int, NEW N \in Int, NEW c \in Chains, Chain(q, B, N, c),
           ~(StartEn /\ Last.addr = q), ~(FinishEn /\ op_table[op_table_finish_ptr].queue = q),
           \/ ~Doing(q, "commit")' /\ queue_ram'[q].prod = B % PtrMod
           \/ Carrying(q, "commit", B % PtrMod)' /\ queue_ram'[q].prod = (B - 1) % PtrMod,
           B < N => queue_ram'[q].op_index = queue_ram[q].op_index,
           Doing(q, "commit")' => N - B < OP_TABLE_SIZE
    PROVE  Chain(q, B, N, c)'
<1>1. \A k \in Int : c[k] \in OpIdx
  BY DEF Chains
<1>2. \A i \in OpIdx : Mine(q, i) => ~(FinishEn /\ i = op_table_finish_ptr)
                                     /\ ~(StartEn /\ i = op_table_start_ptr)
  BY Starting DEF Mine
<1>3. \A i \in OpIdx : Mine(q, i)' <=> Mine(q, i)
  BY <1>2, EntriesStay, Finishing
<1>4. \A i \in OpIdx : Mine(q, i) => op_table'[i].queue_ptr = op_table[i].queue_ptr
  BY <1>2, EntriesStay, Finishing
<1>5. \A i, j \in OpIdx : Mine(q, i) /\ Mine(q, j) => Pos(j)' - Pos(i)' = Pos(j) - Pos(i)
  BY <1>2, PosShift, Positions
<1>6. \A k \in Int : B < k /\ k <= N =>
          Mine(q, c[k])' /\ op_table'[c[k]].queue_ptr = k % PtrMod
  BY <1>1, <1>3, <1>4 DEF Chain
<1>7. \A k, l \in Int : B < k /\ k <= l /\ l <= N => Pos(c[l])' - Pos(c[k])' >= l - k
  <2> SUFFICES ASSUME NEW k \in Int, NEW l \in Int, B < k, k <= l, l <= N
               PROVE  Pos(c[l])' - Pos(c[k])' >= l - k
    OBVIOUS
  <2>1. Mine(q, c[k]) /\ Mine(q, c[l]) /\ Pos(c[l]) - Pos(c[k]) >= l - k
    BY DEF Chain
  <2> QED BY <1>1, <1>5, <2>1
<1>8. \A i \in OpIdx : Mine(q, i)' => \E k \in Int : B < k /\ k <= N /\ c[k] = i
  BY <1>3 DEF Chain
<1>9. B < N => queue_ram'[q].op_index = c[N]
  BY DEF Chain
<1>10. B <= N
  BY DEF Chain
<1> QED BY <1>6, <1>7, <1>8, <1>9, <1>10 DEF Chain
\* The oldest entry of the table, if it is one of the queue's, is the first of its chain.
LEMMA HeadOfChain ==
    ASSUME TypeOK, NEW q \in Queues, NEW B \in Int, NEW N \in Int, NEW c \in Chains,
           Chain(q, B, N, c), Mine(q, op_table_finish_ptr)
    PROVE  B < N /\ c[B + 1] = op_table_finish_ptr /\ N - B <= OP_TABLE_SIZE
<1> DEFINE f == op_table_finish_ptr
<1>1. f \in OpIdx /\ Pos(f) = 0
  BY Positions
<1>2. PICK k \in Int : B < k /\ k <= N /\ c[k] = f
  BY <1>1 DEF Chain
<1>3. \A l \in Int : c[l] \in OpIdx /\ Pos(c[l]) \in Int /\ Pos(c[l]) >= 0
                     /\ Pos(c[l]) < OP_TABLE_SIZE
  BY Positions DEF Chains
<1>4. B + 1 \in Int /\ B < B + 1 /\ B + 1 <= k /\ B + 1 <= N /\ N <= N
  BY <1>2
<1>5. Pos(c[k]) - Pos(c[B + 1]) >= k - (B + 1)
  BY <1>2, <1>4 DEF Chain
<1>6. k = B + 1
  BY <1>1, <1>2, <1>3, <1>4, <1>5
<1>7. Pos(c[N]) - Pos(c[B + 1]) >= N - (B + 1)
  BY <1>4 DEF Chain
<1>8. N - B <= OP_TABLE_SIZE
  BY <1>3, <1>4, <1>7, CplOpTableAssumption
<1> QED BY <1>2, <1>4, <1>6, <1>8

\* A commit is accepted: the first entry leaves the chain.
LEMMA ChainPops ==
    ASSUME TypeOK, TableInv, NEW e, NEW r, NEW v, Loads(e, r, v), NEW tags, OpTableNext(tags),
           NEW q \in Queues, NEW B \in Int, NEW N \in Int, NEW c \in Chains, Chain(q, B, N, c),
           ~(StartEn /\ Last.addr = q), FinishEn, op_table[op_table_finish_ptr].queue = q,
           ~Doing(q, "commit"), Carrying(q, "commit", e.wdata)',
           queue_ram'[q] = queue_ram[q]
    PROVE  Chain(q, B + 1, N, c)'
<1> DEFINE f == op_table_finish_ptr
<1>1. /\ op_table[f].active /\ op_table[f].queue_ptr = e.wdata /\ f \in OpIdx
      /\ Mine(q, f)
  BY Finishing, Positions DEF Mine
<1>2. B < N /\ c[B + 1] = f /\ N - B <= OP_TABLE_SIZE
  BY <1>1, HeadOfChain
<1>3. \A k \in Int : c[k] \in OpIdx
  BY DEF Chains
<1>4. B + 1 \in Int /\ (B + 1) - 1 = B /\ B + 1 <= N
  BY <1>2
<1>5. \A k \in Int : B + 1 < k /\ k <= N =>
         /\ Mine(q, c[k]) /\ c[k] # f /\ op_table[c[k]].queue_ptr = k % PtrMod
         /\ ~(StartEn /\ c[k] = op_table_start_ptr)
  <2> SUFFICES ASSUME NEW k \in Int, B + 1 < k, k <= N
               PROVE  /\ Mine(q, c[k]) /\ c[k] # f /\ op_table[c[k]].queue_ptr = k % PtrMod
                      /\ ~(StartEn /\ c[k] = op_table_start_ptr)
    OBVIOUS
  <2>1. B < k /\ B < B + 1 /\ B + 1 <= k
    BY <1>4
  <2>2. Pos(c[k]) - Pos(c[B + 1]) >= k - (B + 1)
    BY <1>4, <2>1 DEF Chain
  <2>3. c[k] # f
    BY <1>2, <1>4, <2>2, Positions
  <2> QED BY <2>1, <2>3, Starting DEF Chain, Mine
<1>6. \A k \in Int : B + 1 < k /\ k <= N =>
         Mine(q, c[k])' /\ op_table'[c[k]].queue_ptr = k % PtrMod
  BY <1>1, <1>3, <1>5, EntriesStay
<1>7. \A k, l \in Int : B + 1 < k /\ k <= l /\ l <= N => Pos(c[l])' - Pos(c[k])' >= l - k
  <2> SUFFICES ASSUME NEW k \in Int, NEW l \in Int, B + 1 < k, k <= l, l <= N
               PROVE  Pos(c[l])' - Pos(c[k])' >= l - k
    OBVIOUS
  <2>1. B < k /\ k <= N /\ B + 1 < l
    BY <1>4
  <2>2. Pos(c[l]) - Pos(c[k]) >= l - k
    BY <2>1 DEF Chain
  <2>3. Pos(c[l])' = Pos(c[l]) - 1 /\ Pos(c[k])' = Pos(c[k]) - 1
    BY <1>3, <1>5, <2>1, PosShift
  <2> QED BY <1>3, <2>2, <2>3, Positions
<1>8. \A i \in OpIdx : Mine(q, i)' => \E k \in Int : B + 1 < k /\ k <= N /\ c[k] = i
  <2> SUFFICES ASSUME NEW i \in OpIdx, Mine(q, i)'
               PROVE  \E k \in Int : B + 1 < k /\ k <= N /\ c[k] = i
    OBVIOUS
  <2>1. Mine(q, i) /\ i # f
    BY <1>1, EntriesStay
  <2>2. PICK k \in Int : B < k /\ k <= N /\ c[k] = i
    BY <2>1 DEF Chain
  <2>3. B + 1 < k
    BY <1>2, <2>1, <2>2
  <2> QED BY <2>2, <2>3
<1>9. e.wdata = (B + 1) % PtrMod
  BY <1>1, <1>2, <1>4 DEF Chain
<1>10. queue_ram'[q].prod = ((B + 1) - 1) % PtrMod
  BY <1>4 DEF Chain, Carrying, Doing
<1>11. queue_ram[q].op_index = c[N]
  BY <1>2 DEF Chain
<1>12. N - (B + 1) < OP_TABLE_SIZE
  BY <1>2, CplOpTableAssumption
<1> QED BY <1>4, <1>6, <1>7, <1>8, <1>9, <1>10, <1>11, <1>12 DEF Chain

\* Where the next reservation of the queue reads.
LEMMA NextToReserve ==
    ASSUME TypeOK, PipeInv, NEW q \in Queues, NEW B \in Int, NEW N \in Int, NEW c \in Chains,
           Chain(q, B, N, c), LastOn(q), Last.op = "req"
    PROVE  ActiveProdPtr = N % PtrMod
<1>1. Last.addr = q /\ Last.data = queue_ram[q]
  BY Constants DEF LastOn, Last, PipeInv, PipeCoherent
<1>2. queue_ram[q].op_index \in OpIdx
  BY DEF TypeOK, Words
<1>3. CASE B < N
  <2>1. queue_ram[q].op_index = c[N] /\ Mine(q, c[N]) /\ op_table[c[N]].queue_ptr = N % PtrMod
    BY <1>3 DEF Chain
  <2> QED BY <1>1, <2>1 DEF ActiveProdPtr, QueueActive, Mine
<1>4. CASE ~(B < N)
  <2>1. B = N /\ ~Mine(q, queue_ram[q].op_index)
    BY <1>2, <1>4 DEF Chain
  <2>2. ~Doing(q, "commit")
    BY <1>1, Constants DEF LastOn, Last, PipeInv, PipeCoherent, Doing
  <2>3. queue_ram[q].prod = B % PtrMod
    BY <2>2 DEF Chain, Carrying, Doing
  <2> QED BY <1>1, <2>1, <2>3 DEF ActiveProdPtr, QueueActive, Mine
<1> QED BY <1>3, <1>4

\* The entry to allocate is younger than every entry in use.
LEMMA StartIsYoungest ==
    ASSUME TypeOK, TableInv, ~op_table[op_table_start_ptr].active
    PROVE  \A i \in OpIdx : op_table[i].active => Pos(i) < Pos(op_table_start_ptr)
<1>1. op_table_start_ptr \in OpIdx /\ op_table_finish_ptr \in OpIdx
  BY DEF TypeOK
<1> QED BY <1>1, CplOpTableAssumption DEF TableInv, OpTableRing, InRing, Pos, OpIdx

\* A reservation starts: its entry joins the chain at the end.
LEMMA ChainPushes ==
    ASSUME TypeOK, PipeInv, TableInv, NEW e, NEW r, NEW v, Loads(e, r, v),
           NEW tags, OpTableNext(tags),
           NEW q \in Queues, NEW B \in Int, NEW N \in Int, NEW c \in Chains, Chain(q, B, N, c),
           StartEn, LastOn(q), ~(FinishEn /\ op_table[op_table_finish_ptr].queue = q),
           ~Doing(q, "commit"), ~Doing(q, "commit")', queue_ram'[q].prod = queue_ram[q].prod,
           queue_ram'[q].op_index = op_table_start_ptr,
           NEW s \in OpIdx, s = op_table_start_ptr,
           NEW x \in Chains, x = [c EXCEPT ![N + 1] = s]
    PROVE  Chain(q, B, N + 1, x)'
<1>1. /\ Last.addr = q /\ Last.op = "req" /\ ~op_table[s].active
      /\ s \in OpIdx /\ N + 1 \in Int /\ N < N + 1
  BY Starting, Positions DEF LastOn
<1>2. /\ x[N + 1] = s
      /\ \A k \in Int : k <= N => x[k] = c[k]
      /\ \A k \in Int : c[k] \in OpIdx
  BY <1>1 DEF Chains
<1>3. ActiveProdPtr = N % PtrMod
  BY <1>1, NextToReserve
<1>4. Mine(q, s)' /\ op_table'[s].queue_ptr = (N + 1) % PtrMod
  <2>1. Inc(N % PtrMod) = (N + 1) % PtrMod
    BY Residues
  <2> QED BY <1>1, <1>3, <2>1, EntriesStay, Finishing
<1>5. \A k \in Int : B < k /\ k <= N =>
         /\ Mine(q, c[k]) /\ op_table[c[k]].queue_ptr = k % PtrMod
         /\ ~(FinishEn /\ c[k] = op_table_finish_ptr) /\ c[k] # s
  BY <1>1 DEF Chain, Mine
<1>6. ~(FinishEn /\ s = op_table_finish_ptr)
  BY <1>1, Finishing
<1>7. \A k \in Int : B < k /\ k <= N + 1 =>
         Mine(q, x[k])' /\ op_table'[x[k]].queue_ptr = k % PtrMod
  <2> SUFFICES ASSUME NEW k \in Int, B < k, k <= N + 1
               PROVE  Mine(q, x[k])' /\ op_table'[x[k]].queue_ptr = k % PtrMod
    OBVIOUS
  <2>1. CASE k = N + 1
    BY <1>2, <1>4, <2>1
  <2>2. CASE k # N + 1
    <3>1. k <= N /\ x[k] = c[k] /\ c[k] \in OpIdx
      BY <1>2, <2>2
    <3> QED BY <1>5, <3>1, EntriesStay, Finishing
  <2> QED BY <2>1, <2>2
<1>8. \A k, l \in Int : B < k /\ k <= l /\ l <= N + 1 => Pos(x[l])' - Pos(x[k])' >= l - k
  <2> SUFFICES ASSUME NEW k \in Int, NEW l \in Int, B < k, k <= l, l <= N + 1
               PROVE  Pos(x[l])' - Pos(x[k])' >= l - k
    OBVIOUS
  <2> DEFINE z == IF FinishEn THEN 1 ELSE 0
  <2>1. z \in Int
    OBVIOUS
  <2>2. Pos(s)' = Pos(s) - z /\ Pos(s) \in Int
    BY <1>1, <1>6, PosShift, Positions
  <2>3. \A y \in Int : B < y /\ y <= N => Pos(c[y])' = Pos(c[y]) - z /\ Pos(c[y]) \in Int
    BY <1>2, <1>5, PosShift, Positions
  <2> HIDE DEF z
  <2>4. CASE l = N + 1 /\ k = N + 1
    BY <1>2, <2>1, <2>2, <2>4
  <2>5. CASE l = N + 1 /\ k # N + 1
    <3>1. k <= N /\ B < N /\ N <= N
      BY <2>5
    <3>2. Pos(c[N]) - Pos(c[k]) >= N - k
      BY <3>1 DEF Chain
    <3>3. Pos(c[N]) < Pos(s)
      BY <1>1, <1>2, <1>5, <3>1, StartIsYoungest DEF Mine
    <3>4. x[l] = s /\ x[k] = c[k]
      BY <1>2, <2>5, <3>1
    <3>5. Pos(c[k])' = Pos(c[k]) - z /\ Pos(c[k]) \in Int /\ Pos(c[N]) \in Int
      BY <2>3, <3>1
    <3> QED BY <2>1, <2>2, <2>5, <3>1, <3>2, <3>3, <3>4, <3>5
  <2>6. CASE l # N + 1
    <3>1. l <= N /\ k <= N /\ B < l
      BY <2>6
    <3>2. Pos(c[l]) - Pos(c[k]) >= l - k
      BY <3>1 DEF Chain
    <3>3. x[l] = c[l] /\ x[k] = c[k]
      BY <1>2, <3>1
    <3>4. /\ Pos(c[k])' = Pos(c[k]) - z /\ Pos(c[k]) \in Int
          /\ Pos(c[l])' = Pos(c[l]) - z /\ Pos(c[l]) \in Int
      BY <2>3, <3>1
    <3> QED BY <2>1, <3>2, <3>3, <3>4
  <2> QED BY <2>4, <2>5, <2>6
<1>9. \A i \in OpIdx : Mine(q, i)' => \E k \in Int : B < k /\ k <= N + 1 /\ x[k] = i
  <2> SUFFICES ASSUME NEW i \in OpIdx, Mine(q, i)'
               PROVE  \E k \in Int : B < k /\ k <= N + 1 /\ x[k] = i
    OBVIOUS
  <2>0. B <= N
    BY DEF Chain
  <2>1. CASE i = s
    BY <1>1, <1>2, <2>0, <2>1
  <2>2. CASE i # s
    <3>1. Mine(q, i)
      BY <2>2, EntriesStay, Finishing
    <3>2. PICK k \in Int : B < k /\ k <= N /\ c[k] = i
      BY <3>1 DEF Chain
    <3>3. k <= N + 1 /\ x[k] = i
      BY <1>2, <3>2
    <3> QED BY <3>2, <3>3
  <2> QED BY <2>1, <2>2
<1>10. B <= N + 1 /\ queue_ram'[q].prod = B % PtrMod
  BY DEF Chain, Carrying, Doing
<1> QED BY <1>2, <1>7, <1>8, <1>9, <1>10 DEF Chain


\* The pointer before the one whose successor is known.
LEMMA Predecessor ==
    ASSUME NEW p \in Ptrs, NEW k \in Int, Inc(p) = k % PtrMod
    PROVE  p = (k - 1) % PtrMod
<1>1. p \in Int /\ p % PtrMod = p
  BY CplPtrModAssumption DEF Ptrs
<1>2. PICK y \in Int : y = -1
  OBVIOUS
<1>3. PICK z \in Int : z = p + 1
  BY <1>1
<1>4. ((z % PtrMod) + y) % PtrMod = (z + y) % PtrMod
  BY Residues
<1>5. ((k % PtrMod) + y) % PtrMod = (k + y) % PtrMod
  BY Residues
<1>6. z + y = p /\ k + y = k - 1
  BY <1>1, <1>2, <1>3
<1> QED BY <1>1, <1>3, <1>4, <1>5, <1>6 DEF Inc

\* A quotient, from its remainder.
LEMMA Quotient ==
    ASSUME NEW n \in Nat \ {0}, NEW d \in Int, NEW r \in 0 .. n - 1, NEW y \in Int,
           y = n * d + r
    PROVE  y \div n = d
<1>1. y = n * (y \div n) + (y % n) /\ y \div n \in Int /\ y % n \in 0 .. n - 1
  OBVIOUS
<1>2. n * (y \div n - d) = r - (y % n)
  BY <1>1
<1>3. \A z \in Int : -n < n * z /\ n * z < n => z = 0
  OBVIOUS
<1>4. y \div n - d = 0
  BY <1>1, <1>2, <1>3
<1> QED BY <1>1, <1>4

\* The phase of a pointer that has gone one lap further.
LEMMA PhaseFlip ==
    ASSUME NEW l \in LogSizes \cup {0}, NEW j \in Int
    PROVE  Phase((j + 2^l) % PtrMod, l) <=> ~Phase(j % PtrMod, l)
<1>1. PICK n \in Nat \ {0} : n = 2^l
  BY Sizes
<1>2. PICK k \in Nat \ {0} : PtrMod = k * (2 * n)
  BY <1>1, Sizes
<1>3. PICK M \in Nat \ {0} : M = PtrMod
  BY Residues
<1>4. PICK x \in 0 .. M - 1 : x = j % M
  OBVIOUS
<1>5. PICK d \in Int : d = x \div n
  OBVIOUS
<1>6. PICK r \in 0 .. n - 1 : x = n * d + r
  BY <1>5
<1>7. PICK y \in Int : y = (x + n) % M
  OBVIOUS
<1>8. (j + n) % M = y
  <2>1. n \in Int
    OBVIOUS
  <2>2. ((j % PtrMod) + n) % PtrMod = (j + n) % PtrMod
    BY <2>1, Residues
  <2> QED BY <1>3, <1>4, <1>7, <2>2
<1>9. M = n * (2 * k)
  BY <1>2, <1>3
<1>10. n < M
  BY <1>1, <1>3, Sizes
<1>11. y = IF x + n < M THEN x + n ELSE x + n - M
  BY <1>7, <1>10
<1>12. y \div n = IF x + n < M THEN d + 1 ELSE d + 1 - 2 * k
  <2>1. CASE x + n < M
    <3>1. y = n * (d + 1) + r
      BY <1>6, <1>11, <2>1
    <3> QED BY <2>1, <3>1, Quotient
  <2>2. CASE ~(x + n < M)
    <3>1. PICK g \in Int : g = d + 1 - 2 * k
      OBVIOUS
    <3>2. n * g = n * (d + 1) - n * (2 * k)
      BY <3>1
    <3>3. y = n * g + r
      BY <1>6, <1>9, <1>11, <2>2, <3>2
    <3> QED BY <2>2, <3>1, <3>3, Quotient
  <2> QED BY <2>1, <2>2
<1>13. (y \div n) % 2 = 0 <=> ~(d % 2 = 0)
  <2>1. (d + 1) % 2 = 0 <=> ~(d % 2 = 0)
    OBVIOUS
  <2>2. (d + 1 - 2 * k) % 2 = (d + 1) % 2
    OBVIOUS
  <2> QED BY <1>12, <2>1, <2>2
<1>14. Phase((j + 2^l) % PtrMod, l) <=> (y \div n) % 2 = 0
  BY <1>1, <1>3, <1>8 DEF Phase
<1>15. Phase(j % PtrMod, l) <=> d % 2 = 0
  BY <1>1, <1>3, <1>4, <1>5 DEF Phase
<1> QED BY <1>13, <1>14, <1>15

\* The first lap is odd, the one before it even.
LEMMA PhaseFirst ==
    ASSUME NEW l \in LogSizes \cup {0}, NEW k \in Int, 0 <= k, k < 2^l
    PROVE  Phase(k % PtrMod, l) /\ ~Phase((k - 2^l) % PtrMod, l)
<1>1. PICK n \in Nat \ {0} : n = 2^l /\ n < PtrMod
  BY Sizes
<1>2. PICK M \in Nat \ {0} : M = PtrMod
  BY Residues
<1>3. k % M = k /\ k \div n = 0
  BY <1>1, <1>2
<1>4. Phase(k % PtrMod, l)
  BY <1>1, <1>2, <1>3 DEF Phase
<1>5. PICK j \in Int : j = k - 2^l /\ j + 2^l = k
  BY <1>1
<1>6. Phase((j + 2^l) % PtrMod, l) <=> ~Phase(j % PtrMod, l)
  BY PhaseFlip
<1> QED BY <1>4, <1>5, <1>6

\* The slot of a pointer is the slot of the number it stands for.
LEMMA SlotOf ==
    ASSUME NEW l \in LogSizes \cup {0}, NEW x \in Int
    PROVE  Slot(x % PtrMod, l) = x % 2^l /\ x % 2^l \in Ptrs
<1>1. PICK n \in Nat \ {0} : n = 2^l /\ n < PtrMod
  BY Sizes
<1>2. PICK k \in Nat \ {0} : PtrMod = k * (2 * n)
  BY <1>1, Sizes
<1>3. PICK m \in Nat \ {0} : m = k * 2
  OBVIOUS
<1>4. PtrMod = m * n
  BY <1>2, <1>3
<1>5. (x % (m * n)) % n = x % n
  BY SlotOfWrapped
<1>6. x % n \in 0 .. n - 1
  OBVIOUS
<1>7. x % n \in Ptrs
  <2>1. PtrMod \in Nat
    BY Residues
  <2> QED BY <1>1, <1>6, <2>1 DEF Ptrs
<1> QED BY <1>1, <1>4, <1>5, <1>7 DEF Slot

(* The register writes on their way.  They have positions: the oldest on   *)
(* the bus is at h, the one in the pipeline at h - 1.  For each queue, and *)
(* each position, L is the step of its opening that the hardware has       *)
(* reached once the write there is performed (0 if it is closed, 9 if it   *)
(* is open), A the consumer pointer and S the number of descriptors that   *)
(* have been posted.                                                       *)

Lines == [Int -> Int]

\* Where the writes that are performed end, and where those that are made.
Done(h) == IF InPipe(SetOps) THEN h - 2 ELSE h - 1
End(h)  == h + Len(mmio) - 1

\* What write w does to queue q, which the driver has as in its record r.
Effect(r, q, w, l0, l1, a0, a1, s0, s1) ==
    \/ w.addr # q /\ l1 = l0 /\ a1 = a0 /\ s1 = s0
    \/ /\ w.addr = q /\ l1 = l0 + 1 /\ Opens(r, w, l1)
       /\ a1 = 0 /\ s1 = IF l1 = 9 THEN RING_SIZE ELSE 0
    \/ /\ w.addr = q /\ l0 = 0 /\ l1 = 0 /\ w.op = "set_enable" /\ w.wdata = 0
       /\ a1 = a0 /\ s1 = s0
    \/ /\ w.addr = q /\ l0 \in {0, 9} /\ l1 = l0 /\ w.op = "set_arm" /\ w.wdata = 1
       /\ a1 = a0 /\ s1 = s0
    \/ /\ w.addr = q /\ l0 \in {0, 9} /\ l1 = l0 /\ w.op = "set_cons" /\ w.wdata = a1 % PtrMod
       /\ a0 <= a1 /\ s1 = s0
    \/ /\ w.addr = q /\ l0 = 9 /\ l1 = 9 /\ w.op = "ring"
       /\ a1 = a0 /\ s1 = s0 + w.wdata

At(r, q, w, p, L, A, S) == Effect(r, q, w, L[p - 1], L[p], A[p - 1], A[p], S[p - 1], S[p])

Way(r, q, h, L, A, S) ==
    /\ \A k \in 1 .. Len(mmio) : At(r, q, mmio[k], h + k - 1, L, A, S)
    /\ \A j \in Stages : pipe[j].op \in SetOps => At(r, q, pipe[j], h - 1, L, A, S)
    /\ \A p \in Int : Done(h) <= p /\ p <= End(h) => 0 <= L[p] /\ L[p] <= 9
    /\ \A p, z \in Int : Done(h) <= p /\ p <= z /\ z <= End(h) => L[p] <= L[z]

Bus(q, h, L, A, S) == Way(cq[q], q, h, L, A, S) /\ L[End(h)] = cq[q].step

\* The bus when the pipeline moves: a write performs when it leaves the last stage.
LEMMA BusClock ==
    ASSUME IInv, NEW e, NEW r, NEW v, NEW done, NEW tags, Tick(e, r, v, done, tags),
           NEW q \in Queues, NEW h \in Int, NEW L \in Lines, NEW A \in Lines, NEW S \in Lines,
           Bus(q, h, L, A, S)
    PROVE  \E g \in Int :
             /\ Bus(q, g, L, A, S)'
             /\ End(g)' = End(h)
             /\ Last.op \in SetOps => /\ Done(g)' = Done(h) + 1 /\ Done(h) + 1 <= End(h)
                                      /\ At(cq[q], q, Last, Done(h) + 1, L, A, S)
             /\ Last.op \notin SetOps => Done(g)' = Done(h)
<1>1. TypeOK /\ PipeInv /\ Loads(e, r, v) /\ cq' = cq /\ e \in Entries /\ OneSet
  BY DEF IInv, Tick, PipeInv
<1>2. Len(mmio) \in Nat /\ mmio \in Seq(Writes)
  BY <1>1 DEF TypeOK
<1>3. CASE e.op \in SetOps
  <2>1. /\ ~InPipe(SetOps) /\ mmio # <<>> /\ mmio' = Tail(mmio)
        /\ e.op = Head(mmio).op /\ e.addr = Head(mmio).addr /\ e.wdata = Head(mmio).wdata
    BY <1>1, <1>3 DEF Loads
  <2>2. pipe'[0] = e /\ 0 \in Stages /\ \A j \in Stages : j # 0 => pipe'[j] = pipe[j - 1] /\ j - 1 \in Stages
    BY <1>1, Moving
  <2>3. InPipe(SetOps)' /\ Last.op \notin SetOps
    BY <1>3, <2>1, <2>2, Constants DEF InPipe, Last
  <2>4. PICK g \in Int : g = h + 1 /\ g - 1 = h
    OBVIOUS
  <2>5. Head(mmio) = mmio[1] /\ 1 \in 1 .. Len(mmio) /\ Len(mmio') = Len(mmio) - 1
        /\ \A k \in 1 .. Len(mmio) - 1 : mmio'[k] = mmio[k + 1] /\ k + 1 \in 1 .. Len(mmio)
    BY <1>1, <2>1, HeadType
  <2>6. Done(g)' = Done(h) /\ End(g)' = End(h)
    <3>1. Done(g)' = g - 2 /\ Done(h) = h - 1
      BY <2>1, <2>3 DEF Done
    <3>2. End(g)' = g + Len(mmio') - 1 /\ End(h) = h + Len(mmio) - 1
      BY DEF End
    <3> QED BY <1>2, <2>4, <2>5, <3>1, <3>2
  <2>7. At(cq[q], q, mmio[1], h, L, A, S)
    <3>1. At(cq[q], q, mmio[1], h + 1 - 1, L, A, S)
      BY <2>5 DEF Bus, Way
    <3>2. h + 1 - 1 = h
      OBVIOUS
    <3> QED BY <3>1, <3>2
  <2>8. At(cq[q], q, e, h, L, A, S)
    BY <2>1, <2>5, <2>7 DEF At, Effect, Opens
  <2>9. \A j \in Stages : pipe'[j].op \in SetOps => At(cq'[q], q, pipe'[j], g - 1, L, A, S)
    BY <1>1, <2>1, <2>2, <2>4, <2>8 DEF InPipe
  <2>10. \A k \in 1 .. Len(mmio') : At(cq'[q], q, mmio'[k], g + k - 1, L, A, S)
    <3> SUFFICES ASSUME NEW k \in 1 .. Len(mmio) - 1
                 PROVE  At(cq[q], q, mmio[k + 1], g + k - 1, L, A, S)
      BY <1>1, <2>5
    <3>1. At(cq[q], q, mmio[k + 1], h + (k + 1) - 1, L, A, S)
      BY <2>5 DEF Bus, Way
    <3>2. h + (k + 1) - 1 = g + k - 1
      BY <1>2, <2>4
    <3> QED BY <3>1, <3>2
  <2>11. /\ L[End(h)] = cq'[q].step
         /\ \A p \in Int : Done(h) <= p /\ p <= End(h) => 0 <= L[p] /\ L[p] <= 9
         /\ \A p, z \in Int : Done(h) <= p /\ p <= z /\ z <= End(h) => L[p] <= L[z]
    BY <1>1 DEF Bus, Way
  <2>12. Bus(q, g, L, A, S)'
    BY <2>6, <2>9, <2>10, <2>11 DEF Bus, Way
  <2> QED BY <2>3, <2>6, <2>12
<1>4. CASE e.op \notin SetOps
  <2>1. mmio' = mmio
    BY <1>1, <1>4 DEF Loads
  <2>2. /\ pipe'[0] = e /\ Last = pipe[PIPELINE - 1] /\ PIPELINE - 1 \in Stages
        /\ \A j \in Stages : j # 0 => pipe'[j] = pipe[j - 1] /\ j - 1 \in Stages
                                      /\ j - 1 # PIPELINE - 1
        /\ \A j \in Stages : j # PIPELINE - 1 => j + 1 \in Stages /\ pipe'[j + 1] = pipe[j]
    BY <1>1, Moving
  <2>3. \A j \in Stages : pipe'[j].op \in SetOps => At(cq'[q], q, pipe'[j], h - 1, L, A, S)
    BY <1>1, <1>4, <2>2 DEF Bus, Way
  <2>4. \A k \in 1 .. Len(mmio') : At(cq'[q], q, mmio'[k], h + k - 1, L, A, S)
    BY <1>1, <2>1 DEF Bus, Way
  <2>5. End(h)' = End(h)
    BY <2>1 DEF End
  <2>6. /\ L[End(h)] = cq'[q].step
        /\ \A p \in Int : Done(h) <= p /\ p <= End(h) => 0 <= L[p] /\ L[p] <= 9
        /\ \A p, z \in Int : Done(h) <= p /\ p <= z /\ z <= End(h) => L[p] <= L[z]
    BY <1>1 DEF Bus, Way
  <2>7. CASE Last.op \in SetOps
    <3>1. InPipe(SetOps) /\ ~InPipe(SetOps)'
      BY <1>1, <1>4, <2>2, <2>7 DEF InPipe, OneSet
    <3>2. Done(h) = h - 2 /\ Done(h)' = h - 1 /\ Done(h) \in Int /\ Done(h) + 1 = h - 1
      BY <3>1 DEF Done
    <3>3. At(cq[q], q, Last, h - 1, L, A, S)
      BY <2>2, <2>7 DEF Bus, Way
    <3>4. End(h) \in Int /\ h - 1 <= End(h)
      BY <1>2 DEF End
    <3>5. /\ \A p \in Int : Done(h)' <= p /\ p <= End(h) => 0 <= L[p] /\ L[p] <= 9
          /\ \A p, z \in Int : Done(h)' <= p /\ p <= z /\ z <= End(h) => L[p] <= L[z]
      BY <2>6, <3>2
    <3>6. Bus(q, h, L, A, S)'
      BY <2>3, <2>4, <2>5, <2>6, <3>5 DEF Bus, Way
    <3> QED BY <2>5, <2>7, <3>2, <3>3, <3>4, <3>6
  <2>8. CASE Last.op \notin SetOps
    <3>1. InPipe(SetOps)' <=> InPipe(SetOps)
      BY <1>4, <2>2, <2>8 DEF InPipe
    <3>2. Done(h)' = Done(h)
      BY <3>1 DEF Done
    <3>3. Bus(q, h, L, A, S)'
      BY <2>3, <2>4, <2>5, <2>6, <3>2 DEF Bus, Way
    <3> QED BY <2>5, <2>8, <3>2, <3>3
  <2> QED BY <2>7, <2>8
<1> QED BY <1>3, <1>4

\* The ends of the way.
LEMMA Ends ==
    ASSUME TypeOK, NEW h \in Int
    PROVE  /\ Len(mmio) \in Nat /\ Done(h) \in Int /\ End(h) \in Int
           /\ Done(h) <= End(h) /\ End(h) = h + Len(mmio) - 1
<1>1. Len(mmio) \in Nat
  BY DEF TypeOK
<1> QED BY <1>1 DEF Done, End

\* The position of a write in flight is between them.
LEMMA Place ==
    ASSUME TypeOK, NEW h \in Int
    PROVE  /\ \A k \in 1 .. Len(mmio) : /\ h + k - 1 \in Int /\ Done(h) < h + k - 1
                                        /\ h + k - 1 <= End(h)
           /\ InPipe(SetOps) => Done(h) < h - 1 /\ h - 1 <= End(h)
           /\ \A p \in Int : Done(h) < p /\ p <= End(h) =>
                \/ \E k \in 1 .. Len(mmio) : p = h + k - 1
                \/ p = h - 1 /\ InPipe(SetOps)
<1>1. Len(mmio) \in Nat /\ End(h) = h + Len(mmio) - 1
  BY Ends
<1>2. Done(h) = IF InPipe(SetOps) THEN h - 2 ELSE h - 1
  BY DEF Done
<1>3. ASSUME NEW p \in Int, Done(h) < p, p <= End(h)
      PROVE  \/ \E k \in 1 .. Len(mmio) : p = h + k - 1
             \/ p = h - 1 /\ InPipe(SetOps)
  <2>1. CASE p >= h
    <3>1. p - h + 1 \in 1 .. Len(mmio) /\ p = h + (p - h + 1) - 1
      BY <1>1, <1>3, <2>1
    <3> QED BY <3>1
  <2>2. CASE p < h
    BY <1>2, <1>3, <2>2
  <2> QED BY <2>1, <2>2
<1> QED BY <1>1, <1>2, <1>3

\* A write is posted: the way is one longer.
Extends(r, q, w, h, L, A, S, l, a, s) ==
    /\ Effect(r, q, w, L[End(h)], l, A[End(h)], a, S[End(h)], s)
    /\ L[End(h)] <= l /\ l <= 9

Longer(r, q, h, L, A, S, l, a, s, K, C, T) ==
    /\ Way(r, q, h, K, C, T)'
    /\ End(h)' = End(h) + 1 /\ Done(h)' = Done(h)
    /\ \A p \in Int : p <= End(h) => K[p] = L[p] /\ C[p] = A[p] /\ T[p] = S[p]
    /\ K[End(h) + 1] = l /\ C[End(h) + 1] = a /\ T[End(h) + 1] = s

\* So the way of the writes is one longer, with what the new write does.
LEMMA WayPost ==
    ASSUME TypeOK, NEW w, Posts(w), pipe' = pipe,
           NEW q \in Queues, NEW r, NEW h \in Int,
           NEW L \in Lines, NEW A \in Lines, NEW S \in Lines, Way(r, q, h, L, A, S),
           NEW l \in Int, NEW a \in Int, NEW s \in Int, Extends(r, q, w, h, L, A, S, l, a, s)
    PROVE  \E K, C, T \in Lines : Longer(r, q, h, L, A, S, l, a, s, K, C, T)
<1> USE DEF Extends, Longer
<1>1. /\ Len(mmio) \in Nat /\ Len(mmio') = Len(mmio) + 1
      /\ mmio'[Len(mmio) + 1] = w
      /\ \A k \in 1 .. Len(mmio) : mmio'[k] = mmio[k]
  BY Posted
<1>2. PICK z \in Int : z = End(h)
  BY Ends
<1>3. z = h + Len(mmio) - 1 /\ z + 1 = h + (Len(mmio) + 1) - 1 /\ Done(h) <= z /\ Done(h) \in Int
  BY <1>2, Ends
<1>4. End(h)' = z + 1
  BY <1>1, <1>3 DEF End
<1>5. Done(h)' = Done(h)
  BY DEF Done, InPipe
<1>6. PICK K \in Lines : K = [p \in Int |-> IF p <= z THEN L[p] ELSE l]
  BY DEF Lines
<1>7. PICK C \in Lines : C = [p \in Int |-> IF p <= z THEN A[p] ELSE a]
  BY DEF Lines
<1>8. PICK T \in Lines : T = [p \in Int |-> IF p <= z THEN S[p] ELSE s]
  BY DEF Lines
<1>9. /\ \A p \in Int : p <= z => K[p] = L[p] /\ C[p] = A[p] /\ T[p] = S[p]
      /\ \A p \in Int : p > z => K[p] = l /\ C[p] = a /\ T[p] = s
  BY <1>6, <1>7, <1>8
<1>10. ASSUME NEW p \in Int, p <= z, NEW u, At(r, q, u, p, L, A, S)
       PROVE  At(r, q, u, p, K, C, T)
  <2>1. p - 1 \in Int /\ p - 1 <= z
    BY <1>10
  <2>2. K[p] = L[p] /\ C[p] = A[p] /\ T[p] = S[p] /\ K[p - 1] = L[p - 1]
        /\ C[p - 1] = A[p - 1] /\ T[p - 1] = S[p - 1]
    BY <1>9, <1>10, <2>1
  <2> QED BY <1>10, <2>2 DEF At
<1>11. \A k \in 1 .. Len(mmio') : At(r, q, mmio'[k], h + k - 1, K, C, T)
  <2> SUFFICES ASSUME NEW k \in 1 .. Len(mmio')
               PROVE  At(r, q, mmio'[k], h + k - 1, K, C, T)
    OBVIOUS
  <2>1. CASE k \in 1 .. Len(mmio)
    <3>1. At(r, q, mmio[k], h + k - 1, L, A, S)
      BY <2>1 DEF Way
    <3>2. h + k - 1 \in Int /\ h + k - 1 <= z
      BY <1>1, <1>3, <2>1
    <3> QED BY <1>1, <1>10, <2>1, <3>1, <3>2
  <2>2. CASE k = Len(mmio) + 1
    <3>1. h + k - 1 = z + 1 /\ z + 1 \in Int /\ z + 1 > z /\ (z + 1) - 1 = z
      BY <1>1, <1>3, <2>2
    <3>2. K[z + 1] = l /\ C[z + 1] = a /\ T[z + 1] = s /\ K[z] = L[z] /\ C[z] = A[z] /\ T[z] = S[z]
      BY <1>9, <3>1
    <3>3. Effect(r, q, w, K[z], K[z + 1], C[z], C[z + 1], T[z], T[z + 1])
      BY <1>2, <3>2
    <3>4. At(r, q, w, z + 1, K, C, T)
      BY <3>1, <3>3 DEF At
    <3> QED BY <1>1, <2>2, <3>1, <3>4
  <2> QED BY <1>1, <2>1, <2>2
<1>12. \A j \in Stages : pipe'[j].op \in SetOps => At(r, q, pipe'[j], h - 1, K, C, T)
  <2> SUFFICES ASSUME NEW j \in Stages, pipe[j].op \in SetOps
               PROVE  At(r, q, pipe[j], h - 1, K, C, T)
    OBVIOUS
  <2>1. At(r, q, pipe[j], h - 1, L, A, S)
    BY DEF Way
  <2>2. h - 1 \in Int /\ h - 1 <= z
    BY <1>1, <1>3
  <2> QED BY <1>10, <2>1, <2>2
<1>13. /\ \A p \in Int : Done(h) <= p /\ p <= z => 0 <= L[p] /\ L[p] <= 9 /\ L[p] \in Int
       /\ \A p, y \in Int : Done(h) <= p /\ p <= y /\ y <= z => L[p] <= L[y]
  BY <1>2 DEF Way, Lines
<1>14. L[z] <= l /\ l <= 9
  BY <1>2
<1>15. /\ \A p \in Int : Done(h) <= p /\ p <= z + 1 => 0 <= K[p] /\ K[p] <= 9
       /\ \A p, y \in Int : Done(h) <= p /\ p <= y /\ y <= z + 1 => K[p] <= K[y]
  <2>1. \A p \in Int : p <= z + 1 => p <= z \/ p = z + 1
    OBVIOUS
  <2>2. \A p \in Int : Done(h) <= p /\ p <= z => L[p] <= l
    BY <1>3, <1>13, <1>14
  <2>3. 0 <= l
    BY <1>3, <1>13, <1>14
  <2> QED BY <1>9, <1>13, <1>14, <2>1, <2>2, <2>3
<1>16. Way(r, q, h, K, C, T)'
  BY <1>4, <1>5, <1>11, <1>12, <1>15 DEF Way
<1>17. /\ End(h)' = End(h) + 1
       /\ \A p \in Int : p <= End(h) => K[p] = L[p] /\ C[p] = A[p] /\ T[p] = S[p]
       /\ K[End(h) + 1] = l /\ C[End(h) + 1] = a /\ T[End(h) + 1] = s
  BY <1>2, <1>4, <1>9
<1> QED BY <1>5, <1>16, <1>17

\* A ring write arrives: it performs when it leaves the bus.
LEMMA WayLand ==
    ASSUME TypeOK, mmio # <<>>, mmio' = Tail(mmio), pipe' = pipe, ~InPipe(SetOps),
           NEW q \in Queues, NEW r, NEW h \in Int,
           NEW L \in Lines, NEW A \in Lines, NEW S \in Lines, Way(r, q, h, L, A, S)
    PROVE  \E g \in Int :
             /\ Way(r, q, g, L, A, S)'
             /\ End(g)' = End(h) /\ Done(g)' = Done(h) + 1 /\ Done(h) + 1 <= End(h)
             /\ At(r, q, Head(mmio), Done(h) + 1, L, A, S)
<1>1. /\ Head(mmio) = mmio[1] /\ 1 \in 1 .. Len(mmio) /\ Len(mmio') = Len(mmio) - 1
      /\ \A k \in 1 .. Len(mmio) - 1 : mmio'[k] = mmio[k + 1] /\ k + 1 \in 1 .. Len(mmio)
      /\ Len(mmio) \in Nat
  BY HeadType
<1>2. PICK g \in Int : g = h + 1
  OBVIOUS
<1>3. Done(h) = h - 1 /\ Done(g)' = h /\ Done(h) + 1 = h
  BY <1>2 DEF Done, InPipe
<1>4. End(g)' = End(h) /\ h <= End(h)
  BY <1>1, <1>2 DEF End
<1>5. At(r, q, mmio[1], h, L, A, S)
  <2>1. At(r, q, mmio[1], h + 1 - 1, L, A, S)
    BY <1>1 DEF Way
  <2>2. h + 1 - 1 = h
    OBVIOUS
  <2> QED BY <2>1, <2>2
<1>6. \A k \in 1 .. Len(mmio') : At(r, q, mmio'[k], g + k - 1, L, A, S)
  <2> SUFFICES ASSUME NEW k \in 1 .. Len(mmio) - 1
               PROVE  At(r, q, mmio[k + 1], g + k - 1, L, A, S)
    BY <1>1
  <2>1. At(r, q, mmio[k + 1], h + (k + 1) - 1, L, A, S)
    BY <1>1 DEF Way
  <2>2. h + (k + 1) - 1 = g + k - 1
    BY <1>1, <1>2
  <2> QED BY <2>1, <2>2
<1>7. \A j \in Stages : pipe'[j].op \notin SetOps
  BY DEF InPipe
<1>8. /\ \A p \in Int : h <= p /\ p <= End(h) => 0 <= L[p] /\ L[p] <= 9
      /\ \A p, y \in Int : h <= p /\ p <= y /\ y <= End(h) => L[p] <= L[y]
  BY <1>3 DEF Way
<1>9. Way(r, q, g, L, A, S)'
  BY <1>3, <1>4, <1>6, <1>7, <1>8 DEF Way
<1> QED BY <1>1, <1>3, <1>4, <1>5, <1>9

\* Of the driver's record, what a write does depends on the base and the size only.
LEMMA SameEffect ==
    ASSUME NEW r, NEW x, r.base = x.base, r.log_size = x.log_size, NEW q, NEW w,
           NEW l0, NEW l1, NEW a0, NEW a1, NEW s0, NEW s1,
           Effect(r, q, w, l0, l1, a0, a1, s0, s1)
    PROVE  Effect(x, q, w, l0, l1, a0, a1, s0, s1)
BY DEF Effect, Opens

\* So the way is the same for a record with the same base and size.
LEMMA SameWay ==
    ASSUME NEW q, NEW r, NEW h, NEW L, NEW A, NEW S, Way(r, q, h, L, A, S)',
           r.base = cq'[q].base, r.log_size = cq'[q].log_size
    PROVE  Way(cq[q], q, h, L, A, S)'
<1>1. PICK x : x = cq'[q]
  OBVIOUS
<1>2. ASSUME NEW w, NEW p, At(r, q, w, p, L, A, S)
      PROVE  At(x, q, w, p, L, A, S)
  BY <1>1, <1>2, SameEffect DEF At
<1>3. \A k \in 1 .. Len(mmio') : At(x, q, mmio'[k], h + k - 1, L, A, S)
  BY <1>2 DEF Way
<1>4. \A j \in Stages : pipe'[j].op \in SetOps => At(x, q, pipe'[j], h - 1, L, A, S)
  BY <1>2 DEF Way
<1> QED BY <1>1, <1>3, <1>4 DEF Way

\* A queue that is not opening has made every step of the opening.
LEMMA Opened ==
    ASSUME TypeOK, LifeInv, NEW q \in Queues,
           cq[q].pc # "opening" \/ napi[q].state # "idle" \/ napi[q].arming > 0
    PROVE  cq[q].step = 9
<1>1. cq[q].step \in 0 .. 9
  BY DEF TypeOK, Cqs
<1>2. cq[q].pc = "opening" <=> cq[q].step < 9
  BY DEF LifeInv, Life
<1>3. cq[q].pc = "opening" => napi[q].state = "idle" /\ napi[q].arming = 0
  BY DEF LifeInv, Life, NapiIdle
<1> QED BY <1>1, <1>2, <1>3

\* Nothing moves on the bus.
LEMMA WayStays ==
    ASSUME mmio' = mmio, pipe' = pipe, NEW q, NEW r, NEW h, NEW L, NEW A, NEW S,
           Way(r, q, h, L, A, S)
    PROVE  Way(r, q, h, L, A, S)' /\ Done(h)' = Done(h) /\ End(h)' = End(h)
<1>1. Done(h)' = Done(h) /\ End(h)' = End(h)
  BY DEF Done, End, InPipe
<1> QED BY <1>1 DEF Way

\* The driver's record matters where the base and the size are written.
LEMMA WayRecord ==
    ASSUME NEW q, NEW r, NEW t, r.base = t.base, r.log_size = t.log_size,
           NEW h, NEW L, NEW A, NEW S, Way(r, q, h, L, A, S)
    PROVE  Way(t, q, h, L, A, S)
<1>1. \A w, p : At(r, q, w, p, L, A, S) => At(t, q, w, p, L, A, S)
  BY DEF At, Effect, Opens
<1> QED BY <1>1 DEF Way

\* They are not on the way of a queue that is closed.
LEMMA WayClosed ==
    ASSUME TypeOK, NEW q, NEW r, NEW t, NEW h \in Int,
           NEW L \in Lines, NEW A \in Lines, NEW S \in Lines,
           Way(r, q, h, L, A, S), L[End(h)] = 0
    PROVE  Way(t, q, h, L, A, S) /\ \A p \in Int : Done(h) <= p /\ p <= End(h) => L[p] = 0
<1>1. \A p \in Int : Done(h) <= p /\ p <= End(h) => L[p] = 0
  <2> SUFFICES ASSUME NEW p \in Int, Done(h) <= p, p <= End(h) PROVE L[p] = 0
    OBVIOUS
  <2>1. End(h) \in Int /\ End(h) <= End(h)
    BY Ends
  <2>2. 0 <= L[p] /\ L[p] <= 0 /\ L[p] \in Int
    BY <2>1 DEF Way, Lines
  <2> QED BY <2>2
<1>2. ASSUME NEW p \in Int, Done(h) < p, p <= End(h), NEW w, At(r, q, w, p, L, A, S)
      PROVE  At(t, q, w, p, L, A, S)
  <2>0. Done(h) \in Int /\ End(h) \in Int
    BY Ends
  <2>1. p - 1 \in Int /\ Done(h) <= p - 1 /\ p - 1 <= End(h) /\ Done(h) <= p
    BY <1>2, <2>0
  <2>2. L[p] = 0 /\ L[p - 1] = 0
    BY <1>1, <1>2, <2>1
  <2> QED BY <1>2, <2>2 DEF At, Effect
<1>3. \A k \in 1 .. Len(mmio) : At(t, q, mmio[k], h + k - 1, L, A, S)
  BY <1>2, Place DEF Way
<1>4. \A j \in Stages : pipe[j].op \in SetOps => At(t, q, pipe[j], h - 1, L, A, S)
  <2> SUFFICES ASSUME NEW j \in Stages, pipe[j].op \in SetOps
               PROVE  At(t, q, pipe[j], h - 1, L, A, S)
    OBVIOUS
  <2>1. h - 1 \in Int /\ InPipe(SetOps)
    BY DEF InPipe
  <2>2. Done(h) < h - 1 /\ h - 1 <= End(h)
    BY <2>1, Place
  <2> QED BY <1>2, <2>1, <2>2 DEF Way
<1> QED BY <1>1, <1>3, <1>4 DEF Way

\* The way of a queue that is open, with no ring write on it, is one of a closed queue.
LEMMA WayCloses ==
    ASSUME TypeOK, NEW q, NEW r, NEW t, NEW h \in Int,
           NEW L \in Lines, NEW A \in Lines, NEW S \in Lines,
           Way(r, q, h, L, A, S), L[Done(h)] = 9,
           \A k \in 1 .. Len(mmio) : ~(mmio[k].op = "ring" /\ mmio[k].addr = q),
           NEW Z \in Lines, \A p \in Int : Z[p] = 0
    PROVE  Way(t, q, h, Z, A, S)
<1>1. \A p \in Int : Done(h) <= p /\ p <= End(h) => L[p] = 9
  <2> SUFFICES ASSUME NEW p \in Int, Done(h) <= p, p <= End(h) PROVE L[p] = 9
    OBVIOUS
  <2>1. Done(h) \in Int /\ Done(h) <= Done(h)
    BY Ends
  <2>2. L[p] <= 9 /\ 9 <= L[p] /\ L[p] \in Int
    BY <2>1 DEF Way, Lines
  <2> QED BY <2>2
<1>2. ASSUME NEW p \in Int, Done(h) < p, p <= End(h), NEW w, At(r, q, w, p, L, A, S),
             ~(w.op = "ring" /\ w.addr = q)
      PROVE  At(t, q, w, p, Z, A, S)
  <2>0. Done(h) \in Int /\ End(h) \in Int
    BY Ends
  <2>1. p - 1 \in Int /\ Done(h) <= p - 1 /\ p - 1 <= End(h) /\ Done(h) <= p
    BY <1>2, <2>0
  <2>2. L[p] = 9 /\ L[p - 1] = 9 /\ Z[p] = 0 /\ Z[p - 1] = 0
    BY <1>1, <1>2, <2>1
  <2> QED BY <1>2, <2>2 DEF At, Effect
<1>3. \A k \in 1 .. Len(mmio) : At(t, q, mmio[k], h + k - 1, Z, A, S)
  BY <1>2, Place DEF Way
<1>4. \A j \in Stages : pipe[j].op \in SetOps => At(t, q, pipe[j], h - 1, Z, A, S)
  <2> SUFFICES ASSUME NEW j \in Stages, pipe[j].op \in SetOps
               PROVE  At(t, q, pipe[j], h - 1, Z, A, S)
    OBVIOUS
  <2>1. h - 1 \in Int /\ InPipe(SetOps) /\ pipe[j].op # "ring"
    BY DEF InPipe, SetOps
  <2>2. Done(h) < h - 1 /\ h - 1 <= End(h)
    BY <2>1, Place
  <2>3. At(r, q, pipe[j], h - 1, L, A, S)
    BY DEF Way
  <2> QED BY <1>2, <2>1, <2>2, <2>3
<1> QED BY <1>3, <1>4 DEF Way

\* A step of the opening that the driver has made and the hardware has not is in flight.
OnTheWay(r, q, n) ==
    \/ \E k \in 1 .. Len(mmio) : mmio[k].addr = q /\ Opens(r, mmio[k], n)
    \/ \E j \in Stages : pipe[j].op \in SetOps /\ pipe[j].addr = q /\ Opens(r, pipe[j], n)

\* The way goes one step at a time, so the write that makes step n is among those in flight.
LEMMA Crossing ==
    ASSUME TypeOK, NEW q, NEW r, NEW h \in Int,
           NEW L \in Lines, NEW A \in Lines, NEW S \in Lines,
           Way(r, q, h, L, A, S), NEW n \in Int, L[Done(h)] < n, n <= L[End(h)]
    PROVE  OnTheWay(r, q, n)
<1> USE DEF OnTheWay
<1>1. PICK t \in Int, z \in Int : t = Done(h) /\ z = End(h) /\ t <= z
  BY Ends
<1> DEFINE T == {d \in Nat : t + d <= z /\ n <= L[t + d]}
<1>2. \A p \in Int : L[p] \in Int
  BY DEF Lines
<1>3. z - t \in T
  BY <1>1
<1>4. T \in SUBSET Nat /\ T # {}
  BY <1>3
<1> HIDE DEF T
<1>5. PICK d \in T : \A y \in T : d <= y
  BY <1>4, LeastExists
<1> USE DEF T
<1>6. d # 0
  BY <1>1, <1>2, <1>5
<1>7. d - 1 \in Nat /\ d - 1 \notin T
  BY <1>5, <1>6
<1>8. PICK p \in Int : p = t + d
  BY <1>5
<1>9. t < p /\ p <= z /\ n <= L[p] /\ p - 1 = t + (d - 1) /\ p - 1 <= z
  BY <1>5, <1>6, <1>8
<1>10. L[p - 1] < n
  BY <1>2, <1>7, <1>9
<1> HIDE DEF T
<1>11. ASSUME NEW w, At(r, q, w, p, L, A, S)
       PROVE  w.addr = q /\ Opens(r, w, n)
  <2>1. L[p - 1] # L[p] /\ L[p] \in Int /\ L[p - 1] \in Int
    BY <1>2, <1>9, <1>10
  <2>2. w.addr = q /\ L[p] = L[p - 1] + 1 /\ Opens(r, w, L[p])
    BY <1>11, <2>1 DEF At, Effect
  <2>3. L[p] = n
    BY <1>9, <1>10, <2>1, <2>2
  <2> QED BY <2>2, <2>3
<1>12. CASE \E k \in 1 .. Len(mmio) : p = h + k - 1
  BY <1>11, <1>12 DEF Way
<1>13. CASE p = h - 1 /\ InPipe(SetOps)
  BY <1>11, <1>13 DEF Way, InPipe
<1> QED BY <1>1, <1>8, <1>9, <1>12, <1>13, Place

(* What holds of queue q when the writes performed so far have brought it  *)
(* to step l of its opening, consumer pointer a and s posted descriptors.  *)

\* No event is lost between the queue manager and the driver.
Reliable == QUEUE_COUNT = 1 \/ EventReady = {TRUE}

\* The word of the queue is what the opening has written so far.
Word(q, l) ==
    /\ 1 <= l /\ l <= 6 => queue_ram[q].enable = 0
    /\ 7 <= l => queue_ram[q].enable = 1
    /\ 2 <= l => queue_ram[q].base = cq[q].base
    /\ 3 <= l => queue_ram[q].log_size = cq[q].log_size

\* Only a queue whose ring has its descriptors is at work.
Idle(q, l) ==
    /\ l < 9 \/ cq[q].pc = "down" => Drained(q)
    /\ l < 9 \/ cq[q].pc \in {"stopping", "down"} => slots[q] = 0
    /\ cq[q].pc \in {"stopping", "down"} => l = 9

\* The slots reserved and not consumed are no more than the queue has.
Room(q, l, a, B, N) ==
    /\ l = 0 \/ 6 <= l => /\ queue_ram[q].cons = a % PtrMod
                          /\ a <= N /\ N - a <= 2^queue_ram[q].log_size
    /\ 5 <= l /\ l <= 8 => N = 0 /\ B = 0

Count(q) == IF Doing(q, "req") THEN 1 ELSE 0

\* Every completion is one of a descriptor, and the driver has consumed only completions.
Budgeted(q, s, N, U) == U <= N /\ N + Count(q) + slots[q] <= s

\* The record in the slot of number k is that of number j.
Rec(q, k, j) ==
    /\ buf[q][k % 2^cq[q].log_size].phase <=> Phase(j % PtrMod, cq[q].log_size)
    /\ j >= 0 => buf[q][k % 2^cq[q].log_size].ptr = j % PtrMod

\* The job of a table entry has not written its record.
Unwritten(i) == \E x \in Granted : x.op_tag = i /\ ~x.written

\* The slots ahead of the driver hold a record of this lap or of the lap before; a slot
\* that a job is to write is ahead of the driver and holds one of the lap before.
Filled(q, B, N, U, c) ==
    /\ \A k \in Int : U <= k /\ k < U + 2^cq[q].log_size =>
          (k < N /\ Rec(q, k, k)) \/ Rec(q, k, k - 2^cq[q].log_size)
    /\ \A k \in Int : B < k /\ k <= N /\ Unwritten(c[k]) =>
          U <= k - 1 /\ Rec(q, k - 1, k - 1 - 2^cq[q].log_size)

\* Until then the driver finds no record.
Blank(q, l, U) ==
    cq[q].step >= 1 /\ l < 9 => U = 0 /\ \A p \in Ptrs : buf[q][p] = NoRecord

\* The driver polls, is about to arm the queue or to be woken.
Awake(q) == \/ napi[q].state # "idle" \/ napi[q].arming > 0
            \/ ArmInFlight(q) \/ EventInFlight(q)

\* An armed queue has nothing published that is not consumed; if it is not armed, the
\* driver will look at it again.
Armed(q, l, a, B) ==
    /\ l = 8 => queue_ram[q].armed = 1
    /\ 8 <= l /\ queue_ram[q].armed = 1 => B <= a \/ (Doing(q, "commit") /\ B - 1 <= a)
    /\ Reliable /\ 8 <= l /\ cq[q].pc = "open" /\ queue_ram[q].armed = 0 => Awake(q)

\* The jobs of the queue are for its buffer.
JobsFit(q) ==
    \A x \in Granted : x.queue = q =>
        /\ x.base = cq[q].base
        /\ x.slot = Slot(x.ptr, cq[q].log_size)
        /\ x.phase <=> Phase(x.ptr, cq[q].log_size)

RespFits(q) ==
    resp.valid /\ resp.queue = q =>
        ~resp.error /\ (RING_SIZE <= 2^queue_ram[q].log_size => ~resp.full)

Working(q, l, s, B, N, U, c) == l = 9 => Budgeted(q, s, N, U) /\ Filled(q, B, N, U, c)

Now(q, l, a, s, B, N, U, c) ==
    /\ Word(q, l) /\ Idle(q, l) /\ Room(q, l, a, B, N)
    /\ Working(q, l, s, B, N, U, c) /\ Blank(q, l, U) /\ Armed(q, l, a, B)
    /\ JobsFit(q) /\ RespFits(q)

\* What holds at every position of the way.
Within(l, a, s, N, U) ==
    /\ l = 0 => a <= N
    /\ 1 <= l /\ l <= 8 => a = 0 /\ s = 0
    /\ l = 9 => a <= U /\ s <= RING_SIZE + a

Range(t, z, L, A, S, N, U) ==
    \A p \in Int : t <= p /\ p <= z => Within(L[p], A[p], S[p], N, U)

\* What the driver has made is the end of the way.
Made(q, z, A, S, U) ==
    /\ cq[q].step >= 1 => A[z] = U - napi[q].done /\ cq[q].cons = U % PtrMod /\ U >= 0
    /\ cq[q].step = 9 => S[z] + cq[q].free + napi[q].done <= RING_SIZE + U

Ghost(q, h, L, A, S, B, N, U, c) ==
    /\ Bus(q, h, L, A, S) /\ Chain(q, B, N, c)
    /\ Now(q, L[Done(h)], A[Done(h)], S[Done(h)], B, N, U, c)
    /\ Range(Done(h), End(h), L, A, S, N, U)
    /\ Made(q, End(h), A, S, U)

Sound(q) == \E h, B, N, U \in Int : \E L, A, S \in Lines : \E c \in Chains :
                Ghost(q, h, L, A, S, B, N, U, c)

CplInv == IInv /\ \A q \in Queues : Sound(q)

\* The word of a queue after a clock: an operation changes it as it leaves the last stage.
LEMMA WordStep ==
    ASSUME IInv, Perform, NEW q \in Queues
    PROVE  /\ ~LastOn(q) => queue_ram'[q] = queue_ram[q]
           /\ LastOn(q) => Last.data = queue_ram[q] /\ Last.op \in OpKinds \ {"none"}
           /\ LastOn(q) /\ Last.op = "read" => queue_ram'[q] = queue_ram[q]
           /\ LastOn(q) /\ Last.op = "req" =>
                /\ queue_ram'[q].prod = queue_ram[q].prod
                /\ queue_ram'[q].cons = queue_ram[q].cons
                /\ queue_ram'[q].log_size = queue_ram[q].log_size
                /\ queue_ram'[q].base = queue_ram[q].base
                /\ queue_ram'[q].enable = queue_ram[q].enable
                /\ queue_ram'[q].armed = queue_ram[q].armed
                /\ queue_ram'[q].op_index = IF StartEn THEN op_table_start_ptr
                                                       ELSE queue_ram[q].op_index
           /\ LastOn(q) /\ Last.op = "commit" =>
                /\ queue_ram'[q].prod = Last.wdata
                /\ queue_ram'[q].cons = queue_ram[q].cons
                /\ queue_ram'[q].log_size = queue_ram[q].log_size
                /\ queue_ram'[q].base = queue_ram[q].base
                /\ queue_ram'[q].enable = queue_ram[q].enable
                /\ queue_ram'[q].armed = 0
                /\ queue_ram'[q].op_index = queue_ram[q].op_index
<1>1. TypeOK /\ PipeInv
  BY DEF IInv
<1>2. ~LastOn(q) => queue_ram'[q] = queue_ram[q]
  BY <1>1, PerformFrame DEF LastOn
<1>3. LastOn(q) => Last.data = queue_ram[q] /\ Last.op \in OpKinds \ {"none"}
  BY <1>1, Constants DEF PipeInv, PipeCoherent, Last, LastOn, TypeOK, Entries
<1>4. queue_ram \in [Queues -> Words]
  BY <1>1 DEF TypeOK
<1>5. LastOn(q) /\ Last.op = "read" => queue_ram'[q] = queue_ram[q]
  BY DEF Perform, PerformReq, PerformCommit, PerformWrite, PerformNothing, SetOps
<1>6. ASSUME LastOn(q), Last.op = "req"
      PROVE  /\ queue_ram'[q].prod = queue_ram[q].prod
             /\ queue_ram'[q].cons = queue_ram[q].cons
             /\ queue_ram'[q].log_size = queue_ram[q].log_size
             /\ queue_ram'[q].base = queue_ram[q].base
             /\ queue_ram'[q].enable = queue_ram[q].enable
             /\ queue_ram'[q].armed = queue_ram[q].armed
             /\ queue_ram'[q].op_index = IF StartEn THEN op_table_start_ptr
                                                    ELSE queue_ram[q].op_index
  <2>1. queue_ram' = IF StartEn THEN [queue_ram EXCEPT ![Last.addr].op_index = op_table_start_ptr]
                                ELSE queue_ram
    BY <1>6 DEF Perform, PerformReq, PerformCommit, PerformWrite, PerformNothing, SetOps
  <2> QED BY <1>4, <1>6, <2>1 DEF LastOn, Words
<1>7. ASSUME LastOn(q), Last.op = "commit"
      PROVE  /\ queue_ram'[q].prod = Last.wdata
             /\ queue_ram'[q].cons = queue_ram[q].cons
             /\ queue_ram'[q].log_size = queue_ram[q].log_size
             /\ queue_ram'[q].base = queue_ram[q].base
             /\ queue_ram'[q].enable = queue_ram[q].enable
             /\ queue_ram'[q].armed = 0
             /\ queue_ram'[q].op_index = queue_ram[q].op_index
  <2>1. queue_ram' = [queue_ram EXCEPT ![Last.addr].prod = Last.wdata,
                                       ![Last.addr].armed = IF CommitEvent THEN 0 ELSE @]
    BY <1>7 DEF Perform, PerformReq, PerformCommit, PerformWrite, PerformNothing, SetOps
  <2>2. ~CommitEvent => queue_ram[q].armed = 0
    BY <1>3, <1>4, <1>7 DEF CommitEvent, Words, Bit
  <2> QED BY <1>4, <1>7, <2>1, <2>2 DEF LastOn, Words
<1> QED BY <1>2, <1>3, <1>5, <1>6, <1>7

\* The word after a register write.
LEMMA WriteStepWord ==
    ASSUME IInv, Perform, NEW q \in Queues, LastOn(q), Last.op \in SetOps
    PROVE  /\ queue_ram'[q].op_index = queue_ram[q].op_index
           /\ queue_ram'[q].prod = IF Last.op = "set_prod" /\ queue_ram[q].enable = 0
                                   THEN Last.wdata ELSE queue_ram[q].prod
           /\ queue_ram'[q].cons = IF Last.op \in {"set_cons", "set_cons_arm"}
                                   THEN Last.wdata ELSE queue_ram[q].cons
           /\ queue_ram'[q].base = IF Last.op = "set_base" /\ queue_ram[q].enable = 0
                                   THEN Last.wdata ELSE queue_ram[q].base
           /\ queue_ram'[q].log_size = IF Last.op = "set_size" /\ queue_ram[q].enable = 0
                                       THEN Last.wdata ELSE queue_ram[q].log_size
           /\ queue_ram'[q].enable = IF Last.op = "set_enable"
                                     THEN Last.wdata ELSE queue_ram[q].enable
           /\ queue_ram'[q].armed = IF ArmEvent THEN 0
                                    ELSE IF Last.op = "set_cons_arm" THEN 1
                                    ELSE IF Last.op = "set_arm" THEN Last.wdata
                                    ELSE queue_ram[q].armed
<1>1. Last.data = queue_ram[q] /\ queue_ram \in [Queues -> Words]
  BY WordStep DEF IInv, TypeOK
<1>2. queue_ram' = [queue_ram EXCEPT ![Last.addr] = WriteWord(@)]
  BY DEF Perform, PerformReq, PerformCommit, PerformWrite, PerformNothing, SetOps
<1>3. queue_ram'[q] = WriteWord(queue_ram[q])
  BY <1>1, <1>2 DEF LastOn
<1>4. PICK m \in BOOLEAN : m <=> ArmEvent
  OBVIOUS
<1> QED BY <1>1, <1>3, <1>4 DEF WriteWord, SetOps

\* A queue at rest, without descriptors, stays at rest.
LEMMA DrainedStays ==
    ASSUME IInv, NEW e, NEW r, NEW v, NEW done, NEW tags, Tick(e, r, v, done, tags),
           NEW q \in Queues, Drained(q), slots[q] = 0
    PROVE  Drained(q)' /\ slots'[q] = 0
<1>1. /\ TypeOK /\ PipeInv /\ TableInv /\ e \in Entries /\ Loads(e, r, v) /\ OpTableNext(tags)
      /\ RespNext(r) /\ HeldNext(r, done)
  BY DEF IInv, Tick
<1>2. /\ pipe'[0] = e /\ Last = pipe[PIPELINE - 1] /\ PIPELINE - 1 \in Stages
      /\ \A j \in Stages : j # 0 => pipe'[j] = pipe[j - 1] /\ j - 1 \in Stages
  BY <1>1, Moving
<1>3. e.op = "req" => e.addr # q
  BY <1>1 DEF Loads
<1>4. e.op = "commit" => e.addr # q
  BY <1>1 DEF Loads, CommitReady, Drained, TypeOK
<1>5. \A j \in Stages : pipe'[j].addr = q => pipe'[j].op \notin {"req", "commit"}
  BY <1>2, <1>3, <1>4 DEF Drained
<1>6. StartEn => Last.addr # q
  BY <1>2 DEF StartEn, Drained
<1>7. \A i \in OpIdx : ~(op_table'[i].active /\ op_table'[i].queue = q)
  <2> SUFFICES ASSUME NEW i \in OpIdx, op_table'[i].active, op_table'[i].queue = q
               PROVE  FALSE
    OBVIOUS
  <2>1. ~FreeEntry.active
    BY DEF FreeEntry
  <2> QED BY <1>1, <1>6, <2>1, TableStep DEF Drained
<1>8. resp'.valid => resp'.queue # q
  <2>1. CASE Last.op = "req"
    BY <1>1, <1>2, <2>1 DEF RespNext, Drained
  <2>2. CASE Last.op # "req"
    BY <1>1, <2>2 DEF RespNext, Drained, NoResp
  <2> QED BY <2>1, <2>2
<1>9. \A h \in held' : h.queue # q
  BY <1>1 DEF HeldNext, Drained, Job
<1>10. slots'[q] = 0
  BY <1>1, <1>3 DEF Loads, TypeOK
<1> QED BY <1>5, <1>7, <1>8, <1>9, <1>10 DEF Drained

\* The queue of a job, of a reservation in the pipeline or of a response is not at rest.
LEMMA AtWork ==
    ASSUME IInv, NEW q \in Queues, Drained(q)
    PROVE  /\ \A x \in Granted : x.queue # q
           /\ ~(resp.valid /\ resp.queue = q)
           /\ \A i \in OpIdx : ~Mine(q, i)
           /\ ~Doing(q, "req") /\ ~Doing(q, "commit")
           /\ LastOn(q) => Last.op \notin {"req", "commit"}
BY Constants DEF Drained, Granted, IsGrant, Mine, Doing, Job, Last, LastOn

\* It has an empty chain.
LEMMA EmptyChain ==
    ASSUME IInv, NEW q \in Queues, Drained(q), NEW B \in Int, NEW N \in Int, NEW c \in Chains,
           Chain(q, B, N, c)
    PROVE  B = N /\ queue_ram[q].prod = N % PtrMod
<1>1. N \in Int /\ (B < N => Mine(q, c[N])) /\ c[N] \in OpIdx
  BY DEF Chain, Chains
<1>2. B = N
  BY <1>1, AtWork DEF Chain
<1>3. ~Doing(q, "commit") /\ ~Carrying(q, "commit", B % PtrMod)
  BY AtWork DEF Doing, Carrying
<1> QED BY <1>2, <1>3 DEF Chain

\* A chain is no longer than the operation table.
LEMMA ChainLength ==
    ASSUME TypeOK, NEW q \in Queues, NEW B \in Int, NEW N \in Int, NEW c \in Chains,
           Chain(q, B, N, c)
    PROVE  B <= N /\ N - B <= OP_TABLE_SIZE /\ OP_TABLE_SIZE < PtrMod
<1>1. B <= N /\ OP_TABLE_SIZE \in Nat /\ PtrMod \in Nat /\ OP_TABLE_SIZE < PtrMod
  BY CplOpTableAssumption, CplPtrModAssumption DEF Chain
<1>2. ASSUME B < N
      PROVE  N - B <= OP_TABLE_SIZE
  <2>1. c[N] \in OpIdx /\ c[B + 1] \in OpIdx
    BY DEF Chains
  <2>2. Pos(c[N]) - Pos(c[B + 1]) >= N - (B + 1)
    BY <1>2 DEF Chain
  <2>3. /\ Pos(c[N]) \in Int /\ Pos(c[N]) < OP_TABLE_SIZE
        /\ Pos(c[B + 1]) \in Int /\ Pos(c[B + 1]) >= 0
    BY <2>1, Positions
  <2> QED BY <1>1, <2>2, <2>3
<1> QED BY <1>1, <1>2

\* The only job that is new is that of the entry that starts.
LEMMA UnwrittenStep ==
    ASSUME IInv, NEW e, NEW r, NEW v, NEW done, NEW tags, Tick(e, r, v, done, tags),
           NEW i, Unwritten(i)'
    PROVE  Unwritten(i) \/ (StartEn /\ i = op_table_start_ptr)
<1>1. PICK x \in Granted' : x.op_tag = i /\ ~x.written
  BY DEF Unwritten
<1>2. \/ x \in Granted
      \/ StartEn /\ x.op_tag = op_table_start_ptr
  BY <1>1, GrantStep
<1> QED BY <1>1, <1>2 DEF Unwritten

\* An arm stays in flight until it performs.
LEMMA ArmStays ==
    ASSUME IInv, NEW e, NEW r, NEW v, NEW done, NEW tags, Tick(e, r, v, done, tags),
           NEW q \in Queues, ArmInFlight(q), ~(LastOn(q) /\ Last.op = "set_arm")
    PROVE  ArmInFlight(q)'
<1>1. TypeOK /\ e \in Entries /\ Loads(e, r, v)
  BY DEF IInv, Tick
<1>2. /\ pipe'[0] = e /\ 0 \in Stages /\ Last = pipe[PIPELINE - 1]
      /\ \A j \in Stages : j # PIPELINE - 1 => j + 1 \in Stages /\ pipe'[j + 1] = pipe[j]
  BY <1>1, Moving
<1>3. CASE \E j \in Stages : pipe[j].op = "set_arm" /\ pipe[j].addr = q
  <2>1. PICK j \in Stages : pipe[j].op = "set_arm" /\ pipe[j].addr = q
    BY <1>3
  <2>2. j # PIPELINE - 1
    BY <1>2, <2>1 DEF LastOn
  <2> QED BY <1>2, <2>1, <2>2 DEF ArmInFlight
<1>4. CASE \E k \in 1 .. Len(mmio) : mmio[k].op = "set_arm" /\ mmio[k].addr = q
  <2>1. PICK k \in 1 .. Len(mmio) : mmio[k].op = "set_arm" /\ mmio[k].addr = q
    BY <1>4
  <2>2. CASE mmio' = mmio
    BY <2>1, <2>2 DEF ArmInFlight
  <2>3. CASE mmio' # mmio
    <3>1. mmio # <<>> /\ mmio' = Tail(mmio) /\ e.op = Head(mmio).op /\ e.addr = Head(mmio).addr
      BY <1>1, <2>3 DEF Loads
    <3>2. /\ Head(mmio) = mmio[1] /\ Len(mmio) \in Nat /\ Len(mmio') = Len(mmio) - 1
          /\ \A y \in 1 .. Len(mmio) - 1 : mmio'[y] = mmio[y + 1]
      BY <1>1, <3>1, HeadType
    <3>3. CASE k = 1
      BY <1>2, <2>1, <3>1, <3>2, <3>3 DEF ArmInFlight
    <3>4. CASE k # 1
      <4>1. PICK y \in 1 .. Len(mmio) - 1 : k = y + 1
        <5>1. k - 1 \in 1 .. Len(mmio) - 1 /\ k = (k - 1) + 1
          BY <2>1, <3>2, <3>4
        <5> QED BY <5>1
      <4>2. mmio'[y] = mmio[k] /\ y \in 1 .. Len(mmio')
        BY <3>2, <4>1
      <4> QED BY <2>1, <4>2 DEF ArmInFlight
    <3> QED BY <3>3, <3>4
  <2> QED BY <2>2, <2>3
<1> QED BY <1>3, <1>4 DEF ArmInFlight

\* An event is not lost: the next one waits for it, or is of the same queue.
LEMMA EventStays ==
    ASSUME IInv, NEW e, NEW r, NEW v, NEW done, NEW tags, Tick(e, r, v, done, tags),
           NEW q \in Queues, Reliable, EventInFlight(q)
    PROVE  EventInFlight(q)'
<1>1. TypeOK /\ EventNext(v) /\ v \in EventReady /\ pending \in [Queues -> Nat]
  BY DEF IInv, Tick, TypeOK
<1>2. /\ event' = IF ArmEvent \/ CommitEvent
                  THEN {[event |-> Last.data.event, source |-> Last.addr]}
                  ELSE IF v THEN {} ELSE event
      /\ pending'[q] = IF v /\ \E x \in event : x.source = q THEN pending[q] + 1 ELSE pending[q]
  BY <1>1 DEF EventNext
<1>3. CASE pending[q] > 0
  BY <1>1, <1>2, <1>3 DEF EventInFlight
<1>4. CASE \E x \in event : x.source = q
  <2>1. CASE v
    BY <1>1, <1>2, <1>4, <2>1 DEF EventInFlight
  <2>2. CASE ~v
    <3>1. EventReady # {TRUE}
      <4>1. v # TRUE
        BY <2>2, Zenon
      <4> QED BY <1>1, <4>1
    <3>2. QUEUE_COUNT = 1
      BY <3>1 DEF Reliable
    <3>3. Last.addr = q
      BY <1>1, <3>2, LastType DEF Queues
    <3> QED BY <1>2, <1>4, <2>2, <3>3 DEF EventInFlight
  <2> QED BY <2>1, <2>2
<1> QED BY <1>3, <1>4 DEF EventInFlight

\* The event of the operation in the last stage.
LEMMA NewEvent ==
    ASSUME IInv, NEW e, NEW r, NEW v, NEW done, NEW tags, Tick(e, r, v, done, tags),
           NEW q \in Queues, LastOn(q), ArmEvent \/ CommitEvent
    PROVE  EventInFlight(q)'
<1>1. event' = {[event |-> Last.data.event, source |-> Last.addr]}
  BY DEF Tick, EventNext
<1> QED BY <1>1 DEF EventInFlight, LastOn

\* The driver stays awake until an arm performs.
LEMMA StaysAwake ==
    ASSUME IInv, NEW e, NEW r, NEW v, NEW done, NEW tags, Tick(e, r, v, done, tags),
           NEW q \in Queues, Reliable, Awake(q), ~(LastOn(q) /\ Last.op = "set_arm")
    PROVE  Awake(q)'
BY ArmStays, EventStays DEF Awake, Tick

(* A clock, queue by queue.                                                *)

\* The parts that do not depend on which operation performs.
LEMMA IdleStep ==
    ASSUME IInv, NEW e, NEW r, NEW v, NEW done, NEW tags, Tick(e, r, v, done, tags),
           NEW q \in Queues, NEW l \in Int, NEW m \in Int, l <= m, m <= 9, Idle(q, l)
    PROVE  Idle(q, m)' /\ (l < 9 => Drained(q)' /\ slots'[q] = 0)
<1>1. cq' = cq /\ Loads(e, r, v) /\ TypeOK /\ slots \in [Queues -> Nat]
  BY DEF Tick, IInv, TypeOK
<1>2. slots[q] = 0 => slots'[q] = 0
  BY <1>1 DEF Loads
<1>3. l < 9 \/ cq[q].pc = "down" => Drained(q) /\ slots[q] = 0
  BY DEF Idle
<1>4. Drained(q) /\ slots[q] = 0 => Drained(q)' /\ slots'[q] = 0
  BY DrainedStays
<1> QED BY <1>1, <1>2, <1>3, <1>4 DEF Idle

\* A slot that is granted goes where the word says, and so where the driver put the queue.
LEMMA JobsStep ==
    ASSUME IInv, NEW e, NEW r, NEW v, NEW done, NEW tags, Tick(e, r, v, done, tags),
           NEW q \in Queues, JobsFit(q),
           StartEn /\ LastOn(q) => /\ queue_ram[q].base = cq[q].base
                                   /\ queue_ram[q].log_size = cq[q].log_size
    PROVE  JobsFit(q)'
<1>1. cq' = cq /\ Perform
  BY DEF Tick
<1>2. LastOn(q) => Last.data = queue_ram[q]
  BY <1>1, WordStep
<1> SUFFICES ASSUME NEW x \in Granted', x.queue = q
             PROVE  /\ x.base = cq[q].base
                    /\ x.slot = Slot(x.ptr, cq[q].log_size)
                    /\ x.phase <=> Phase(x.ptr, cq[q].log_size)
  BY <1>1 DEF JobsFit
<1>3. CASE x \in Granted
  BY <1>3 DEF JobsFit
<1>4. CASE /\ StartEn /\ x.queue = Last.addr /\ x.ptr = ActiveProdPtr
           /\ x.phase = Phase(ActiveProdPtr, Last.data.log_size)
           /\ x.slot = Slot(ActiveProdPtr, Last.data.log_size)
           /\ x.base = Last.data.base
  <2>1. LastOn(q)
    BY <1>4 DEF StartEn, LastOn
  <2> QED BY <1>2, <1>4, <2>1
<1> QED BY <1>3, <1>4, GrantStep

\* A response has no error, and is not full for a ring that fits the queue.
LEMMA RespStep ==
    ASSUME IInv, NEW e, NEW r, NEW v, NEW done, NEW tags, Tick(e, r, v, done, tags),
           NEW q \in Queues, RespFits(q),
           queue_ram'[q].log_size = queue_ram[q].log_size \/ Drained(q)',
           LastOn(q) /\ Last.op = "req" =>
              /\ queue_ram[q].enable = 1
              /\ RING_SIZE <= 2^queue_ram[q].log_size => ~QueueFull
    PROVE  RespFits(q)'
<1>1. Perform /\ RespNext(r)
  BY DEF Tick
<1>2. LastOn(q) => Last.data = queue_ram[q]
  BY <1>1, WordStep
<1> SUFFICES ASSUME resp'.valid, resp'.queue = q
             PROVE  ~resp'.error /\ (RING_SIZE <= 2^queue_ram'[q].log_size => ~resp'.full)
  BY DEF RespFits
<1>3. queue_ram'[q].log_size = queue_ram[q].log_size
  BY DEF Drained
<1>4. CASE Last.op = "req"
  <2>1. /\ resp'.queue = Last.addr /\ (resp'.error <=> Last.data.enable = 0)
        /\ resp'.full <=> Last.data.enable = 1 /\ QueueFull
    BY <1>1, <1>4 DEF RespNext
  <2>2. LastOn(q)
    BY <1>4, <2>1 DEF LastOn
  <2> QED BY <1>2, <1>3, <1>4, <2>1, <2>2
<1>5. CASE Last.op # "req"
  <2>1. resp' = resp
    BY <1>1, <1>5 DEF RespNext, NoResp
  <2> QED BY <1>3, <2>1 DEF RespFits
<1> QED BY <1>4, <1>5

\* The records stay as they are; jobs come to be written, not back.
LEMMA FilledStays ==
    ASSUME IInv, NEW e, NEW r, NEW v, NEW done, NEW tags, Tick(e, r, v, done, tags),
           NEW q \in Queues, NEW B \in Int, NEW C \in Int, NEW N \in Int, NEW U \in Int,
           NEW c \in Chains, Chain(q, B, N, c), Filled(q, B, N, U, c), B <= C
    PROVE  Filled(q, C, N, U, c)'
<1>1. buf' = buf /\ cq' = cq
  BY DEF Tick
<1>2. \A k, j : Rec(q, k, j)' <=> Rec(q, k, j)
  BY <1>1 DEF Rec
<1>3. PICK n : n = 2^cq[q].log_size
  OBVIOUS
<1>4. \A k \in Int : U <= k /\ k < U + n => (k < N /\ Rec(q, k, k)') \/ Rec(q, k, k - n)'
  BY <1>2, <1>3 DEF Filled
<1>5. ASSUME NEW k \in Int, C < k, k <= N, Unwritten(c[k])'
      PROVE  U <= k - 1 /\ Rec(q, k - 1, k - 1 - n)'
  <2>1. B < k
    BY <1>5
  <2>2. op_table[c[k]].active
    BY <1>5, <2>1 DEF Chain, Mine
  <2>3. Unwritten(c[k]) \/ (StartEn /\ c[k] = op_table_start_ptr)
    BY <1>5, UnwrittenStep
  <2>4. StartEn => ~op_table[op_table_start_ptr].active
    BY Starting DEF IInv
  <2>5. Unwritten(c[k])
    BY <2>2, <2>3, <2>4
  <2> QED BY <1>2, <1>3, <1>5, <2>1, <2>5 DEF Filled
<1>6. n = 2^cq'[q].log_size
  BY <1>1, <1>3
<1> QED BY <1>4, <1>5, <1>6 DEF Filled

\* A slot is reserved: it is ahead of the driver and its record is of the lap before.
LEMMA FilledPush ==
    ASSUME IInv, NEW e, NEW r, NEW v, NEW done, NEW tags, Tick(e, r, v, done, tags),
           NEW q \in Queues, NEW B \in Int, NEW N \in Int, NEW U \in Int,
           NEW c \in Chains, Chain(q, B, N, c), Filled(q, B, N, U, c),
           U <= N, N < U + 2^cq[q].log_size,
           NEW x \in Chains, \A k \in Int : k # N + 1 => x[k] = c[k]
    PROVE  Filled(q, B, N + 1, U, x)'
<1>1. buf' = buf /\ cq' = cq
  BY DEF Tick
<1>2. \A k, j : Rec(q, k, j)' <=> Rec(q, k, j)
  BY <1>1 DEF Rec
<1>3. PICK n : n = 2^cq[q].log_size
  OBVIOUS
<1>4. n \in Nat \ {0}
  <2>1. cq[q].log_size \in LogSizes \cup {0}
    BY DEF IInv, TypeOK, Cqs
  <2> QED BY <1>3, <2>1, Sizes
<1>5. \A k \in Int : U <= k /\ k < U + n => (k < N /\ Rec(q, k, k)) \/ Rec(q, k, k - n)
  BY <1>3 DEF Filled
<1>6. \A k \in Int : U <= k /\ k < U + n => (k < N + 1 /\ Rec(q, k, k)') \/ Rec(q, k, k - n)'
  BY <1>2, <1>5
<1>7. Rec(q, N, N - n)
  BY <1>3, <1>4, <1>5
<1>8. ASSUME NEW k \in Int, B < k, k <= N + 1, Unwritten(x[k])'
      PROVE  U <= k - 1 /\ Rec(q, k - 1, k - 1 - n)'
  <2>1. CASE k = N + 1
    <3>1. k - 1 = N
      BY <2>1
    <3> QED BY <1>2, <1>7, <3>1
  <2>2. CASE k # N + 1
    <3>1. x[k] = c[k] /\ k <= N
      BY <1>8, <2>2
    <3>2. op_table[c[k]].active
      BY <1>8, <3>1 DEF Chain, Mine
    <3>3. Unwritten(c[k]) \/ (StartEn /\ c[k] = op_table_start_ptr)
      BY <1>8, <3>1, UnwrittenStep
    <3>4. StartEn => ~op_table[op_table_start_ptr].active
      BY Starting DEF IInv
    <3>5. Unwritten(c[k])
      BY <3>2, <3>3, <3>4
    <3> QED BY <1>2, <1>3, <1>8, <3>1, <3>5 DEF Filled
  <2> QED BY <2>1, <2>2
<1>9. n = 2^cq'[q].log_size
  BY <1>1, <1>3
<1> QED BY <1>6, <1>8, <1>9 DEF Filled

\* The last stage works on another queue, or on none.
LEMMA ClockAway ==
    ASSUME IInv, NEW e, NEW r, NEW v, NEW done, NEW tags, Tick(e, r, v, done, tags),
           NEW q \in Queues, NEW l \in Int, NEW a \in Int, NEW s \in Int, l <= 9,
           NEW B \in Int, NEW N \in Int, NEW U \in Int, NEW c \in Chains, Chain(q, B, N, c),
           Now(q, l, a, s, B, N, U, c), ~LastOn(q)
    PROVE  \E C \in Int : Chain(q, C, N, c)' /\ Now(q, l, a, s, C, N, U, c)'
<1>1. /\ TypeOK /\ PipeInv /\ TableInv /\ e \in Entries /\ Loads(e, r, v) /\ OpTableNext(tags)
      /\ Perform /\ cq' = cq /\ buf' = buf /\ napi' = napi /\ slots \in [Queues -> Nat]
  BY DEF IInv, Tick, TypeOK
<1>2. queue_ram'[q] = queue_ram[q]
  BY <1>1, WordStep
<1>3. /\ Word(q, l) /\ Idle(q, l) /\ Room(q, l, a, B, N) /\ Working(q, l, s, B, N, U, c)
      /\ Blank(q, l, U) /\ Armed(q, l, a, B) /\ JobsFit(q) /\ RespFits(q)
  BY DEF Now
<1>4. ~(StartEn /\ Last.addr = q) /\ ~(LastOn(q) /\ Last.op = "set_arm")
  BY DEF StartEn, LastOn
<1>5. Word(q, l)' /\ Blank(q, l, U)'
  BY <1>1, <1>2, <1>3 DEF Word, Blank
<1>6. Idle(q, l)' /\ (l < 9 => Drained(q)' /\ slots'[q] = 0)
  BY <1>3, IdleStep
<1>7. JobsFit(q)' /\ RespFits(q)'
  BY <1>2, <1>3, <1>4, JobsStep, RespStep
<1>8. PICK C \in Int :
        /\ Chain(q, C, N, c)' /\ B <= C /\ (l < 9 => C = B)
        /\ \/ C = B /\ (Doing(q, "commit")' <=> Doing(q, "commit"))
           \/ C = B + 1 /\ Doing(q, "commit")' /\ ~Doing(q, "commit")
  <2>1. CASE e.op = "commit" /\ e.addr = q
    <3>1. FinishEn /\ op_table[op_table_finish_ptr].queue = q /\ EntryOn(e, q)
      BY <1>1, <2>1, Finishing DEF EntryOn
    <3>2. ~Doing(q, "commit") /\ Carrying(q, "commit", e.wdata)' /\ Doing(q, "commit")'
      BY <1>1, <2>1, <3>1, DoingStep, CarryStep
    <3>3. Chain(q, B + 1, N, c)'
      BY <1>1, <1>2, <1>4, <3>1, <3>2, ChainPops
    <3>4. l = 9 \/ l > 9
      BY <1>6, <3>2 DEF Drained, Doing
    <3> QED BY <3>2, <3>3, <3>4
  <2>2. CASE ~(e.op = "commit" /\ e.addr = q)
    <3>1. ~(FinishEn /\ op_table[op_table_finish_ptr].queue = q)
      BY <1>1, <2>2, Finishing
    <3>2. PICK w : w = B % PtrMod
      OBVIOUS
    <3>3. Doing(q, "commit")' <=> Doing(q, "commit")
      BY <1>1, <2>2, DoingStep DEF EntryOn
    <3>4. Carrying(q, "commit", w)' <=> Carrying(q, "commit", w)
      BY <1>1, <2>2, CarryStep DEF EntryOn
    <3>5. /\ \/ ~Doing(q, "commit")' /\ queue_ram'[q].prod = B % PtrMod
             \/ Carrying(q, "commit", B % PtrMod)' /\ queue_ram'[q].prod = (B - 1) % PtrMod
          /\ Doing(q, "commit")' => N - B < OP_TABLE_SIZE
          /\ B < N => queue_ram'[q].op_index = queue_ram[q].op_index
      BY <1>2, <3>2, <3>3, <3>4 DEF Chain
    <3>6. Chain(q, B, N, c)'
      BY <1>1, <1>4, <3>1, <3>5, ChainStays
    <3> QED BY <3>3, <3>6
  <2> QED BY <2>1, <2>2
<1>9. Room(q, l, a, C, N)'
  <2>1. 5 <= l /\ l <= 8 => C = B
    BY <1>8
  <2> QED BY <1>2, <1>3, <2>1 DEF Room
<1>10. Working(q, l, s, C, N, U, c)'
  <2> SUFFICES ASSUME l = 9 PROVE Budgeted(q, s, N, U)' /\ Filled(q, C, N, U, c)'
    BY DEF Working
  <2>1. Budgeted(q, s, N, U) /\ Filled(q, B, N, U, c)
    BY <1>3 DEF Working
  <2>2. Filled(q, C, N, U, c)'
    BY <1>8, <2>1, FilledStays
  <2>3. Count(q)' + slots'[q] = Count(q) + slots[q]
    <3>1. CASE e.op = "req" /\ e.addr = q
      <4>1. ~Doing(q, "req") /\ Doing(q, "req")'
        BY <1>1, <3>1, DoingStep DEF EntryOn
      <4>2. slots[q] > 0 /\ slots'[q] = slots[q] - 1
        BY <1>1, <3>1 DEF Loads
      <4> QED BY <1>1, <4>1, <4>2 DEF Count
    <3>2. CASE ~(e.op = "req" /\ e.addr = q)
      <4>1. Doing(q, "req")' <=> Doing(q, "req")
        BY <1>1, <3>2, DoingStep DEF EntryOn
      <4>2. slots'[q] = slots[q]
        BY <1>1, <3>2 DEF Loads, Entries
      <4> QED BY <1>1, <4>1, <4>2 DEF Count
    <3> QED BY <3>1, <3>2
  <2>4. Count(q) \in Int /\ slots[q] \in Int /\ Count(q)' \in Int /\ slots'[q] \in Int
    <3>1. slots' \in [Queues -> Nat]
      BY ClockBase DEF IInv, TypeOK
    <3> QED BY <1>1, <3>1 DEF Count
  <2>5. Budgeted(q, s, N, U)'
    BY <2>1, <2>3, <2>4 DEF Budgeted
  <2> QED BY <2>2, <2>5
<1>11. Armed(q, l, a, C)'
  <2>1. l = 8 => queue_ram'[q].armed = 1
    BY <1>2, <1>3 DEF Armed
  <2>2. 8 <= l /\ queue_ram'[q].armed = 1 => C <= a \/ (Doing(q, "commit")' /\ C - 1 <= a)
    BY <1>2, <1>3, <1>8 DEF Armed
  <2>3. ASSUME Reliable, 8 <= l, cq'[q].pc = "open", queue_ram'[q].armed = 0
        PROVE  Awake(q)'
    BY <1>1, <1>2, <1>3, <1>4, <2>3, StaysAwake DEF Armed
  <2> QED BY <2>1, <2>2, <2>3 DEF Armed, Reliable
<1> QED BY <1>5, <1>6, <1>7, <1>8, <1>9, <1>10, <1>11 DEF Now

\* A reservation performs.
LEMMA ClockReq ==
    ASSUME IInv, NEW e, NEW r, NEW v, NEW done, NEW tags, Tick(e, r, v, done, tags),
           NEW q \in Queues, NEW l \in Int, NEW a \in Int, NEW s \in Int, l <= 9,
           NEW B \in Int, NEW N \in Int, NEW U \in Int, NEW c \in Chains, Chain(q, B, N, c),
           Now(q, l, a, s, B, N, U, c), Within(l, a, s, N, U), LastOn(q), Last.op = "req"
    PROVE  \E M \in Int : \E x \in Chains :
              N <= M /\ Chain(q, B, M, x)' /\ Now(q, l, a, s, B, M, U, x)'
<1>1. /\ TypeOK /\ PipeInv /\ TableInv /\ e \in Entries /\ Loads(e, r, v) /\ OpTableNext(tags)
      /\ Perform /\ cq' = cq /\ buf' = buf /\ napi' = napi /\ slots \in [Queues -> Nat]
  BY DEF IInv, Tick, TypeOK
<1>2. /\ queue_ram'[q].prod = queue_ram[q].prod /\ queue_ram'[q].cons = queue_ram[q].cons
      /\ queue_ram'[q].log_size = queue_ram[q].log_size
      /\ queue_ram'[q].base = queue_ram[q].base
      /\ queue_ram'[q].enable = queue_ram[q].enable /\ queue_ram'[q].armed = queue_ram[q].armed
      /\ queue_ram'[q].op_index = IF StartEn THEN op_table_start_ptr ELSE queue_ram[q].op_index
      /\ Last.data = queue_ram[q]
  BY <1>1, WordStep
<1>3. /\ Word(q, l) /\ Idle(q, l) /\ Room(q, l, a, B, N) /\ Working(q, l, s, B, N, U, c)
      /\ Blank(q, l, U) /\ Armed(q, l, a, B) /\ JobsFit(q) /\ RespFits(q)
  BY DEF Now
<1>4. l = 9
  BY <1>3, AtWork DEF Idle
<1>5. /\ queue_ram[q].enable = 1 /\ queue_ram[q].base = cq[q].base
      /\ queue_ram[q].log_size = cq[q].log_size
  BY <1>3, <1>4 DEF Word
<1>6. PICK n \in Nat : n = 2^cq[q].log_size /\ n < PtrMod
  <2>1. cq[q].log_size \in LogSizes \cup {0}
    BY <1>1 DEF TypeOK, Cqs
  <2> QED BY <2>1, Sizes
<1>7. a <= U /\ U <= N /\ s <= RING_SIZE + a /\ N - a <= n /\ queue_ram[q].cons = a % PtrMod
  BY <1>3, <1>4, <1>5, <1>6 DEF Within, Working, Budgeted, Room
<1>8. QueueFull <=> N - a >= n
  <2>1. ActiveProdPtr = N % PtrMod
    BY <1>1, NextToReserve
  <2>2. a <= N /\ N - a < PtrMod
    BY <1>6, <1>7, CplPtrModAssumption
  <2>3. Dist(a % PtrMod, N % PtrMod) = N - a
    BY <2>2, Residues
  <2> QED BY <1>2, <1>5, <1>6, <1>7, <2>1, <2>3 DEF QueueFull
<1>9. Doing(q, "req") /\ ~Doing(q, "req")' /\ ~Doing(q, "commit") /\ ~Doing(q, "commit")'
      /\ ~EntryOn(e, q)
  BY <1>1, DoingStep
<1>10. slots'[q] = slots[q] /\ slots[q] \in Nat
  BY <1>1, <1>9 DEF Loads, EntryOn, Entries
<1>11. N + 1 + slots[q] <= s
  BY <1>3, <1>4, <1>9 DEF Working, Budgeted, Count
<1>12. RING_SIZE <= n => ~QueueFull
  BY <1>6, <1>7, <1>8, <1>10, <1>11, CplDriverAssumption
<1>13. Word(q, l)' /\ Blank(q, l, U)'
  BY <1>1, <1>2, <1>3 DEF Word, Blank
<1>14. Idle(q, l)'
  BY <1>3, IdleStep
<1>15. JobsFit(q)' /\ RespFits(q)'
  BY <1>2, <1>3, <1>5, <1>6, <1>12, JobsStep, RespStep
<1>16. Armed(q, l, a, B)'
  <2>1. ASSUME Reliable, cq'[q].pc = "open", queue_ram'[q].armed = 0
        PROVE  Awake(q)'
    BY <1>1, <1>2, <1>3, <1>4, <2>1, StaysAwake DEF Armed
  <2> QED BY <1>2, <1>3, <1>4, <1>9, <2>1 DEF Armed, Reliable
<1>17. ~(FinishEn /\ op_table[op_table_finish_ptr].queue = q)
  BY <1>1, <1>9, Finishing DEF EntryOn
<1>18. CASE StartEn
  <2>1. PICK x \in Chains : x = [c EXCEPT ![N + 1] = op_table_start_ptr]
    BY <1>1 DEF Chains, TypeOK
  <2>2. Chain(q, B, N + 1, x)'
    BY <1>1, <1>2, <1>9, <1>17, <1>18, <2>1, ChainPushes DEF TypeOK
  <2>3. N - a < n
    BY <1>6, <1>7, <1>8, <1>18 DEF StartEn
  <2>4. Room(q, l, a, B, N + 1)'
    BY <1>2, <1>4, <1>5, <1>6, <1>7, <2>3 DEF Room
  <2>5. \A k \in Int : k # N + 1 => x[k] = c[k]
    BY <2>1 DEF Chains
  <2>6. Filled(q, B, N + 1, U, x)'
    <3>1. U <= N /\ N < U + 2^cq[q].log_size
      BY <1>6, <1>7, <2>3
    <3>2. Filled(q, B, N, U, c)
      BY <1>3, <1>4 DEF Working
    <3> QED BY <2>5, <3>1, <3>2, FilledPush
  <2>7. Budgeted(q, s, N + 1, U)'
    BY <1>7, <1>9, <1>10, <1>11 DEF Budgeted, Count
  <2>8. Working(q, l, s, B, N + 1, U, x)'
    BY <2>6, <2>7 DEF Working
  <2>9. Now(q, l, a, s, B, N + 1, U, x)'
    BY <1>13, <1>14, <1>15, <1>16, <2>4, <2>8 DEF Now
  <2>10. N <= N + 1 /\ N + 1 \in Int
    OBVIOUS
  <2> QED BY <2>2, <2>9, <2>10
<1>19. CASE ~StartEn
  <2>1. /\ ~Doing(q, "commit")' /\ queue_ram'[q].prod = B % PtrMod
        /\ queue_ram'[q].op_index = queue_ram[q].op_index
    <3>1. ~Carrying(q, "commit", B % PtrMod)
      BY <1>9 DEF Doing, Carrying
    <3> QED BY <1>2, <1>9, <1>19, <3>1 DEF Chain
  <2>2. Chain(q, B, N, c)'
    BY <1>1, <1>17, <1>19, <2>1, ChainStays
  <2>3. Room(q, l, a, B, N)'
    BY <1>2, <1>3 DEF Room
  <2>4. Filled(q, B, N, U, c)'
    BY <1>3, <1>4, FilledStays DEF Working
  <2>5. Budgeted(q, s, N, U)'
    BY <1>7, <1>9, <1>10, <1>11 DEF Budgeted, Count
  <2>6. Working(q, l, s, B, N, U, c)'
    BY <2>4, <2>5 DEF Working
  <2>7. Now(q, l, a, s, B, N, U, c)'
    BY <1>13, <1>14, <1>15, <1>16, <2>3, <2>6 DEF Now
  <2> QED BY <2>2, <2>7
<1> QED BY <1>18, <1>19

\* A commit performs.
LEMMA ClockCommit ==
    ASSUME IInv, NEW e, NEW r, NEW v, NEW done, NEW tags, Tick(e, r, v, done, tags),
           NEW q \in Queues, NEW l \in Int, NEW a \in Int, NEW s \in Int, l <= 9,
           NEW B \in Int, NEW N \in Int, NEW U \in Int, NEW c \in Chains, Chain(q, B, N, c),
           Now(q, l, a, s, B, N, U, c), LastOn(q), Last.op = "commit"
    PROVE  Chain(q, B, N, c)' /\ Now(q, l, a, s, B, N, U, c)'
<1>1. /\ TypeOK /\ PipeInv /\ TableInv /\ e \in Entries /\ Loads(e, r, v) /\ OpTableNext(tags)
      /\ Perform /\ cq' = cq /\ buf' = buf /\ napi' = napi /\ slots \in [Queues -> Nat]
  BY DEF IInv, Tick, TypeOK
<1>2. /\ queue_ram'[q].prod = Last.wdata /\ queue_ram'[q].cons = queue_ram[q].cons
      /\ queue_ram'[q].log_size = queue_ram[q].log_size
      /\ queue_ram'[q].base = queue_ram[q].base
      /\ queue_ram'[q].enable = queue_ram[q].enable /\ queue_ram'[q].armed = 0
      /\ queue_ram'[q].op_index = queue_ram[q].op_index
      /\ Last.data = queue_ram[q]
  BY <1>1, WordStep
<1>3. /\ Word(q, l) /\ Idle(q, l) /\ Room(q, l, a, B, N) /\ Working(q, l, s, B, N, U, c)
      /\ Blank(q, l, U) /\ Armed(q, l, a, B) /\ JobsFit(q) /\ RespFits(q)
  BY DEF Now
<1>4. l = 9
  BY <1>3, AtWork DEF Idle
<1>5. /\ Doing(q, "commit") /\ ~Doing(q, "req") /\ ~Doing(q, "req")' /\ ~Doing(q, "commit")'
      /\ ~EntryOn(e, q)
  BY <1>1, DoingStep
<1>6. Last.wdata = B % PtrMod
  <2>1. PICK w : w = B % PtrMod
    OBVIOUS
  <2>2. Carrying(q, "commit", w)
    BY <1>5, <2>1 DEF Chain
  <2> QED BY <1>1, <2>1, <2>2, CarryStep
<1>7. Chain(q, B, N, c)'
  <2>1. ~(FinishEn /\ op_table[op_table_finish_ptr].queue = q)
    BY <1>1, <1>5, Finishing DEF EntryOn
  <2>2. ~(StartEn /\ Last.addr = q)
    BY DEF StartEn
  <2> QED BY <1>1, <1>2, <1>5, <1>6, <2>1, <2>2, ChainStays
<1>8. slots'[q] = slots[q]
  BY <1>1, <1>5 DEF Loads, EntryOn, Entries
<1>9. Word(q, l)' /\ Blank(q, l, U)' /\ Room(q, l, a, B, N)'
  BY <1>1, <1>2, <1>3 DEF Word, Blank, Room
<1>10. Idle(q, l)'
  BY <1>3, IdleStep
<1>11. JobsFit(q)' /\ RespFits(q)'
  BY <1>2, <1>3, JobsStep, RespStep DEF StartEn
<1>12. Working(q, l, s, B, N, U, c)'
  <2>1. Filled(q, B, N, U, c)'
    BY <1>3, <1>4, FilledStays DEF Working
  <2>2. Budgeted(q, s, N, U)'
    BY <1>3, <1>4, <1>5, <1>8 DEF Working, Budgeted, Count
  <2> QED BY <2>1, <2>2 DEF Working
<1>13. Armed(q, l, a, B)'
  <2>1. ASSUME Reliable, cq'[q].pc = "open"
        PROVE  Awake(q)'
    <3>1. CASE queue_ram[q].armed = 1
      <4>1. CommitEvent
        BY <1>2, <3>1 DEF CommitEvent
      <4> QED BY <4>1, NewEvent DEF Awake
    <3>2. CASE queue_ram[q].armed # 1
      <4>1. queue_ram[q].armed = 0
        BY <1>1, <3>2 DEF TypeOK, Words, Bit
      <4> QED BY <1>1, <1>3, <1>4, <2>1, <4>1, StaysAwake DEF Armed
    <3> QED BY <3>1, <3>2
  <2>2. l # 8 /\ queue_ram'[q].armed # 1
    BY <1>2, <1>4
  <2> QED BY <2>1, <2>2 DEF Armed, Reliable
<1> QED BY <1>7, <1>9, <1>10, <1>11, <1>12, <1>13 DEF Now

\* A register write, or a read, leaves the entries and the reservations of the queue alone.
LEMMA WriteFrame ==
    ASSUME IInv, NEW e, NEW r, NEW v, NEW done, NEW tags, Tick(e, r, v, done, tags),
           NEW q \in Queues, LastOn(q), Last.op \in SetOps \cup {"read"}
    PROVE  /\ ~Doing(q, "req") /\ ~Doing(q, "req")' /\ ~Doing(q, "commit") /\ ~Doing(q, "commit")'
           /\ slots'[q] = slots[q] /\ Count(q)' = Count(q)
           /\ ~StartEn /\ ~(FinishEn /\ op_table[op_table_finish_ptr].queue = q)
           /\ queue_ram'[q].op_index = queue_ram[q].op_index
<1>1. /\ TypeOK /\ PipeInv /\ e \in Entries /\ Loads(e, r, v) /\ Perform
  BY DEF IInv, Tick, TypeOK
<1>2. Last.op # "req" /\ Last.op # "commit" /\ ~StartEn
  BY DEF SetOps, StartEn
<1>3. /\ ~Doing(q, "req") /\ ~Doing(q, "req")' /\ ~Doing(q, "commit") /\ ~Doing(q, "commit")'
      /\ ~EntryOn(e, q)
  BY <1>1, <1>2, DoingStep
<1>4. slots'[q] = slots[q]
  BY <1>1, <1>3 DEF Loads, EntryOn, Entries, TypeOK
<1>5. ~(FinishEn /\ op_table[op_table_finish_ptr].queue = q)
  BY <1>1, <1>3, Finishing DEF EntryOn
<1>6. queue_ram'[q].op_index = queue_ram[q].op_index
  BY <1>1, WordStep, WriteStepWord
<1> QED BY <1>2, <1>3, <1>4, <1>5, <1>6 DEF Count

\* The chain of a queue whose producer pointer stays.
LEMMA WriteChain ==
    ASSUME IInv, NEW e, NEW r, NEW v, NEW done, NEW tags, Tick(e, r, v, done, tags),
           NEW q \in Queues, LastOn(q), Last.op \in SetOps \cup {"read"},
           NEW B \in Int, NEW N \in Int, NEW c \in Chains, Chain(q, B, N, c)
    PROVE  /\ queue_ram[q].prod = B % PtrMod
           /\ queue_ram'[q].prod = queue_ram[q].prod => Chain(q, B, N, c)'
<1>1. TypeOK /\ TableInv /\ Loads(e, r, v) /\ OpTableNext(tags)
  BY DEF IInv, Tick
<1>2. queue_ram[q].prod = B % PtrMod
  <2>1. ~Doing(q, "commit") /\ ~Carrying(q, "commit", B % PtrMod)
    BY WriteFrame DEF Doing, Carrying
  <2> QED BY <2>1 DEF Chain
<1> QED BY <1>1, <1>2, WriteFrame, ChainStays

\* A read performs.
LEMMA ClockRead ==
    ASSUME IInv, NEW e, NEW r, NEW v, NEW done, NEW tags, Tick(e, r, v, done, tags),
           NEW q \in Queues, NEW l \in Int, NEW a \in Int, NEW s \in Int, l <= 9,
           NEW B \in Int, NEW N \in Int, NEW U \in Int, NEW c \in Chains, Chain(q, B, N, c),
           Now(q, l, a, s, B, N, U, c), LastOn(q), Last.op = "read"
    PROVE  Chain(q, B, N, c)' /\ Now(q, l, a, s, B, N, U, c)'
<1>1. Perform /\ cq' = cq /\ buf' = buf /\ napi' = napi
  BY DEF Tick
<1>2. queue_ram'[q] = queue_ram[q]
  BY <1>1, WordStep
<1>3. /\ Word(q, l) /\ Idle(q, l) /\ Room(q, l, a, B, N) /\ Working(q, l, s, B, N, U, c)
      /\ Blank(q, l, U) /\ Armed(q, l, a, B) /\ JobsFit(q) /\ RespFits(q)
  BY DEF Now
<1>4. Chain(q, B, N, c)'
  BY <1>2, WriteChain
<1>5. /\ ~Doing(q, "commit") /\ ~Doing(q, "commit")' /\ slots'[q] = slots[q]
      /\ Count(q)' = Count(q) /\ ~StartEn
  BY WriteFrame
<1>6. Word(q, l)' /\ Blank(q, l, U)' /\ Room(q, l, a, B, N)'
  BY <1>1, <1>2, <1>3 DEF Word, Blank, Room
<1>7. Idle(q, l)'
  BY <1>3, IdleStep
<1>8. JobsFit(q)' /\ RespFits(q)'
  BY <1>2, <1>3, <1>5, JobsStep, RespStep
<1>9. Working(q, l, s, B, N, U, c)'
  <2>1. l = 9 => Filled(q, B, N, U, c)'
    BY <1>3, FilledStays DEF Working
  <2> QED BY <1>3, <1>5, <2>1 DEF Working, Budgeted
<1>10. Armed(q, l, a, B)'
  <2>1. ASSUME Reliable, 8 <= l, cq'[q].pc = "open", queue_ram'[q].armed = 0
        PROVE  Awake(q)'
    BY <1>1, <1>2, <1>3, <2>1, StaysAwake DEF Armed
  <2> QED BY <1>2, <1>3, <1>5, <2>1 DEF Armed, Reliable
<1> QED BY <1>4, <1>6, <1>7, <1>8, <1>9, <1>10 DEF Now

\* A register write performs: the queue goes one step on in its opening, or is as far as
\* it was.
LEMMA ClockWrite ==
    ASSUME IInv, NEW e, NEW r, NEW v, NEW done, NEW tags, Tick(e, r, v, done, tags),
           NEW q \in Queues, NEW l \in Int, NEW a \in Int, NEW s \in Int,
           NEW B \in Int, NEW N \in Int, NEW U \in Int, NEW c \in Chains, Chain(q, B, N, c),
           Now(q, l, a, s, B, N, U, c), Within(l, a, s, N, U),
           LastOn(q), Last.op \in SetOps,
           NEW m \in Int, NEW b \in Int, NEW u \in Int, 0 <= l, m <= 9,
           Effect(cq[q], q, Last, l, m, a, b, s, u), Within(m, b, u, N, U)
    PROVE  \E C, M \in Int : /\ N <= M \/ 1 <= m
                             /\ Chain(q, C, M, c)' /\ Now(q, m, b, u, C, M, U, c)'
<1>1. /\ TypeOK /\ PipeInv /\ Perform /\ cq' = cq /\ buf' = buf /\ napi' = napi
      /\ Last.addr = q
  BY DEF IInv, Tick, LastOn
<1>2. /\ queue_ram'[q].prod = IF Last.op = "set_prod" /\ queue_ram[q].enable = 0
                              THEN Last.wdata ELSE queue_ram[q].prod
      /\ queue_ram'[q].cons = IF Last.op \in {"set_cons", "set_cons_arm"}
                              THEN Last.wdata ELSE queue_ram[q].cons
      /\ queue_ram'[q].base = IF Last.op = "set_base" /\ queue_ram[q].enable = 0
                              THEN Last.wdata ELSE queue_ram[q].base
      /\ queue_ram'[q].log_size = IF Last.op = "set_size" /\ queue_ram[q].enable = 0
                                  THEN Last.wdata ELSE queue_ram[q].log_size
      /\ queue_ram'[q].enable = IF Last.op = "set_enable"
                                THEN Last.wdata ELSE queue_ram[q].enable
      /\ queue_ram'[q].armed = IF ArmEvent THEN 0
                               ELSE IF Last.op = "set_cons_arm" THEN 1
                               ELSE IF Last.op = "set_arm" THEN Last.wdata
                               ELSE queue_ram[q].armed
      /\ Last.data = queue_ram[q]
  BY <1>1, WriteStepWord, WordStep
<1>3. /\ Word(q, l) /\ Idle(q, l) /\ Room(q, l, a, B, N) /\ Working(q, l, s, B, N, U, c)
      /\ Blank(q, l, U) /\ Armed(q, l, a, B) /\ JobsFit(q) /\ RespFits(q)
  BY DEF Now
<1>4. \/ m = l + 1 /\ Opens(cq[q], Last, m) /\ b = 0 /\ 1 <= m /\ m <= 8
      \/ l = 0 /\ m = 0 /\ b = a /\ Last.op = "set_enable"
      \/ m = l /\ l \in {0, 9} /\ b = a /\ u = s /\ Last.op = "set_arm" /\ Last.wdata = 1
      \/ m = l /\ l \in {0, 9} /\ a <= b /\ u = s /\ Last.op = "set_cons"
                /\ Last.wdata = b % PtrMod
  BY <1>1 DEF Effect, SetOps, Opens
<1>5. l <= m /\ (m = 9 => l = 9)
  BY <1>4
<1>6. /\ ~Doing(q, "commit") /\ ~Doing(q, "commit")' /\ slots'[q] = slots[q]
      /\ Count(q)' = Count(q) /\ ~StartEn
  BY WriteFrame
<1>7. Word(q, m)'
  BY <1>1, <1>2, <1>3, <1>4 DEF Word, Opens
<1>8. Idle(q, m)' /\ (l < 9 => Drained(q)' /\ Drained(q))
  BY <1>3, <1>5, IdleStep DEF Idle
<1>9. Blank(q, m, U)'
  BY <1>1, <1>3, <1>5 DEF Blank
<1>10. JobsFit(q)' /\ RespFits(q)'
  <2>1. queue_ram'[q].log_size = queue_ram[q].log_size \/ Drained(q)'
    BY <1>2, <1>4, <1>8 DEF Opens
  <2>2. Last.op # "req"
    BY DEF SetOps
  <2> QED BY <1>3, <1>6, <2>1, <2>2, JobsStep, RespStep
<1>11. CASE m = 5 /\ l = 4
  <2>1. queue_ram'[q].prod = 0 /\ 0 = 0 % PtrMod
    BY <1>2, <1>3, <1>4, <1>11, Residues DEF Word, Opens
  <2>2. Drained(q)'
    BY <1>8, <1>11
  <2>3. Chain(q, 0, 0, c)'
    <3>1. \A i \in OpIdx : ~Mine(q, i)'
      BY <2>2 DEF Drained, Mine
    <3>2. \A k, y \in Int : ~(0 < k /\ k <= y /\ y <= 0) /\ ~(0 < k /\ k <= 0)
      OBVIOUS
    <3>3. 0 <= 0 /\ ~(0 < 0)
      OBVIOUS
    <3> HIDE DEF Mine, Doing, Carrying, Pos
    <3> QED BY <1>6, <2>1, <3>1, <3>2, <3>3 DEF Chain
  <2>4. Room(q, m, b, 0, 0)' /\ Working(q, m, u, 0, 0, U, c)' /\ Armed(q, m, b, 0)'
    BY <1>11 DEF Room, Working, Armed
  <2>5. Now(q, m, b, u, 0, 0, U, c)'
    BY <1>7, <1>8, <1>9, <1>10, <2>4 DEF Now
  <2>6. 1 <= m
    BY <1>11
  <2> QED BY <2>3, <2>5, <2>6
<1>12. CASE ~(m = 5 /\ l = 4)
  <2>1. Last.op # "set_prod"
    BY <1>4, <1>12 DEF Opens
  <2>2. Chain(q, B, N, c)' /\ queue_ram[q].prod = B % PtrMod
    BY <1>2, <2>1, WriteChain
  <2>3. PICK n \in Nat : n = 2^queue_ram[q].log_size /\ n < PtrMod
    <3>1. queue_ram[q].log_size \in LogSizes \cup {0}
      BY <1>1 DEF TypeOK, Words
    <3> QED BY <3>1, Sizes
  <2>4. m \in {0, 9} => l = m /\ b <= N /\ N - b <= n /\ a <= N /\ N - a <= n
    <3>1. l \in {0, 9} => a <= N /\ N - a <= n
      BY <1>3, <2>3 DEF Room
    <3>2. l = 9 => U <= N
      BY <1>3 DEF Working, Budgeted
    <3>3. (m = 0 => b <= N) /\ (m = 9 => b <= U)
      BY DEF Within
    <3>4. m = l => a <= b
      BY <1>4
    <3>5. m \in {0, 9} => l = m
      BY <1>4
    <3> QED BY <3>1, <3>2, <3>3, <3>4, <3>5
  <2>5. Room(q, m, b, B, N)'
    <3>1. 5 <= m /\ m <= 8 => N = 0 /\ B = 0
      BY <1>3, <1>4, <1>12 DEF Room
    <3>2. m \in {0, 9} => /\ queue_ram'[q].cons = b % PtrMod
                          /\ b <= N /\ N - b <= 2^queue_ram'[q].log_size
      BY <1>2, <1>3, <1>4, <2>3, <2>4 DEF Room
    <3>3. 6 <= m /\ m <= 8 => /\ queue_ram'[q].cons = b % PtrMod
                              /\ b <= N /\ N - b <= 2^queue_ram'[q].log_size
      <4> SUFFICES ASSUME 6 <= m, m <= 8
                   PROVE  /\ queue_ram'[q].cons = b % PtrMod
                          /\ b <= N /\ N - b <= 2^queue_ram'[q].log_size
        OBVIOUS
      <4>1. m = l + 1 /\ Opens(cq[q], Last, m) /\ b = 0 /\ N = 0
        BY <1>4, <3>1
      <4>2. queue_ram'[q].log_size = queue_ram[q].log_size
        BY <1>2, <4>1 DEF Opens
      <4>3. 7 <= m => a = 0 /\ queue_ram[q].cons = a % PtrMod
        BY <1>3, <4>1 DEF Room, Within
      <4>4. 0 % PtrMod = 0
        BY Residues
      <4>5. m = 6 => queue_ram'[q].cons = 0
        BY <1>2, <4>1 DEF Opens
      <4>6. 7 <= m => queue_ram'[q].cons = 0
        BY <1>2, <4>1, <4>3, <4>4 DEF Opens
      <4> QED BY <2>3, <4>1, <4>2, <4>4, <4>5, <4>6
    <3> QED BY <3>1, <3>2, <3>3 DEF Room
  <2>6. Working(q, m, u, B, N, U, c)'
    <3> SUFFICES ASSUME m = 9 PROVE Budgeted(q, u, N, U)' /\ Filled(q, B, N, U, c)'
      BY DEF Working
    <3>1. l = 9 /\ u = s
      BY <1>4
    <3>2. Filled(q, B, N, U, c)'
      BY <1>3, <3>1, FilledStays DEF Working
    <3> QED BY <1>3, <1>6, <3>1, <3>2 DEF Working, Budgeted
  <2>7. Armed(q, m, b, B)'
    <3>1. CASE m < 8
      BY <3>1 DEF Armed
    <3>2. CASE m = 8
      <4>1. l = 7 /\ Last.op = "set_arm" /\ Last.wdata = 1 /\ b = 0
        BY <1>4, <3>2 DEF Opens
      <4>2. B = 0 /\ queue_ram[q].prod = queue_ram[q].cons
        BY <1>3, <2>2, <4>1 DEF Room, Within
      <4>3. ~ArmEvent
        BY <1>2, <4>1, <4>2 DEF ArmEvent, ConsAfter
      <4>4. queue_ram'[q].armed = 1
        BY <1>2, <4>1, <4>3
      <4> QED BY <3>2, <4>1, <4>2, <4>4 DEF Armed
    <3>3. CASE m = 9 /\ Last.op = "set_arm"
      <4>1. l = 9 /\ b = a /\ Last.wdata = 1 /\ queue_ram[q].cons = a % PtrMod
            /\ queue_ram[q].enable = 1
        BY <1>3, <1>4, <3>3 DEF Room, Word
      <4>2. CASE ArmEvent
        <5>1. Awake(q)'
          BY <4>2, NewEvent DEF Awake
        <5>2. queue_ram'[q].armed # 1
          BY <1>2, <4>2
        <5> QED BY <3>3, <5>1, <5>2 DEF Armed
      <4>3. CASE ~ArmEvent
        <5>1. queue_ram[q].prod = queue_ram[q].cons
          BY <1>2, <3>3, <4>1, <4>3 DEF ArmEvent, ConsAfter
        <5>2. B <= N /\ N - B < PtrMod /\ PtrMod \in Nat
          BY <1>1, ChainLength, CplPtrModAssumption, CplOpTableAssumption
        <5>3. -PtrMod < a - B /\ a - B < PtrMod /\ B % PtrMod = a % PtrMod
          BY <2>2, <2>3, <2>4, <3>3, <4>1, <5>1, <5>2
        <5>4. B = a
          BY <5>3, Residues
        <5>5. queue_ram'[q].armed = 1
          BY <1>2, <3>3, <4>1, <4>3
        <5> QED BY <3>3, <4>1, <5>4, <5>5 DEF Armed
      <4> QED BY <4>2, <4>3
    <3>4. CASE m = 9 /\ Last.op # "set_arm"
      <4>1. l = 9 /\ a <= b /\ Last.op = "set_cons"
        BY <1>4, <3>4
      <4>2. queue_ram'[q].armed = queue_ram[q].armed
        BY <1>2, <4>1 DEF ArmEvent
      <4>3. ASSUME Reliable, cq'[q].pc = "open", queue_ram'[q].armed = 0
            PROVE  Awake(q)'
        BY <1>1, <1>3, <3>4, <4>1, <4>2, <4>3, StaysAwake DEF Armed
      <4>4. queue_ram'[q].armed = 1 => B <= b
        BY <1>3, <1>6, <4>1, <4>2 DEF Armed
      <4>5. m # 8
        BY <3>4
      <4> QED BY <4>3, <4>4, <4>5 DEF Armed, Reliable
    <3> QED BY <3>1, <3>2, <3>3, <3>4
  <2>8. Now(q, m, b, u, B, N, U, c)'
    BY <1>7, <1>8, <1>9, <1>10, <2>5, <2>6, <2>7 DEF Now
  <2>9. N <= N
    OBVIOUS
  <2> QED BY <2>2, <2>8, <2>9
<1> QED BY <1>11, <1>12

\* What the last stage does to where queue q has come to.
Moves(q, l, m, a, b, s, u) ==
    IF Last.op \in SetOps THEN Effect(cq[q], q, Last, l, m, a, b, s, u)
                          ELSE m = l /\ b = a /\ u = s

\* Whatever operation performs, the queue is in order.
LEMMA ClockNow ==
    ASSUME IInv, NEW e, NEW r, NEW v, NEW done, NEW tags, Tick(e, r, v, done, tags),
           NEW q \in Queues, NEW l \in Int, NEW a \in Int, NEW s \in Int,
           NEW B \in Int, NEW N \in Int, NEW U \in Int, NEW c \in Chains, Chain(q, B, N, c),
           Now(q, l, a, s, B, N, U, c), Within(l, a, s, N, U),
           NEW m \in Int, NEW b \in Int, NEW u \in Int, 0 <= l, m <= 9,
           Moves(q, l, m, a, b, s, u), Within(m, b, u, N, U)
    PROVE  \E C, M \in Int : \E x \in Chains :
              /\ N <= M \/ 1 <= m
              /\ Chain(q, C, M, x)' /\ Now(q, m, b, u, C, M, U, x)'
<1>1. Perform /\ TypeOK
  BY DEF Tick, IInv
<1>2. N <= N
  OBVIOUS
<1>3. CASE ~LastOn(q)
  <2>1. m = l /\ b = a /\ u = s
    BY <1>3 DEF Moves, Effect, LastOn, SetOps
  <2>2. Now(q, m, b, u, B, N, U, c)
    BY <2>1
  <2>3. PICK C \in Int : Chain(q, C, N, c)' /\ Now(q, m, b, u, C, N, U, c)'
    BY <1>3, <2>2, ClockAway
  <2> QED BY <1>2, <2>3
<1>4. CASE LastOn(q) /\ Last.op \in SetOps
  <2>1. Effect(cq[q], q, Last, l, m, a, b, s, u)
    BY <1>4 DEF Moves
  <2>2. PICK C, M \in Int : /\ N <= M \/ 1 <= m
                            /\ Chain(q, C, M, c)' /\ Now(q, m, b, u, C, M, U, c)'
    BY <1>4, <2>1, ClockWrite
  <2> QED BY <2>2
<1>5. CASE LastOn(q) /\ Last.op \notin SetOps
  <2>1. m = l /\ b = a /\ u = s
    BY <1>5 DEF Moves
  <2>2. Now(q, m, b, u, B, N, U, c) /\ Within(m, b, u, N, U)
    BY <2>1
  <2>3. CASE Last.op = "req"
    <3>1. PICK M \in Int, x \in Chains :
            N <= M /\ Chain(q, B, M, x)' /\ Now(q, m, b, u, B, M, U, x)'
      BY <1>5, <2>2, <2>3, ClockReq
    <3> QED BY <3>1
  <2>4. CASE Last.op = "commit"
    <3>1. Chain(q, B, N, c)' /\ Now(q, m, b, u, B, N, U, c)'
      BY <1>5, <2>2, <2>4, ClockCommit
    <3> QED BY <1>2, <3>1
  <2>5. CASE Last.op = "read"
    <3>1. Chain(q, B, N, c)' /\ Now(q, m, b, u, B, N, U, c)'
      BY <1>5, <2>2, <2>5, ClockRead
    <3> QED BY <1>2, <3>1
  <2>6. Last.op \in {"req", "commit", "read"}
    BY <1>1, <1>5, WordStep DEF OpKinds
  <2> QED BY <2>3, <2>4, <2>5, <2>6
<1> QED BY <1>3, <1>4, <1>5

\* What holds on the way holds on the rest of it.
LEMMA RangeShrinks ==
    ASSUME NEW t \in Int, NEW z \in Int, NEW y \in Int, t <= y,
           NEW L \in Lines, NEW A \in Lines, NEW S \in Lines,
           NEW N \in Int, NEW U \in Int, NEW M \in Int, Range(t, z, L, A, S, N, U),
           N <= M \/ \A p \in Int : y <= p /\ p <= z => 1 <= L[p]
    PROVE  Range(y, z, L, A, S, M, U)
<1> SUFFICES ASSUME NEW p \in Int, y <= p, p <= z
             PROVE  Within(L[p], A[p], S[p], M, U)
  BY DEF Range
<1>1. Within(L[p], A[p], S[p], N, U)
  BY DEF Range
<1>2. L[p] \in Int /\ A[p] \in Int /\ S[p] \in Int
  BY DEF Lines
<1> QED BY <1>1, <1>2 DEF Within

\* The clock keeps every queue in order.
LEMMA ClockSound ==
    ASSUME IInv, NEW e, NEW r, NEW v, NEW done, NEW tags, Tick(e, r, v, done, tags),
           NEW q \in Queues, Sound(q)
    PROVE  Sound(q)'
<1>1. PICK h, B, N, U \in Int, L, A, S \in Lines, c \in Chains :
        Ghost(q, h, L, A, S, B, N, U, c)
  BY DEF Sound
<1>2. PICK t \in Int, z \in Int : t = Done(h) /\ z = End(h) /\ t <= z
  BY Ends DEF IInv
<1>3. /\ Bus(q, h, L, A, S) /\ Chain(q, B, N, c) /\ Now(q, L[t], A[t], S[t], B, N, U, c)
      /\ Range(t, z, L, A, S, N, U) /\ Made(q, z, A, S, U)
  BY <1>1, <1>2 DEF Ghost
<1>4. /\ \A p \in Int : L[p] \in Int /\ A[p] \in Int /\ S[p] \in Int
      /\ \A p \in Int : t <= p /\ p <= z => 0 <= L[p] /\ L[p] <= 9
      /\ \A p, y \in Int : t <= p /\ p <= y /\ y <= z => L[p] <= L[y]
  BY <1>2, <1>3 DEF Bus, Way, Lines
<1>5. PICK g \in Int : /\ Bus(q, g, L, A, S)' /\ End(g)' = z
                       /\ Last.op \in SetOps => /\ Done(g)' = t + 1 /\ t + 1 <= z
                                                /\ At(cq[q], q, Last, t + 1, L, A, S)
                       /\ Last.op \notin SetOps => Done(g)' = t
  BY <1>2, <1>3, BusClock
<1>6. PICK y \in Int : y = Done(g)' /\ t <= y /\ y <= z
  BY <1>2, <1>5
<1>7. Moves(q, L[t], L[y], A[t], A[y], S[t], S[y])
  <2>1. CASE Last.op \in SetOps
    <3>1. y = t + 1 /\ y - 1 = t /\ At(cq[q], q, Last, y, L, A, S)
      BY <1>5, <1>6, <2>1
    <3> QED BY <2>1, <3>1 DEF Moves, At
  <2>2. CASE Last.op \notin SetOps
    BY <1>5, <1>6, <2>2 DEF Moves
  <2> QED BY <2>1, <2>2
<1>8. Within(L[t], A[t], S[t], N, U) /\ Within(L[y], A[y], S[y], N, U)
  BY <1>2, <1>3, <1>6 DEF Range
<1>9. /\ L[t] \in Int /\ A[t] \in Int /\ S[t] \in Int /\ 0 <= L[t]
      /\ L[y] \in Int /\ A[y] \in Int /\ S[y] \in Int /\ L[y] <= 9
  BY <1>2, <1>4, <1>6
<1>10. PICK C, M \in Int, x \in Chains :
         /\ N <= M \/ 1 <= L[y]
         /\ Chain(q, C, M, x)' /\ Now(q, L[y], A[y], S[y], C, M, U, x)'
  BY <1>3, <1>7, <1>8, <1>9, ClockNow
<1>11. Range(y, z, L, A, S, M, U)
  <2>1. 1 <= L[y] => \A p \in Int : y <= p /\ p <= z => 1 <= L[p]
    BY <1>4, <1>6
  <2> QED BY <1>3, <1>6, <1>10, <2>1, RangeShrinks
<1>12. Made(q, z, A, S, U)'
  BY <1>3 DEF Made, Tick
<1>13. Ghost(q, g, L, A, S, C, M, U, x)'
  BY <1>5, <1>6, <1>10, <1>11, <1>12 DEF Ghost
<1> QED BY <1>13 DEF Sound

(* The steps outside the clock, queue by queue.                            *)

Span(h, t, z) == t = Done(h) /\ z = End(h)

\* What the hardware has of a queue stays as it is when only the driver moves.
LEMMA ChainFrame ==
    ASSUME UNCHANGED hw_vars, NEW q, NEW B, NEW N, NEW c, Chain(q, B, N, c)
    PROVE  Chain(q, B, N, c)'
BY DEF hw_vars, Chain, Doing, Carrying, Mine, Pos

\* The queue is in order while its record, buffer and descriptors are as they were.
LEMMA NowFrame ==
    ASSUME UNCHANGED hw_vars, held' = held, NEW q \in Queues, buf'[q] = buf[q],
           slots'[q] = slots[q], cq'[q].pc = cq[q].pc, cq'[q].step = cq[q].step,
           cq'[q].base = cq[q].base, cq'[q].log_size = cq[q].log_size,
           cq[q].pc = "open" /\ Awake(q) => Awake(q)',
           NEW l \in Int, NEW a \in Int, NEW s \in Int, NEW B \in Int, NEW N \in Int,
           NEW U \in Int, NEW c \in Chains, Now(q, l, a, s, B, N, U, c)
    PROVE  Now(q, l, a, s, B, N, U, c)'
<1>1. /\ Word(q, l) /\ Idle(q, l) /\ Room(q, l, a, B, N) /\ Working(q, l, s, B, N, U, c)
      /\ Blank(q, l, U) /\ Armed(q, l, a, B) /\ JobsFit(q) /\ RespFits(q)
  BY DEF Now
<1>2. /\ queue_ram' = queue_ram /\ pipe' = pipe /\ op_table' = op_table /\ resp' = resp
  BY DEF hw_vars
<1>3. Word(q, l)' /\ Room(q, l, a, B, N)' /\ Blank(q, l, U)'
  BY <1>1, <1>2 DEF Word, Room, Blank
<1>4. Drained(q)' <=> Drained(q)
  BY <1>2 DEF Drained
<1>5. Idle(q, l)'
  BY <1>1, <1>4 DEF Idle
<1>6. Granted' = Granted
  BY <1>2 DEF Granted
<1>7. JobsFit(q)' /\ RespFits(q)'
  BY <1>1, <1>2, <1>6 DEF JobsFit, RespFits
<1>8. Doing(q, "req")' <=> Doing(q, "req")
  BY <1>2 DEF Doing
<1>9. Doing(q, "commit")' <=> Doing(q, "commit")
  BY <1>2 DEF Doing
<1>10. Budgeted(q, s, N, U) => Budgeted(q, s, N, U)'
  BY <1>8 DEF Budgeted, Count
<1>11. Filled(q, B, N, U, c) => Filled(q, B, N, U, c)'
  <2>1. \A k, j : Rec(q, k, j)' <=> Rec(q, k, j)
    BY DEF Rec
  <2>2. \A i : Unwritten(i)' <=> Unwritten(i)
    BY <1>6 DEF Unwritten
  <2>3. PICK n : n = 2^cq[q].log_size /\ n = 2^cq'[q].log_size
    OBVIOUS
  <2> HIDE DEF Rec, Unwritten
  <2> QED BY <2>1, <2>2, <2>3 DEF Filled
<1>12. Working(q, l, s, B, N, U, c)'
  BY <1>1, <1>10, <1>11 DEF Working
<1>13. Armed(q, l, a, B)'
  BY <1>1, <1>2, <1>9 DEF Armed, Reliable
<1> QED BY <1>3, <1>5, <1>7, <1>12, <1>13 DEF Now

\* An arm stays on the bus when a write is posted, or lands.
LEMMA ArmPost ==
    ASSUME TypeOK, NEW w, Posts(w), pipe' = pipe, NEW q
    PROVE  ArmInFlight(q) \/ (w.op = "set_arm" /\ w.addr = q) => ArmInFlight(q)'
<1>1. /\ Len(mmio) \in Nat /\ Len(mmio') = Len(mmio) + 1 /\ mmio'[Len(mmio) + 1] = w
      /\ \A k \in 1 .. Len(mmio) : mmio'[k] = mmio[k] /\ k \in 1 .. Len(mmio')
      /\ Len(mmio) + 1 \in 1 .. Len(mmio')
  BY Posted
<1> QED BY <1>1 DEF ArmInFlight

\* A ring doorbell lands: the arms that follow it stay in flight.
LEMMA ArmLand ==
    ASSUME TypeOK, mmio # <<>>, mmio' = Tail(mmio), pipe' = pipe, Head(mmio).op = "ring",
           NEW q, ArmInFlight(q)
    PROVE  ArmInFlight(q)'
<1>1. /\ Head(mmio) = mmio[1] /\ Len(mmio) \in Nat /\ Len(mmio') = Len(mmio) - 1
      /\ \A y \in 1 .. Len(mmio) - 1 : mmio'[y] = mmio[y + 1]
  BY HeadType
<1>2. ASSUME NEW k \in 1 .. Len(mmio), mmio[k].op = "set_arm", mmio[k].addr = q
      PROVE  ArmInFlight(q)'
  <2>1. k # 1
    BY <1>1, <1>2
  <2>2. k - 1 \in 1 .. Len(mmio) - 1 /\ (k - 1) + 1 = k
    BY <1>1, <2>1
  <2>3. mmio'[k - 1] = mmio[k] /\ k - 1 \in 1 .. Len(mmio')
    BY <1>1, <2>2
  <2> QED BY <1>2, <2>3 DEF ArmInFlight
<1> QED BY <1>2 DEF ArmInFlight

\* A write is posted, which brings the queue to step l, consumer pointer a and s descriptors.
Posting(q, w, r, h, t, z, L, A, S, B, N, U, c, l, a, s) ==
    /\ h \in Int /\ t \in Int /\ z \in Int /\ B \in Int /\ N \in Int /\ U \in Int
    /\ L \in Lines /\ A \in Lines /\ S \in Lines /\ c \in Chains
    /\ l \in Int /\ a \in Int /\ s \in Int
    /\ Span(h, t, z) /\ Way(r, q, h, L, A, S) /\ Range(t, z, L, A, S, N, U)
    /\ Chain(q, B, N, c)' /\ Now(q, L[t], A[t], S[t], B, N, U, c)'
    /\ L[z] <= l /\ l <= 9
    /\ Effect(r, q, w, L[z], l, A[z], a, S[z], s) /\ Within(l, a, s, N, U)
    /\ l = cq'[q].step /\ r.base = cq'[q].base /\ r.log_size = cq'[q].log_size
    /\ l >= 1 => a = U - napi'[q].done /\ cq'[q].cons = U % PtrMod /\ U >= 0
    /\ l = 9 => s + cq'[q].free + napi'[q].done <= RING_SIZE + U

\* A write is posted: the way is longer by what it does, and the queue stays in order.
LEMMA PostSound ==
    ASSUME IInv, NEW w, Posts(w), pipe' = pipe, NEW q \in Queues, NEW r,
           NEW h, NEW t, NEW z, NEW B, NEW N, NEW U, NEW L, NEW A, NEW S, NEW c,
           NEW l, NEW a, NEW s, Posting(q, w, r, h, t, z, L, A, S, B, N, U, c, l, a, s)
    PROVE  Sound(q)'
<1> USE DEF Posting
<1>1. t = Done(h) /\ z = End(h) /\ t <= z
  BY Ends DEF Span, IInv
<1>2. PICK K, C, T \in Lines :
         /\ Way(r, q, h, K, C, T)'
         /\ End(h)' = z + 1 /\ Done(h)' = t
         /\ \A p \in Int : p <= z => K[p] = L[p] /\ C[p] = A[p] /\ T[p] = S[p]
         /\ K[z + 1] = l /\ C[z + 1] = a /\ T[z + 1] = s
  <2>1. TypeOK /\ Extends(r, q, w, h, L, A, S, l, a, s)
    BY <1>1 DEF IInv, Extends
  <2>2. PICK K, C, T \in Lines : Longer(r, q, h, L, A, S, l, a, s, K, C, T)
    BY <2>1, WayPost
  <2> QED BY <1>1, <2>2 DEF Longer
<1>3. \A p \in Int : t <= p /\ p <= z + 1 => Within(K[p], C[p], T[p], N, U)
  <2> SUFFICES ASSUME NEW p \in Int, t <= p, p <= z + 1 PROVE Within(K[p], C[p], T[p], N, U)
    OBVIOUS
  <2>1. CASE p = z + 1
    BY <1>2, <2>1
  <2>2. CASE p <= z
    BY <1>2, <2>2 DEF Range
  <2> QED BY <2>1, <2>2
<1>4. Range(t, z + 1, K, C, T, N, U)
  BY <1>3 DEF Range
<1>5. Now(q, K[t], C[t], T[t], B, N, U, c)'
  BY <1>1, <1>2
<1>6. Way(cq[q], q, h, K, C, T)'
  BY <1>2, SameWay DEF Posting
<1>7. Bus(q, h, K, C, T)'
  BY <1>2, <1>6 DEF Bus
<1>8. Made(q, z + 1, C, T, U)'
  BY <1>2 DEF Made
<1>9. Ghost(q, h, K, C, T, B, N, U, c)'
  BY <1>2, <1>4, <1>5, <1>7, <1>8 DEF Ghost
<1> QED BY <1>9 DEF Sound

\* Nothing moves on the bus.
LEMMA StaySound ==
    ASSUME IInv, mmio' = mmio, pipe' = pipe, NEW q \in Queues,
           NEW h \in Int, NEW t \in Int, NEW z \in Int, Span(h, t, z),
           NEW B \in Int, NEW N \in Int, NEW U \in Int,
           NEW L \in Lines, NEW A \in Lines, NEW S \in Lines, NEW c \in Chains,
           Bus(q, h, L, A, S), Range(t, z, L, A, S, N, U),
           cq'[q].step = cq[q].step, cq'[q].base = cq[q].base,
           cq'[q].log_size = cq[q].log_size,
           Chain(q, B, N, c)', Now(q, L[t], A[t], S[t], B, N, U, c)', Made(q, z, A, S, U)'
    PROVE  Sound(q)'
<1>1. t = Done(h) /\ z = End(h)
  BY DEF Span
<1>2. PICK r : r = cq[q] /\ r.base = cq'[q].base /\ r.log_size = cq'[q].log_size
  OBVIOUS
<1>3. Way(r, q, h, L, A, S)' /\ Done(h)' = t /\ End(h)' = z
  BY <1>1, <1>2, WayStays DEF Bus
<1>4. Way(cq[q], q, h, L, A, S)'
  BY <1>2, <1>3, SameWay
<1>5. Bus(q, h, L, A, S)'
  BY <1>1, <1>3, <1>4 DEF Bus
<1>6. Ghost(q, h, L, A, S, B, N, U, c)'
  BY <1>3, <1>5 DEF Ghost
<1> QED BY <1>6 DEF Sound

\* A ring write arrives.
LEMMA LandSound ==
    ASSUME IInv, mmio # <<>>, mmio' = Tail(mmio), pipe' = pipe, ~InPipe(SetOps), cq' = cq,
           NEW q \in Queues, NEW h \in Int, NEW t \in Int, NEW z \in Int, Span(h, t, z),
           NEW B \in Int, NEW N \in Int, NEW U \in Int,
           NEW L \in Lines, NEW A \in Lines, NEW S \in Lines, NEW c \in Chains,
           Bus(q, h, L, A, S), Range(t, z, L, A, S, N, U), Chain(q, B, N, c)',
           Effect(cq[q], q, Head(mmio), L[t], L[t + 1], A[t], A[t + 1], S[t], S[t + 1])
             /\ t + 1 <= z => Now(q, L[t + 1], A[t + 1], S[t + 1], B, N, U, c)',
           Made(q, z, A, S, U)'
    PROVE  Sound(q)'
<1>1. t = Done(h) /\ z = End(h)
  BY DEF Span
<1>2. PICK r : r = cq[q]
  OBVIOUS
<1>3. PICK g \in Int : /\ Way(r, q, g, L, A, S)'
                       /\ End(g)' = z /\ Done(g)' = t + 1 /\ t + 1 <= z
                       /\ At(r, q, Head(mmio), t + 1, L, A, S)
  BY <1>1, <1>2, WayLand DEF Bus, IInv
<1>4. (t + 1) - 1 = t
  OBVIOUS
<1>5. Now(q, L[t + 1], A[t + 1], S[t + 1], B, N, U, c)'
  BY <1>2, <1>3, <1>4 DEF At
<1>6. Bus(q, g, L, A, S)'
  BY <1>1, <1>2, <1>3 DEF Bus
<1>7. Range(t + 1, z, L, A, S, N, U)
  BY DEF Range
<1>8. Ghost(q, g, L, A, S, B, N, U, c)'
  BY <1>3, <1>5, <1>6, <1>7 DEF Ghost
<1> QED BY <1>8 DEF Sound

Parts(q, h, t, z, L, A, S, B, N, U, c) ==
    /\ h \in Int /\ t \in Int /\ z \in Int /\ B \in Int /\ N \in Int /\ U \in Int
    /\ L \in Lines /\ A \in Lines /\ S \in Lines /\ c \in Chains
    /\ Span(h, t, z) /\ t <= z
    /\ Bus(q, h, L, A, S) /\ Chain(q, B, N, c) /\ Now(q, L[t], A[t], S[t], B, N, U, c)
    /\ Range(t, z, L, A, S, N, U) /\ Made(q, z, A, S, U)
    /\ \A p \in Int : L[p] \in Int /\ A[p] \in Int /\ S[p] \in Int
    /\ Way(cq[q], q, h, L, A, S) /\ L[z] = cq[q].step
    /\ \A p \in Int : t <= p /\ p <= z => 0 <= L[p] /\ L[p] <= 9
    /\ \A p, y \in Int : t <= p /\ p <= y /\ y <= z => L[p] <= L[y]

\* The parts of a queue that is in order.
LEMMA Unfold ==
    ASSUME IInv, NEW q \in Queues, Sound(q)
    PROVE  \E h, t, z, L, A, S, B, N, U, c : Parts(q, h, t, z, L, A, S, B, N, U, c)
<1>1. PICK h, B, N, U \in Int, L, A, S \in Lines, c \in Chains :
        Ghost(q, h, L, A, S, B, N, U, c)
  BY DEF Sound
<1>2. PICK t \in Int, z \in Int : t = Done(h) /\ z = End(h) /\ t <= z
  BY Ends DEF IInv
<1>3. /\ Bus(q, h, L, A, S) /\ Chain(q, B, N, c) /\ Now(q, L[t], A[t], S[t], B, N, U, c)
      /\ Range(t, z, L, A, S, N, U) /\ Made(q, z, A, S, U) /\ Span(h, t, z)
  BY <1>1, <1>2 DEF Ghost, Span
<1>4. /\ \A p \in Int : L[p] \in Int /\ A[p] \in Int /\ S[p] \in Int
      /\ \A p \in Int : t <= p /\ p <= z => 0 <= L[p] /\ L[p] <= 9
      /\ \A p, y \in Int : t <= p /\ p <= y /\ y <= z => L[p] <= L[y]
      /\ L[z] = cq[q].step /\ Way(cq[q], q, h, L, A, S)
  BY <1>2, <1>3 DEF Bus, Way, Lines
<1>5. Parts(q, h, t, z, L, A, S, B, N, U, c)
  BY <1>2, <1>3, <1>4 DEF Parts
<1> QED BY <1>5

\* The driver posts a write to another queue.
LEMMA PostElsewhere ==
    ASSUME IInv, NEW q \in Queues, Sound(q), UNCHANGED <<hw_vars, held>>,
           NEW w, Posts(w), w.addr # q, buf'[q] = buf[q], slots'[q] = slots[q],
           cq'[q] = cq[q], napi'[q] = napi[q], pending'[q] = pending[q]
    PROVE  Sound(q)'
<1>1. PICK h, t, z, L, A, S, B, N, U, c : Parts(q, h, t, z, L, A, S, B, N, U, c)
  BY Unfold
<1> USE <1>1 DEF Parts
<1>2. pipe' = pipe /\ event' = event /\ TypeOK
  BY DEF hw_vars, IInv
<1>3. Awake(q) => Awake(q)'
  BY <1>2, ArmPost DEF Awake, EventInFlight
<1>4. L[t] \in Int /\ A[t] \in Int /\ S[t] \in Int
  OBVIOUS
<1>5. Chain(q, B, N, c)' /\ Now(q, L[t], A[t], S[t], B, N, U, c)'
  BY <1>3, <1>4, ChainFrame, NowFrame
<1>6. PICK r : r = cq[q] /\ r.base = cq'[q].base /\ r.log_size = cq'[q].log_size
  OBVIOUS
<1>7. Effect(r, q, w, L[z], L[z], A[z], A[z], S[z], S[z])
  BY DEF Effect
<1>8. Within(L[z], A[z], S[z], N, U) /\ L[z] <= L[z] /\ L[z] <= 9 /\ L[z] = cq'[q].step
      /\ L[z] \in Int /\ A[z] \in Int /\ S[z] \in Int
  BY DEF Range
<1>9. /\ L[z] >= 1 => A[z] = U - napi'[q].done /\ cq'[q].cons = U % PtrMod /\ U >= 0
      /\ L[z] = 9 => S[z] + cq'[q].free + napi'[q].done <= RING_SIZE + U
  BY <1>8 DEF Made
<1>10. Way(r, q, h, L, A, S)
  BY <1>6
<1>11. Posting(q, w, r, h, t, z, L, A, S, B, N, U, c, L[z], A[z], S[z])
  BY <1>2, <1>5, <1>6, <1>7, <1>8, <1>9, <1>10 DEF Posting
<1> QED BY <1>2, <1>11, PostSound

\* Descriptors are posted again.
LEMMA RefillSound ==
    ASSUME IInv, NEW q \in Queues, Sound(q), NEW w, Refilling(q, w)
    PROVE  Sound(q)'
<1>1. PICK h, t, z, L, A, S, B, N, U, c : Parts(q, h, t, z, L, A, S, B, N, U, c)
  BY Unfold
<1> USE <1>1 DEF Parts
<1>2. /\ pipe' = pipe /\ event' = event /\ TypeOK /\ Posts(w) /\ UNCHANGED hw_vars
      /\ held' = held /\ buf' = buf /\ slots' = slots /\ pending' = pending /\ napi' = napi
  BY DEF hw_vars, IInv, Refilling
<1>3. /\ w.addr = q /\ w.op = "ring" /\ w.wdata = cq[q].free /\ cq[q].pc = "open"
      /\ cq'[q].pc = cq[q].pc /\ cq'[q].step = cq[q].step /\ cq'[q].cons = cq[q].cons
      /\ cq'[q].log_size = cq[q].log_size /\ cq'[q].base = cq[q].base /\ cq'[q].free = 0
  BY DEF Refilling
<1>4. Awake(q) => Awake(q)'
  BY <1>2, ArmPost DEF Awake, EventInFlight
<1>5. L[t] \in Int /\ A[t] \in Int /\ S[t] \in Int
  OBVIOUS
<1>6. Chain(q, B, N, c)' /\ Now(q, L[t], A[t], S[t], B, N, U, c)'
  BY <1>2, <1>3, <1>4, <1>5, ChainFrame, NowFrame
<1>7. L[z] = 9 /\ cq[q].step = 9
  BY <1>2, <1>3, Opened DEF IInv
<1>8. PICK r : r = cq[q] /\ r.base = cq'[q].base /\ r.log_size = cq'[q].log_size
  BY <1>3
<1>9. cq[q].free \in Nat /\ napi[q].done \in Nat
  BY <1>2 DEF TypeOK, Cqs, Napis
<1>10. PICK s \in Int : s = S[z] + cq[q].free
  BY <1>9
<1>11. Effect(r, q, w, L[z], 9, A[z], A[z], S[z], s)
  BY <1>3, <1>7, <1>10 DEF Effect
<1>12. /\ A[z] = U - napi[q].done /\ cq[q].cons = U % PtrMod /\ U >= 0
       /\ S[z] + cq[q].free + napi[q].done <= RING_SIZE + U
  BY <1>7 DEF Made
<1>13. Within(9, A[z], s, N, U)
  BY <1>7, <1>9, <1>10, <1>12, CplDriverAssumption DEF Within
<1>14. s + cq'[q].free + napi'[q].done <= RING_SIZE + U
  BY <1>2, <1>3, <1>9, <1>10, <1>12
<1>15. A[z] \in Int /\ L[z] <= 9 /\ 9 <= 9 /\ 9 \in Int
  BY <1>7
<1>16. Way(r, q, h, L, A, S)
  BY <1>8
<1>17. Posting(q, w, r, h, t, z, L, A, S, B, N, U, c, 9, A[z], s)
  BY <1>2, <1>3, <1>6, <1>7, <1>8, <1>11, <1>12, <1>13, <1>14, <1>15, <1>16 DEF Posting
<1> QED BY <1>2, <1>17, PostSound

\* The poll loop ends.
LEMMA PolledSound ==
    ASSUME IInv, NEW q \in Queues, Sound(q), NEW w, Polled(q, w)
    PROVE  Sound(q)'
<1>1. PICK h, t, z, L, A, S, B, N, U, c : Parts(q, h, t, z, L, A, S, B, N, U, c)
  BY Unfold
<1> USE <1>1 DEF Parts
<1>2. /\ pipe' = pipe /\ event' = event /\ TypeOK /\ Posts(w) /\ UNCHANGED hw_vars
      /\ held' = held /\ buf' = buf /\ slots' = slots
  BY DEF hw_vars, IInv, Polled
<1>3. /\ w.addr = q /\ w.op = "set_cons" /\ w.wdata = cq[q].cons /\ napi[q].state = "poll"
      /\ cq'[q].pc = cq[q].pc /\ cq'[q].step = cq[q].step /\ cq'[q].cons = cq[q].cons
      /\ cq'[q].log_size = cq[q].log_size /\ cq'[q].base = cq[q].base
      /\ cq'[q].free = cq[q].free + napi[q].done
      /\ napi'[q].done = 0 /\ napi'[q].state \in {"sched", "complete"}
  BY DEF Polled
<1>4. Awake(q)'
  BY <1>3 DEF Awake
<1>5. L[t] \in Int /\ A[t] \in Int /\ S[t] \in Int
  OBVIOUS
<1>6. Chain(q, B, N, c)' /\ Now(q, L[t], A[t], S[t], B, N, U, c)'
  BY <1>2, <1>3, <1>4, <1>5, ChainFrame, NowFrame
<1>7. L[z] = 9 /\ cq[q].step = 9
  <2>1. cq[q].pc # "opening" /\ cq[q].step \in 0 .. 9
    BY <1>2, <1>3 DEF IInv, LifeInv, Life, TypeOK, Cqs, NapiIdle
  <2>2. cq[q].pc = "opening" <=> cq[q].step < 9
    BY DEF IInv, LifeInv, Life
  <2>3. cq[q].step = 9
    BY <2>1, <2>2
  <2> QED BY <2>3
<1>8. PICK r : r = cq[q] /\ r.base = cq'[q].base /\ r.log_size = cq'[q].log_size
  BY <1>3
<1>9. cq[q].free \in Nat /\ napi[q].done \in Nat
  BY <1>2 DEF TypeOK, Cqs, Napis
<1>10. /\ A[z] = U - napi[q].done /\ cq[q].cons = U % PtrMod /\ U >= 0
       /\ S[z] + cq[q].free + napi[q].done <= RING_SIZE + U
  BY <1>7 DEF Made
<1>11. A[z] <= U
  BY <1>9, <1>10
<1>12. Effect(r, q, w, L[z], 9, A[z], U, S[z], S[z])
  BY <1>3, <1>7, <1>10, <1>11 DEF Effect
<1>13. Within(9, U, S[z], N, U)
  BY <1>9, <1>10, CplDriverAssumption DEF Within
<1>14. S[z] + cq'[q].free + napi'[q].done <= RING_SIZE + U /\ U = U - napi'[q].done
  BY <1>3, <1>9, <1>10
<1>15. S[z] \in Int /\ L[z] <= 9 /\ 9 <= 9 /\ 9 \in Int
  BY <1>7
<1>16. Way(r, q, h, L, A, S)
  BY <1>8
<1>17. Posting(q, w, r, h, t, z, L, A, S, B, N, U, c, 9, U, S[z])
  BY <1>2, <1>3, <1>6, <1>7, <1>8, <1>10, <1>12, <1>13, <1>14, <1>15, <1>16 DEF Posting
<1> QED BY <1>2, <1>17, PostSound

\* The queue is armed.
LEMMA ArmSound ==
    ASSUME IInv, NEW q \in Queues, Sound(q), NEW w, Arming(q, w)
    PROVE  Sound(q)'
<1>1. PICK h, t, z, L, A, S, B, N, U, c : Parts(q, h, t, z, L, A, S, B, N, U, c)
  BY Unfold
<1> USE <1>1 DEF Parts
<1>2. /\ pipe' = pipe /\ event' = event /\ TypeOK /\ Posts(w) /\ UNCHANGED hw_vars
      /\ held' = held /\ buf' = buf /\ slots' = slots /\ cq' = cq
      /\ w.addr = q /\ w.op = "set_arm" /\ w.wdata = 1
      /\ napi[q].arming > 0 /\ napi'[q].done = napi[q].done
  BY DEF hw_vars, IInv, Arming
<1>3. Awake(q)'
  BY <1>2, ArmPost DEF Awake
<1>4. L[t] \in Int /\ A[t] \in Int /\ S[t] \in Int
  OBVIOUS
<1>5. Chain(q, B, N, c)' /\ Now(q, L[t], A[t], S[t], B, N, U, c)'
  BY <1>2, <1>3, <1>4, ChainFrame, NowFrame
<1>6. L[z] = 9 /\ cq[q].step = 9
  BY <1>2, Opened DEF IInv
<1>7. PICK r : r = cq[q] /\ r.base = cq'[q].base /\ r.log_size = cq'[q].log_size
  BY <1>2
<1>8. Effect(r, q, w, L[z], L[z], A[z], A[z], S[z], S[z])
  BY <1>2, <1>6 DEF Effect
<1>9. Within(L[z], A[z], S[z], N, U) /\ L[z] <= L[z] /\ L[z] <= 9 /\ L[z] = cq'[q].step
      /\ L[z] \in Int /\ A[z] \in Int /\ S[z] \in Int
  BY <1>2 DEF Range
<1>10. /\ L[z] >= 1 => A[z] = U - napi'[q].done /\ cq'[q].cons = U % PtrMod /\ U >= 0
       /\ L[z] = 9 => S[z] + cq'[q].free + napi'[q].done <= RING_SIZE + U
  BY <1>2, <1>9 DEF Made
<1>11. Way(r, q, h, L, A, S)
  BY <1>7
<1>12. Posting(q, w, r, h, t, z, L, A, S, B, N, U, c, L[z], A[z], S[z])
  BY <1>2, <1>5, <1>7, <1>8, <1>9, <1>10, <1>11 DEF Posting
<1> QED BY <1>2, <1>12, PostSound

\* An opening write is posted: the hardware has come to some step before the last.
LEMMA OpenSound ==
    ASSUME IInv, NEW q \in Queues, Sound(q), NEW w, Opening(q, w)
    PROVE  Sound(q)'
<1>1. PICK h, t, z, L, A, S, B, N, U, c : Parts(q, h, t, z, L, A, S, B, N, U, c)
  BY Unfold
<1> USE <1>1 DEF Parts
<1>2. /\ pipe' = pipe /\ queue_ram' = queue_ram /\ resp' = resp /\ op_table' = op_table
      /\ TypeOK /\ Posts(w) /\ UNCHANGED hw_vars
      /\ held' = held /\ slots' = slots /\ napi' = napi
  BY DEF hw_vars, IInv, Opening
<1>3. /\ w.addr = q /\ cq[q].pc = "opening" /\ cq[q].step < 9
      /\ cq'[q].step = cq[q].step + 1 /\ Opens(cq'[q], w, cq'[q].step)
      /\ cq'[q].pc \in {"open", "opening"}
      /\ cq'[q].cons = 0 /\ cq'[q].free = 0
      /\ cq[q].step > 0 => /\ cq'[q].base = cq[q].base /\ cq'[q].log_size = cq[q].log_size
                           /\ buf' = buf
      /\ cq[q].step = 0 => \A p \in Ptrs : buf'[q][p] = NoRecord
  BY DEF Opening
<1>4. cq[q].step \in Nat /\ napi[q].done = 0
  BY <1>2, <1>3 DEF IInv, LifeInv, Life, TypeOK, Cqs, NapiIdle
<1>5. PICK r : r = cq'[q]
  OBVIOUS
<1>6. Way(r, q, h, L, A, S)
  <2>1. CASE cq[q].step = 0
    <3>1. L[End(h)] = 0
      BY <2>1 DEF Span
    <3> QED BY <1>2, <3>1, WayClosed
  <2>2. CASE cq[q].step > 0
    <3>1. r.base = cq[q].base /\ r.log_size = cq[q].log_size
      BY <1>3, <1>5, <2>2
    <3> QED BY <3>1, WayRecord
  <2> QED BY <1>4, <2>1, <2>2
<1>7. L[t] \in Int /\ A[t] \in Int /\ S[t] \in Int /\ L[t] < 9 /\ 0 <= L[t] /\ L[t] <= L[z]
  BY <1>3
<1>8. /\ Word(q, L[t]) /\ Idle(q, L[t]) /\ Room(q, L[t], A[t], B, N)
      /\ Blank(q, L[t], U) /\ Armed(q, L[t], A[t], B) /\ RespFits(q)
  BY DEF Now
<1>9. cq[q].step > 0 => U = 0
  BY <1>4, <1>7, <1>8 DEF Blank
<1>10. Range(t, z, L, A, S, N, 0)
  <2>1. CASE cq[q].step = 0
    <3> SUFFICES ASSUME NEW p \in Int, t <= p, p <= z
                 PROVE  Within(L[p], A[p], S[p], N, 0)
      BY DEF Range
    <3>1. L[p] = 0
      BY <2>1
    <3>2. Within(L[p], A[p], S[p], N, U)
      BY DEF Range
    <3> QED BY <3>1, <3>2 DEF Within
  <2>2. CASE cq[q].step > 0
    BY <1>9, <2>2
  <2> QED BY <1>4, <2>1, <2>2
<1>11. Chain(q, B, N, c)'
  BY <1>2, ChainFrame
<1>12. Drained(q) /\ Drained(q)' /\ slots'[q] = 0
  BY <1>2, <1>7, <1>8 DEF Idle, Drained
<1>13. Now(q, L[t], A[t], S[t], B, N, 0, c)'
  <2>1. Word(q, L[t])'
    <3>1. L[t] >= 1 => cq[q].step > 0
      BY <1>4, <1>7
    <3> QED BY <1>2, <1>3, <1>7, <1>8, <3>1 DEF Word
  <2>2. Idle(q, L[t])'
    BY <1>3, <1>12 DEF Idle
  <2>3. Room(q, L[t], A[t], B, N)'
    BY <1>2, <1>8 DEF Room
  <2>4. Working(q, L[t], S[t], B, N, 0, c)'
    BY <1>7 DEF Working
  <2>5. Blank(q, L[t], 0)'
    <3>1. \A p \in Ptrs : buf'[q][p] = NoRecord
      BY <1>3, <1>4, <1>7, <1>8 DEF Blank
    <3> QED BY <3>1 DEF Blank, NoRecord
  <2>6. Armed(q, L[t], A[t], B)'
    <3>1. Doing(q, "commit")' <=> Doing(q, "commit")
      BY <1>2 DEF Doing
    <3>2. 8 <= L[t] => queue_ram'[q].armed = 1
      BY <1>2, <1>7, <1>8 DEF Armed
    <3> QED BY <1>2, <1>8, <3>1, <3>2 DEF Armed
  <2>7. JobsFit(q)'
    <3>1. Granted' = Granted
      BY <1>2 DEF Granted
    <3>2. \A x \in Granted : x.queue # q
      BY <1>12, AtWork
    <3> QED BY <3>1, <3>2 DEF JobsFit
  <2>8. RespFits(q)'
    BY <1>2, <1>8 DEF RespFits
  <2> QED BY <2>1, <2>2, <2>3, <2>4, <2>5, <2>6, <2>7, <2>8 DEF Now
<1>14. PICK l \in Int : l = cq'[q].step /\ l = L[z] + 1 /\ 1 <= l /\ l <= 9
  BY <1>3, <1>4
<1>15. PICK s \in Int : s = IF l = 9 THEN RING_SIZE ELSE 0
  BY CplDriverAssumption
<1>16. Effect(r, q, w, L[z], l, A[z], 0, S[z], s)
  BY <1>3, <1>5, <1>14, <1>15 DEF Effect
<1>17. Within(l, 0, s, N, 0)
  BY <1>14, <1>15, CplDriverAssumption DEF Within
<1>18. /\ 0 = 0 - napi'[q].done /\ cq'[q].cons = 0 % PtrMod /\ 0 >= 0
       /\ l = 9 => s + cq'[q].free + napi'[q].done <= RING_SIZE + 0
  BY <1>2, <1>3, <1>4, <1>15, Residues, CplDriverAssumption
<1>19. L[z] <= l /\ 0 \in Int /\ r.base = cq'[q].base /\ r.log_size = cq'[q].log_size
  BY <1>5, <1>14
<1>20. Posting(q, w, r, h, t, z, L, A, S, B, N, 0, c, l, 0, s)
  BY <1>2, <1>6, <1>10, <1>11, <1>13, <1>14, <1>16, <1>17, <1>18, <1>19 DEF Posting
<1> QED BY <1>2, <1>20, PostSound

\* A queue is closed: it is at rest.
LEMMA CloseSound ==
    ASSUME IInv, NEW q \in Queues, Sound(q), NEW w, Closing(q, w)
    PROVE  Sound(q)'
<1>1. PICK h, t, z, L, A, S, B, N, U, c : Parts(q, h, t, z, L, A, S, B, N, U, c)
  BY Unfold
<1> USE <1>1 DEF Parts
<1>2. /\ pipe' = pipe /\ queue_ram' = queue_ram /\ resp' = resp /\ op_table' = op_table
      /\ TypeOK /\ Posts(w) /\ UNCHANGED hw_vars
      /\ held' = held /\ slots' = slots /\ buf' = buf
      /\ w.addr = q /\ w.op = "set_enable" /\ w.wdata = 0
      /\ cq[q].pc = "down" /\ cq'[q] = CqClosed /\ napi'[q] = NapiIdle
  BY DEF hw_vars, IInv, Closing
<1>3. /\ Word(q, L[t]) /\ Idle(q, L[t]) /\ Room(q, L[t], A[t], B, N)
      /\ Working(q, L[t], S[t], B, N, U, c) /\ RespFits(q)
  BY DEF Now
<1>4. L[t] = 9 /\ Drained(q) /\ slots[q] = 0
  BY <1>2, <1>3 DEF Idle
<1>5. Drained(q)'
  BY <1>2, <1>4 DEF Drained
<1>6. PICK Z \in Lines : \A p \in Int : Z[p] = 0
  <2>1. [p \in Int |-> 0] \in Lines
    BY DEF Lines
  <2> QED BY <2>1
<1>7. PICK r : r = cq'[q]
  OBVIOUS
<1>8. Way(r, q, h, Z, A, S)
  <2>1. \A k \in 1 .. Len(mmio) : ~(mmio[k].op = "ring" /\ mmio[k].addr = q)
    BY <1>2 DEF IInv, LifeInv, Life
  <2>2. L[Done(h)] = 9
    BY <1>4 DEF Span
  <2> QED BY <1>2, <1>6, <2>1, <2>2, WayCloses
<1>9. U <= N /\ A[t] <= N
  BY <1>3, <1>4 DEF Working, Budgeted, Room
<1>10. Range(t, z, Z, A, S, N, U)
  <2> SUFFICES ASSUME NEW p \in Int, t <= p, p <= z
               PROVE  Within(Z[p], A[p], S[p], N, U)
    BY DEF Range
  <2>1. L[p] = 9
    BY <1>4
  <2>2. Within(L[p], A[p], S[p], N, U)
    BY DEF Range
  <2>3. A[p] <= N /\ Z[p] = 0
    BY <1>6, <1>9, <2>1, <2>2 DEF Within
  <2> QED BY <2>3 DEF Within
<1>11. Chain(q, B, N, c)'
  BY <1>2, ChainFrame
<1>12. Now(q, 0, A[t], S[t], B, N, U, c)'
  <2>1. Word(q, 0)' /\ Working(q, 0, S[t], B, N, U, c)' /\ Armed(q, 0, A[t], B)'
    BY DEF Word, Working, Armed
  <2>2. cq'[q].pc = "opening" /\ cq'[q].step = 0
    BY <1>2 DEF CqClosed
  <2>3. Idle(q, 0)'
    BY <1>2, <1>4, <1>5, <2>2 DEF Idle
  <2>4. Room(q, 0, A[t], B, N)'
    BY <1>2, <1>3, <1>4 DEF Room
  <2>5. Blank(q, 0, U)'
    BY <2>2 DEF Blank
  <2>6. JobsFit(q)'
    <3>1. Granted' = Granted
      BY <1>2 DEF Granted
    <3>2. \A x \in Granted : x.queue # q
      BY <1>4, AtWork
    <3> QED BY <3>1, <3>2 DEF JobsFit
  <2>7. RespFits(q)'
    BY <1>2, <1>3 DEF RespFits
  <2> QED BY <2>1, <2>3, <2>4, <2>5, <2>6, <2>7 DEF Now
<1>13. Now(q, Z[t], A[t], S[t], B, N, U, c)'
  BY <1>6, <1>12
<1>14. Effect(r, q, w, Z[z], 0, A[z], A[z], S[z], S[z])
  BY <1>2, <1>6 DEF Effect
<1>15. Within(0, A[z], S[z], N, U)
  BY <1>6, <1>10 DEF Range
<1>16. /\ cq'[q].step = 0 /\ Z[z] <= 0 /\ A[z] \in Int /\ S[z] \in Int
       /\ ~(0 >= 1) /\ 0 # 9 /\ 0 <= 9 /\ 0 \in Int
  BY <1>2, <1>6 DEF CqClosed
<1>17. r.base = cq'[q].base /\ r.log_size = cq'[q].log_size
  BY <1>7
<1>18. Posting(q, w, r, h, t, z, Z, A, S, B, N, U, c, 0, A[z], S[z])
  BY <1>2, <1>8, <1>10, <1>11, <1>13, <1>14, <1>15, <1>16, <1>17 DEF Posting
<1> QED BY <1>2, <1>18, PostSound

\* The buffer of a queue that nothing has been written to, as its ring gets descriptors.
LEMMA BlankFilled ==
    ASSUME IInv, NEW q \in Queues, \A p \in Ptrs : buf[q][p] = NoRecord, NEW c
    PROVE  Filled(q, 0, 0, 0, c)
<1>1. PICK m : m = cq[q].log_size
  OBVIOUS
<1>2. m \in LogSizes \cup {0}
  BY <1>1 DEF IInv, TypeOK, Cqs
<1>3. PICK n \in Nat : n = 2^m
  BY <1>2, Sizes
<1>4. ASSUME NEW k \in Int, 0 <= k, k < n
      PROVE  Rec(q, k, k - n)
  <2>1. ~Phase((k - n) % PtrMod, m)
    BY <1>2, <1>3, <1>4, PhaseFirst
  <2>2. k % n \in Ptrs
    BY <1>2, <1>3, SlotOf
  <2>3. ~buf[q][k % n].phase
    BY <2>2 DEF NoRecord
  <2>4. ~(k - n >= 0)
    BY <1>4
  <2> QED BY <1>1, <1>3, <2>1, <2>3, <2>4 DEF Rec
<1>5. \A k \in Int : ~(0 < k /\ k <= 0)
  OBVIOUS
<1> QED BY <1>1, <1>3, <1>4, <1>5 DEF Filled

\* The descriptors of the queue arrive: it was about to work, or works.
LEMMA LandNow ==
    ASSUME IInv, NEW q \in Queues, NEW w, Landing(q, w),
           NEW l \in Int, NEW a \in Int, NEW s \in Int, NEW m \in Int, NEW b \in Int, NEW u \in Int,
           NEW B \in Int, NEW N \in Int, NEW U \in Int, NEW c \in Chains,
           Now(q, l, a, s, B, N, U, c), Within(l, a, s, N, U),
           Effect(cq[q], q, w, l, m, a, b, s, u), cq[q].step >= m
    PROVE  Now(q, m, b, u, B, N, U, c)'
<1>1. /\ pipe' = pipe /\ queue_ram' = queue_ram /\ resp' = resp /\ op_table' = op_table
      /\ event' = event /\ TypeOK /\ UNCHANGED hw_vars /\ held' = held /\ buf' = buf
      /\ cq' = cq /\ napi' = napi /\ pending' = pending
      /\ mmio # <<>> /\ mmio' = Tail(mmio) /\ Head(mmio) = w
      /\ w.op = "ring" /\ w.addr = q /\ slots'[q] = slots[q] + w.wdata
  BY DEF Landing, hw_vars, IInv
<1>2. \/ l = 8 /\ m = 9 /\ w.wdata = RING_SIZE /\ b = 0 /\ u = RING_SIZE
      \/ l = 9 /\ m = 9 /\ b = a /\ u = s + w.wdata
  BY <1>1 DEF Effect, Opens
<1>3. /\ Word(q, l) /\ Idle(q, l) /\ Room(q, l, a, B, N) /\ Working(q, l, s, B, N, U, c)
      /\ Blank(q, l, U) /\ Armed(q, l, a, B) /\ JobsFit(q) /\ RespFits(q)
  BY DEF Now
<1>4. w.wdata \in Nat /\ slots[q] \in Nat
  <2>1. w \in Writes
    BY <1>1, HeadType
  <2> QED BY <1>1, <2>1 DEF Writes, TypeOK
<1>5. Awake(q) => Awake(q)'
  BY <1>1, ArmLand DEF Awake, EventInFlight
<1>6. Granted' = Granted /\ (Doing(q, "commit")' <=> Doing(q, "commit"))
  BY <1>1 DEF Granted, Doing
<1>7. Count(q)' = Count(q) /\ Count(q) \in Int
  BY <1>1 DEF Doing, Count
<1>8. Word(q, m)'
  BY <1>1, <1>2, <1>3 DEF Word
<1>9. JobsFit(q)' /\ RespFits(q)' /\ Blank(q, m, U)'
  <2>1. JobsFit(q)'
    BY <1>1, <1>3, <1>6 DEF JobsFit
  <2>2. RespFits(q)'
    BY <1>1, <1>3 DEF RespFits
  <2>3. Blank(q, m, U)'
    BY <1>1, <1>2, <1>3 DEF Blank
  <2> QED BY <2>1, <2>2, <2>3
<1>10. Idle(q, m)'
  <2>1. Drained(q)' <=> Drained(q)
    BY <1>1 DEF Drained
  <2>2. cq[q].pc \in {"stopping", "down"} => FALSE
    BY <1>1, HeadType, SMTT(30) DEF IInv, LifeInv, Life
  <2> QED BY <1>1, <1>2, <1>3, <2>1, <2>2 DEF Idle
<1>11. CASE l = 8
  <2>1. m = 9 /\ w.wdata = RING_SIZE /\ b = 0 /\ u = RING_SIZE /\ N = 0 /\ B = 0 /\ a = 0
        /\ slots[q] = 0 /\ Drained(q) /\ queue_ram[q].armed = 1
    BY <1>2, <1>3, <1>11 DEF Room, Idle, Armed, Within
  <2>2. U = 0 /\ \A p \in Ptrs : buf[q][p] = NoRecord
    <3>1. cq[q].step \in 0 .. 9
      BY <1>1 DEF TypeOK, Cqs
    <3>2. cq[q].step >= 1
      BY <2>1, <3>1
    <3> QED BY <1>3, <1>11, <3>2 DEF Blank
  <2>3. Room(q, m, b, B, N)'
    BY <1>1, <1>3, <1>11, <2>1 DEF Room
  <2>4. Armed(q, m, b, B)'
    BY <1>1, <2>1 DEF Armed
  <2>5. Filled(q, B, N, U, c)'
    <3>1. Filled(q, 0, 0, 0, c)
      BY <2>2, BlankFilled
    <3>2. \A k, j : Rec(q, k, j)' <=> Rec(q, k, j)
      BY <1>1 DEF Rec
    <3>3. PICK n : n = 2^cq[q].log_size /\ n = 2^cq'[q].log_size
      BY <1>1
    <3>4. \A k \in Int : ~(0 < k /\ k <= 0)
      OBVIOUS
    <3>5. \A k \in Int : 0 <= k /\ k < 0 + n => (k < 0 /\ Rec(q, k, k)') \/ Rec(q, k, k - n)'
      BY <3>1, <3>2, <3>3 DEF Filled
    <3>6. Filled(q, 0, 0, 0, c)'
      BY <3>3, <3>4, <3>5 DEF Filled
    <3> QED BY <2>1, <2>2, <3>6
  <2>6. Count(q) = 0
    BY <2>1, AtWork DEF Count
  <2>7. Budgeted(q, u, N, U)'
    BY <1>1, <1>4, <1>7, <2>1, <2>2, <2>6, CplDriverAssumption DEF Budgeted
  <2>8. Working(q, m, u, B, N, U, c)'
    BY <2>5, <2>7 DEF Working
  <2> QED BY <1>8, <1>9, <1>10, <2>3, <2>4, <2>8 DEF Now
<1>12. CASE l = 9
  <2>1. m = 9 /\ b = a /\ u = s + w.wdata
    BY <1>2, <1>12
  <2>2. Room(q, m, b, B, N)'
    BY <1>1, <1>3, <1>12, <2>1 DEF Room
  <2>3. Armed(q, m, b, B)'
    BY <1>1, <1>3, <1>5, <1>6, <1>12, <2>1 DEF Armed, Reliable
  <2>4. Filled(q, B, N, U, c)'
    <3>1. Filled(q, B, N, U, c)
      BY <1>3, <1>12 DEF Working
    <3>2. \A k, j : Rec(q, k, j)' <=> Rec(q, k, j)
      BY <1>1 DEF Rec
    <3>3. \A i : Unwritten(i)' <=> Unwritten(i)
      BY <1>6 DEF Unwritten
    <3>4. PICK n : n = 2^cq[q].log_size /\ n = 2^cq'[q].log_size
      BY <1>1
    <3> QED BY <3>1, <3>2, <3>3, <3>4 DEF Filled
  <2>5. Budgeted(q, u, N, U)'
    BY <1>1, <1>3, <1>4, <1>7, <1>12, <2>1, SMTT(30) DEF Working, Budgeted
  <2>6. Working(q, m, u, B, N, U, c)'
    BY <2>4, <2>5 DEF Working
  <2> QED BY <1>8, <1>9, <1>10, <2>2, <2>3, <2>6 DEF Now
<1> QED BY <1>2, <1>11, <1>12

\* A ring write arrives, at this queue or at another.
LEMMA LandingSound ==
    ASSUME IInv, NEW q \in Queues, Sound(q), NEW k \in Queues, NEW w, Landing(k, w)
    PROVE  Sound(q)'
<1>1. PICK h, t, z, L, A, S, B, N, U, c : Parts(q, h, t, z, L, A, S, B, N, U, c)
  BY Unfold
<1> USE <1>1 DEF Parts
<1>2. /\ pipe' = pipe /\ event' = event /\ TypeOK /\ UNCHANGED hw_vars
      /\ held' = held /\ buf' = buf /\ cq' = cq /\ napi' = napi /\ pending' = pending
      /\ mmio # <<>> /\ mmio' = Tail(mmio) /\ Head(mmio) = w /\ ~InPipe(SetOps)
      /\ w.op = "ring" /\ w.addr = k /\ (k # q => slots'[q] = slots[q])
  BY DEF hw_vars, IInv, Landing
<1>3. Chain(q, B, N, c)'
  BY <1>2, ChainFrame
<1>4. Made(q, z, A, S, U)'
  BY <1>2 DEF Made
<1>5. /\ L[t] \in Int /\ A[t] \in Int /\ S[t] \in Int
      /\ L[t + 1] \in Int /\ A[t + 1] \in Int /\ S[t + 1] \in Int
  OBVIOUS
<1>6. ASSUME Effect(cq[q], q, Head(mmio), L[t], L[t + 1], A[t], A[t + 1], S[t], S[t + 1]),
             t + 1 <= z
      PROVE  Now(q, L[t + 1], A[t + 1], S[t + 1], B, N, U, c)'
  <2>1. CASE k = q
    <3>1. Within(L[t], A[t], S[t], N, U) /\ cq[q].step >= L[t + 1]
      BY <1>6 DEF Range
    <3>2. Effect(cq[q], q, w, L[t], L[t + 1], A[t], A[t + 1], S[t], S[t + 1]) /\ Landing(q, w)
      BY <1>2, <1>6, <2>1
    <3> QED BY <1>5, <3>1, <3>2, LandNow
  <2>2. CASE k # q
    <3>1. L[t + 1] = L[t] /\ A[t + 1] = A[t] /\ S[t + 1] = S[t]
      BY <1>2, <1>6, <2>2 DEF Effect
    <3>2. Awake(q) => Awake(q)'
      BY <1>2, ArmLand DEF Awake, EventInFlight
    <3>3. Now(q, L[t], A[t], S[t], B, N, U, c)'
      BY <1>2, <1>5, <2>2, <3>2, NowFrame
    <3> QED BY <3>1, <3>3
  <2> QED BY <2>1, <2>2
<1> QED BY <1>2, <1>3, <1>4, <1>6, LandSound

\* A step of the driver that writes no register and touches nothing of this queue's.
LEMMA StayElsewhere ==
    ASSUME IInv, NEW q \in Queues, Sound(q), UNCHANGED <<hw_vars, held, mmio>>,
           buf'[q] = buf[q], slots'[q] = slots[q], cq'[q] = cq[q],
           napi'[q].done = napi[q].done, cq[q].pc = "open" /\ Awake(q) => Awake(q)'
    PROVE  Sound(q)'
<1>1. PICK h, t, z, L, A, S, B, N, U, c : Parts(q, h, t, z, L, A, S, B, N, U, c)
  BY Unfold
<1> USE <1>1 DEF Parts
<1>2. pipe' = pipe /\ mmio' = mmio /\ held' = held /\ UNCHANGED hw_vars
  BY DEF hw_vars
<1>3. L[t] \in Int /\ A[t] \in Int /\ S[t] \in Int
  OBVIOUS
<1>4. Chain(q, B, N, c)' /\ Now(q, L[t], A[t], S[t], B, N, U, c)'
  BY <1>2, <1>3, ChainFrame, NowFrame
<1>5. Made(q, z, A, S, U)'
  BY DEF Made
<1> QED BY <1>2, <1>4, <1>5, StaySound

\* An interrupt, the start or the completion of a poll.
LEMMA QuietSound ==
    ASSUME IInv, NEW q \in Queues, Sound(q), NEW k \in Queues, Quiet(k)
    PROVE  Sound(q)'
<1>1. /\ UNCHANGED <<hw_vars, held, mmio>> /\ buf'[q] = buf[q] /\ slots'[q] = slots[q]
      /\ cq'[q] = cq[q] /\ napi'[q].done = napi[q].done /\ mmio' = mmio
      /\ pipe' = pipe /\ event' = event
  BY DEF Quiet, hw_vars
<1>2. ASSUME cq[q].pc = "open", Awake(q)
      PROVE  Awake(q)'
  <2>1. CASE q = k
    BY <1>2, <2>1 DEF Quiet, Awake
  <2>2. CASE q # k
    <3>1. napi'[q] = napi[q] /\ pending'[q] = pending[q]
      BY <2>2 DEF Quiet
    <3> QED BY <1>1, <1>2, <3>1 DEF Awake, ArmInFlight, EventInFlight
  <2> QED BY <2>1, <2>2
<1> QED BY <1>1, <1>2, StayElsewhere

\* The record at the driver's pointer is ready: the queue works, and it is its record.
LEMMA ReadyRecord ==
    ASSUME IInv, NEW q \in Queues, NEW l \in Int, NEW s \in Int, NEW B \in Int, NEW N \in Int,
           NEW U \in Int, NEW c, Working(q, l, s, B, N, U, c), Blank(q, l, U), l <= 9,
           cq[q].step >= 1, cq[q].cons = U % PtrMod, RecordReady(q)
    PROVE  l = 9 /\ U < N /\ Rec(q, U, U) /\ ~Rec(q, U, U - 2^cq[q].log_size)
<1>1. PICK m : m = cq[q].log_size
  OBVIOUS
<1>2. m \in LogSizes \cup {0}
  BY <1>1 DEF IInv, TypeOK, Cqs
<1>3. PICK n \in Nat \ {0} : n = 2^m
  BY <1>2, Sizes
<1>4. Slot(U % PtrMod, m) = U % n /\ U % n \in Ptrs
  BY <1>2, <1>3, SlotOf
<1>5. buf[q][U % n].phase = Phase(U % PtrMod, m)
  BY <1>1, <1>4 DEF RecordReady
<1>6. l = 9
  <2> SUFFICES ASSUME l < 9 PROVE FALSE
    OBVIOUS
  <2>1. U = 0 /\ ~buf[q][U % n].phase
    BY <1>4 DEF Blank, NoRecord
  <2>2. 0 \in Int /\ 0 <= 0 /\ 0 < 2^m
    BY <1>3
  <2>3. Phase(0 % PtrMod, m)
    BY <1>2, <2>2, PhaseFirst
  <2> QED BY <1>5, <2>1, <2>3
<1>7. ~Rec(q, U, U - n)
  <2>1. PICK j \in Int : j = U - n
    OBVIOUS
  <2>2. Phase((j + n) % PtrMod, m) <=> ~Phase(j % PtrMod, m)
    BY <1>2, <1>3, PhaseFlip
  <2>3. j + n = U
    BY <2>1
  <2>4. buf[q][U % n].phase <=> ~Phase(j % PtrMod, m)
    BY <1>5, <2>2, <2>3
  <2> QED BY <1>1, <1>3, <2>1, <2>4 DEF Rec
<1>8. U <= U /\ U < U + n
  OBVIOUS
<1>9. U < N /\ Rec(q, U, U)
  BY <1>1, <1>3, <1>6, <1>7, <1>8 DEF Working, Filled
<1> QED BY <1>1, <1>3, <1>6, <1>7, <1>9

\* A record is consumed: its slot may be written again.
LEMMA ConsumeFilled ==
    ASSUME IInv, NEW q \in Queues, NEW B \in Int, NEW N \in Int, NEW U \in Int, NEW c \in Chains,
           Filled(q, B, N, U, c), Rec(q, U, U), ~Rec(q, U, U - 2^cq[q].log_size)
    PROVE  Filled(q, B, N, U + 1, c)
<1>1. PICK m : m = cq[q].log_size
  OBVIOUS
<1>2. m \in LogSizes \cup {0}
  BY <1>1 DEF IInv, TypeOK, Cqs
<1>3. PICK n \in Nat \ {0} : n = 2^m
  BY <1>2, Sizes
<1>4. /\ \A k \in Int : U <= k /\ k < U + n => (k < N /\ Rec(q, k, k)) \/ Rec(q, k, k - n)
      /\ \A k \in Int : B < k /\ k <= N /\ Unwritten(c[k]) =>
            U <= k - 1 /\ Rec(q, k - 1, k - 1 - n)
      /\ ~Rec(q, U, U - n)
  BY <1>1, <1>3 DEF Filled
<1>5. ASSUME NEW k \in Int, U + 1 <= k, k < (U + 1) + n
      PROVE  (k < N /\ Rec(q, k, k)) \/ Rec(q, k, k - n)
  <2>1. CASE k < U + n
    BY <1>4, <1>5, <2>1
  <2>2. CASE k = U + n
    <3>1. k - n = U
      BY <2>2
    <3>2. k % n = U % n
      <4>1. PICK y \in Int : y = 1
        OBVIOUS
      <4>2. (U + y * n) % n = U % n
        BY Multiple
      <4>3. U + y * n = k
        BY <2>2, <4>1
      <4> QED BY <4>2, <4>3
    <3>3. Rec(q, k, U)
      BY <1>1, <1>3, <3>2 DEF Rec
    <3> QED BY <3>1, <3>3
  <2> QED BY <1>5, <2>1, <2>2
<1>6. ASSUME NEW k \in Int, B < k, k <= N, Unwritten(c[k])
      PROVE  U + 1 <= k - 1 /\ Rec(q, k - 1, k - 1 - n)
  <2>1. U <= k - 1 /\ Rec(q, k - 1, k - 1 - n)
    BY <1>4, <1>6
  <2>2. k - 1 # U
    BY <1>4, <2>1
  <2> QED BY <2>1, <2>2
<1> QED BY <1>1, <1>3, <1>5, <1>6 DEF Filled

\* What is consumed changes neither the hardware nor the buffer.
LEMMA ConsumeNow ==
    ASSUME IInv, NEW q \in Queues, Consuming(q),
           NEW l \in Int, NEW a \in Int, NEW s \in Int, NEW B \in Int, NEW N \in Int,
           NEW U \in Int, NEW c \in Chains, l <= 9, Now(q, l, a, s, B, N, U, c),
           cq[q].step >= 1, cq[q].cons = U % PtrMod
    PROVE  Now(q, l, a, s, B, N, U + 1, c)'
<1>1. /\ UNCHANGED hw_vars /\ held' = held /\ buf' = buf /\ slots' = slots /\ mmio' = mmio
      /\ cq'[q].pc = cq[q].pc /\ cq'[q].step = cq[q].step
      /\ cq'[q].log_size = cq[q].log_size /\ cq'[q].base = cq[q].base
      /\ napi'[q].state = "poll" /\ RecordReady(q)
  BY DEF Consuming
<1>2. /\ Word(q, l) /\ Idle(q, l) /\ Room(q, l, a, B, N) /\ Working(q, l, s, B, N, U, c)
      /\ Blank(q, l, U) /\ Armed(q, l, a, B) /\ JobsFit(q) /\ RespFits(q)
  BY DEF Now
<1>3. l = 9 /\ U < N /\ Rec(q, U, U) /\ ~Rec(q, U, U - 2^cq[q].log_size)
  BY <1>1, <1>2, ReadyRecord
<1>4. Filled(q, B, N, U + 1, c)
  BY <1>2, <1>3, ConsumeFilled DEF Working
<1>5. Now(q, l, a, s, B, N, U + 1, c)
  <2>1. Working(q, l, s, B, N, U + 1, c)
    BY <1>2, <1>3, <1>4 DEF Working, Budgeted
  <2>2. Blank(q, l, U + 1)
    BY <1>3 DEF Blank
  <2> QED BY <1>2, <2>1, <2>2 DEF Now
<1>6. Awake(q)'
  BY <1>1 DEF Awake
<1>7. U + 1 \in Int
  OBVIOUS
<1> QED BY <1>1, <1>5, <1>6, <1>7, NowFrame

\* A record is consumed.
LEMMA ConsumeSound ==
    ASSUME IInv, NEW q \in Queues, Sound(q), NEW k \in Queues, Consuming(k)
    PROVE  Sound(q)'
<1>1. CASE q # k
  <2>1. /\ UNCHANGED <<hw_vars, held, mmio>> /\ buf'[q] = buf[q] /\ slots'[q] = slots[q]
        /\ cq'[q] = cq[q] /\ napi'[q] = napi[q] /\ pending' = pending /\ mmio' = mmio
        /\ pipe' = pipe /\ event' = event
    BY <1>1 DEF Consuming, hw_vars
  <2>2. Awake(q) => Awake(q)'
    BY <2>1 DEF Awake, ArmInFlight, EventInFlight
  <2> QED BY <2>1, <2>2, StayElsewhere
<1>2. CASE q = k
  <2>1. PICK h, t, z, L, A, S, B, N, U, c : Parts(q, h, t, z, L, A, S, B, N, U, c)
    BY Unfold
  <2> USE <2>1 DEF Parts
  <2>2. /\ pipe' = pipe /\ mmio' = mmio /\ UNCHANGED hw_vars /\ Consuming(q) /\ TypeOK
        /\ cq'[q].step = cq[q].step /\ cq'[q].base = cq[q].base
        /\ cq'[q].log_size = cq[q].log_size /\ cq'[q].free = cq[q].free
        /\ cq'[q].cons = Inc(cq[q].cons) /\ napi'[q].done = napi[q].done + 1
        /\ napi[q].state = "poll"
    BY <1>2 DEF Consuming, hw_vars, IInv
  <2>3. cq[q].step = 9
    BY <2>2, Opened DEF IInv
  <2>4. /\ A[z] = U - napi[q].done /\ cq[q].cons = U % PtrMod /\ U >= 0
        /\ S[z] + cq[q].free + napi[q].done <= RING_SIZE + U
    BY <2>3 DEF Made
  <2>5. L[t] \in Int /\ A[t] \in Int /\ S[t] \in Int /\ L[t] <= 9 /\ U + 1 \in Int
    OBVIOUS
  <2>6. Now(q, L[t], A[t], S[t], B, N, U + 1, c)'
    BY <2>2, <2>3, <2>4, <2>5, ConsumeNow
  <2>7. Chain(q, B, N, c)'
    BY <2>2, ChainFrame
  <2>8. Range(t, z, L, A, S, N, U + 1)
    <3> SUFFICES ASSUME NEW p \in Int, t <= p, p <= z
                 PROVE  Within(L[p], A[p], S[p], N, U + 1)
      BY DEF Range
    <3>1. Within(L[p], A[p], S[p], N, U)
      BY DEF Range
    <3>2. A[p] \in Int
      OBVIOUS
    <3> QED BY <3>1, <3>2 DEF Within
  <2>9. Made(q, z, A, S, U + 1)'
    <3>1. Inc(U % PtrMod) = (U + 1) % PtrMod
      BY Residues
    <3>2. A[z] \in Int /\ S[z] \in Int /\ napi[q].done \in Nat /\ cq[q].free \in Nat
      BY <2>2 DEF TypeOK, Cqs, Napis
    <3>3. cq'[q].cons = (U + 1) % PtrMod
      BY <2>2, <2>4, <3>1
    <3>4. PICK d \in Nat : d = napi[q].done /\ napi'[q].done = d + 1
      BY <2>2, <3>2
    <3>5. A[z] = (U + 1) - napi'[q].done /\ U + 1 >= 0
      BY <2>4, <3>2, <3>4
    <3>6. S[z] + cq'[q].free + napi'[q].done <= RING_SIZE + (U + 1)
      BY <2>2, <2>4, <3>2, <3>4, CplDriverAssumption
    <3> QED BY <3>3, <3>5, <3>6 DEF Made
  <2> QED BY <2>2, <2>5, <2>6, <2>7, <2>8, <2>9, StaySound
<1> QED BY <1>1, <1>2

\* The port stops once every queue has its descriptors.
LEMMA StopSound ==
    ASSUME IInv, NEW q \in Queues, Sound(q), Stopping("open", "stopping"),
           \A k \in Queues : slots'[k] = 0, \A k \in 1 .. Len(mmio) : mmio[k].op # "ring"
    PROVE  Sound(q)'
<1>1. PICK h, t, z, L, A, S, B, N, U, c : Parts(q, h, t, z, L, A, S, B, N, U, c)
  BY Unfold
<1> USE <1>1 DEF Parts
<1>2. /\ pipe' = pipe /\ mmio' = mmio /\ UNCHANGED hw_vars /\ held' = held /\ buf' = buf
      /\ queue_ram' = queue_ram /\ resp' = resp /\ TypeOK /\ napi' = napi
      /\ cq[q].pc = "open" /\ cq'[q].pc = "stopping"
      /\ cq'[q].step = cq[q].step /\ cq'[q].base = cq[q].base /\ cq'[q].cons = cq[q].cons
      /\ cq'[q].log_size = cq[q].log_size /\ cq'[q].free = cq[q].free
  BY DEF Stopping, hw_vars, IInv
<1>3. cq[q].step = 9
  BY <1>2, Opened DEF IInv
<1>4. L[t] \in Int /\ A[t] \in Int /\ S[t] \in Int /\ L[t] <= 9
  OBVIOUS
<1>5. L[t] = 9
  <2> SUFFICES ASSUME L[t] < 9 PROVE FALSE
    BY <1>4
  <2>1. L[Done(h)] < 9 /\ 9 <= L[End(h)] /\ 9 \in Int
    BY <1>3 DEF Span
  <2>2. OnTheWay(cq[q], q, 9)
    BY <1>2, <2>1, Crossing
  <2>3. \A w : Opens(cq[q], w, 9) => w.op = "ring"
    BY DEF Opens
  <2>4. PICK k \in 1 .. Len(mmio) : mmio[k].addr = q /\ mmio[k].op = "ring"
    BY <2>2, <2>3 DEF OnTheWay, SetOps
  <2> QED BY <2>4
<1>6. /\ Word(q, 9) /\ Idle(q, 9) /\ Room(q, 9, A[t], B, N) /\ Working(q, 9, S[t], B, N, U, c)
      /\ Blank(q, 9, U) /\ Armed(q, 9, A[t], B) /\ JobsFit(q) /\ RespFits(q)
  BY <1>5 DEF Now
<1>7. Chain(q, B, N, c)'
  BY <1>2, ChainFrame
<1>8. Now(q, 9, A[t], S[t], B, N, U, c)'
  <2>1. Word(q, 9)' /\ Room(q, 9, A[t], B, N)' /\ Blank(q, 9, U)' /\ RespFits(q)'
    BY <1>2, <1>6 DEF Word, Room, Blank, RespFits
  <2>2. Idle(q, 9)'
    BY <1>2 DEF Idle
  <2>3. Doing(q, "commit")' <=> Doing(q, "commit")
    BY <1>2 DEF Doing
  <2>4. Armed(q, 9, A[t], B)'
    BY <1>2, <1>6, <2>3 DEF Armed
  <2>5. Granted' = Granted
    BY <1>2 DEF Granted
  <2>6. JobsFit(q)'
    BY <1>2, <1>6, <2>5 DEF JobsFit
  <2>7. Budgeted(q, S[t], N, U)'
    <3>1. Count(q)' = Count(q) /\ Count(q) \in Int /\ slots[q] \in Nat /\ slots'[q] = 0
      BY <1>2 DEF Count, Doing, TypeOK
    <3> QED BY <1>4, <1>6, <3>1 DEF Working, Budgeted
  <2>8. Filled(q, B, N, U, c)'
    <3>1. Filled(q, B, N, U, c)
      BY <1>6 DEF Working
    <3>2. \A k, j : Rec(q, k, j)' <=> Rec(q, k, j)
      BY <1>2 DEF Rec
    <3>3. \A i : Unwritten(i)' <=> Unwritten(i)
      BY <2>5 DEF Unwritten
    <3>4. PICK n : n = 2^cq[q].log_size /\ n = 2^cq'[q].log_size
      BY <1>2
    <3> QED BY <3>1, <3>2, <3>3, <3>4 DEF Filled
  <2>9. Working(q, 9, S[t], B, N, U, c)'
    BY <2>7, <2>8 DEF Working
  <2> QED BY <2>1, <2>2, <2>4, <2>6, <2>9 DEF Now
<1>9. Now(q, L[t], A[t], S[t], B, N, U, c)'
  BY <1>5, <1>8
<1>10. Made(q, z, A, S, U)'
  BY <1>2 DEF Made
<1> QED BY <1>2, <1>7, <1>9, <1>10, StaySound

\* It is down once every queue is at rest.
LEMMA DownSound ==
    ASSUME IInv, NEW q \in Queues, Sound(q), Stopping("stopping", "down"), slots' = slots,
           Drained(q)
    PROVE  Sound(q)'
<1>1. PICK h, t, z, L, A, S, B, N, U, c : Parts(q, h, t, z, L, A, S, B, N, U, c)
  BY Unfold
<1> USE <1>1 DEF Parts
<1>2. /\ pipe' = pipe /\ mmio' = mmio /\ UNCHANGED hw_vars /\ held' = held /\ buf' = buf
      /\ queue_ram' = queue_ram /\ resp' = resp /\ op_table' = op_table /\ napi' = napi
      /\ cq[q].pc = "stopping" /\ cq'[q].pc = "down"
      /\ cq'[q].step = cq[q].step /\ cq'[q].base = cq[q].base /\ cq'[q].cons = cq[q].cons
      /\ cq'[q].log_size = cq[q].log_size /\ cq'[q].free = cq[q].free
  BY DEF Stopping, hw_vars
<1>3. L[t] \in Int /\ A[t] \in Int /\ S[t] \in Int
  OBVIOUS
<1>4. /\ Word(q, L[t]) /\ Idle(q, L[t]) /\ Room(q, L[t], A[t], B, N)
      /\ Working(q, L[t], S[t], B, N, U, c)
      /\ Blank(q, L[t], U) /\ Armed(q, L[t], A[t], B) /\ JobsFit(q) /\ RespFits(q)
  BY DEF Now
<1>5. Chain(q, B, N, c)'
  BY <1>2, ChainFrame
<1>6. Now(q, L[t], A[t], S[t], B, N, U, c)'
  <2>1. Word(q, L[t])' /\ Room(q, L[t], A[t], B, N)' /\ Blank(q, L[t], U)' /\ RespFits(q)'
    BY <1>2, <1>4 DEF Word, Room, Blank, RespFits
  <2>2. Drained(q)'
    BY <1>2 DEF Drained
  <2>3. Idle(q, L[t])'
    BY <1>2, <1>4, <2>2 DEF Idle
  <2>4. Doing(q, "commit")' <=> Doing(q, "commit")
    BY <1>2 DEF Doing
  <2>5. Armed(q, L[t], A[t], B)'
    BY <1>2, <1>4, <2>4 DEF Armed
  <2>6. Granted' = Granted
    BY <1>2 DEF Granted
  <2>7. JobsFit(q)'
    BY <1>2, <1>4, <2>6 DEF JobsFit
  <2>8. Budgeted(q, S[t], N, U) => Budgeted(q, S[t], N, U)'
    BY <1>2 DEF Budgeted, Count, Doing
  <2>9. Filled(q, B, N, U, c) => Filled(q, B, N, U, c)'
    <3>1. \A k, j : Rec(q, k, j)' <=> Rec(q, k, j)
      BY <1>2 DEF Rec
    <3>2. \A i : Unwritten(i)' <=> Unwritten(i)
      BY <2>6 DEF Unwritten
    <3>3. PICK n : n = 2^cq[q].log_size /\ n = 2^cq'[q].log_size
      BY <1>2
    <3> QED BY <3>1, <3>2, <3>3 DEF Filled
  <2>10. Working(q, L[t], S[t], B, N, U, c)'
    BY <1>4, <2>8, <2>9 DEF Working
  <2> QED BY <2>1, <2>3, <2>5, <2>7, <2>10 DEF Now
<1>7. Made(q, z, A, S, U)'
  BY <1>2 DEF Made
<1> QED BY <1>2, <1>5, <1>6, <1>7, StaySound

\* A job that has written its record is no longer one that is to write it.
LEMMA JobWrites ==
    ASSUME IInv, NEW h, NEW g, Writing(h, g)
    PROVE  /\ h \in Granted /\ h \in Jobs
           /\ \A x \in Granted' : x = g \/ (x \in Granted /\ x # h)
           /\ \A i : Unwritten(i)' => Unwritten(i) /\ i # h.op_tag
<1>1. /\ h \in held /\ ~h.written /\ g.written /\ held' = (held \ {h}) \cup {g}
      /\ resp' = resp /\ h \in Jobs /\ TagsExclusive /\ RespNotHeld
  BY DEF Writing, hw_vars, IInv, TypeOK, GrantInv
<1>2. h \in Granted
  BY <1>1 DEF Granted
<1>3. ASSUME NEW x \in Granted'
      PROVE  x = g \/ (x \in Granted /\ x # h)
  <2>1. x \in held' \/ (IsGrant(resp) /\ x = Job(resp))
    BY <1>1 DEF Granted, IsGrant
  <2>2. CASE x \in held'
    BY <1>1, <2>2 DEF Granted
  <2>3. CASE IsGrant(resp) /\ x = Job(resp)
    BY <1>1, <2>3 DEF Granted, RespNotHeld
  <2> QED BY <2>1, <2>2, <2>3
<1>4. ASSUME NEW i, Unwritten(i)'
      PROVE  Unwritten(i) /\ i # h.op_tag
  <2>1. PICK x \in Granted' : x.op_tag = i /\ ~x.written
    BY <1>4 DEF Unwritten
  <2>2. x \in Granted /\ x # h
    BY <1>1, <1>3, <2>1
  <2>3. x.op_tag # h.op_tag
    BY <1>1, <1>2, <2>2 DEF TagsExclusive
  <2> QED BY <2>1, <2>2, <2>3 DEF Unwritten
<1> QED BY <1>1, <1>2, <1>3, <1>4

\* The slot of a job: it is ahead of the driver, in the order of the reservations.
Placed(q, h, B, N, U, c) ==
    \E k \in Int : /\ B < k /\ k <= N /\ c[k] = h.op_tag
                  /\ h.ptr = (k - 1) % PtrMod
                  /\ U <= k - 1 /\ k - 1 < U + 2^cq[q].log_size
                  /\ N <= U + 2^cq[q].log_size

\* A job that waits for its write is in the chain, and in the window of the queue.
LEMMA JobPlace ==
    ASSUME IInv, NEW h \in Granted, NEW q \in Queues, h.queue = q, h.op_tag \in OpIdx,
           h.ptr \in Ptrs, ~h.written,
           NEW a \in Int, NEW s \in Int, NEW B \in Int, NEW N \in Int, NEW U \in Int,
           NEW c \in Chains, Chain(q, B, N, c), Now(q, 9, a, s, B, N, U, c), a <= U
    PROVE  Placed(q, h, B, N, U, c)
<1>1. op_table[h.op_tag].active /\ op_table[h.op_tag].queue = q
      /\ op_table[h.op_tag].queue_ptr = Inc(h.ptr)
  BY DEF IInv, GrantInv, TagsExclusive
<1>2. PICK k \in Int : B < k /\ k <= N /\ c[k] = h.op_tag
  BY <1>1 DEF Chain, Mine
<1>3. Inc(h.ptr) = k % PtrMod
  BY <1>1, <1>2 DEF Chain
<1>4. h.ptr = (k - 1) % PtrMod
  BY <1>3, Predecessor
<1>5. Unwritten(c[k])
  BY <1>2 DEF Unwritten
<1>6. Word(q, 9) /\ Room(q, 9, a, B, N) /\ Filled(q, B, N, U, c)
  BY DEF Now, Working
<1>7. PICK n : n = 2^cq[q].log_size
  OBVIOUS
<1>8. n \in Nat
  <2>1. cq[q].log_size \in LogSizes \cup {0}
    BY DEF IInv, TypeOK, Cqs
  <2> QED BY <1>7, <2>1, Sizes
<1>9. N - a <= n
  BY <1>6, <1>7 DEF Word, Room
<1>10. U <= k - 1
  BY <1>2, <1>5, <1>6 DEF Filled
<1> QED BY <1>2, <1>4, <1>7, <1>8, <1>9, <1>10 DEF Placed

\* The record of a job is written to its slot: the others keep theirs.
LEMMA WriteFilled ==
    ASSUME IInv, NEW h, NEW g, Writing(h, g), NEW q \in Queues, h.queue = q,
           NEW a \in Int, NEW s \in Int, NEW B \in Int, NEW N \in Int, NEW U \in Int,
           NEW c \in Chains, Chain(q, B, N, c), Now(q, 9, a, s, B, N, U, c), a <= U
    PROVE  Filled(q, B, N, U, c)'
<1>1. /\ h \in Granted /\ h \in Jobs /\ ~h.written
      /\ \A i : Unwritten(i)' => Unwritten(i) /\ i # h.op_tag
  BY JobWrites DEF Writing
<1>2. h.op_tag \in OpIdx /\ h.ptr \in Ptrs /\ h.slot \in Ptrs
  BY <1>1 DEF Jobs
<1>3. PICK m : m = cq[q].log_size
  OBVIOUS
<1>4. m \in LogSizes \cup {0}
  BY <1>3 DEF IInv, TypeOK, Cqs
<1>5. PICK n \in Nat \ {0} : n = 2^m
  BY <1>4, Sizes
<1>6. PICK k \in Int : /\ B < k /\ k <= N /\ c[k] = h.op_tag /\ h.ptr = (k - 1) % PtrMod
                       /\ U <= k - 1 /\ k - 1 < U + n /\ N <= U + n
  <2>1. PICK k \in Int : /\ B < k /\ k <= N /\ c[k] = h.op_tag /\ h.ptr = (k - 1) % PtrMod
                         /\ U <= k - 1 /\ k - 1 < U + 2^cq[q].log_size
                         /\ N <= U + 2^cq[q].log_size
    <3>1. Placed(q, h, B, N, U, c)
      BY <1>1, <1>2, JobPlace
    <3> QED BY <3>1 DEF Placed
  <2> QED BY <1>3, <1>5, <2>1
<1>7. h.slot = Slot(h.ptr, m) /\ (h.phase <=> Phase(h.ptr, m))
  BY <1>1, <1>3 DEF Now, JobsFit
<1>8. PICK i \in Int : i = k - 1
  OBVIOUS
<1>9. h.slot = i % n
  BY <1>4, <1>5, <1>6, <1>7, <1>8, SlotOf
<1>10. cq' = cq /\ n = 2^cq[q].log_size /\ n = 2^cq'[q].log_size /\ m = cq'[q].log_size
  BY <1>3, <1>5 DEF Writing
<1>11. Rec(q, i, i)'
  <2>1. buf'[q][i % n].phase = h.phase /\ buf'[q][i % n].ptr = h.ptr
    BY <1>9 DEF Writing
  <2> QED BY <1>6, <1>7, <1>8, <1>10, <2>1 DEF Rec
<1>12. ASSUME NEW y \in Int, NEW j \in Int, y # i, U <= y, y < U + n, Rec(q, y, j)
       PROVE  Rec(q, y, j)'
  <2>1. y % n # i % n
    <3>1. -n < i - y /\ i - y < n
      BY <1>6, <1>8, <1>12
    <3> QED BY <1>12, <3>1, SameRemainder
  <2>2. y % n \in Ptrs
    BY <1>4, <1>5, SlotOf
  <2>3. buf'[q][y % n] = buf[q][y % n]
    BY <1>9, <2>1, <2>2 DEF Writing
  <2> QED BY <1>10, <1>12, <2>3 DEF Rec
<1>13. /\ \A y \in Int : U <= y /\ y < U + n => (y < N /\ Rec(q, y, y)) \/ Rec(q, y, y - n)
       /\ \A y \in Int : B < y /\ y <= N /\ Unwritten(c[y]) =>
              U <= y - 1 /\ Rec(q, y - 1, y - 1 - n)
  BY <1>10 DEF Now, Working, Filled
<1>14. ASSUME NEW y \in Int, U <= y, y < U + n
       PROVE  (y < N /\ Rec(q, y, y)') \/ Rec(q, y, y - n)'
  <2>1. CASE y = i
    BY <1>6, <1>8, <1>11, <2>1
  <2>2. CASE y # i
    BY <1>12, <1>13, <1>14, <2>2
  <2> QED BY <2>1, <2>2
<1>15. ASSUME NEW y \in Int, B < y, y <= N, Unwritten(c[y])'
       PROVE  U <= y - 1 /\ Rec(q, y - 1, y - 1 - n)'
  <2>1. Unwritten(c[y]) /\ c[y] # h.op_tag
    BY <1>1, <1>15
  <2>2. U <= y - 1 /\ Rec(q, y - 1, y - 1 - n)
    BY <1>13, <1>15, <2>1
  <2>3. y - 1 # i
    BY <1>6, <1>8, <2>1
  <2>4. y - 1 < U + n /\ y - 1 \in Int /\ y - 1 - n \in Int
    BY <1>6, <1>15
  <2> QED BY <1>12, <2>2, <2>3, <2>4
<1> QED BY <1>10, <1>14, <1>15 DEF Filled

\* Elsewhere it changes nothing.
LEMMA WriteElsewhere ==
    ASSUME IInv, NEW h, NEW g, Writing(h, g), NEW q \in Queues, h.queue # q,
           NEW B \in Int, NEW N \in Int, NEW U \in Int, NEW c \in Chains,
           Filled(q, B, N, U, c)
    PROVE  Filled(q, B, N, U, c)'
<1>1. \A i : Unwritten(i)' => Unwritten(i)
  BY JobWrites
<1>2. cq' = cq
  BY DEF Writing
<1>3. PICK m : m = cq[q].log_size
  OBVIOUS
<1>4. m \in LogSizes \cup {0}
  BY <1>3 DEF IInv, TypeOK, Cqs
<1>5. PICK n \in Nat \ {0} : n = 2^cq[q].log_size /\ n = 2^cq'[q].log_size /\ n = 2^m
  BY <1>2, <1>3, <1>4, Sizes
<1>6. ASSUME NEW y \in Int, NEW j \in Int, Rec(q, y, j)
      PROVE  Rec(q, y, j)'
  <2>1. y % n \in Ptrs
    BY <1>4, <1>5, SlotOf
  <2>2. buf'[q][y % n] = buf[q][y % n]
    BY <2>1 DEF Writing
  <2> QED BY <1>2, <1>5, <1>6, <2>2 DEF Rec
<1>7. ASSUME NEW y \in Int, U <= y, y < U + n
      PROVE  (y < N /\ Rec(q, y, y)') \/ Rec(q, y, y - n)'
  BY <1>5, <1>6, <1>7 DEF Filled
<1>8. ASSUME NEW y \in Int, B < y, y <= N, Unwritten(c[y])'
      PROVE  U <= y - 1 /\ Rec(q, y - 1, y - 1 - n)'
  <2>1. y - 1 \in Int /\ y - 1 - n \in Int
    OBVIOUS
  <2> QED BY <1>1, <1>5, <1>6, <1>8, <2>1 DEF Filled
<1> QED BY <1>5, <1>7, <1>8 DEF Filled

\* A record is written, of this queue or of another.
LEMMA WritingSound ==
    ASSUME IInv, NEW q \in Queues, Sound(q), NEW h, NEW g, Writing(h, g)
    PROVE  Sound(q)'
<1>1. PICK i, t, z, L, A, S, B, N, U, c : Parts(q, i, t, z, L, A, S, B, N, U, c)
  BY Unfold
<1> USE <1>1 DEF Parts
<1>2. /\ pipe' = pipe /\ mmio' = mmio /\ UNCHANGED hw_vars /\ cq' = cq /\ napi' = napi
      /\ queue_ram' = queue_ram /\ resp' = resp /\ op_table' = op_table /\ slots' = slots
      /\ event' = event /\ pending' = pending
  BY DEF Writing, hw_vars
<1>3. L[t] \in Int /\ A[t] \in Int /\ S[t] \in Int /\ L[t] <= 9
  OBVIOUS
<1>4. /\ Word(q, L[t]) /\ Idle(q, L[t]) /\ Room(q, L[t], A[t], B, N)
      /\ Working(q, L[t], S[t], B, N, U, c)
      /\ Blank(q, L[t], U) /\ Armed(q, L[t], A[t], B) /\ JobsFit(q) /\ RespFits(q)
  BY DEF Now
<1>5. /\ h \in Granted /\ h \in Jobs
      /\ \A x \in Granted' : x = g \/ (x \in Granted /\ x # h)
  BY JobWrites
<1>6. Chain(q, B, N, c)'
  BY <1>2, ChainFrame
<1>7. h.queue = q => L[t] = 9 /\ cq[q].pc # "down"
  BY <1>3, <1>4 DEF Idle, Drained, Writing
<1>8. JobsFit(q)'
  <2> SUFFICES ASSUME NEW x \in Granted', x.queue = q
               PROVE  /\ x.base = cq[q].base
                      /\ x.slot = Slot(x.ptr, cq[q].log_size)
                      /\ x.phase <=> Phase(x.ptr, cq[q].log_size)
    BY <1>2 DEF JobsFit
  <2>1. CASE x = g
    BY <1>4, <1>5, <2>1 DEF JobsFit, Writing
  <2>2. CASE x \in Granted
    BY <1>4, <2>2 DEF JobsFit
  <2> QED BY <1>5, <2>1, <2>2
<1>9. Word(q, L[t])' /\ Room(q, L[t], A[t], B, N)' /\ RespFits(q)'
  BY <1>2, <1>4 DEF Word, Room, RespFits
<1>10. Idle(q, L[t])'
  <2>1. h.queue # q /\ Drained(q) => Drained(q)'
    BY <1>2 DEF Drained, Writing
  <2> QED BY <1>2, <1>4, <1>7, <2>1 DEF Idle
<1>11. Armed(q, L[t], A[t], B)'
  <2>1. Doing(q, "commit")' <=> Doing(q, "commit")
    BY <1>2 DEF Doing
  <2>2. Awake(q) => Awake(q)'
    BY <1>2 DEF Awake, ArmInFlight, EventInFlight
  <2> QED BY <1>2, <1>4, <2>1, <2>2 DEF Armed, Reliable
<1>12. Working(q, L[t], S[t], B, N, U, c)'
  <2> SUFFICES ASSUME L[t] = 9
               PROVE  Budgeted(q, S[t], N, U)' /\ Filled(q, B, N, U, c)'
    BY DEF Working
  <2>1. Budgeted(q, S[t], N, U)'
    BY <1>2, <1>4 DEF Working, Budgeted, Count, Doing
  <2>2. CASE h.queue # q
    <3>1. Filled(q, B, N, U, c)'
      BY <1>4, <2>2, WriteElsewhere DEF Working
    <3> QED BY <2>1, <3>1
  <2>3. CASE h.queue = q
    <3>1. Within(L[t], A[t], S[t], N, U)
      BY DEF Range
    <3>2. A[t] <= U /\ Now(q, 9, A[t], S[t], B, N, U, c)
      BY <3>1 DEF Within
    <3>3. Filled(q, B, N, U, c)'
      BY <1>3, <2>3, <3>2, WriteFilled
    <3> QED BY <2>1, <3>3
  <2> QED BY <2>2, <2>3
<1>13. Blank(q, L[t], U)'
  <2>1. CASE h.queue = q
    BY <1>7, <2>1 DEF Blank
  <2>2. CASE h.queue # q
    <3>1. \A p \in Ptrs : buf'[q][p] = buf[q][p]
      BY <2>2 DEF Writing
    <3> QED BY <1>2, <1>4, <3>1 DEF Blank
  <2> QED BY <2>1, <2>2
<1>14. Now(q, L[t], A[t], S[t], B, N, U, c)'
  BY <1>8, <1>9, <1>10, <1>11, <1>12, <1>13 DEF Now
<1>15. Made(q, z, A, S, U)'
  BY <1>2 DEF Made
<1> QED BY <1>2, <1>6, <1>14, <1>15, StaySound

\* The steps outside the clock keep every queue in order.
LEMMA OutsideSound ==
    ASSUME IInv, Outside, NEW q \in Queues, Sound(q)
    PROVE  Sound(q)'
<1>1. ASSUME NEW k \in Queues, NEW w, Opening(k, w) PROVE Sound(q)'
  <2>1. CASE k = q
    BY <1>1, <2>1, OpenSound
  <2>2. CASE k # q
    <3>1. /\ UNCHANGED <<hw_vars, held>> /\ Posts(w) /\ w.addr # q /\ buf'[q] = buf[q]
          /\ slots'[q] = slots[q] /\ cq'[q] = cq[q] /\ napi'[q] = napi[q]
          /\ pending'[q] = pending[q]
      BY <1>1, <2>2 DEF Opening
    <3> QED BY <3>1, PostElsewhere
  <2> QED BY <2>1, <2>2
<1>2. ASSUME NEW k \in Queues, NEW w, Refilling(k, w) PROVE Sound(q)'
  <2>1. CASE k = q
    BY <1>2, <2>1, RefillSound
  <2>2. CASE k # q
    <3>1. /\ UNCHANGED <<hw_vars, held>> /\ Posts(w) /\ w.addr # q /\ buf'[q] = buf[q]
          /\ slots'[q] = slots[q] /\ cq'[q] = cq[q] /\ napi'[q] = napi[q]
          /\ pending'[q] = pending[q]
      BY <1>2, <2>2 DEF Refilling
    <3> QED BY <3>1, PostElsewhere
  <2> QED BY <2>1, <2>2
<1>3. ASSUME NEW k \in Queues, NEW w, Polled(k, w) PROVE Sound(q)'
  <2>1. CASE k = q
    BY <1>3, <2>1, PolledSound
  <2>2. CASE k # q
    <3>1. /\ UNCHANGED <<hw_vars, held>> /\ Posts(w) /\ w.addr # q /\ buf'[q] = buf[q]
          /\ slots'[q] = slots[q] /\ cq'[q] = cq[q] /\ napi'[q] = napi[q]
          /\ pending'[q] = pending[q]
      BY <1>3, <2>2 DEF Polled
    <3> QED BY <3>1, PostElsewhere
  <2> QED BY <2>1, <2>2
<1>4. ASSUME NEW k \in Queues, NEW w, Arming(k, w) PROVE Sound(q)'
  <2>1. CASE k = q
    BY <1>4, <2>1, ArmSound
  <2>2. CASE k # q
    <3>1. /\ UNCHANGED <<hw_vars, held>> /\ Posts(w) /\ w.addr # q /\ buf'[q] = buf[q]
          /\ slots'[q] = slots[q] /\ cq'[q] = cq[q] /\ napi'[q] = napi[q]
          /\ pending'[q] = pending[q]
      BY <1>4, <2>2 DEF Arming
    <3> QED BY <3>1, PostElsewhere
  <2> QED BY <2>1, <2>2
<1>5. ASSUME NEW k \in Queues, NEW w, Closing(k, w) PROVE Sound(q)'
  <2>1. CASE k = q
    BY <1>5, <2>1, CloseSound
  <2>2. CASE k # q
    <3>1. /\ UNCHANGED <<hw_vars, held>> /\ Posts(w) /\ w.addr # q /\ buf'[q] = buf[q]
          /\ slots'[q] = slots[q] /\ cq'[q] = cq[q] /\ napi'[q] = napi[q]
          /\ pending'[q] = pending[q]
      BY <1>5, <2>2 DEF Closing
    <3> QED BY <3>1, PostElsewhere
  <2> QED BY <2>1, <2>2
<1>6. ASSUME NEW k \in Queues, NEW w, Landing(k, w) PROVE Sound(q)'
  BY <1>6, LandingSound
<1>7. ASSUME NEW k \in Queues, Quiet(k) PROVE Sound(q)'
  BY <1>7, QuietSound
<1>8. ASSUME NEW k \in Queues, Consuming(k) PROVE Sound(q)'
  BY <1>8, ConsumeSound
<1>9. ASSUME NEW h, NEW g, Writing(h, g) PROVE Sound(q)'
  BY <1>9, WritingSound
<1>10. ASSUME Stopping("open", "stopping"), \A k \in Queues : slots'[k] = 0,
              \A k \in 1 .. Len(mmio) : mmio[k].op # "ring"
       PROVE  Sound(q)'
  BY <1>10, StopSound
<1>11. ASSUME Stopping("stopping", "down"), slots' = slots, \A k \in Queues : Drained(k)
       PROVE  Sound(q)'
  BY <1>11, DownSound
<1> QED BY <1>1, <1>2, <1>3, <1>4, <1>5, <1>6, <1>7, <1>8, <1>9, <1>10, <1>11 DEF Outside

\* Every queue is in order after reset.
LEMMA SoundInit ==
    ASSUME Init, NEW q \in Queues
    PROVE  Sound(q)
<1>1. IInv /\ TypeOK
  BY BaseInit DEF IInv
<1>2. PICK Z : Z = [p \in Int |-> 0]
  OBVIOUS
<1>3. Z \in Lines /\ \A p \in Int : Z[p] = 0
  BY <1>2 DEF Lines
<1>4. PICK c : c = [p \in Int |-> 0]
  OBVIOUS
<1>5. c \in Chains
  BY <1>4, Constants DEF Chains
<1>6. /\ queue_ram[q] = ResetWord /\ op_table = [i \in OpIdx |-> FreeEntry] /\ resp = NoResp
      /\ held = {} /\ slots[q] = 0 /\ mmio = <<>> /\ cq[q] = CqClosed /\ napi[q] = NapiIdle
      /\ \A j \in Stages : pipe[j] = NoOp
  BY DEF Init
<1>7. /\ \A j \in Stages : pipe[j].op = "none"
      /\ \A i \in OpIdx : ~op_table[i].active
      /\ ~resp.valid /\ Len(mmio) = 0 /\ cq[q].step = 0 /\ cq[q].pc = "opening"
      /\ queue_ram[q].prod = 0 /\ queue_ram[q].cons = 0 /\ queue_ram[q].log_size = 0
  BY <1>6 DEF NoOp, FreeEntry, NoResp, CqClosed, ResetWord
<1>8. ~InPipe(SetOps)
  BY <1>7 DEF InPipe, SetOps
<1>9. PICK o \in Int : o = 1
  OBVIOUS
<1>10. Done(o) = 0 /\ End(o) = 0
  BY <1>7, <1>8, <1>9 DEF Done, End
<1>11. Way(cq[q], q, o, Z, Z, Z)
  <2>1. \A k \in 1 .. Len(mmio) : At(cq[q], q, mmio[k], o + k - 1, Z, Z, Z)
    BY <1>7
  <2>2. \A j \in Stages : pipe[j].op \notin SetOps
    BY <1>7 DEF SetOps
  <2> QED BY <1>3, <2>1, <2>2 DEF Way
<1>12. Bus(q, o, Z, Z, Z)
  BY <1>3, <1>7, <1>10, <1>11 DEF Bus
<1>13. ~Doing(q, "commit") /\ ~Doing(q, "req")
  BY <1>7 DEF Doing
<1>14. Chain(q, 0, 0, c)
  <2>1. queue_ram[q].prod = 0 % PtrMod
    BY <1>7, Residues
  <2>2. \A k \in Int : ~(0 < k /\ k <= 0)
    OBVIOUS
  <2>3. \A k, l \in Int : ~(0 < k /\ k <= l /\ l <= 0)
    OBVIOUS
  <2>4. \A i \in OpIdx : ~Mine(q, i)
    BY <1>7 DEF Mine
  <2> QED BY <1>13, <2>1, <2>2, <2>3, <2>4 DEF Chain
<1>15. Drained(q) /\ Granted = {}
  BY <1>6, <1>7 DEF Drained, Granted, IsGrant
<1>16. Now(q, 0, 0, 0, 0, 0, 0, c)
  <2>1. Word(q, 0)
    BY DEF Word
  <2>2. Idle(q, 0)
    BY <1>6, <1>7, <1>15 DEF Idle
  <2>3. Room(q, 0, 0, 0, 0)
    <3>1. 2^0 = 1 /\ 0 % PtrMod = 0
      BY CplSizesAssumption, Residues
    <3> QED BY <1>7, <3>1 DEF Room
  <2>4. Working(q, 0, 0, 0, 0, 0, c) /\ Armed(q, 0, 0, 0)
    BY DEF Working, Armed
  <2>5. Blank(q, 0, 0)
    BY <1>7 DEF Blank
  <2>6. JobsFit(q) /\ RespFits(q)
    BY <1>7, <1>15 DEF JobsFit, RespFits
  <2> QED BY <2>1, <2>2, <2>3, <2>4, <2>5, <2>6 DEF Now
<1>17. Range(0, 0, Z, Z, Z, 0, 0)
  BY <1>3 DEF Range, Within
<1>18. Made(q, 0, Z, Z, 0)
  BY <1>7 DEF Made
<1>19. Ghost(q, o, Z, Z, Z, 0, 0, 0, c)
  <2>1. Z[0] = 0
    BY <1>3
  <2> QED BY <1>10, <1>12, <1>14, <1>16, <1>17, <1>18, <2>1 DEF Ghost
<1>20. \E h, B, N, U \in Int : \E L, A, S \in Lines : \E x \in Chains :
           Ghost(q, h, L, A, S, B, N, U, x)
  <2>1. PICK y \in Int : y = 0
    OBVIOUS
  <2>2. Ghost(q, o, Z, Z, Z, y, y, y, c)
    BY <1>19, <2>1
  <2> QED BY <1>3, <1>5, <2>2
<1> QED BY <1>20 DEF Sound

\* A step of the system keeps the invariant.
LEMMA InvStep ==
    ASSUME CplInv, [Next]_vars
    PROVE  CplInv'
<1>1. IInv /\ TypeOK /\ LifeInv /\ \A q \in Queues : Sound(q)
  BY DEF CplInv, IInv
<1>2. CASE Next
  <2>1. CASE \E e, r, v, done, tags : Tick(e, r, v, done, tags)
    <3>1. PICK e, r, v, done, tags : Tick(e, r, v, done, tags)
      BY <2>1
    <3>2. IInv'
      BY <1>1, <3>1, ClockBase
    <3>3. ASSUME NEW q \in Queues PROVE Sound(q)'
      BY <1>1, <3>1, ClockSound
    <3> QED BY <3>2, <3>3 DEF CplInv
  <2>2. CASE Outside
    <3>1. IInv'
      BY <1>1, <2>2, OutsideBase
    <3>2. ASSUME NEW q \in Queues PROVE Sound(q)'
      BY <1>1, <2>2, OutsideSound
    <3> QED BY <3>1, <3>2 DEF CplInv
  <2> QED BY <1>1, <1>2, <2>1, <2>2, Steps
<1>3. CASE UNCHANGED vars
  <2>1. /\ UNCHANGED <<hw_vars, held, mmio>> /\ buf' = buf /\ slots' = slots /\ cq' = cq
        /\ napi' = napi /\ pending' = pending /\ mmio' = mmio /\ pipe' = pipe
        /\ event' = event /\ queue_ram' = queue_ram /\ op_table' = op_table
        /\ op_table_start_ptr' = op_table_start_ptr
        /\ op_table_finish_ptr' = op_table_finish_ptr
        /\ resp' = resp /\ held' = held
    BY <1>3 DEF vars, hw_vars
  <2>2. ASSUME NEW q \in Queues PROVE Sound(q)'
    <3>1. Awake(q) => Awake(q)'
      BY <2>1 DEF Awake, ArmInFlight, EventInFlight
    <3> QED BY <1>1, <2>1, <3>1, StayElsewhere
  <2>3. IInv'
    <3>1. TypeOK'
      BY <1>1, <2>1 DEF TypeOK
    <3>2. LifeInv'
      BY <1>1, <2>1 DEF LifeInv, Life
    <3>3. PipeInv'
      BY <1>1, <2>1 DEF IInv, PipeInv, PipeCoherent, OneReq, OneSet
    <3>4. TableInv'
      BY <1>1, <2>1 DEF IInv, TableInv, ReqResourcesFree, OpTableRing, InRing, InPipe
    <3>5. GrantInv'
      BY <1>1, <2>1 DEF IInv, GrantInv, TagsExclusive, RespNotHeld, Granted
    <3> QED BY <3>1, <3>2, <3>3, <3>4, <3>5 DEF IInv
  <2> QED BY <2>2, <2>3 DEF CplInv
<1> QED BY <1>2, <1>3

\* The inductive invariant: the pipeline and the operation table are coherent, and every
\* queue is in order with what the driver, the bus and the hardware have of it.
THEOREM CplInvariance == Spec => []CplInv
<1>1. Init => CplInv
  BY BaseInit, SoundInit DEF CplInv
<1>2. CplInv /\ [Next]_vars => CplInv'
  BY InvStep
<1> QED BY <1>1, <1>2, PTL DEF Spec

(* What the invariant says of the records, slots, responses and wake-ups.  *)

\* The record that the driver takes for ready is that of its pointer.
LEMMA FreshNow == CplInv => RecordsFresh
<1> SUFFICES ASSUME CplInv, NEW q \in Queues, cq[q].step > 0, RecordReady(q)
             PROVE  buf[q][Slot(cq[q].cons, cq[q].log_size)].ptr = cq[q].cons
  BY DEF RecordsFresh
<1>1. IInv /\ Sound(q)
  BY DEF CplInv
<1>2. PICK h, t, z, L, A, S, B, N, U, c : Parts(q, h, t, z, L, A, S, B, N, U, c)
  BY <1>1, Unfold
<1> USE <1>2 DEF Parts
<1>3. cq[q].step >= 1
  BY <1>1 DEF IInv, TypeOK, Cqs
<1>4. cq[q].cons = U % PtrMod /\ U >= 0
  BY <1>3 DEF Made
<1>5. L[t] \in Int /\ S[t] \in Int /\ L[t] <= 9 /\ Working(q, L[t], S[t], B, N, U, c)
      /\ Blank(q, L[t], U)
  BY DEF Now
<1>6. Rec(q, U, U)
  BY <1>1, <1>3, <1>4, <1>5, ReadyRecord
<1>7. cq[q].log_size \in LogSizes \cup {0}
  BY <1>1 DEF IInv, TypeOK, Cqs
<1>8. Slot(U % PtrMod, cq[q].log_size) = U % 2^cq[q].log_size
  BY <1>7, SlotOf
<1> QED BY <1>4, <1>6, <1>8 DEF Rec

\* A slot that a job is to write is in the buffer, ahead of the driver.
LEMMA OwnedNow == CplInv => SlotsOwned
<1> SUFFICES ASSUME CplInv, NEW h \in held, ~h.written
             PROVE  /\ cq[h.queue].pc # "opening"
                    /\ h.base = cq[h.queue].base
                    /\ h.slot = Slot(h.ptr, cq[h.queue].log_size)
                    /\ Dist(cq[h.queue].cons, h.ptr) < 2^cq[h.queue].log_size
  BY DEF SlotsOwned
<1>1. h \in Jobs /\ h \in Granted
  BY DEF CplInv, IInv, TypeOK, Granted
<1>2. PICK q \in Queues : q = h.queue
  BY <1>1 DEF Jobs
<1>3. IInv /\ Sound(q) /\ h.op_tag \in OpIdx /\ h.ptr \in Ptrs
  BY <1>1 DEF CplInv, Jobs
<1>4. PICK i, t, z, L, A, S, B, N, U, c : Parts(q, i, t, z, L, A, S, B, N, U, c)
  BY <1>3, Unfold
<1> USE <1>4 DEF Parts
<1>5. L[t] \in Int /\ A[t] \in Int /\ S[t] \in Int /\ L[t] <= 9 /\ L[z] \in Int /\ L[z] <= 9
  OBVIOUS
<1>6. ~Drained(q)
  BY <1>2 DEF Drained
<1>7. L[t] = 9
  BY <1>5, <1>6 DEF Now, Idle
<1>8. cq[q].step = 9
  BY <1>5, <1>7
<1>9. cq[q].pc # "opening"
  BY <1>3, <1>8 DEF IInv, LifeInv, Life
<1>10. h.base = cq[q].base /\ h.slot = Slot(h.ptr, cq[q].log_size)
  BY <1>1, <1>2 DEF Now, JobsFit
<1>11. Within(L[t], A[t], S[t], N, U)
  BY DEF Range
<1>12. A[t] <= U /\ Now(q, 9, A[t], S[t], B, N, U, c)
  BY <1>7, <1>11 DEF Within
<1>13. Placed(q, h, B, N, U, c)
  BY <1>1, <1>2, <1>3, <1>5, <1>12, JobPlace
<1>14. PICK n : n = 2^cq[q].log_size
  OBVIOUS
<1>15. n \in Nat /\ n < PtrMod
  <2>1. cq[q].log_size \in LogSizes \cup {0}
    BY <1>3 DEF IInv, TypeOK, Cqs
  <2> QED BY <1>14, <2>1, Sizes
<1>16. PICK k \in Int : h.ptr = (k - 1) % PtrMod /\ U <= k - 1 /\ k - 1 < U + n
  BY <1>13, <1>14 DEF Placed
<1>17. PICK y \in Int : y = k - 1
  OBVIOUS
<1>18. cq[q].cons = U % PtrMod
  BY <1>8 DEF Made
<1>19. U <= y /\ y - U < PtrMod
  BY <1>15, <1>16, <1>17, CplPtrModAssumption
<1>20. Dist(U % PtrMod, y % PtrMod) = y - U
  BY <1>19, Residues
<1>21. Dist(cq[q].cons, h.ptr) < n
  BY <1>15, <1>16, <1>17, <1>18, <1>20
<1> QED BY <1>2, <1>9, <1>10, <1>14, <1>21

\* A reservation is granted if the queue is as large as its ring.
LEMMA GrantedNow == CplInv => NeverDropped
<1> SUFFICES ASSUME CplInv, resp.valid, RING_SIZE <= 2^queue_ram[resp.queue].log_size
             PROVE  ~resp.full /\ ~resp.error
  BY DEF NeverDropped
<1>1. resp \in Resps
  BY DEF CplInv, IInv, TypeOK, NoResp
<1>2. PICK q \in Queues : q = resp.queue
  BY <1>1 DEF Resps
<1>3. IInv /\ Sound(q)
  BY DEF CplInv
<1>4. PICK h, t, z, L, A, S, B, N, U, c : Parts(q, h, t, z, L, A, S, B, N, U, c)
  BY <1>3, Unfold
<1>5. RespFits(q)
  BY <1>4 DEF Parts, Now
<1> QED BY <1>2, <1>5 DEF RespFits

\* An open queue that the driver does not look at is armed and has nothing published.
LEMMA WokenNow == ASSUME Reliable PROVE CplInv => NoLostWakeup
<1> SUFFICES ASSUME CplInv, NEW q \in Queues, cq[q].pc = "open", napi[q].state = "idle",
                    napi[q].arming = 0, ~ArmInFlight(q), ~EventInFlight(q)
             PROVE  queue_ram[q].armed = 1 /\ ~Published(q)
  BY DEF NoLostWakeup
<1>1. IInv /\ Sound(q) /\ TypeOK
  BY DEF CplInv, IInv
<1>2. cq[q].step = 9
  <2>1. cq[q].step \in 0 .. 9
    BY <1>1 DEF TypeOK, Cqs
  <2>2. Life(q)
    BY <1>1 DEF IInv, LifeInv
  <2>3. cq[q].pc = "opening" <=> cq[q].step < 9
    BY <2>2 DEF Life
  <2> QED BY <2>1, <2>3
<1>3. PICK h, t, z, L, A, S, B, N, U, c : Parts(q, h, t, z, L, A, S, B, N, U, c)
  BY <1>1, Unfold
<1> USE <1>3 DEF Parts
<1>4. ~Awake(q)
  BY DEF Awake
<1>5. L[t] \in Int /\ A[t] \in Int /\ S[t] \in Int /\ L[t] <= 9
  OBVIOUS
<1>6. 8 <= L[t]
  <2> SUFFICES ASSUME L[t] < 8 PROVE FALSE
    BY <1>5
  <2>1. L[Done(h)] < 8 /\ 8 <= L[End(h)] /\ 8 \in Int
    BY <1>2 DEF Span
  <2>2. OnTheWay(cq[q], q, 8)
    BY <1>1, <2>1, Crossing
  <2> QED BY <2>2 DEF OnTheWay, Opens, ArmInFlight
<1>7. Armed(q, L[t], A[t], B) /\ queue_ram[q].armed \in Bit
  BY <1>1 DEF Now, TypeOK, Words
<1>8. queue_ram[q].armed # 0
  BY <1>4, <1>6, <1>7 DEF Armed
<1>9. queue_ram[q].armed = 1
  BY <1>7, <1>8 DEF Bit
<1>10. ~Published(q)
  <2> SUFFICES ASSUME Published(q) PROVE FALSE
    OBVIOUS
  <2>1. cq[q].cons = U % PtrMod /\ cq[q].step >= 1
    BY <1>2 DEF Made
  <2>2. Working(q, L[t], S[t], B, N, U, c) /\ Blank(q, L[t], U) /\ RecordReady(q)
    BY DEF Now, Published
  <2>3. L[t] = 9 /\ U < N
    BY <1>1, <1>5, <2>1, <2>2, ReadyRecord
  <2>4. Within(L[t], A[t], S[t], N, U)
    BY DEF Range
  <2>5. A[t] <= U
    BY <2>3, <2>4 DEF Within
  <2>6. B <= A[t] \/ (Doing(q, "commit") /\ B - 1 <= A[t])
    BY <1>6, <1>7, <1>9 DEF Armed
  <2>7. PICK k \in Int : k = U + 1
    OBVIOUS
  <2>8. Inc(cq[q].cons) = k % PtrMod
    BY <2>1, <2>7, Residues
  <2>9. CASE B < k
    <3>1. k <= N /\ Mine(q, c[k]) /\ op_table[c[k]].queue_ptr = k % PtrMod /\ c[k] \in OpIdx
      BY <2>3, <2>7, <2>9 DEF Chain, Chains
    <3> QED BY <2>8, <3>1 DEF Published, Mine
  <2>10. CASE ~(B < k)
    <3>1. PICK a \in Int : a = A[t]
      BY <1>5
    <3>2. ~(B <= a)
      BY <2>5, <2>7, <2>10, <3>1
    <3>3. (B <= a) \/ (Doing(q, "commit") /\ B - 1 <= a)
      BY <2>6, <3>1
    <3>4. Doing(q, "commit") /\ B = k
      BY <2>5, <2>7, <2>10, <3>1, <3>2, <3>3
    <3>5. Carrying(q, "commit", k % PtrMod)
      BY <3>4 DEF Chain
    <3> QED BY <2>8, <3>5 DEF Published, Carrying
  <2> QED BY <2>9, <2>10
<1> QED BY <1>9, <1>10

\* What the phase bit shows the driver is the record at its consumer pointer, for every
\* size of the queues: never one of an earlier lap, nor of an earlier life of the queue.
THEOREM RecordsAreFresh == Spec => []RecordsFresh
BY CplInvariance, FreshNow, PTL

\* A slot that the hardware is to write is in the buffer of the open queue and holds no
\* record that the driver has yet to consume.
THEOREM SlotsAreOwned == Spec => []SlotsOwned
BY CplInvariance, OwnedNow, PTL

\* No completion is dropped by a queue as large as the ring that completes on it.
THEOREM CompletionsFit == Spec => []NeverDropped
BY CplInvariance, GrantedNow, PTL

\* No wake-up is lost if no event is: one queue per event register, or an event FIFO that
\* is always ready.
THEOREM WakeupsArrive ==
    ASSUME Reliable
    PROVE  Spec => []NoLostWakeup
<1>1. CplInv => NoLostWakeup
  BY WokenNow
<1> QED BY <1>1, CplInvariance, PTL

(* The refinement of CplQueue.                                             *)

\* The shadow pointer is where the chain of the queue ends: the entry of the last
\* enqueue, the commit in the pipeline, or the word.
ShadowFact ==
    \A q \in Queues, B, N \in Int, c \in Chains :
        TypeOK /\ PipeInv /\ Chain(q, B, N, c) => ShadowPtr(q) = N % PtrMod

\* Wherever the pointer is kept, it is the end of the chain.
LEMMA ShadowNow == ShadowFact
<1> SUFFICES ASSUME NEW q \in Queues, NEW B \in Int, NEW N \in Int, NEW c \in Chains,
                    TypeOK, PipeInv, Chain(q, B, N, c)
             PROVE  ShadowPtr(q) = N % PtrMod
  BY DEF ShadowFact
<1>1. queue_ram[q].op_index \in OpIdx
  BY DEF TypeOK, Words
<1>2. CASE B < N
  <2>1. queue_ram[q].op_index = c[N] /\ Mine(q, c[N]) /\ op_table[c[N]].queue_ptr = N % PtrMod
    BY <1>2 DEF Chain
  <2> QED BY <2>1 DEF ShadowPtr, Mine
<1>3. CASE ~(B < N)
  <2>1. B = N /\ ~Mine(q, queue_ram[q].op_index)
    BY <1>1, <1>3 DEF Chain
  <2> DEFINE commits == {j \in Stages : pipe[j].op = "commit" /\ pipe[j].addr = q}
  <2>2. ShadowPtr(q) = IF commits # {} THEN pipe[CHOOSE j \in commits : TRUE].wdata
                                       ELSE queue_ram[q].prod
    BY <2>1 DEF ShadowPtr, Mine
  <2>3. CASE Doing(q, "commit")
    <3>1. PICK j \in Stages :
             pipe[j].op = "commit" /\ pipe[j].addr = q /\ pipe[j].wdata = B % PtrMod
      BY <2>3 DEF Chain, Carrying
    <3>2. \A k \in commits : k = j
      BY <3>1 DEF PipeInv, PipeCoherent
    <3>3. j \in commits
      BY <3>1
    <3>4. (CHOOSE k \in commits : TRUE) = j
      BY <3>2, <3>3
    <3> QED BY <2>1, <2>2, <3>1, <3>3, <3>4
  <2>4. CASE ~Doing(q, "commit")
    <3>1. queue_ram[q].prod = B % PtrMod
      BY <2>4 DEF Chain, Carrying, Doing
    <3>2. commits = {}
      BY <2>4 DEF Doing
    <3> QED BY <2>1, <2>2, <3>1, <3>2
  <2> QED BY <2>3, <2>4
<1> QED BY <1>2, <1>3

\* The same after a step.
LEMMA ShadowNext == ShadowFact'
BY ShadowNow, PTL

\* What a clock may do to a queue, as CplQueue sees it.
KeepsConfig(q) == /\ queue_ram'[q].enable = queue_ram[q].enable
                  /\ queue_ram'[q].log_size = queue_ram[q].log_size
KeepsPtrs(q)   == /\ queue_ram'[q].prod = queue_ram[q].prod
                  /\ queue_ram'[q].cons = queue_ram[q].cons
                  /\ ShadowPtr(q)' = ShadowPtr(q)
KeepsArmed(q)  == queue_ram'[q].armed = queue_ram[q].armed
Silent         == ~ArmEvent /\ ~CommitEvent

Keeps(q)     == KeepsConfig(q) /\ KeepsPtrs(q) /\ KeepsArmed(q)
Reserves(q)  == /\ queue_ram[q].enable = 1
                /\ Dist(queue_ram[q].cons, ShadowPtr(q)) < 2^queue_ram[q].log_size
                /\ queue_ram'[q].prod = queue_ram[q].prod
                /\ queue_ram'[q].cons = queue_ram[q].cons
                /\ ShadowPtr(q)' = Inc(ShadowPtr(q))
                /\ KeepsConfig(q) /\ KeepsArmed(q) /\ Silent
Publishes(q) == /\ queue_ram[q].prod # ShadowPtr(q)
                /\ queue_ram'[q].prod = Inc(queue_ram[q].prod)
                /\ queue_ram'[q].cons = queue_ram[q].cons
                /\ ShadowPtr(q)' = ShadowPtr(q)
                /\ KeepsConfig(q)
                /\ queue_ram'[q].armed = 0
                /\ ~ArmEvent /\ (CommitEvent <=> queue_ram[q].armed = 1)
Consumes(q)  == /\ Dist(queue_ram[q].cons, queue_ram'[q].cons)
                     <= Dist(queue_ram[q].cons, ShadowPtr(q))
                /\ queue_ram'[q].prod = queue_ram[q].prod
                /\ ShadowPtr(q)' = ShadowPtr(q)
                /\ KeepsConfig(q) /\ KeepsArmed(q) /\ Silent
Arms(q)      == /\ KeepsConfig(q) /\ KeepsPtrs(q)
                /\ queue_ram'[q].armed = IF ArmEvent THEN 0 ELSE 1
                /\ ArmEvent <=> queue_ram[q].enable = 1 /\ queue_ram[q].prod # queue_ram[q].cons
                /\ ~CommitEvent
Programs(q)  == /\ queue_ram[q].enable = 0 /\ queue_ram[q].prod = ShadowPtr(q)
                /\ queue_ram'[q].enable = queue_ram[q].enable
                /\ ShadowPtr(q)' = queue_ram'[q].prod
                /\ KeepsArmed(q) /\ Silent
Enables(q)   == /\ queue_ram'[q].log_size = queue_ram[q].log_size
                /\ KeepsPtrs(q) /\ KeepsArmed(q) /\ Silent

\* Where queue q stands as the operation in the last stage performs.
Standing(q, l, m, a, b, s, u, B, N, U, c) ==
    /\ l \in Int /\ m \in Int /\ a \in Int /\ b \in Int /\ s \in Int /\ u \in Int
    /\ B \in Int /\ N \in Int /\ U \in Int /\ c \in Chains
    /\ 0 <= l /\ l <= 9 /\ m <= 9
    /\ Chain(q, B, N, c) /\ Now(q, l, a, s, B, N, U, c)
    /\ Within(l, a, s, N, U) /\ Within(m, b, u, N, U) /\ Moves(q, l, m, a, b, s, u)

\* Every queue stands somewhere.
LEMMA Stand ==
    ASSUME CplInv, NEW e, NEW r, NEW v, NEW done, NEW tags, Tick(e, r, v, done, tags),
           NEW q \in Queues
    PROVE  \E l, m, a, b, s, u, B, N, U, c : Standing(q, l, m, a, b, s, u, B, N, U, c)
<1>1. PICK h, t, z, L, A, S, B, N, U, c : Parts(q, h, t, z, L, A, S, B, N, U, c)
  BY Unfold DEF CplInv
<1>2. IInv
  BY DEF CplInv
<1> USE <1>1 DEF Parts
<1>3. t = Done(h) /\ z = End(h)
  BY DEF Span
<1>4. PICK y \in Int : /\ t <= y /\ y <= z
                       /\ Last.op \in SetOps => y = t + 1 /\ At(cq[q], q, Last, y, L, A, S)
                       /\ Last.op \notin SetOps => y = t
  <2>1. PICK g \in Int :
           /\ Last.op \in SetOps => /\ Done(g)' = Done(h) + 1 /\ Done(h) + 1 <= End(h)
                                    /\ At(cq[q], q, Last, Done(h) + 1, L, A, S)
           /\ Last.op \notin SetOps => Done(g)' = Done(h)
    BY <1>2, BusClock
  <2> QED BY <1>3, <2>1
<1>5. Moves(q, L[t], L[y], A[t], A[y], S[t], S[y])
  <2>1. CASE Last.op \in SetOps
    <3>1. y - 1 = t /\ At(cq[q], q, Last, y, L, A, S)
      BY <1>4, <2>1
    <3> QED BY <2>1, <3>1 DEF Moves, At
  <2>2. CASE Last.op \notin SetOps
    BY <1>4, <2>2 DEF Moves
  <2> QED BY <2>1, <2>2
<1>6. Within(L[t], A[t], S[t], N, U) /\ Within(L[y], A[y], S[y], N, U)
  BY <1>4 DEF Range
<1>7. Standing(q, L[t], L[y], A[t], A[y], S[t], S[y], B, N, U, c)
  BY <1>4, <1>5, <1>6 DEF Standing
<1> QED BY <1>7

\* The operation that performs changes its queue only.
LEMMA OthersKeep ==
    ASSUME CplInv, CplInv', NEW e, NEW r, NEW v, NEW done, NEW tags, Tick(e, r, v, done, tags),
           NEW q \in Queues, ~LastOn(q)
    PROVE  Keeps(q)
<1>1. PICK l, m, a, b, s, u, B, N, U, c : Standing(q, l, m, a, b, s, u, B, N, U, c)
  BY Stand
<1> USE <1>1 DEF Standing
<1>2. IInv /\ TypeOK /\ PipeInv /\ TypeOK' /\ PipeInv' /\ Perform
  BY DEF CplInv, IInv, Tick
<1>3. PICK C \in Int : Chain(q, C, N, c)'
  BY <1>2, ClockAway
<1>4. ShadowPtr(q) = N % PtrMod
  BY <1>2, ShadowNow DEF ShadowFact
<1>5. ShadowPtr(q)' = N % PtrMod
  BY <1>2, <1>3, ShadowNext DEF ShadowFact
<1>6. queue_ram'[q] = queue_ram[q]
  BY <1>2, WordStep
<1> QED BY <1>4, <1>5, <1>6 DEF Keeps, KeepsConfig, KeepsPtrs, KeepsArmed

\* A reservation performs: a slot is reserved, or the queue has none.
LEMMA ReqMoves ==
    ASSUME CplInv, CplInv', NEW e, NEW r, NEW v, NEW done, NEW tags, Tick(e, r, v, done, tags),
           NEW q \in Queues, LastOn(q), Last.op = "req"
    PROVE  (Keeps(q) /\ Silent) \/ Reserves(q)
<1>1. PICK l, m, a, b, s, u, B, N, U, c : Standing(q, l, m, a, b, s, u, B, N, U, c)
  BY Stand
<1> USE <1>1 DEF Standing
<1>2. /\ IInv /\ TypeOK /\ PipeInv /\ TableInv /\ TypeOK' /\ PipeInv' /\ Perform
      /\ e \in Entries /\ Loads(e, r, v) /\ OpTableNext(tags)
  BY DEF CplInv, IInv, Tick
<1>3. /\ queue_ram'[q].prod = queue_ram[q].prod /\ queue_ram'[q].cons = queue_ram[q].cons
      /\ queue_ram'[q].log_size = queue_ram[q].log_size
      /\ queue_ram'[q].enable = queue_ram[q].enable /\ queue_ram'[q].armed = queue_ram[q].armed
      /\ queue_ram'[q].op_index = IF StartEn THEN op_table_start_ptr ELSE queue_ram[q].op_index
      /\ Last.data = queue_ram[q]
  BY <1>2, WordStep
<1>4. ShadowPtr(q) = N % PtrMod /\ ActiveProdPtr = N % PtrMod
  BY <1>2, NextToReserve, ShadowNow DEF ShadowFact
<1>5. \A K, D \in Int, x \in Chains : Chain(q, D, K, x)' => ShadowPtr(q)' = K % PtrMod
  BY <1>2, ShadowNext DEF ShadowFact
<1>6. ~Doing(q, "commit") /\ ~Doing(q, "commit")' /\ ~EntryOn(e, q)
  BY <1>2, DoingStep
<1>7. ~(FinishEn /\ op_table[op_table_finish_ptr].queue = q)
  BY <1>2, <1>6, Finishing DEF EntryOn
<1>8. Silent
  BY DEF Silent, ArmEvent, CommitEvent
<1>9. CASE StartEn
  <2>1. PICK x \in Chains : x = [c EXCEPT ![N + 1] = op_table_start_ptr]
    BY <1>2 DEF Chains, TypeOK
  <2>2. Chain(q, B, N + 1, x)'
    BY <1>2, <1>3, <1>6, <1>7, <1>9, <2>1, ChainPushes DEF TypeOK
  <2>3. ShadowPtr(q)' = (N + 1) % PtrMod
    BY <1>5, <2>2
  <2>4. ShadowPtr(q)' = Inc(ShadowPtr(q))
    BY <1>4, <2>3, Residues
  <2>5. queue_ram[q].enable = 1 /\ Dist(queue_ram[q].cons, ShadowPtr(q)) < 2^queue_ram[q].log_size
    <3>1. PICK n \in Nat : n = 2^queue_ram[q].log_size
      <4>1. queue_ram[q].log_size \in LogSizes \cup {0}
        BY <1>2 DEF TypeOK, Words
      <4> QED BY <4>1, Sizes
    <3>2. PICK d \in Int : d = Dist(queue_ram[q].cons, ShadowPtr(q))
      <4>1. queue_ram[q].cons \in Int /\ ShadowPtr(q) \in Int /\ PtrMod \in Nat \ {0}
        BY <1>2, <1>4, Residues DEF TypeOK, Words, Ptrs
      <4>2. PICK i, j \in Int : i = queue_ram[q].cons /\ j = ShadowPtr(q)
        BY <4>1
      <4>3. (j - i) % PtrMod \in Int
        BY <4>1
      <4> QED BY <4>2, <4>3 DEF Dist
    <3>3. ~(d >= n) /\ queue_ram[q].enable = 1
      BY <1>3, <1>4, <1>9, <3>1, <3>2 DEF StartEn, QueueFull
    <3> QED BY <3>1, <3>2, <3>3
  <2> QED BY <1>3, <1>8, <2>4, <2>5 DEF Reserves, KeepsConfig, KeepsArmed
<1>10. CASE ~StartEn
  <2>1. queue_ram'[q].prod = B % PtrMod
    BY <1>3, <1>6 DEF Chain, Carrying, Doing
  <2>2. Chain(q, B, N, c)'
    BY <1>2, <1>3, <1>6, <1>7, <1>10, <2>1, ChainStays
  <2>3. ShadowPtr(q)' = ShadowPtr(q)
    BY <1>4, <1>5, <2>2
  <2> QED BY <1>3, <1>8, <2>3 DEF Keeps, KeepsConfig, KeepsPtrs, KeepsArmed
<1> QED BY <1>9, <1>10

\* A retirement performs: the oldest completion is published.
LEMMA CommitMoves ==
    ASSUME CplInv, CplInv', NEW e, NEW r, NEW v, NEW done, NEW tags, Tick(e, r, v, done, tags),
           NEW q \in Queues, LastOn(q), Last.op = "commit"
    PROVE  Publishes(q)
<1>1. PICK l, m, a, b, s, u, B, N, U, c : Standing(q, l, m, a, b, s, u, B, N, U, c)
  BY Stand
<1> USE <1>1 DEF Standing
<1>2. /\ IInv /\ TypeOK /\ PipeInv /\ TypeOK' /\ PipeInv' /\ Perform
      /\ e \in Entries /\ Loads(e, r, v)
  BY DEF CplInv, IInv, Tick
<1>3. /\ queue_ram'[q].prod = Last.wdata /\ queue_ram'[q].cons = queue_ram[q].cons
      /\ queue_ram'[q].log_size = queue_ram[q].log_size
      /\ queue_ram'[q].enable = queue_ram[q].enable /\ queue_ram'[q].armed = 0
      /\ Last.data = queue_ram[q]
  BY <1>2, WordStep
<1>4. ShadowPtr(q) = N % PtrMod
  BY <1>2, ShadowNow DEF ShadowFact
<1>5. Chain(q, B, N, c)'
  BY <1>2, ClockCommit
<1>6. ShadowPtr(q)' = ShadowPtr(q)
  BY <1>2, <1>4, <1>5, ShadowNext DEF ShadowFact
<1>7. Doing(q, "commit")
  BY <1>2, DoingStep
<1>8. Carrying(q, "commit", B % PtrMod) /\ queue_ram[q].prod = (B - 1) % PtrMod
      /\ N - B < OP_TABLE_SIZE /\ B <= N
  BY <1>7 DEF Chain
<1>9. Last.wdata = B % PtrMod
  BY <1>2, <1>8, CarryStep
<1>10. PICK D \in Int : D = B - 1 /\ D + 1 = B
  OBVIOUS
<1>11. Inc(queue_ram[q].prod) = B % PtrMod
  BY <1>8, <1>10, Residues
<1>12. queue_ram[q].prod # ShadowPtr(q)
  <2>1. -PtrMod < N - D /\ N - D < PtrMod /\ D # N
    BY <1>8, <1>10, CplPtrModAssumption, CplOpTableAssumption
  <2>2. D % PtrMod # N % PtrMod
    BY <2>1, Residues
  <2> QED BY <1>4, <1>8, <1>10, <2>2
<1>13. ~ArmEvent /\ (CommitEvent <=> queue_ram[q].armed = 1)
  BY <1>3 DEF ArmEvent, CommitEvent
<1> QED BY <1>3, <1>6, <1>9, <1>11, <1>12, <1>13 DEF Publishes, KeepsConfig

\* A register write performs: the driver programs, enables, arms or consumes.
LEMMA WriteMoves ==
    ASSUME CplInv, CplInv', NEW e, NEW r, NEW v, NEW done, NEW tags, Tick(e, r, v, done, tags),
           NEW q \in Queues, LastOn(q), Last.op \in SetOps
    PROVE  (Keeps(q) /\ Silent) \/ Consumes(q) \/ Arms(q) \/ Programs(q) \/ Enables(q)
<1>1. PICK l, m, a, b, s, u, B, N, U, c : Standing(q, l, m, a, b, s, u, B, N, U, c)
  BY Stand
<1> USE <1>1 DEF Standing
<1>2. IInv /\ TypeOK /\ PipeInv /\ TypeOK' /\ PipeInv' /\ Perform /\ Last.addr = q
  BY DEF CplInv, IInv, Tick, LastOn
<1>3. /\ queue_ram'[q].prod = IF Last.op = "set_prod" /\ queue_ram[q].enable = 0
                              THEN Last.wdata ELSE queue_ram[q].prod
      /\ queue_ram'[q].cons = IF Last.op \in {"set_cons", "set_cons_arm"}
                              THEN Last.wdata ELSE queue_ram[q].cons
      /\ queue_ram'[q].log_size = IF Last.op = "set_size" /\ queue_ram[q].enable = 0
                                  THEN Last.wdata ELSE queue_ram[q].log_size
      /\ queue_ram'[q].enable = IF Last.op = "set_enable"
                                THEN Last.wdata ELSE queue_ram[q].enable
      /\ queue_ram'[q].armed = IF ArmEvent THEN 0
                               ELSE IF Last.op = "set_cons_arm" THEN 1
                               ELSE IF Last.op = "set_arm" THEN Last.wdata
                               ELSE queue_ram[q].armed
      /\ Last.data = queue_ram[q]
  BY <1>2, WriteStepWord, WordStep
<1>4. Word(q, l) /\ Idle(q, l) /\ Room(q, l, a, B, N) /\ Working(q, l, s, B, N, U, c)
  BY DEF Now
<1>5. Effect(cq[q], q, Last, l, m, a, b, s, u)
  BY DEF Moves
<1>6. \/ m = l + 1 /\ Opens(cq[q], Last, m) /\ b = 0 /\ 1 <= m /\ m <= 8
      \/ Last.op = "set_enable"
      \/ Last.op = "set_arm" /\ Last.wdata = 1
      \/ m = l /\ l \in {0, 9} /\ a <= b /\ Last.op = "set_cons" /\ Last.wdata = b % PtrMod
  BY <1>2, <1>5 DEF Effect, SetOps, Opens
<1>7. Last.op \notin {"set_arm", "set_cons_arm"} => Silent
  BY DEF Silent, ArmEvent, CommitEvent, SetOps
<1>8. ~CommitEvent
  BY DEF CommitEvent, SetOps
<1>9. ShadowPtr(q) = N % PtrMod /\ queue_ram[q].prod = B % PtrMod
  BY <1>2, ShadowNow, WriteChain DEF ShadowFact
<1>10. \A K, D \in Int, x \in Chains : Chain(q, D, K, x)' => ShadowPtr(q)' = K % PtrMod
  BY <1>2, ShadowNext DEF ShadowFact
<1>11. Last.op # "set_prod" => ShadowPtr(q)' = ShadowPtr(q)
  <2> SUFFICES ASSUME Last.op # "set_prod" PROVE ShadowPtr(q)' = ShadowPtr(q)
    OBVIOUS
  <2>1. Chain(q, B, N, c)'
    BY <1>2, <1>3, WriteChain
  <2> QED BY <1>9, <1>10, <2>1
<1>12. l < 9 => queue_ram[q].prod = ShadowPtr(q)
  <2> SUFFICES ASSUME l < 9 PROVE queue_ram[q].prod = ShadowPtr(q)
    OBVIOUS
  <2>1. Drained(q)
    BY <1>4 DEF Idle
  <2> QED BY <1>2, <1>9, <2>1, EmptyChain
<1>13. CASE Last.op \in {"set_base", "set_eqn"}
  <2>1. Silent /\ Last.op # "set_prod"
    BY <1>7, <1>13
  <2>2. KeepsConfig(q) /\ KeepsArmed(q)
    BY <1>3, <1>13, <2>1 DEF KeepsConfig, KeepsArmed, Silent
  <2>3. KeepsPtrs(q)
    BY <1>3, <1>11, <1>13 DEF KeepsPtrs
  <2> QED BY <2>1, <2>2, <2>3 DEF Keeps
<1>14. CASE Last.op = "set_enable"
  <2>1. Silent /\ Last.op # "set_prod"
    BY <1>7, <1>14
  <2>2. queue_ram'[q].log_size = queue_ram[q].log_size /\ KeepsArmed(q)
    BY <1>3, <1>14, <2>1 DEF KeepsArmed, Silent
  <2>3. KeepsPtrs(q)
    BY <1>3, <1>11, <1>14 DEF KeepsPtrs
  <2> QED BY <2>1, <2>2, <2>3 DEF Enables
<1>15. CASE Last.op = "set_arm"
  <2>1. Last.wdata = 1
    BY <1>6, <1>15 DEF Opens
  <2>2. KeepsConfig(q) /\ KeepsPtrs(q)
    BY <1>3, <1>11, <1>15 DEF KeepsConfig, KeepsPtrs
  <2>3. queue_ram'[q].armed = IF ArmEvent THEN 0 ELSE 1
    BY <1>3, <1>15, <2>1
  <2>4. ArmEvent <=> queue_ram[q].enable = 1 /\ queue_ram[q].prod # queue_ram[q].cons
    BY <1>3, <1>15, <2>1 DEF ArmEvent, ConsAfter
  <2> QED BY <1>8, <2>2, <2>3, <2>4 DEF Arms
<1>16. CASE Last.op \in {"set_size", "set_prod"}
  <2>1. m = l + 1 /\ m \in {3, 5} /\ Opens(cq[q], Last, m)
    BY <1>6, <1>16 DEF Opens
  <2>2. queue_ram[q].enable = 0 /\ queue_ram[q].prod = ShadowPtr(q)
    BY <1>4, <1>12, <2>1 DEF Word
  <2>3. Silent
    BY <1>7, <1>16
  <2>4. queue_ram'[q].enable = queue_ram[q].enable /\ KeepsArmed(q)
    BY <1>3, <1>16, <2>3 DEF KeepsArmed, Silent
  <2>5. ShadowPtr(q)' = queue_ram'[q].prod
    <3>1. CASE Last.op = "set_size"
      BY <1>3, <1>11, <2>2, <3>1
    <3>2. CASE Last.op = "set_prod"
      <4>1. m = 5 /\ Last.wdata = 0
        BY <2>1, <3>2 DEF Opens
      <4>2. queue_ram'[q].prod = 0
        BY <1>3, <2>2, <3>2, <4>1
      <4>3. PICK C, K \in Int : Chain(q, C, K, c)' /\ Now(q, m, b, u, C, K, U, c)'
        BY <1>2, <1>5, ClockWrite
      <4>4. K = 0
        BY <4>1, <4>3 DEF Now, Room
      <4>5. ShadowPtr(q)' = 0 % PtrMod
        BY <1>10, <4>3, <4>4
      <4> QED BY <4>2, <4>5, Residues
    <3> QED BY <1>16, <3>1, <3>2
  <2> QED BY <2>2, <2>3, <2>4, <2>5 DEF Programs
<1>17. CASE Last.op = "set_cons"
  <2>1. Silent /\ Last.op # "set_prod"
    BY <1>7, <1>17
  <2>2. KeepsConfig(q) /\ KeepsArmed(q) /\ queue_ram'[q].prod = queue_ram[q].prod
        /\ queue_ram'[q].cons = Last.wdata
    BY <1>3, <1>17, <2>1 DEF KeepsConfig, KeepsArmed, Silent
  <2>3. ShadowPtr(q)' = ShadowPtr(q)
    BY <1>11, <2>1
  <2>4. CASE m = l + 1 /\ Opens(cq[q], Last, m)
    <3>1. m = 6 /\ l = 5
      BY <1>17, <2>4 DEF Opens
    <3>2. queue_ram[q].enable = 0 /\ queue_ram[q].prod = ShadowPtr(q)
      BY <1>4, <1>12, <3>1 DEF Word
    <3> QED BY <2>1, <2>2, <2>3, <3>2 DEF Programs, KeepsConfig
  <2>5. CASE m = l /\ l \in {0, 9} /\ a <= b /\ Last.wdata = b % PtrMod
    <3>1. PICK n \in Nat : n = 2^queue_ram[q].log_size /\ n < PtrMod
      <4>1. queue_ram[q].log_size \in LogSizes \cup {0}
        BY <1>2 DEF TypeOK, Words
      <4> QED BY <4>1, Sizes
    <3>2. queue_ram[q].cons = a % PtrMod /\ a <= N /\ N - a <= n
      BY <1>4, <2>5, <3>1 DEF Room
    <3>3. b <= N
      BY <1>4, <2>5 DEF Within, Working, Budgeted
    <3>4. b - a < PtrMod /\ N - a < PtrMod /\ a <= b
      BY <2>5, <3>1, <3>2, <3>3, CplPtrModAssumption
    <3>5. Dist(a % PtrMod, b % PtrMod) = b - a /\ Dist(a % PtrMod, N % PtrMod) = N - a
      BY <3>2, <3>4, Residues
    <3>6. Dist(queue_ram[q].cons, queue_ram'[q].cons) <= Dist(queue_ram[q].cons, ShadowPtr(q))
      BY <1>9, <2>2, <2>5, <3>2, <3>3, <3>5
    <3> QED BY <2>1, <2>2, <2>3, <3>6 DEF Consumes
  <2> QED BY <1>6, <1>17, <2>4, <2>5
<1>18. Last.op # "set_cons_arm"
  BY <1>6 DEF Opens
<1> QED BY <1>13, <1>14, <1>15, <1>16, <1>17, <1>18 DEF SetOps

\* A read performs: nothing changes.
LEMMA ReadMoves ==
    ASSUME CplInv, CplInv', NEW e, NEW r, NEW v, NEW done, NEW tags, Tick(e, r, v, done, tags),
           NEW q \in Queues, LastOn(q), Last.op = "read"
    PROVE  Keeps(q) /\ Silent
<1>1. PICK l, m, a, b, s, u, B, N, U, c : Standing(q, l, m, a, b, s, u, B, N, U, c)
  BY Stand
<1> USE <1>1 DEF Standing
<1>2. IInv /\ TypeOK /\ PipeInv /\ TypeOK' /\ PipeInv' /\ Perform
  BY DEF CplInv, IInv, Tick
<1>3. queue_ram'[q] = queue_ram[q]
  BY <1>2, WordStep
<1>4. Chain(q, B, N, c)'
  BY <1>2, <1>3, WriteChain
<1>5. ShadowPtr(q) = N % PtrMod
  BY <1>2, ShadowNow DEF ShadowFact
<1>6. ShadowPtr(q)' = N % PtrMod
  BY <1>2, <1>4, ShadowNext DEF ShadowFact
<1>7. Silent
  BY DEF Silent, ArmEvent, CommitEvent
<1> QED BY <1>3, <1>5, <1>6, <1>7 DEF Keeps, KeepsConfig, KeepsPtrs, KeepsArmed

\* The notifications after a clock: the host may take the one that waits, and the
\* operation that performs may leave one for its queue.
LEMMA Notifies ==
    ASSUME NEW e, NEW r, NEW v, NEW done, NEW tags, Tick(e, r, v, done, tags)
    PROVE  /\ Silent => CQ!Notify({})
           /\ ~Silent => CQ!Notify({Last.addr})
<1>1. event' = IF ArmEvent \/ CommitEvent THEN {[event |-> Last.data.event, source |-> Last.addr]}
               ELSE IF v THEN {} ELSE event
  BY DEF Tick, EventNext
<1> DEFINE old == {x.source : x \in event}
           new == {x.source : x \in event'}
<1>2. CASE Silent /\ v
  <2>1. new = (old \ old) \cup {}
    BY <1>1, <1>2 DEF Silent
  <2> QED BY <1>2, <2>1 DEF CQ!Notify
<1>3. CASE Silent /\ ~v
  <2>1. new = (old \ {}) \cup {}
    BY <1>1, <1>3 DEF Silent
  <2> QED BY <1>3, <2>1 DEF CQ!Notify
<1>4. CASE ~Silent
  <2>1. event' = {[event |-> Last.data.event, source |-> Last.addr]}
    BY <1>1, <1>4 DEF Silent
  <2>2. new = {Last.addr}
    BY <2>1
  <2>3. new = (old \ old) \cup {Last.addr}
    BY <2>2
  <2> QED BY <1>4, <2>3 DEF CQ!Notify
<1> QED BY <1>2, <1>3, <1>4

\* A clock is a step of CplQueue on the queue whose operation performs, or takes
\* notifications and leaves every queue alone.
LEMMA ClockRefines ==
    ASSUME CplInv, CplInv', NEW e, NEW r, NEW v, NEW done, NEW tags, Tick(e, r, v, done, tags)
    PROVE  [CQ!Next]_(CQ!cq_vars)
<1> DEFINE en == [q \in Queues |-> queue_ram[q].enable = 1]
           si == [q \in Queues |-> 2^queue_ram[q].log_size]
           pr == [q \in Queues |-> queue_ram[q].prod]
           sh == [q \in Queues |-> ShadowPtr(q)]
           co == [q \in Queues |-> queue_ram[q].cons]
           ar == [q \in Queues |-> queue_ram[q].armed = 1]
           enp == [q \in Queues |-> queue_ram'[q].enable = 1]
           sip == [q \in Queues |-> 2^queue_ram'[q].log_size]
           prp == [q \in Queues |-> queue_ram'[q].prod]
           shp == [q \in Queues |-> ShadowPtr(q)']
           cop == [q \in Queues |-> queue_ram'[q].cons]
           arp == [q \in Queues |-> queue_ram'[q].armed = 1]
<1>1. CASE \A q \in Queues : ~LastOn(q)
  <2>1. \A q \in Queues : Keeps(q)
    BY <1>1, OthersKeep
  <2>2. enp = en /\ sip = si /\ prp = pr /\ cop = co /\ shp = sh /\ arp = ar
    BY <2>1 DEF Keeps, KeepsConfig, KeepsPtrs, KeepsArmed
  <2>3. Last.op = "none"
    <3>1. Last.addr \in Queues
      BY CplPipelineAssumption DEF CplInv, IInv, TypeOK, Entries, Last, Stages
    <3> QED BY <1>1, <3>1 DEF LastOn
  <2>4. Silent
    BY <2>3 DEF Silent, ArmEvent, CommitEvent
  <2>5. CQ!Take
    BY <2>2, <2>4, Notifies DEF CQ!Take
  <2> QED BY <2>5 DEF CQ!Next
<1>2. ASSUME NEW q \in Queues, LastOn(q)
      PROVE  [CQ!Next]_(CQ!cq_vars)
  <2>1. \A z \in Queues : z # q => Keeps(z)
    BY <1>2, OthersKeep DEF LastOn
  <2> USE DEF KeepsConfig, KeepsPtrs, KeepsArmed
  <2>2. ASSUME queue_ram'[q].enable = queue_ram[q].enable PROVE enp = en
    BY <2>1, <2>2 DEF Keeps
  <2>3. ASSUME queue_ram'[q].prod = queue_ram[q].prod PROVE prp = pr
    BY <2>1, <2>3 DEF Keeps
  <2>4. ASSUME queue_ram'[q].cons = queue_ram[q].cons PROVE cop = co
    BY <2>1, <2>4 DEF Keeps
  <2>5. ASSUME ShadowPtr(q)' = ShadowPtr(q) PROVE shp = sh
    BY <2>1, <2>5 DEF Keeps
  <2>6. ASSUME queue_ram'[q].log_size = queue_ram[q].log_size PROVE sip = si
    BY <2>1, <2>6 DEF Keeps
  <2>7. ASSUME queue_ram'[q].armed = queue_ram[q].armed PROVE arp = ar
    BY <2>1, <2>7 DEF Keeps
  <2>8. /\ enp = [en EXCEPT ![q] = (queue_ram'[q].enable = 1)]
        /\ sip = [si EXCEPT ![q] = 2^queue_ram'[q].log_size]
        /\ prp = [pr EXCEPT ![q] = queue_ram'[q].prod]
        /\ cop = [co EXCEPT ![q] = queue_ram'[q].cons]
        /\ shp = [sh EXCEPT ![q] = ShadowPtr(q)']
        /\ arp = [ar EXCEPT ![q] = (queue_ram'[q].armed = 1)]
    BY <2>1 DEF Keeps
  <2>9. CASE Keeps(q) /\ Silent
    <3>1. enp = en /\ sip = si /\ prp = pr /\ cop = co /\ shp = sh /\ arp = ar
      BY <2>2, <2>3, <2>4, <2>5, <2>6, <2>7, <2>9 DEF Keeps
    <3>2. CQ!Take
      BY <2>9, <3>1, Notifies DEF CQ!Take
    <3> QED BY <3>2 DEF CQ!Next
  <2>10. CASE Reserves(q)
    <3>1. enp = en /\ sip = si /\ prp = pr /\ cop = co /\ arp = ar /\ CQ!Notify({})
      BY <2>2, <2>3, <2>4, <2>6, <2>7, <2>10, Notifies DEF Reserves
    <3>2. shp = [sh EXCEPT ![q] = CQ!Succ(sh[q])] /\ CQ!Ahead(co[q], sh[q]) < si[q] /\ en[q]
      BY <2>8, <2>10 DEF Reserves, CQ!Succ, Inc, CQ!Ahead, Dist
    <3>3. CQ!Reserve(q)
      BY <3>1, <3>2 DEF CQ!Reserve
    <3> QED BY <3>3 DEF CQ!Next
  <2>11. CASE Publishes(q)
    <3>1. enp = en /\ sip = si /\ shp = sh /\ cop = co
      BY <2>2, <2>4, <2>5, <2>6, <2>11 DEF Publishes
    <3>2. prp = [pr EXCEPT ![q] = CQ!Succ(pr[q])] /\ pr[q] # sh[q]
      BY <2>8, <2>11 DEF Publishes, CQ!Succ, Inc
    <3>3. arp = [ar EXCEPT ![q] = FALSE]
      <4>1. (queue_ram'[q].armed = 1) = FALSE
        BY <2>11 DEF Publishes
      <4> QED BY <2>8, <4>1, Zenon
    <3>4. CQ!Notify({z \in {q} : ar[z]})
      <4>1. CASE queue_ram[q].armed = 1
        <5>1. ~Silent /\ Last.addr = q
          BY <1>2, <2>11, <4>1 DEF Publishes, Silent, LastOn
        <5>2. {z \in {q} : ar[z]} = {q}
          BY <4>1
        <5>3. CQ!Notify({Last.addr})
          BY <5>1, Notifies
        <5> QED BY <5>1, <5>2, <5>3 DEF CQ!Notify
      <4>2. CASE ~(queue_ram[q].armed = 1)
        <5>1. Silent
          BY <2>11, <4>2 DEF Publishes, Silent
        <5>2. {z \in {q} : ar[z]} = {}
          BY <4>2
        <5>3. CQ!Notify({})
          BY <5>1, Notifies
        <5> QED BY <5>2, <5>3 DEF CQ!Notify
      <4> QED BY <4>1, <4>2
    <3>5. CQ!Publish(q)
      BY <3>1, <3>2, <3>3, <3>4 DEF CQ!Publish, CQ!Notify
    <3> QED BY <3>5 DEF CQ!Next
  <2>12. CASE Consumes(q)
    <3>1. enp = en /\ sip = si /\ prp = pr /\ shp = sh /\ arp = ar /\ CQ!Notify({})
      BY <2>2, <2>3, <2>5, <2>6, <2>7, <2>12, Notifies DEF Consumes
    <3>2. PICK p \in Ptrs : p = queue_ram'[q].cons
      BY DEF CplInv, IInv, TypeOK, Words
    <3>3. cop = [co EXCEPT ![q] = p] /\ CQ!Ahead(co[q], p) <= CQ!Ahead(co[q], sh[q])
      BY <2>8, <2>12, <3>2 DEF Consumes, CQ!Ahead, Dist
    <3>4. CQ!Consume(q)
      BY <3>1, <3>2, <3>3 DEF CQ!Consume, CQ!Ptrs, Ptrs
    <3> QED BY <3>4 DEF CQ!Next
  <2>13. CASE Arms(q)
    <3>1. enp = en /\ sip = si /\ prp = pr /\ shp = sh /\ cop = co
      BY <2>2, <2>3, <2>4, <2>5, <2>6, <2>13 DEF Arms
    <3>2. ArmEvent <=> en[q] /\ pr[q] # co[q]
      BY <2>13 DEF Arms
    <3>3. arp = [ar EXCEPT ![q] = ~(en[q] /\ pr[q] # co[q])]
      <4>1. (queue_ram'[q].armed = 1) = ~(queue_ram[q].enable = 1 /\ queue_ram[q].prod # queue_ram[q].cons)
        BY <2>13 DEF Arms
      <4>2. en[q] = (queue_ram[q].enable = 1) /\ pr[q] = queue_ram[q].prod /\ co[q] = queue_ram[q].cons
        OBVIOUS
      <4> QED BY <2>8, <4>1, <4>2, Zenon
    <3>4. CQ!Notify({z \in {q} : en[q] /\ pr[q] # co[q]})
      <4>1. CASE ArmEvent
        <5>1. ~Silent /\ Last.addr = q
          BY <1>2, <4>1 DEF Silent, LastOn
        <5>2. {z \in {q} : en[q] /\ pr[q] # co[q]} = {q}
          BY <3>2, <4>1
        <5>3. CQ!Notify({Last.addr})
          BY <5>1, Notifies
        <5> QED BY <5>1, <5>2, <5>3 DEF CQ!Notify
      <4>2. CASE ~ArmEvent
        <5>1. Silent
          BY <2>13, <4>2 DEF Arms, Silent
        <5>2. {z \in {q} : en[q] /\ pr[q] # co[q]} = {}
          BY <3>2, <4>2
        <5>3. CQ!Notify({})
          BY <5>1, Notifies
        <5> QED BY <5>2, <5>3 DEF CQ!Notify
      <4> QED BY <4>1, <4>2
    <3>5. CQ!Arm(q)
      BY <3>1, <3>3, <3>4 DEF CQ!Arm, CQ!Notify
    <3> QED BY <3>5 DEF CQ!Next
  <2>14. CASE Programs(q)
    <3>1. enp = en /\ arp = ar /\ CQ!Notify({})
      BY <2>2, <2>7, <2>14, Notifies DEF Programs
    <3>2. PICK p \in Ptrs, c \in Ptrs, d \in LogSizes \cup {0} :
             /\ p = queue_ram'[q].prod /\ c = queue_ram'[q].cons /\ p = ShadowPtr(q)'
             /\ d = queue_ram'[q].log_size
      BY <2>14 DEF Programs, CplInv, IInv, TypeOK, Words
    <3>3. PICK n \in 1 .. PtrMod - 1 : n = 2^d
      BY Sizes, CplPtrModAssumption
    <3>4. /\ prp = [pr EXCEPT ![q] = p] /\ shp = [sh EXCEPT ![q] = p]
          /\ cop = [co EXCEPT ![q] = c] /\ sip = [si EXCEPT ![q] = n]
      BY <2>8, <3>2, <3>3
    <3>5. pr[q] = sh[q] /\ (queue_ram[q].enable = 1) = FALSE
      BY <2>14 DEF Programs
    <3>6. ~en[q]
      BY <3>5, Zenon
    <3>7. p \in CQ!Ptrs /\ c \in CQ!Ptrs
      BY DEF CQ!Ptrs, Ptrs
    <3>8. CQ!Program(q)
      <4>1. \E x, y \in CQ!Ptrs, z \in 1 .. PtrMod - 1 :
               /\ prp = [pr EXCEPT ![q] = x]
               /\ shp = [sh EXCEPT ![q] = x]
               /\ cop = [co EXCEPT ![q] = y]
               /\ sip = [si EXCEPT ![q] = z]
        <5>1. p \in CQ!Ptrs /\ c \in CQ!Ptrs /\ n \in 1 .. PtrMod - 1
          BY <3>7
        <5> HIDE DEF pr, sh, co, si, prp, shp, cop, sip
        <5> QED BY <3>4, <5>1
      <4>2. ~en[q] /\ pr[q] = sh[q]
        BY <3>5, <3>6
      <4>3. enp = en /\ arp = ar
        BY <3>1
      <4>4. CQ!Notify({})
        BY <3>1
      <4> QED BY <4>1, <4>2, <4>3, <4>4, Zenon DEF CQ!Program
    <3> QED BY <3>8 DEF CQ!Next
  <2>15. CASE Enables(q)
    <3>1. sip = si /\ prp = pr /\ shp = sh /\ cop = co /\ arp = ar /\ CQ!Notify({})
      BY <2>3, <2>4, <2>5, <2>6, <2>7, <2>15, Notifies DEF Enables
    <3>2. CQ!Enable(q)
      BY <2>8, <3>1 DEF CQ!Enable
    <3> QED BY <3>2 DEF CQ!Next
  <2>16. Last.op \in SetOps \cup {"read", "commit", "req"}
    <3>1. IInv /\ Perform
      BY DEF CplInv, Tick
    <3> QED BY <1>2, <3>1, WordStep DEF OpKinds
  <2> QED BY <1>2, <2>9, <2>10, <2>11, <2>12, <2>13, <2>14, <2>15, <2>16,
             ReadMoves, ReqMoves, CommitMoves, WriteMoves
<1> QED BY <1>1, <1>2

\* The steps outside the clock do not touch the hardware's queues.
LEMMA OutsideRefines ==
    ASSUME UNCHANGED <<queue_ram, pipe, op_table, event>>
    PROVE  UNCHANGED CQ!cq_vars
BY DEF CQ!cq_vars, ShadowPtr

\* The pipelined module with completions that are written and committed out of order
\* implements the completion queue of CplQueue: a slot is reserved only when the host has
\* freed it, completions are published in the order of their slots, and an armed queue
\* notifies the host once.
THEOREM CompletionQueue == Spec => ImplementsCplQueue
<1>1. Init => CQ!Init
  <2> SUFFICES ASSUME Init PROVE CQ!Init
    OBVIOUS
  <2>1. \A q \in Queues : /\ queue_ram[q].enable = 0 /\ queue_ram[q].prod = 0
                          /\ queue_ram[q].cons = 0 /\ queue_ram[q].op_index = 0
                          /\ queue_ram[q].log_size = 0 /\ queue_ram[q].armed = 0
    BY DEF Init, ResetWord
  <2>2. ~op_table[0].active
    BY CplOpTableAssumption DEF Init, FreeEntry, OpIdx
  <2>3. \A j \in Stages : pipe[j].op = "none"
    BY DEF Init, NoOp
  <2>4. \A q \in Queues : ShadowPtr(q) = 0
    BY <2>1, <2>2, <2>3 DEF ShadowPtr
  <2>5. \A q \in Queues : (queue_ram[q].enable = 1) = FALSE /\ (queue_ram[q].armed = 1) = FALSE
    BY <2>1
  <2>6. /\ [q \in Queues |-> queue_ram[q].enable = 1] = [q \in Queues |-> FALSE]
        /\ [q \in Queues |-> queue_ram[q].armed = 1] = [q \in Queues |-> FALSE]
    BY <2>5, Zenon
  <2>7. [q \in Queues |-> 2^queue_ram[q].log_size] = [q \in Queues |-> 1]
    BY <2>1, CplSizesAssumption
  <2>8. {x.source : x \in event} = {}
    BY DEF Init
  <2> QED BY <2>1, <2>4, <2>6, <2>7, <2>8 DEF CQ!Init
<1>2. CplInv /\ CplInv' /\ [Next]_vars => [CQ!Next]_(CQ!cq_vars)
  <2> SUFFICES ASSUME CplInv, CplInv', [Next]_vars
               PROVE  [CQ!Next]_(CQ!cq_vars)
    OBVIOUS
  <2>1. CASE \E e, r, v, done, tags : Tick(e, r, v, done, tags)
    BY <2>1, ClockRefines
  <2>2. CASE Outside
    <3>1. UNCHANGED <<queue_ram, pipe, op_table, event>>
      <4>1. UNCHANGED hw_vars
        BY <2>2, SMTT(30) DEF Outside, Opening, Refilling, Polled, Arming, Closing, Landing, Quiet,
                              Consuming, Writing, Stopping
      <4> QED BY <4>1 DEF hw_vars
    <3> QED BY <3>1, OutsideRefines
  <2>3. CASE UNCHANGED vars
    <3>1. UNCHANGED <<queue_ram, pipe, op_table, event>>
      BY <2>3 DEF vars
    <3> QED BY <3>1, OutsideRefines
  <2>4. IInv /\ TypeOK /\ LifeInv
    BY DEF CplInv, IInv
  <2> QED BY <2>1, <2>2, <2>3, <2>4, Steps
<1> QED BY <1>1, <1>2, CplInvariance, PTL DEF Spec, ImplementsCplQueue, CQ!Spec
=============================================================================
