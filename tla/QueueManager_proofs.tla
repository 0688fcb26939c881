------------------------ MODULE QueueManager_proofs -------------------------
(***************************************************************************)
(* Theorems about QueueManager, for every number of queues, operation      *)
(* table size, pipeline depth and pointer width: the pipeline and the      *)
(* operation table, then the ownership of descriptors.                     *)
(***************************************************************************)
EXTENDS QueueManager, PointerTheorems, TLAPS

\* The index and pointer sets are what their bounds say, and never empty.
LEMMA Constants ==
    /\ 0 \in Queues /\ 0 \in OpIdx /\ 0 \in Stages /\ 0 \in Ptrs
    /\ PIPELINE - 1 \in Stages
    /\ \A j \in Stages \ {0} : j - 1 \in Stages
BY QueueCountAssumption, OpTableAssumption, PipelineAssumption, PtrModAssumption
   DEF Queues, OpIdx, Stages, Ptrs

\* Pointer and index arithmetic stays in range.
LEMMA Arithmetic ==
    /\ \A p \in Int : p % PtrMod \in Ptrs
    /\ \A p \in Ptrs : Inc(p) \in Ptrs
    /\ \A i \in OpIdx : NextIdx(i) \in OpIdx
    /\ \A p \in Ptrs, l \in LogSizes \cup {0} : Slot(p, l) \in Nat
<1>1. \A p \in Int : p % PtrMod \in Ptrs
  BY PtrModAssumption, OpTableAssumption DEF Ptrs
<1>2. \A p \in Ptrs : Inc(p) \in Ptrs
  BY <1>1, PtrModAssumption DEF Inc, Ptrs
<1>3. \A i \in OpIdx : NextIdx(i) \in OpIdx
  BY OpTableAssumption DEF NextIdx, OpIdx
<1>4. \A p \in Ptrs, l \in LogSizes \cup {0} : Slot(p, l) \in Nat
  <2> SUFFICES ASSUME NEW p \in Ptrs, NEW l \in LogSizes \cup {0}
               PROVE  Slot(p, l) \in Nat
    OBVIOUS
  <2>1. p \in Nat
    BY PtrModAssumption DEF Ptrs
  <2>2. 2^l \in Nat \ {0}
    BY SizesAssumption
  <2>3. \A m \in Nat \ {0} : p % m \in Nat
    BY <2>1
  <2> QED BY <2>2, <2>3 DEF Slot
<1> QED BY <1>1, <1>2, <1>3, <1>4

\* The reset state is well typed.
LEMMA TypeInit == Init => TypeOK
BY Constants
   DEF Init, TypeOK, Words, Entries, GoodData, OpEntries, Drvs, NoOp, NoResp, FreeEntry,
       ResetWord, DrvClosed, Bit, OpKinds, SetOps, DrvStates, Resps

\* What stage 0 loads: an entry of the right type that carries the current
\* word of a queue no other stage works on, with the conditions under which a
\* dequeue or a retirement is accepted.
Loads(e, r) ==
    /\ GoodData(e)
    /\ Shift(e)
    /\ e.op # "none" => e.data = queue_ram[e.addr] /\ ~PipeHazard(e.addr)
    /\ e.op = "req" => /\ ~op_table[op_table_start_ptr].active
                       /\ resp.valid => r
                       /\ ~InPipe({"req"})
    /\ e.op = "commit" => /\ CommitReady
                          /\ e.addr = op_table[op_table_finish_ptr].queue
                          /\ e.wdata = op_table[op_table_finish_ptr].queue_ptr

\* A register write accepted at stage 0 loads a well-typed set operation.
LEMMA AxilWriteLoads ==
    ASSUME TypeOK, NEW r \in BOOLEAN, NEW q \in Queues, NEW o \in SetOps, NEW w \in Nat,
           AxilWrite(o, q, w),
           GoodData([op |-> o, addr |-> q, data |-> queue_ram[q], wdata |-> w])
    PROVE  \E e \in Entries : Loads(e, r)
<1> DEFINE e == [op |-> o, addr |-> q, data |-> queue_ram[q], wdata |-> w]
<1>1. e \in Entries
  BY DEF TypeOK, Entries, OpKinds
<1>2. Loads(e, r)
  BY DEF Loads, AxilWrite, Load, SetOps
<1> QED BY <1>1, <1>2

\* So does every register write of the driver: opening, posting, closing.
LEMMA DriverWriteLoads ==
    ASSUME TypeOK, NEW r \in BOOLEAN, NEW q \in Queues, DriverWrite(q)
    PROVE  /\ \E e \in Entries : Loads(e, r)
           /\ drv' \in [Queues -> Drvs]
<1>1. /\ drv \in [Queues -> Drvs] /\ drv[q] \in Drvs
      /\ drv[q].prod \in Ptrs /\ drv[q].cons \in Ptrs /\ drv[q].prod \in Int
      /\ \A p \in Ptrs : p \in Nat
      /\ drv[q].base \in Nat /\ drv[q].cqn \in Nat /\ drv[q].log_size \in Nat
  <2>1. drv \in [Queues -> Drvs] /\ drv[q] \in Drvs
    BY DEF TypeOK
  <2>2. \A p \in Ptrs : p \in Nat /\ p \in Int
    BY PtrModAssumption DEF Ptrs
  <2>3. Bases \cup {0} \subseteq Nat /\ Cqns \cup {0} \subseteq Nat
    BY ConfigAssumption
  <2>4. LogSizes \cup {0} \subseteq Nat
    BY LogSizesAssumption
  <2> QED BY <2>1, <2>2, <2>3, <2>4 DEF Drvs
<1>2. ASSUME NEW pc \in DrvStates, GoTo(q, pc)
      PROVE  drv' \in [Queues -> Drvs]
  BY <1>1, <1>2 DEF GoTo, Advance, Drvs
<1>3. CASE OpenRing(q)
  <2>1. AxilWrite("set_enable", q, 0)
    BY <1>3 DEF OpenRing
  <2>2. drv' \in [Queues -> Drvs]
    BY <1>1, <1>3, Constants DEF OpenRing, Advance, Drvs, DrvStates
  <2> QED BY <2>1, <2>2, AxilWriteLoads DEF GoodData, SetOps, Bit
<1>4. CASE SetBase(q)
  <2>1. AxilWrite("set_base", q, drv[q].base) /\ GoTo(q, "set_size")
    BY <1>4 DEF SetBase
  <2> QED BY <1>1, <1>2, <2>1, AxilWriteLoads DEF GoodData, SetOps, Drvs, DrvStates
<1>5. CASE SetSize(q)
  <2>1. AxilWrite("set_size", q, drv[q].log_size) /\ GoTo(q, "set_cqn")
    BY <1>5 DEF SetSize
  <2> QED BY <1>1, <1>2, <2>1, AxilWriteLoads DEF GoodData, SetOps, Drvs, DrvStates
<1>6. CASE SetCqn(q)
  <2>1. AxilWrite("set_cqn", q, drv[q].cqn) /\ GoTo(q, "set_prod")
    BY <1>6 DEF SetCqn
  <2> QED BY <1>1, <1>2, <2>1, AxilWriteLoads DEF GoodData, SetOps, Drvs, DrvStates
<1>7. CASE SetProd(q)
  <2>1. AxilWrite("set_prod", q, drv[q].prod) /\ GoTo(q, "set_cons")
    BY <1>7 DEF SetProd
  <2> QED BY <1>1, <1>2, <2>1, AxilWriteLoads DEF GoodData, SetOps, DrvStates
<1>8. CASE SetCons(q)
  <2>1. AxilWrite("set_cons", q, drv[q].cons) /\ GoTo(q, "opened")
    BY <1>8 DEF SetCons
  <2> QED BY <1>1, <1>2, <2>1, AxilWriteLoads DEF GoodData, SetOps, DrvStates
<1>9. CASE EnableRing(q)
  <2>1. AxilWrite("set_enable", q, 1) /\ GoTo(q, "enabled")
    BY <1>9 DEF EnableRing
  <2> QED BY <1>2, <2>1, AxilWriteLoads DEF GoodData, SetOps, Bit, DrvStates
<1>10. CASE WriteProdPtr(q)
  <2>1. PICK n \in Int : /\ Advance(q, [drv[q] EXCEPT !.prod = (drv[q].prod + n) % PtrMod])
                         /\ AxilWrite("set_prod", q, (drv[q].prod + n) % PtrMod)
    BY <1>10 DEF WriteProdPtr
  <2>2. (drv[q].prod + n) % PtrMod \in Ptrs
    BY <1>1, Arithmetic
  <2>3. drv' \in [Queues -> Drvs]
    BY <1>1, <2>1, <2>2 DEF Advance, Drvs
  <2> QED BY <1>1, <2>1, <2>2, <2>3, AxilWriteLoads DEF GoodData, SetOps
<1>11. CASE DisableRing(q)
  <2>1. AxilWrite("set_enable", q, 0) /\ GoTo(q, "disabled")
    BY <1>11 DEF DisableRing
  <2> QED BY <1>2, <2>1, AxilWriteLoads DEF GoodData, SetOps, Bit, DrvStates
<1>12. CASE CloseRing(q)
  <2>1. AxilWrite("set_enable", q, 0) /\ Advance(q, DrvClosed)
    BY <1>12 DEF CloseRing
  <2>2. DrvClosed \in Drvs
    BY Constants DEF DrvClosed, Drvs, DrvStates
  <2>3. drv' \in [Queues -> Drvs]
    BY <1>1, <2>1, <2>2 DEF Advance
  <2> QED BY <2>1, <2>3, AxilWriteLoads DEF GoodData, SetOps, Bit
<1> QED BY <1>3, <1>4, <1>5, <1>6, <1>7, <1>8, <1>9, <1>10, <1>11, <1>12 DEF DriverWrite

\* Stage 0 loads one entry per clock, whatever it accepts.
LEMMA Stage0Loads ==
    ASSUME TypeOK, NEW r \in BOOLEAN, Stage0(r)
    PROVE  /\ \E e \in Entries : Loads(e, r)
           /\ drv' \in [Queues -> Drvs]
<1>1. CASE \E q \in Queues : DriverWrite(q)
  BY <1>1, DriverWriteLoads
<1>2. CASE UNCHANGED drv /\ \E q \in ReadQueues : AxilRead(q)
  <2>1. PICK q \in Queues : AxilRead(q)
    BY <1>2, ReadQueuesAssumption
  <2> DEFINE e == [op |-> "read", addr |-> q, data |-> queue_ram[q], wdata |-> 0]
  <2>2. e \in Entries
    BY DEF TypeOK, Entries, OpKinds
  <2>3. Loads(e, r)
    BY <2>1 DEF Loads, AxilRead, Load, GoodData
  <2> QED BY <1>2, <2>2, <2>3 DEF TypeOK
<1>3. CASE UNCHANGED drv /\ CommitFinalize
  <2> DEFINE t == op_table[op_table_finish_ptr]
             e == [op |-> "commit", addr |-> t.queue, data |-> queue_ram[t.queue],
                   wdata |-> t.queue_ptr]
  <2>1. t \in OpEntries
    BY DEF TypeOK
  <2>2. t.queue \in Queues /\ t.queue_ptr \in Ptrs /\ t.queue_ptr \in Nat
    BY <2>1, PtrModAssumption DEF OpEntries, Ptrs
  <2>3. e \in Entries
    BY <2>2 DEF TypeOK, Entries, OpKinds
  <2>4. Loads(e, r)
    BY <1>3, <2>2 DEF Loads, CommitFinalize, CommitReady, Load, GoodData
  <2> QED BY <1>3, <2>3, <2>4 DEF TypeOK
<1>4. CASE UNCHANGED drv /\ \E q \in Queues : DequeueRequest(q, r)
  <2>1. PICK q \in Queues : DequeueRequest(q, r)
    BY <1>4
  <2> DEFINE e == [op |-> "req", addr |-> q, data |-> queue_ram[q], wdata |-> 0]
  <2>2. e \in Entries
    BY DEF TypeOK, Entries, OpKinds
  <2>3. Loads(e, r)
    BY <2>1 DEF Loads, DequeueRequest, Load, GoodData
  <2> QED BY <1>4, <2>2, <2>3 DEF TypeOK
<1>5. CASE UNCHANGED drv /\ Bubble
  <2>1. NoOp \in Entries
    BY Constants DEF NoOp, Entries, OpKinds, Words, ResetWord, Bit
  <2>2. Loads(NoOp, r)
    BY <1>5 DEF Loads, Bubble, GoodData, NoOp
  <2> QED BY <1>5, <2>1, <2>2 DEF TypeOK
<1> QED BY <1>1, <1>2, <1>3, <1>4, <1>5 DEF Stage0

\* The operation in the last stage, and the pointer a dequeue there would use.
LEMMA LastType ==
    ASSUME TypeOK
    PROVE  /\ Last \in Entries /\ GoodData(Last)
           /\ Last.addr \in Queues /\ Last.data \in Words
           /\ ActiveConsPtr \in Ptrs
<1>1. Last \in Entries /\ GoodData(Last)
  BY Constants DEF TypeOK, Last
<1>2. Last.addr \in Queues /\ Last.data \in Words
  BY <1>1 DEF Entries
<1>3. Last.data.op_index \in OpIdx /\ Last.data.cons \in Ptrs
  BY <1>2 DEF Words
<1>4. op_table[Last.data.op_index].queue_ptr \in Ptrs
  BY <1>3 DEF TypeOK, OpEntries
<1> QED BY <1>1, <1>2, <1>3, <1>4 DEF ActiveConsPtr

\* Performing the operation in the last stage keeps the queue words typed.
LEMMA PerformType ==
    ASSUME TypeOK, Perform
    PROVE  queue_ram' \in [Queues -> Words] /\ doorbell' \subseteq Queues
<1>1. /\ Last \in Entries /\ GoodData(Last) /\ Last.addr \in Queues /\ Last.data \in Words
      /\ queue_ram \in [Queues -> Words] /\ op_table_start_ptr \in OpIdx
  BY LastType DEF TypeOK
<1>2. CASE PerformReq
  BY <1>1, <1>2 DEF PerformReq, Words
<1>3. CASE PerformCommit
  BY <1>1, <1>3 DEF PerformCommit, Words, GoodData
<1>4. CASE PerformWrite
  <2>1. ASSUME NEW w \in Words PROVE WriteWord(w) \in Words
    BY <1>1, <1>4 DEF WriteWord, Words, GoodData
  <2> QED BY <1>1, <1>4, <2>1 DEF PerformWrite
<1>5. CASE PerformNothing
  BY <1>1, <1>5 DEF PerformNothing
<1> QED BY <1>2, <1>3, <1>4, <1>5 DEF Perform

\* A step of the pipeline keeps every register typed.
LEMMA ClockType ==
    ASSUME TypeOK, Clock
    PROVE  TypeOK'
<1>1. PICK r \in BOOLEAN, done \in CommitChoices :
          /\ Stage0(r)
          /\ Perform
          /\ RespNext(r)
          /\ OpTableNext({h.op_tag : h \in done})
          /\ FetchNext(r, done)
  BY DEF Clock
<1>2. PICK e \in Entries : Loads(e, r)
  BY <1>1, Stage0Loads
<1>3. drv' \in [Queues -> Drvs]
  BY <1>1, Stage0Loads
<1>4. queue_ram' \in [Queues -> Words] /\ doorbell' \subseteq Queues
  BY <1>1, PerformType
<1>5. /\ Last \in Entries /\ GoodData(Last) /\ Last.addr \in Queues /\ Last.data \in Words
      /\ ActiveConsPtr \in Ptrs
  BY LastType
<1>6. pipe' \in [Stages -> Entries] /\ \A j \in Stages : GoodData(pipe'[j])
  BY <1>2, Constants DEF Loads, Shift, TypeOK
<1>7. resp' \in Resps \cup {NoResp}
  <2>1. CASE Last.op = "req"
    <3>1. Slot(ActiveConsPtr, Last.data.log_size) \in Nat
      BY <1>5, Arithmetic DEF Words
    <3>2. /\ Last.data.base \in Bases \cup {0} /\ Last.data.cqn \in Cqns \cup {0}
          /\ op_table_start_ptr \in OpIdx
      BY <1>5 DEF Words, TypeOK
    <3>3. Phase(ActiveConsPtr, Last.data.log_size) \in BOOLEAN
      BY DEF Phase
    <3>4. QueueEmpty \in BOOLEAN
      BY DEF QueueEmpty
    <3> QED BY <1>1, <1>5, <2>1, <3>1, <3>2, <3>3, <3>4 DEF RespNext, Resps
  <2>2. CASE Last.op # "req"
    BY <1>1, <2>2 DEF RespNext, TypeOK
  <2> QED BY <2>1, <2>2
<1>8. op_table' \in [OpIdx -> OpEntries]
  <2> SUFFICES ASSUME NEW i \in OpIdx PROVE op_table'[i] \in OpEntries
    BY <1>1 DEF OpTableNext
  <2>1. FreeEntry \in OpEntries
    BY Constants DEF FreeEntry, OpEntries
  <2>2. Inc(ActiveConsPtr) \in Ptrs
    BY <1>5, Arithmetic
  <2>3. op_table[i] \in OpEntries
    BY DEF TypeOK
  <2> DEFINE tags == {h.op_tag : h \in done}
  <2> HIDE DEF tags
  <2>4. [op_table[i] EXCEPT !.commit = @ \/ i \in tags] \in OpEntries
    <3>1. \A b \in BOOLEAN : [op_table[i] EXCEPT !.commit = b] \in OpEntries
      BY <2>3 DEF OpEntries
    <3>2. (op_table[i].commit \/ i \in tags) \in BOOLEAN
      OBVIOUS
    <3> QED BY <3>1, <3>2
  <2>5. [active |-> TRUE, commit |-> i \in tags, queue |-> Last.addr,
         queue_ptr |-> Inc(ActiveConsPtr)] \in OpEntries
    BY <1>5, <2>2 DEF OpEntries
  <2>6. OpTableNext(tags)
    BY <1>1 DEF tags
  <2> QED BY <2>1, <2>4, <2>5, <2>6, Zenon DEF OpTableNext
<1>9. op_table_start_ptr' \in OpIdx /\ op_table_finish_ptr' \in OpIdx
  BY <1>1, Arithmetic DEF OpTableNext, TypeOK
<1>10. done \subseteq held
  BY DEF CommitChoices
<1>11. held' \subseteq Resps
  <2>1. resp.valid => resp \in Resps
    BY DEF TypeOK, NoResp
  <2> QED BY <1>1, <2>1 DEF FetchNext, TypeOK
<1>12. fetched' \in [Queues -> SUBSET Ptrs]
  <2>1. \A q \in Queues : {h.ptr : h \in {d \in done : d.queue = q}} \subseteq Ptrs
    BY <1>10 DEF TypeOK, Resps
  <2>2. \A q \in Queues : fetched[q] \subseteq Ptrs
    BY DEF TypeOK
  <2> DEFINE new(q) == {h.ptr : h \in {d \in done : d.queue = q}}
  <2>3. fetched' = [q \in Queues |-> IF drv'[q].pc = "closed" THEN {}
                                     ELSE fetched[q] \cup new(q)]
    BY <1>1 DEF FetchNext
  <2>4. \A q \in Queues : new(q) \subseteq Ptrs
    BY <2>1
  <2> HIDE DEF new
  <2> QED BY <2>2, <2>3, <2>4
<1> QED BY <1>3, <1>4, <1>6, <1>7, <1>8, <1>9, <1>11, <1>12 DEF TypeOK

\* A step of the driver outside the pipeline keeps every register typed.
LEMMA DriverType ==
    ASSUME TypeOK, NEW q \in Queues, Reap(q)
    PROVE  TypeOK'
<1>1. drv' \in [Queues -> Drvs]
  BY Arithmetic DEF Reap, Advance, Drvs, TypeOK
<1>2. fetched' \in [Queues -> SUBSET Ptrs]
  BY DEF Reap, TypeOK
<1> QED BY <1>1, <1>2 DEF Reap, TypeOK

\* Every register of the queue manager keeps its type, for any number of
\* queues, table size, pipeline depth and pointer width (queue_manager.v).
THEOREM TypeCorrect == Spec => []TypeOK
<1>1. Init => TypeOK
  BY TypeInit
<1>2. TypeOK /\ [Next]_vars => TypeOK'
  <2> SUFFICES ASSUME TypeOK, [Next]_vars PROVE TypeOK'
    OBVIOUS
  <2>1. CASE Clock
    BY <2>1, ClockType
  <2>2. CASE \E q \in Queues : Reap(q)
    BY <2>2, DriverType
  <2>3. CASE UNCHANGED vars
    BY <2>3 DEF vars, TypeOK
  <2> QED BY <2>1, <2>2, <2>3 DEF Next
<1> QED BY <1>1, <1>2, PTL DEF Spec
-----------------------------------------------------------------------------
(* The inductive invariant behind the safety properties: at most one       *)
(* dequeue request is in the pipeline, and a response waiting in its       *)
(* register is not also with the fetch engine.                             *)

OneReq == \A j, k \in Stages : pipe[j].op = "req" /\ pipe[k].op = "req" => j = k

IsGrant(g) == g.valid /\ ~g.error /\ ~g.empty

RespNotHeld == resp.valid /\ IsGrant(resp) => resp \notin held

PipeInv == PipeCoherent /\ OneReq
TableInv == ReqResourcesFree /\ OpTableRing
GrantInv == TagsExclusive /\ RespNotHeld

IInv == TypeOK /\ PipeInv /\ TableInv /\ GrantInv

\* The last stage writes the word of its own queue and no other.
LEMMA PerformFrame ==
    ASSUME TypeOK, Perform, NEW q \in Queues, Last.op = "none" \/ q # Last.addr
    PROVE  queue_ram'[q] = queue_ram[q]
<1>1. queue_ram \in [Queues -> Words]
  BY DEF TypeOK
<1>2. CASE PerformReq
  BY <1>1, <1>2 DEF PerformReq
<1>3. CASE PerformCommit
  BY <1>1, <1>3 DEF PerformCommit
<1>4. CASE PerformWrite
  BY <1>1, <1>4 DEF PerformWrite, SetOps
<1>5. CASE PerformNothing
  BY <1>5 DEF PerformNothing
<1> QED BY <1>2, <1>3, <1>4, <1>5 DEF Perform

\* The pipeline part: an accepted operation is on a queue no stage works on.
LEMMA ClockPipe ==
    ASSUME TypeOK, PipeInv, Perform, NEW r \in BOOLEAN, NEW e \in Entries, Loads(e, r)
    PROVE  PipeInv'
<1>1. /\ pipe'[0] = e
      /\ \A j \in Stages \ {0} : pipe'[j] = pipe[j - 1] /\ j - 1 \in Stages
                                 /\ j - 1 # PIPELINE - 1
  BY Constants, PipelineAssumption DEF Loads, Shift, Stages
<1>2. \A j \in Stages : pipe[j] \in Entries /\ pipe[j].addr \in Queues
  BY DEF TypeOK, Entries
<1>3. Last = pipe[PIPELINE - 1] /\ PIPELINE - 1 \in Stages
  BY Constants DEF Last
<1>4. \A j \in Stages : pipe[j].op # "none" /\ e.op # "none" => pipe[j].addr # e.addr
  BY DEF Loads, PipeHazard
<1>5. ASSUME NEW j \in Stages, j # PIPELINE - 1, pipe[j].op # "none"
      PROVE  pipe[j].data = queue_ram'[pipe[j].addr]
  <2>1. Last.op = "none" \/ pipe[j].addr # Last.addr
    BY <1>3, <1>5 DEF PipeInv, PipeCoherent
  <2>2. queue_ram'[pipe[j].addr] = queue_ram[pipe[j].addr]
    BY <1>2, <2>1, PerformFrame
  <2> QED BY <1>5, <2>2 DEF PipeInv, PipeCoherent
<1>6. e.op # "none" => e.data = queue_ram'[e.addr]
  <2> SUFFICES ASSUME e.op # "none" PROVE e.data = queue_ram'[e.addr]
    OBVIOUS
  <2>1. e.addr \in Queues
    BY DEF Entries
  <2>2. queue_ram'[e.addr] = queue_ram[e.addr]
    BY <1>3, <1>4, <2>1, PerformFrame
  <2> QED BY <2>2 DEF Loads
<1>7. PipeCoherent'
  <2> SUFFICES ASSUME NEW j \in Stages, pipe'[j].op # "none"
               PROVE  /\ pipe'[j].data = queue_ram'[pipe'[j].addr]
                      /\ \A k \in Stages \ {j} : pipe'[k].op # "none"
                                                 => pipe'[k].addr # pipe'[j].addr
    BY DEF PipeCoherent
  <2>1. pipe'[j].data = queue_ram'[pipe'[j].addr]
    BY <1>1, <1>5, <1>6
  <2>2. ASSUME NEW k \in Stages \ {j}, pipe'[k].op # "none"
        PROVE  pipe'[k].addr # pipe'[j].addr
    <3>1. CASE j = 0
      BY <1>1, <1>4, <2>2, <3>1
    <3>2. CASE k = 0
      BY <1>1, <1>4, <2>2, <3>2
    <3>3. CASE j # 0 /\ k # 0
      <4>1. j - 1 # k - 1
        BY <2>2, PipelineAssumption DEF Stages
      <4> QED BY <1>1, <2>2, <3>3, <4>1 DEF PipeInv, PipeCoherent
    <3> QED BY <3>1, <3>2, <3>3
  <2> QED BY <2>1, <2>2
<1>8. OneReq'
  <2> SUFFICES ASSUME NEW j \in Stages, NEW k \in Stages,
                      pipe'[j].op = "req", pipe'[k].op = "req", j # k
               PROVE  FALSE
    BY DEF OneReq
  <2>1. CASE j = 0
    BY <1>1, <2>1 DEF Loads, InPipe
  <2>2. CASE k = 0
    BY <1>1, <2>2 DEF Loads, InPipe
  <2>3. CASE j # 0 /\ k # 0
    <3>1. j - 1 # k - 1
      BY PipelineAssumption DEF Stages
    <3> QED BY <1>1, <2>3, <3>1 DEF PipeInv, OneReq
  <2> QED BY <2>1, <2>2, <2>3
<1> QED BY <1>7, <1>8 DEF PipeInv

\* The operation table entries after a clock, entry by entry.
LEMMA TableStep ==
    ASSUME TypeOK, NEW tags, OpTableNext(tags), NEW i \in OpIdx
    PROVE  /\ FinishEn /\ i = op_table_finish_ptr => op_table'[i] = FreeEntry
           /\ ~(FinishEn /\ i = op_table_finish_ptr) /\ StartEn /\ i = op_table_start_ptr =>
                /\ op_table'[i].active
                /\ op_table'[i].commit <=> i \in tags
                /\ op_table'[i].queue = Last.addr
                /\ op_table'[i].queue_ptr = Inc(ActiveConsPtr)
           /\ ~(FinishEn /\ i = op_table_finish_ptr) /\ ~(StartEn /\ i = op_table_start_ptr) =>
                /\ op_table'[i].active <=> op_table[i].active
                /\ op_table'[i].commit <=> (op_table[i].commit \/ i \in tags)
                /\ op_table'[i].queue = op_table[i].queue
                /\ op_table'[i].queue_ptr = op_table[i].queue_ptr
<1>1. op_table[i] \in OpEntries
  BY DEF TypeOK
<1>2. CASE FinishEn /\ i = op_table_finish_ptr
  BY <1>2, Zenon DEF OpTableNext
<1>3. CASE ~(FinishEn /\ i = op_table_finish_ptr) /\ StartEn /\ i = op_table_start_ptr
  <2>1. op_table'[i] = [active |-> TRUE, commit |-> i \in tags, queue |-> Last.addr,
                        queue_ptr |-> Inc(ActiveConsPtr)]
    BY <1>3, Zenon DEF OpTableNext
  <2>2. /\ op_table'[i].active = TRUE
        /\ op_table'[i].commit = (i \in tags)
        /\ op_table'[i].queue = Last.addr
        /\ op_table'[i].queue_ptr = Inc(ActiveConsPtr)
    BY <2>1
  <2> QED BY <1>3, <2>2, Zenon
<1>4. CASE ~(FinishEn /\ i = op_table_finish_ptr) /\ ~(StartEn /\ i = op_table_start_ptr)
  <2> DEFINE c == op_table[i].commit \/ i \in tags
  <2>1. op_table'[i] = [op_table[i] EXCEPT !.commit = c]
    BY <1>4, Zenon DEF OpTableNext
  <2>2. \A b \in BOOLEAN : LET t == [op_table[i] EXCEPT !.commit = b]
                          IN  /\ t.active = op_table[i].active
                              /\ t.commit = b
                              /\ t.queue = op_table[i].queue
                              /\ t.queue_ptr = op_table[i].queue_ptr
    BY <1>1 DEF OpEntries
  <2>3. c \in BOOLEAN
    OBVIOUS
  <2>4. /\ op_table'[i].active = op_table[i].active
        /\ op_table'[i].commit = c
        /\ op_table'[i].queue = op_table[i].queue
        /\ op_table'[i].queue_ptr = op_table[i].queue_ptr
    BY <2>1, <2>2, <2>3, Zenon
  <2> QED BY <1>4, <2>4, Zenon
<1> QED BY <1>2, <1>3, <1>4

\* The table part: allocation finds a free entry at start_ptr, retirement
\* frees the one at finish_ptr, and the ring in between stays full.
LEMMA ClockTable ==
    ASSUME TypeOK, PipeInv, TableInv, NEW r \in BOOLEAN, NEW e \in Entries, Loads(e, r),
           NEW tags, RespNext(r), OpTableNext(tags)
    PROVE  TableInv'
<1> DEFINE s == op_table_start_ptr
           f == op_table_finish_ptr
<1>1. /\ pipe'[0] = e
      /\ \A j \in Stages \ {0} : pipe'[j] = pipe[j - 1] /\ j - 1 \in Stages
                                 /\ j - 1 # PIPELINE - 1
  BY Constants, PipelineAssumption DEF Loads, Shift, Stages
<1>2. FinishEn <=> e.op = "commit"
  BY <1>1 DEF FinishEn
<1>3. FinishEn => op_table[f].active
  BY <1>2 DEF Loads, CommitReady
<1>4. StartEn => Last.op = "req" /\ ~op_table[s].active /\ ~resp.valid
  BY Constants DEF StartEn, Last, TableInv, ReqResourcesFree, InPipe
<1>5. s \in OpIdx /\ f \in OpIdx /\ s' \in OpIdx /\ f' \in OpIdx
  BY Arithmetic DEF OpTableNext, TypeOK
<1>6. \A i \in OpIdx : op_table'[i].active <=>
         /\ ~(FinishEn /\ i = f)
         /\ op_table[i].active \/ (StartEn /\ i = s)
  <2> SUFFICES ASSUME NEW i \in OpIdx
               PROVE  op_table'[i].active <=>
                        /\ ~(FinishEn /\ i = f)
                        /\ op_table[i].active \/ (StartEn /\ i = s)
    OBVIOUS
  <2>1. ~FreeEntry.active
    BY DEF FreeEntry
  <2>2. CASE FinishEn /\ i = f
    BY <2>1, <2>2, TableStep, Zenon
  <2>3. CASE ~(FinishEn /\ i = f) /\ StartEn /\ i = s
    BY <2>3, TableStep, Zenon
  <2>4. CASE ~(FinishEn /\ i = f) /\ ~(StartEn /\ i = s)
    BY <2>4, TableStep, Zenon
  <2> QED BY <2>2, <2>3, <2>4, Zenon
<1>7. ReqResourcesFree'
  <2> SUFFICES ASSUME NEW j \in Stages, pipe'[j].op = "req"
               PROVE  ~resp'.valid /\ ~op_table'[s'].active
    BY DEF ReqResourcesFree, InPipe
  <2>1. Last.op # "req"
    <3>1. CASE j = 0
      BY <1>1, <3>1, Constants DEF Loads, InPipe, Last
    <3>2. CASE j # 0
      BY <1>1, <3>2, Constants DEF PipeInv, OneReq, Last
    <3> QED BY <3>1, <3>2
  <2>2. (resp.valid => r) /\ ~op_table[s].active
    <3>1. CASE j = 0
      BY <1>1, <3>1 DEF Loads
    <3>2. CASE j # 0
      BY <1>1, <3>2 DEF TableInv, ReqResourcesFree, InPipe
    <3> QED BY <3>1, <3>2
  <2>3. ~resp'.valid
    BY <2>1, <2>2 DEF RespNext, NoResp
  <2>4. s' = s /\ ~StartEn
    BY <2>1 DEF OpTableNext, StartEn
  <2> QED BY <1>5, <1>6, <2>2, <2>3, <2>4
<1>8. OpTableRing'
  <2>1. s' = (IF StartEn THEN NextIdx(s) ELSE s) /\ f' = (IF FinishEn THEN NextIdx(f) ELSE f)
    BY DEF OpTableNext
  <2> QED BY <1>3, <1>4, <1>5, <1>6, <2>1, OpTableAssumption, SMTT(60)
      DEF TableInv, OpTableRing, InRing, NextIdx, OpIdx
<1> QED BY <1>7, <1>8 DEF TableInv

\* The grant part: a new response names an entry that was free, a commit
\* touches the entry of the response it commits only, and a retired entry is
\* committed, hence nobody's.
LEMMA ClockGrant ==
    ASSUME IInv, TypeOK', NEW r \in BOOLEAN, NEW e \in Entries, Loads(e, r),
           NEW done \in CommitChoices, RespNext(r),
           OpTableNext({h.op_tag : h \in done}), FetchNext(r, done)
    PROVE  GrantInv'
<1> DEFINE s == op_table_start_ptr
           f == op_table_finish_ptr
           tags == {h.op_tag : h \in done}
<1> USE DEF IsGrant
<1>1. TypeOK /\ TableInv /\ TagsExclusive /\ RespNotHeld
  BY DEF IInv, GrantInv
<1>2. FinishEn => op_table[f].active /\ op_table[f].commit
  <2>1. pipe'[0] = e
    BY Constants DEF Loads, Shift
  <2> QED BY <2>1 DEF FinishEn, Loads, CommitReady
<1>3. Last.op = "req" => ~op_table[s].active /\ ~resp.valid
  BY <1>1, Constants DEF Last, TableInv, ReqResourcesFree, InPipe
<1>4. done \subseteq held
  BY DEF CommitChoices
<1>5. \A g \in Granted : g \in Resps /\ g.op_tag \in OpIdx
  <2>1. resp.valid => resp \in Resps
    BY <1>1 DEF TypeOK, NoResp
  <2> QED BY <1>1, <2>1 DEF Granted, TypeOK, Resps
<1>6. held \subseteq Granted
  BY DEF Granted
<1>7. ASSUME NEW g \in Granted, g \notin done
      PROVE  /\ op_table[g.op_tag].active
             /\ ~(FinishEn /\ g.op_tag = f)
             /\ ~(StartEn /\ g.op_tag = s)
             /\ g.op_tag \notin tags
  <2>1. op_table[g.op_tag].active /\ ~op_table[g.op_tag].commit
    BY <1>1, <1>7 DEF TagsExclusive
  <2>2. ~(FinishEn /\ g.op_tag = f)
    BY <1>2, <2>1
  <2>3. ~(StartEn /\ g.op_tag = s)
    BY <1>3, <2>1 DEF StartEn
  <2>4. g.op_tag \notin tags
    BY <1>1, <1>4, <1>6, <1>7 DEF TagsExclusive
  <2> QED BY <2>1, <2>2, <2>3, <2>4
<1>8. Last.op = "req" /\ IsGrant(resp') =>
         /\ StartEn
         /\ resp'.op_tag = s /\ resp'.queue = Last.addr /\ resp'.ptr = ActiveConsPtr
  <2> SUFFICES ASSUME Last.op = "req", IsGrant(resp')
               PROVE  /\ StartEn
                      /\ resp'.op_tag = s
                      /\ resp'.queue = Last.addr
                      /\ resp'.ptr = ActiveConsPtr
    OBVIOUS
  <2>1. Last.data.enable \in Bit
    BY <1>1, LastType DEF Words
  <2>2. /\ resp'.op_tag = s /\ resp'.queue = Last.addr /\ resp'.ptr = ActiveConsPtr
        /\ resp'.error = (Last.data.enable = 0)
        /\ resp'.empty = (Last.data.enable = 1 /\ QueueEmpty)
    BY DEF RespNext
  <2> QED BY <2>1, <2>2 DEF StartEn, Bit
<1>9. Last.op # "req" /\ resp'.valid /\ IsGrant(resp') =>
         resp' = resp /\ resp \in Granted /\ resp \notin held /\ ~r
  BY <1>1 DEF RespNext, NoResp, Granted, RespNotHeld
<1>10. \A g \in held' : g \in Granted /\ g \notin done
  BY <1>1, <1>4 DEF FetchNext, Granted, RespNotHeld
<1>11. ASSUME NEW g \in Granted'
       PROVE  \/ g \in Granted /\ g \notin done
              \/ g = resp' /\ Last.op = "req" /\ IsGrant(resp')
  BY <1>4, <1>9, <1>10, <1>11 DEF Granted
<1>12. TagsExclusive'
  <2> SUFFICES ASSUME NEW g \in Granted'
               PROVE  /\ op_table'[g.op_tag].active
                      /\ ~op_table'[g.op_tag].commit
                      /\ op_table'[g.op_tag].queue = g.queue
                      /\ op_table'[g.op_tag].queue_ptr = Inc(g.ptr)
                      /\ \A h \in Granted' : h.op_tag = g.op_tag => h = g
    BY DEF TagsExclusive
  <2>1. CASE g \in Granted /\ g \notin done
    <3>1. /\ op_table[g.op_tag].queue = g.queue
          /\ op_table[g.op_tag].queue_ptr = Inc(g.ptr)
          /\ ~op_table[g.op_tag].commit
      BY <1>1, <2>1 DEF TagsExclusive
    <3>2. /\ op_table'[g.op_tag].active <=> op_table[g.op_tag].active
          /\ op_table'[g.op_tag].commit <=> (op_table[g.op_tag].commit \/ g.op_tag \in tags)
          /\ op_table'[g.op_tag].queue = op_table[g.op_tag].queue
          /\ op_table'[g.op_tag].queue_ptr = op_table[g.op_tag].queue_ptr
      BY <1>1, <1>5, <1>7, <2>1, TableStep, Zenon
    <3>3. ASSUME NEW h \in Granted', h.op_tag = g.op_tag
          PROVE  h = g
      <4>1. CASE h \in Granted /\ h \notin done
        BY <1>1, <2>1, <3>3, <4>1 DEF TagsExclusive
      <4>2. CASE h = resp' /\ Last.op = "req" /\ IsGrant(resp')
        BY <1>7, <1>8, <2>1, <3>3, <4>2
      <4> QED BY <1>11, <3>3, <4>1, <4>2
    <3> QED BY <1>7, <2>1, <3>1, <3>2, <3>3
  <2>2. CASE g = resp' /\ Last.op = "req" /\ IsGrant(resp')
    <3>1. /\ StartEn /\ g.op_tag = s /\ g.queue = Last.addr /\ g.ptr = ActiveConsPtr
          /\ s \in OpIdx
      BY <1>1, <1>8, <2>2 DEF TypeOK
    <3>2. ~(FinishEn /\ s = f)
      BY <1>2, <1>3, <2>2
    <3>3. s \notin tags
      BY <1>1, <1>3, <1>4, <1>6, <2>2 DEF TagsExclusive
    <3>4. /\ op_table'[s].active
          /\ op_table'[s].commit <=> s \in tags
          /\ op_table'[s].queue = Last.addr
          /\ op_table'[s].queue_ptr = Inc(ActiveConsPtr)
      BY <1>1, <3>1, <3>2, TableStep, Zenon
    <3>5. ASSUME NEW h \in Granted', h.op_tag = g.op_tag
          PROVE  h = g
      <4>1. CASE h \in Granted /\ h \notin done
        BY <1>7, <3>1, <3>5, <4>1
      <4>2. CASE h = resp' /\ Last.op = "req" /\ IsGrant(resp')
        BY <2>2, <4>2
      <4> QED BY <1>11, <3>5, <4>1, <4>2
    <3> QED BY <3>1, <3>3, <3>4, <3>5
  <2> QED BY <1>11, <2>1, <2>2
<1>13. RespNotHeld'
  <2> SUFFICES ASSUME resp'.valid, IsGrant(resp'), resp' \in held' PROVE FALSE
    BY DEF RespNotHeld
  <2>1. CASE Last.op = "req"
    BY <1>7, <1>8, <1>10, <2>1
  <2>2. CASE Last.op # "req"
    BY <1>9, <2>2 DEF FetchNext
  <2> QED BY <2>1, <2>2
<1> QED BY <1>12, <1>13 DEF GrantInv

\* Every step, of the pipeline or outside it, preserves the inductive invariant.
LEMMA InvInductive == IInv /\ [Next]_vars => IInv'
<1> SUFFICES ASSUME IInv, [Next]_vars PROVE IInv'
  OBVIOUS
<1>1. CASE Clock
  <2>1. PICK r \in BOOLEAN, done \in CommitChoices :
            /\ Stage0(r)
            /\ Perform
            /\ RespNext(r)
            /\ OpTableNext({h.op_tag : h \in done})
            /\ FetchNext(r, done)
    BY <1>1 DEF Clock
  <2>2. PICK e \in Entries : Loads(e, r)
    BY <2>1, Stage0Loads DEF IInv
  <2>3. TypeOK'
    BY <1>1, ClockType DEF IInv
  <2>4. PipeInv'
    BY <2>1, <2>2, ClockPipe DEF IInv
  <2>5. TableInv'
    BY <2>1, <2>2, ClockTable DEF IInv
  <2>6. GrantInv'
    BY <2>1, <2>2, <2>3, ClockGrant
  <2> QED BY <2>3, <2>4, <2>5, <2>6 DEF IInv
<1>2. CASE \E q \in Queues : Reap(q)
  <2>1. TypeOK'
    BY <1>2, DriverType DEF IInv
  <2>2. UNCHANGED <<queue_ram, pipe, op_table, op_table_start_ptr,
                    op_table_finish_ptr, resp, held>>
    BY <1>2 DEF Reap
  <2> QED BY <2>1, <2>2 DEF IInv, PipeInv, TableInv, GrantInv, PipeCoherent, OneReq,
             ReqResourcesFree, InPipe, OpTableRing, InRing, TagsExclusive, Granted, RespNotHeld,
             IsGrant
<1>3. CASE UNCHANGED vars
  BY <1>3 DEF vars, IInv, TypeOK, PipeInv, TableInv, GrantInv, PipeCoherent, OneReq,
     ReqResourcesFree, InPipe, OpTableRing, InRing, TagsExclusive, Granted, RespNotHeld, IsGrant
<1> QED BY <1>1, <1>2, <1>3 DEF Next

\* The reset state satisfies the inductive invariant.
LEMMA InvInit == Init => IInv
<1> SUFFICES ASSUME Init PROVE IInv
  OBVIOUS
<1>1. TypeOK
  BY TypeInit
<1>2. PipeInv
  BY DEF Init, PipeInv, PipeCoherent, OneReq, NoOp
<1>3. TableInv
  BY DEF Init, TableInv, ReqResourcesFree, InPipe, OpTableRing, FreeEntry, NoOp
<1>4. GrantInv
  BY DEF Init, GrantInv, TagsExclusive, Granted, RespNotHeld, NoResp
<1> QED BY <1>1, <1>2, <1>3, <1>4 DEF IInv

\* The inductive invariant holds in every state.
LEMMA Invariance == Spec => []IInv
BY InvInit, InvInductive, PTL DEF Spec

\* No operation of the pipeline ever acts on a stale copy of a queue's word
\* (the hazard comparison of queue_manager.v:363-369 is sufficient).
THEOREM HazardFree == Spec => []PipeCoherent
<1>1. IInv => PipeCoherent
  BY DEF IInv, PipeInv
<1> QED BY <1>1, Invariance, PTL

\* No dequeue response is overwritten and no operation table entry in use is
\* reallocated, although both are tested PIPELINE clocks before they are used.
THEOREM ResourcesFree == Spec => []ReqResourcesFree
<1>1. IInv => ReqResourcesFree
  BY DEF IInv, TableInv
<1> QED BY <1>1, Invariance, PTL

\* The active operation table entries are those from finish_ptr to start_ptr.
THEOREM TableIsRing == Spec => []OpTableRing
<1>1. IInv => OpTableRing
  BY DEF IInv, TableInv
<1> QED BY <1>1, Invariance, PTL

\* A dequeue handed out owns its operation table entry until it is committed,
\* whatever the order of the commits.
THEOREM TagsAreExclusive == Spec => []TagsExclusive
<1>1. IInv => TagsExclusive
  BY DEF IInv, GrantInv
<1> QED BY <1>1, Invariance, PTL

---------------------------------------------------------------------------
(* Who owns a descriptor: the descriptors that the hardware reads are the  *)
(* driver's posted ones (GrantedOwned), and the pipelined module           *)
(* implements the queue with three pointers of DescQueue.                  *)
(*                                                                         *)
(* The pointers of a queue are remainders of integers that only grow: B,   *)
(* where the retired descriptors end; N, the next to hand out; U and X,    *)
(* the driver's consumer and producer; P, the producer the hardware knows. *)
(* The entries of the queue in the operation table are a chain c[B+1] ..   *)
(* c[N], in the order in which they were taken.                            *)

Opening == {"set_base", "set_size", "set_cqn", "set_prod", "set_cons"}
Live    == {"opened", "enabled", "disabled"}
Busy    == {"enabled", "disabled"}

Carrying(q, o, w) == \E j \in Stages : pipe[j].op = o /\ pipe[j].addr = q /\ pipe[j].wdata = w
Doing(q, o)       == \E j \in Stages : pipe[j].op = o /\ pipe[j].addr = q

\* One register write is in the pipeline at a time.
OneSet == \A j, k \in Stages : pipe[j].op \in SetOps /\ pipe[k].op \in SetOps => j = k

\* The register write in the pipeline is the last one that the driver made.
Latest(d, o, w) ==
    \/ o = "set_enable" /\ w = 0 /\ d.pc \in {"closed", "set_base", "disabled"}
    \/ o = "set_enable" /\ w = 1 /\ d.pc = "enabled"
    \/ o = "set_base" /\ w = d.base /\ d.pc = "set_size"
    \/ o = "set_size" /\ w = d.log_size /\ d.pc = "set_cqn"
    \/ o = "set_cqn" /\ w = d.cqn /\ d.pc = "set_prod"
    \/ o = "set_prod" /\ w = d.prod /\ d.pc \in {"set_cons"} \cup Live
    \/ o = "set_cons" /\ w = d.cons /\ d.pc = "opened"

WriteInv == \A j \in Stages : pipe[j].op \in SetOps =>
                Latest(drv[pipe[j].addr], pipe[j].op, pipe[j].wdata)

\* The word of a queue follows the driver, field by field; a queue is enabled only
\* between EnableRing and DisableRing, and new until its pointers are written.
PhaseInv ==
    \A q \in Queues :
        /\ drv[q].pc \in {"closed"} \cup Opening \/ Doing(q, "set_cons") =>
             drv[q].prod = 0 /\ drv[q].cons = 0 /\ fetched[q] = {}
        /\ drv[q].pc \in {"closed", "opened"} \cup Opening => queue_ram[q].enable = 0
        /\ drv[q].pc \in {"set_cqn", "set_prod", "set_cons"} \cup Live =>
             queue_ram[q].base = drv[q].base
        /\ drv[q].pc = "set_size" => Doing(q, "set_base") \/ queue_ram[q].base = drv[q].base
        /\ drv[q].pc \in {"set_prod", "set_cons"} \cup Live =>
             queue_ram[q].log_size = drv[q].log_size
        /\ drv[q].pc = "set_cqn" =>
             Doing(q, "set_size") \/ queue_ram[q].log_size = drv[q].log_size
        /\ drv[q].pc \in {"set_cons"} \cup Live => queue_ram[q].cqn = drv[q].cqn
        /\ drv[q].pc = "set_prod" => Doing(q, "set_cqn") \/ queue_ram[q].cqn = drv[q].cqn
        /\ drv[q].pc = "set_cons" => Doing(q, "set_prod") \/ queue_ram[q].prod = drv[q].prod
        /\ Doing(q, "set_cons") => queue_ram[q].prod = drv[q].prod

\* The position of an entry in the table, from the oldest.
Pos(i) == IF i >= op_table_finish_ptr THEN i - op_table_finish_ptr
                                      ELSE i - op_table_finish_ptr + OP_TABLE_SIZE

Mine(q, i) == op_table[i].active /\ op_table[i].queue = q

Chain(q, B, N, c) ==
    /\ B <= N
    /\ \/ ~Doing(q, "commit") /\ queue_ram[q].cons = B % PtrMod
       \/ Carrying(q, "commit", B % PtrMod) /\ queue_ram[q].cons = (B - 1) % PtrMod
    /\ \A k \in Int : B < k /\ k <= N =>
          Mine(q, c[k]) /\ op_table[c[k]].queue_ptr = k % PtrMod
    /\ \A k, l \in Int : B < k /\ k <= l /\ l <= N => Pos(c[l]) - Pos(c[k]) >= l - k
    /\ \A i \in OpIdx : Mine(q, i) => \E k \in Int : B < k /\ k <= N /\ c[k] = i
    /\ B < N => queue_ram[q].op_index = c[N] /\ drv[q].pc \in Busy
    /\ Doing(q, "commit") => N - B < OP_TABLE_SIZE /\ drv[q].pc \in Busy

Window(q, B, N, c, U, P, X) ==
    /\ U <= N /\ N <= P /\ P <= X /\ X - U <= 2^drv[q].log_size
    /\ drv[q].cons = U % PtrMod
    /\ queue_ram[q].prod = P % PtrMod
    /\ drv[q].prod = X % PtrMod
    /\ ~Doing(q, "set_prod") => X = P
    /\ \A k \in Int : B < k /\ k <= N /\ ~op_table[c[k]].commit => U < k
    /\ \A p \in fetched[q] : \E v \in Int :
          /\ U <= v /\ v < N /\ p = v % PtrMod
          /\ B <= v => op_table[c[v + 1]].commit

Chains == [Int -> OpIdx]

ChainInv ==
    \A q \in Queues : \E B, N \in Int, c \in Chains :
        /\ Chain(q, B, N, c)
        /\ drv[q].pc \in Live /\ ~Doing(q, "set_cons") =>
             \E U, P, X \in Int : Window(q, B, N, c, U, P, X)

\* A descriptor handed out is in the ring as the driver has it.
HeldInv ==
    \A g \in Granted :
        /\ drv[g.queue].pc \in Busy
        /\ g.base = drv[g.queue].base /\ g.cqn = drv[g.queue].cqn
        /\ g.slot = Slot(g.ptr, drv[g.queue].log_size)
        /\ g.phase = Phase(g.ptr, drv[g.queue].log_size)

OwnInv == IInv /\ OneSet /\ WriteInv /\ PhaseInv /\ ChainInv /\ HeldInv

\* Pointers as remainders: successors and distances of the integers they stand for.
LEMMA Residues ==
    /\ PtrMod \in Nat \ {0}
    /\ \A x \in Int : x % PtrMod \in Ptrs
    /\ \A x \in Int : Inc(x % PtrMod) = (x + 1) % PtrMod
    /\ \A x, y \in Int : x <= y /\ y - x < PtrMod => Dist(x % PtrMod, y % PtrMod) = y - x
    /\ \A x, y \in Int : x % PtrMod = y % PtrMod /\ -PtrMod < y - x /\ y - x < PtrMod => x = y
    /\ \A x, y \in Int : ((x % PtrMod) + y) % PtrMod = (x + y) % PtrMod
    /\ 0 % PtrMod = 0
<1> DEFINE M == PtrMod
<1>1. M \in Nat \ {0} /\ M \in Int /\ M # 0
  BY PtrModAssumption, OpTableAssumption
<1>2. \A x \in Int : x % M \in 0 .. M - 1 /\ x % M \in Int
  BY <1>1
<1>3. ASSUME NEW x \in Int, NEW y \in Int
      PROVE  ((x % M) + y) % M = (x + y) % M
  <2> DEFINE k == x \div M
             r == x % M
             z == r + y
  <2>1. x = M * k + r /\ k \in Int /\ r \in Int
    BY <1>1
  <2> HIDE DEF k, r, M
  <2>2. z \in Int /\ z + k * M = x + y
    BY <1>1, <2>1
  <2> HIDE DEF z
  <2>3. (z + k * M) % M = z % M
    BY <1>1, <2>1, <2>2, Multiple
  <2>4. z % M = (x + y) % M
    BY <2>2, <2>3
  <2> QED BY <2>4 DEF z, r
<1>4. ASSUME NEW x \in Int, NEW y \in Int, x <= y, y - x < M
      PROVE  Dist(x % M, y % M) = y - x
  <2> DEFINE k == y \div M
             l == x \div M
             r == y % M
             s == x % M
             z == r - s
             h == l - k
             g == y - x
  <2>1. y = M * k + r /\ k \in Int /\ x = M * l + s /\ l \in Int /\ r \in Int /\ s \in Int
    BY <1>1
  <2> HIDE DEF k, l, r, s, M
  <2>2. z \in Int /\ h \in Int /\ g \in Int /\ z = g + h * M
    BY <1>1, <2>1
  <2>3. g >= 0 /\ g < M
    BY <1>4
  <2> HIDE DEF z, h, g
  <2>4. (g + h * M) % M = g % M
    BY <1>1, <2>2, Multiple
  <2>5. g % M = g
    BY <1>1, <2>2, <2>3
  <2>6. z % M = g
    BY <2>2, <2>4, <2>5
  <2>7. Dist(x % M, y % M) = z % M
    BY DEF Dist, z, r, s, M
  <2> QED BY <2>6, <2>7 DEF g
<1>5. \A x, y \in Int : x % M = y % M /\ -M < y - x /\ y - x < M => x = y
  <2> HIDE DEF M
  <2> QED BY <1>1, SameRemainder
<1>6. 0 % M = 0
  BY <1>1
<1>7. \A x \in Int : Inc(x % M) = (x + 1) % M
  BY <1>3 DEF Inc
<1> QED BY <1>1, <1>2, <1>3, <1>4, <1>5, <1>6, <1>7 DEF Ptrs

\* Queue q has the operation that performs, or the one that is accepted.
LastOn(q)    == Last.op # "none" /\ Last.addr = q
EntryOn(e, q) == e.op # "none" /\ e.addr = q

\* How the pipeline moves.
LEMMA Moving ==
    ASSUME NEW e, NEW r, Loads(e, r)
    PROVE  /\ pipe'[0] = e
           /\ \A j \in Stages : j # 0 => pipe'[j] = pipe[j - 1] /\ j - 1 \in Stages
                                         /\ j - 1 # PIPELINE - 1
           /\ \A j \in Stages : j # PIPELINE - 1 => j + 1 \in Stages /\ pipe'[j + 1] = pipe[j]
           /\ 0 \in Stages /\ PIPELINE - 1 \in Stages /\ Last = pipe[PIPELINE - 1]
<1>1. pipe' = [j \in Stages |-> IF j = 0 THEN e ELSE pipe[j - 1]]
  BY DEF Loads, Shift
<1>2. PIPELINE \in Nat /\ PIPELINE >= 2 /\ 0 \in Stages /\ PIPELINE - 1 \in Stages
  BY PipelineAssumption DEF Stages
<1>3. \A j \in Stages : j # 0 => j - 1 \in Stages /\ j - 1 # PIPELINE - 1
  BY <1>2 DEF Stages
<1>4. \A j \in Stages : j # PIPELINE - 1 => j + 1 \in Stages /\ j + 1 # 0 /\ (j + 1) - 1 = j
  BY <1>2 DEF Stages
<1> QED BY <1>1, <1>2, <1>3, <1>4 DEF Last

\* What the pipeline does on a queue: the operation in it stays until it performs;
\* one is accepted only if there is none, not even one that performs.
LEMMA CarryStep ==
    ASSUME TypeOK, PipeInv, NEW e \in Entries, NEW r, Loads(e, r), NEW q \in Queues,
           NEW o, o # "none", NEW w
    PROVE  /\ LastOn(q) => /\ ~EntryOn(e, q)
                           /\ ~Carrying(q, o, w)'
                           /\ Carrying(q, o, w) <=> Last.op = o /\ Last.wdata = w
           /\ EntryOn(e, q) => /\ ~Carrying(q, o, w)
                               /\ Carrying(q, o, w)' <=> e.op = o /\ e.wdata = w
           /\ ~LastOn(q) /\ ~EntryOn(e, q) => (Carrying(q, o, w)' <=> Carrying(q, o, w))
<1>1. \A j, k \in Stages : /\ pipe[j].op # "none" /\ pipe[k].op # "none" /\ j # k
                              => pipe[j].addr # pipe[k].addr
  BY DEF PipeInv, PipeCoherent
<1>2. EntryOn(e, q) => \A j \in Stages : ~(pipe[j].op # "none" /\ pipe[j].addr = q)
  BY DEF EntryOn, Loads, PipeHazard
<1>3. Carrying(q, o, w)' <=> \/ e.op = o /\ e.addr = q /\ e.wdata = w
                             \/ \E j \in Stages : /\ j # PIPELINE - 1 /\ pipe[j].op = o
                                                  /\ pipe[j].addr = q /\ pipe[j].wdata = w
  BY Moving DEF Carrying
<1>4. CASE LastOn(q)
  <2>1. ~EntryOn(e, q)
    BY <1>2, <1>4, Moving DEF LastOn
  <2>2. \A j \in Stages : j # PIPELINE - 1 => ~(pipe[j].op # "none" /\ pipe[j].addr = q)
    BY <1>1, <1>4, Moving DEF LastOn
  <2> QED BY <1>3, <1>4, <2>1, <2>2, Moving DEF LastOn, EntryOn, Carrying
<1>5. CASE EntryOn(e, q)
  BY <1>2, <1>3, <1>5, Moving DEF EntryOn, Carrying, LastOn
<1>6. CASE ~LastOn(q) /\ ~EntryOn(e, q)
  BY <1>3, <1>6, Moving DEF EntryOn, Carrying, LastOn
<1> QED BY <1>4, <1>5, <1>6

\* The same without the data.
LEMMA DoingStep ==
    ASSUME TypeOK, PipeInv, NEW e \in Entries, NEW r, Loads(e, r), NEW q \in Queues,
           NEW o, o # "none"
    PROVE  /\ LastOn(q) => /\ ~EntryOn(e, q)
                           /\ ~Doing(q, o)'
                           /\ Doing(q, o) <=> Last.op = o
           /\ EntryOn(e, q) => ~Doing(q, o) /\ (Doing(q, o)' <=> e.op = o)
           /\ ~LastOn(q) /\ ~EntryOn(e, q) => (Doing(q, o)' <=> Doing(q, o))
<1>1. Doing(q, o) <=> \E w : Carrying(q, o, w)
  BY DEF Doing, Carrying
<1>2. Doing(q, o)' <=> \E w : Carrying(q, o, w)'
  BY DEF Doing, Carrying
<1>3. \A w : /\ LastOn(q) => /\ ~EntryOn(e, q)
                             /\ ~Carrying(q, o, w)'
                             /\ Carrying(q, o, w) <=> Last.op = o /\ Last.wdata = w
             /\ EntryOn(e, q) => /\ ~Carrying(q, o, w)
                                 /\ Carrying(q, o, w)' <=> e.op = o /\ e.wdata = w
             /\ ~LastOn(q) /\ ~EntryOn(e, q) => (Carrying(q, o, w)' <=> Carrying(q, o, w))
  BY CarryStep
<1> QED BY <1>1, <1>2, <1>3

Same(d, t) == /\ d.prod = t.prod /\ d.cons = t.cons /\ d.log_size = t.log_size
              /\ d.base = t.base /\ d.cqn = t.cqn

\* The register write o with data w that takes the driver's view of queue q from d to t.
Wrote(q, d, t, o, w) ==
    \/ /\ d.pc = "closed" /\ t.pc = "set_base" /\ t.prod = 0 /\ t.cons = 0
       /\ o = "set_enable" /\ w = 0
    \/ Same(d, t) /\ d.pc = "set_base" /\ t.pc = "set_size" /\ o = "set_base" /\ w = d.base
    \/ Same(d, t) /\ d.pc = "set_size" /\ t.pc = "set_cqn" /\ o = "set_size" /\ w = d.log_size
    \/ Same(d, t) /\ d.pc = "set_cqn" /\ t.pc = "set_prod" /\ o = "set_cqn" /\ w = d.cqn
    \/ Same(d, t) /\ d.pc = "set_prod" /\ t.pc = "set_cons" /\ o = "set_prod" /\ w = d.prod
    \/ Same(d, t) /\ d.pc = "set_cons" /\ t.pc = "opened" /\ o = "set_cons" /\ w = d.cons
    \/ Same(d, t) /\ d.pc = "opened" /\ t.pc = "enabled" /\ o = "set_enable" /\ w = 1
    \/ Same(d, t) /\ d.pc = "enabled" /\ t.pc = "disabled" /\ o = "set_enable" /\ w = 0
    \/ /\ d.pc \in Live /\ t.pc = d.pc /\ t.cons = d.cons /\ t.log_size = d.log_size
       /\ t.base = d.base /\ t.cqn = d.cqn /\ o = "set_prod" /\ w = t.prod
       /\ \E n \in Nat : /\ n <= 2^d.log_size - Dist(d.cons, d.prod)
                         /\ t.prod = (d.prod + n) % PtrMod
    \/ /\ d.pc = "disabled" /\ t.pc = "closed" /\ t.prod = 0 /\ t.cons = 0
       /\ o = "set_enable" /\ w = 0 /\ Drained(q)

\* What a register write leaves in stage 0.
LEMMA AxilEntry ==
    ASSUME NEW o \in SetOps, NEW q \in Queues, NEW w, AxilWrite(o, q, w)
    PROVE  /\ ~InPipe(SetOps)
           /\ pipe'[0].op = o /\ pipe'[0].addr = q /\ pipe'[0].wdata = w
<1>1. pipe' = [j \in Stages |-> IF j = 0 THEN [op |-> o, addr |-> q, data |-> queue_ram[q],
                                               wdata |-> w] ELSE pipe[j - 1]]
  BY DEF AxilWrite, Load, Shift
<1> QED BY <1>1, Constants DEF AxilWrite

\* A register write of the driver is one of those.
LEMMA DriverWrites ==
    ASSUME TypeOK, NEW q \in Queues, DriverWrite(q)
    PROVE  /\ \A z \in Queues : z # q => drv'[z] = drv[z]
           /\ ~InPipe(SetOps) /\ pipe'[0].op \in SetOps /\ pipe'[0].addr = q
           /\ Wrote(q, drv[q], drv'[q], pipe'[0].op, pipe'[0].wdata)
<1>1. drv \in [Queues -> Drvs] /\ drv[q] \in Drvs
  BY DEF TypeOK
<1>2. ASSUME NEW d, Advance(q, d)
      PROVE  drv'[q] = d /\ \A z \in Queues : z # q => drv'[z] = drv[z]
  BY <1>1, <1>2 DEF Advance
<1>3. ASSUME NEW pc, GoTo(q, pc)
      PROVE  /\ drv'[q].pc = pc /\ Same(drv[q], drv'[q])
             /\ \A z \in Queues : z # q => drv'[z] = drv[z]
  <2>1. drv'[q] = [drv[q] EXCEPT !.pc = pc]
    BY <1>2, <1>3 DEF GoTo
  <2>2. \A z \in Queues : z # q => drv'[z] = drv[z]
    BY <1>2, <1>3 DEF GoTo
  <2> QED BY <1>1, <2>1, <2>2 DEF Drvs, Same
<1> USE DEF SetOps
<1>4. CASE OpenRing(q)
  <2>1. PICK l \in LogSizes, b \in Bases, c \in Cqns :
           Advance(q, [pc |-> "set_base", prod |-> 0, cons |-> 0,
                       log_size |-> l, base |-> b, cqn |-> c])
    BY <1>4 DEF OpenRing
  <2>2. AxilWrite("set_enable", q, 0) /\ drv[q].pc = "closed"
    BY <1>4 DEF OpenRing, LoopAt
  <2>3. drv'[q].pc = "set_base" /\ drv'[q].prod = 0 /\ drv'[q].cons = 0
    BY <1>2, <2>1
  <2> QED BY <1>2, <2>1, <2>2, <2>3, AxilEntry DEF Wrote
<1>5. CASE SetBase(q)
  BY <1>3, <1>5, AxilEntry DEF SetBase, Wrote
<1>6. CASE SetSize(q)
  BY <1>3, <1>6, AxilEntry DEF SetSize, Wrote
<1>7. CASE SetCqn(q)
  BY <1>3, <1>7, AxilEntry DEF SetCqn, Wrote
<1>8. CASE SetProd(q)
  BY <1>3, <1>8, AxilEntry DEF SetProd, Wrote
<1>9. CASE SetCons(q)
  BY <1>3, <1>9, AxilEntry DEF SetCons, Wrote
<1>10. CASE EnableRing(q)
  BY <1>3, <1>10, AxilEntry DEF EnableRing, Wrote, LoopAt
<1>11. CASE DisableRing(q)
  BY <1>3, <1>11, AxilEntry DEF DisableRing, Wrote, LoopAt
<1>12. CASE WriteProdPtr(q)
  <2>1. PICK n \in 1 .. 2^drv[q].log_size - Dist(drv[q].cons, drv[q].prod) :
           /\ Advance(q, [drv[q] EXCEPT !.prod = (drv[q].prod + n) % PtrMod])
           /\ AxilWrite("set_prod", q, (drv[q].prod + n) % PtrMod)
    BY <1>12 DEF WriteProdPtr
  <2>2. n \in Nat /\ n <= 2^drv[q].log_size - Dist(drv[q].cons, drv[q].prod)
    BY <2>1
  <2>3. drv'[q] = [drv[q] EXCEPT !.prod = (drv[q].prod + n) % PtrMod]
    BY <1>2, <2>1
  <2>4. /\ drv'[q].prod = (drv[q].prod + n) % PtrMod
        /\ drv'[q].pc = drv[q].pc /\ drv'[q].cons = drv[q].cons
        /\ drv'[q].log_size = drv[q].log_size /\ drv'[q].base = drv[q].base
        /\ drv'[q].cqn = drv[q].cqn
    BY <1>1, <2>3 DEF Drvs
  <2>5. drv[q].pc \in Live
    BY <1>12 DEF WriteProdPtr, Live
  <2>6. /\ ~InPipe(SetOps) /\ pipe'[0].op = "set_prod" /\ pipe'[0].addr = q
        /\ pipe'[0].wdata = drv'[q].prod
    BY <2>1, <2>4, AxilEntry
  <2> QED BY <1>2, <2>1, <2>2, <2>4, <2>5, <2>6 DEF Wrote
<1>13. CASE CloseRing(q)
  <2>1. /\ AxilWrite("set_enable", q, 0) /\ drv[q].pc = "disabled" /\ Drained(q)
        /\ Advance(q, DrvClosed)
    BY <1>13 DEF CloseRing, LoopAt
  <2>2. drv'[q].pc = "closed" /\ drv'[q].prod = 0 /\ drv'[q].cons = 0
    BY <1>2, <2>1 DEF DrvClosed
  <2> QED BY <1>2, <2>1, <2>2, AxilEntry DEF Wrote
<1> QED BY <1>4, <1>5, <1>6, <1>7, <1>8, <1>9, <1>10, <1>11, <1>12, <1>13 DEF DriverWrite

\* What stage 0 does to the driver's view: nothing, or the one register write it accepts.
LEMMA DriverStep ==
    ASSUME TypeOK, NEW r \in BOOLEAN, Stage0(r), NEW e \in Entries, Loads(e, r)
    PROVE  \/ drv' = drv /\ e.op \notin SetOps
           \/ /\ e.op \in SetOps /\ ~InPipe(SetOps)
              /\ \A z \in Queues : z # e.addr => drv'[z] = drv[z]
              /\ Wrote(e.addr, drv[e.addr], drv'[e.addr], e.op, e.wdata)
<1>1. pipe'[0] = e
  BY Moving
<1>2. CASE \E q \in Queues : DriverWrite(q)
  BY <1>1, <1>2, DriverWrites
<1>3. CASE /\ UNCHANGED drv
           /\ \/ \E q \in ReadQueues : AxilRead(q)
              \/ CommitFinalize
              \/ \E q \in Queues : DequeueRequest(q, r)
              \/ Bubble
  <2>1. \A o, q, w : Load(o, q, w) => pipe'[0].op = o
    BY Constants DEF Load, Shift
  <2>2. Shift(NoOp) => pipe'[0].op = "none"
    BY Constants DEF Shift, NoOp
  <2>3. e.op \in {"read", "commit", "req", "none"}
    BY <1>1, <1>3, <2>1, <2>2 DEF AxilRead, CommitFinalize, DequeueRequest, Bubble
  <2> QED BY <1>3, <2>3 DEF SetOps
<1> QED BY <1>2, <1>3 DEF Stage0

\* What the last stage does to the word of its queue, which is the one it read.
LEMMA WordStep ==
    ASSUME TypeOK, PipeInv, Perform, NEW q \in Queues, LastOn(q)
    PROVE  LET w == queue_ram[q]
               t == queue_ram'[q]
               o == Last.op
           IN  /\ o \in OpKinds
               /\ (\/ o \notin SetOps
                   \/ o \in {"set_base", "set_size", "set_cqn", "set_cons"} /\ w.enable # 0)
                    => /\ t.prod = w.prod /\ t.cqn = w.cqn /\ t.log_size = w.log_size
                       /\ t.enable = w.enable /\ t.base = w.base
                       /\ t.cons = IF o = "commit" THEN Last.wdata ELSE w.cons
                       /\ t.op_index = IF StartEn THEN op_table_start_ptr ELSE w.op_index
               /\ o = "set_prod" => /\ t.prod = Last.wdata /\ t.cons = w.cons /\ t.cqn = w.cqn
                                    /\ t.log_size = w.log_size /\ t.enable = w.enable
                                    /\ t.base = w.base /\ t.op_index = w.op_index
               /\ o = "set_enable" => /\ t.enable = Last.wdata /\ t.cons = w.cons /\ t.cqn = w.cqn
                                      /\ t.log_size = w.log_size /\ t.prod = w.prod
                                      /\ t.base = w.base /\ t.op_index = w.op_index
               /\ o \in {"set_base", "set_size", "set_cqn", "set_cons"} /\ w.enable = 0 =>
                    /\ t.base = IF o = "set_base" THEN Last.wdata ELSE w.base
                    /\ t.log_size = IF o = "set_size" THEN Last.wdata ELSE w.log_size
                    /\ t.cqn = IF o = "set_cqn" THEN Last.wdata ELSE w.cqn
                    /\ t.cons = IF o = "set_cons" THEN Last.wdata ELSE w.cons
                    /\ t.prod = w.prod /\ t.enable = w.enable /\ t.op_index = w.op_index
<1>1. /\ queue_ram \in [Queues -> Words] /\ queue_ram[q] \in Words /\ Last.op \in OpKinds
      /\ Last.data = queue_ram[q] /\ Last.addr = q /\ Last.op # "none"
  <2>1. Last \in Entries
    BY LastType
  <2>2. Last.data = queue_ram[Last.addr]
    BY Constants DEF LastOn, Last, PipeInv, PipeCoherent
  <2> QED BY <2>1, <2>2 DEF TypeOK, LastOn, Entries
<1>2. CASE PerformReq
  <2>1. Last.op = "req" /\ Last.op \notin SetOps
    BY <1>2 DEF PerformReq, SetOps
  <2> QED BY <1>1, <1>2, <2>1 DEF PerformReq, Words, SetOps
<1>3. CASE PerformCommit
  <2>1. Last.op = "commit" /\ ~StartEn
    BY <1>3 DEF PerformCommit, StartEn
  <2> QED BY <1>1, <1>3, <2>1 DEF PerformCommit, Words, SetOps
<1>4. CASE PerformWrite
  <2>1. queue_ram'[q] = WriteWord(queue_ram[q]) /\ Last.op \in SetOps /\ ~StartEn
    BY <1>1, <1>4 DEF PerformWrite, StartEn, SetOps
  <2> QED BY <1>1, <2>1 DEF WriteWord, Words, SetOps
<1>5. CASE PerformNothing
  <2>1. Last.op = "read" /\ ~StartEn /\ queue_ram'[q] = queue_ram[q]
    BY <1>1, <1>5 DEF PerformNothing, StartEn
  <2> QED BY <1>1, <2>1 DEF SetOps
<1> QED BY <1>2, <1>3, <1>4, <1>5 DEF Perform

\* One register write at a time.
LEMMA ClockOneSet ==
    ASSUME TypeOK, OneSet, NEW r \in BOOLEAN, Stage0(r), NEW e \in Entries, Loads(e, r)
    PROVE  OneSet'
<1>1. e.op \in SetOps => ~InPipe(SetOps)
  BY DriverStep
<1> SUFFICES ASSUME NEW j \in Stages, NEW k \in Stages, pipe'[j].op \in SetOps,
                    pipe'[k].op \in SetOps
             PROVE  j = k
  BY DEF OneSet
<1>2. CASE j = 0 \/ k = 0
  BY <1>1, <1>2, Moving DEF InPipe
<1>3. CASE j # 0 /\ k # 0
  <2>1. j - 1 = k - 1
    BY <1>3, Moving DEF OneSet
  <2> QED BY <2>1, PipelineAssumption DEF Stages
<1> QED BY <1>2, <1>3

\* The register write in the pipeline is the driver's latest.
LEMMA ClockWrites ==
    ASSUME TypeOK, WriteInv, NEW r \in BOOLEAN, Stage0(r), NEW e \in Entries, Loads(e, r)
    PROVE  WriteInv'
<1> SUFFICES ASSUME NEW j \in Stages, pipe'[j].op \in SetOps
             PROVE  Latest(drv'[pipe'[j].addr], pipe'[j].op, pipe'[j].wdata)
  BY DEF WriteInv
<1>1. CASE j = 0
  <2>1. Wrote(e.addr, drv[e.addr], drv'[e.addr], e.op, e.wdata) /\ pipe'[j] = e
    BY <1>1, DriverStep, Moving
  <2> QED BY <2>1 DEF Wrote, Latest, Same, Live
<1>2. CASE j # 0
  <2>1. pipe'[j] = pipe[j - 1] /\ j - 1 \in Stages
    BY <1>2, Moving
  <2>2. InPipe(SetOps)
    BY <2>1 DEF InPipe
  <2>3. drv' = drv
    BY <2>2, DriverStep
  <2> QED BY <2>1, <2>3 DEF WriteInv
<1> QED BY <1>1, <1>2

\* A queue without a descriptor handed out keeps what the driver has to reap.
LEMMA FetchedFrame ==
    ASSUME TypeOK, HeldInv, NEW r, NEW done \in CommitChoices, FetchNext(r, done),
           NEW q \in Queues, drv[q].pc \notin Busy, fetched[q] = {}
    PROVE  fetched'[q] = {}
<1>1. \A h \in done : h \in Granted
  BY DEF CommitChoices, Granted
<1>2. \A h \in done : h.queue # q
  BY <1>1 DEF HeldInv
<1>3. {h.ptr : h \in {d \in done : d.queue = q}} = {}
  BY <1>2
<1> QED BY <1>3 DEF FetchNext

\* The word of a queue follows the driver.
LEMMA ClockPhase ==
    ASSUME IInv, OneSet, WriteInv, PhaseInv, HeldInv, NEW r \in BOOLEAN, Stage0(r),
           NEW e \in Entries, Loads(e, r), Perform,
           NEW done \in CommitChoices, FetchNext(r, done)
    PROVE  PhaseInv'
<1>1. TypeOK /\ PipeInv
  BY DEF IInv
<1> SUFFICES ASSUME NEW q \in Queues
    PROVE
        /\ drv'[q].pc \in {"closed"} \cup Opening \/ Doing(q, "set_cons")' =>
             drv'[q].prod = 0 /\ drv'[q].cons = 0 /\ fetched'[q] = {}
        /\ drv'[q].pc \in {"closed", "opened"} \cup Opening => queue_ram'[q].enable = 0
        /\ drv'[q].pc \in {"set_cqn", "set_prod", "set_cons"} \cup Live =>
             queue_ram'[q].base = drv'[q].base
        /\ drv'[q].pc = "set_size" => Doing(q, "set_base")' \/ queue_ram'[q].base = drv'[q].base
        /\ drv'[q].pc \in {"set_prod", "set_cons"} \cup Live =>
             queue_ram'[q].log_size = drv'[q].log_size
        /\ drv'[q].pc = "set_cqn" =>
             Doing(q, "set_size")' \/ queue_ram'[q].log_size = drv'[q].log_size
        /\ drv'[q].pc \in {"set_cons"} \cup Live => queue_ram'[q].cqn = drv'[q].cqn
        /\ drv'[q].pc = "set_prod" => Doing(q, "set_cqn")' \/ queue_ram'[q].cqn = drv'[q].cqn
        /\ drv'[q].pc = "set_cons" => Doing(q, "set_prod")' \/ queue_ram'[q].prod = drv'[q].prod
        /\ Doing(q, "set_cons")' => queue_ram'[q].prod = drv'[q].prod
  BY DEF PhaseInv
<1>2. /\ drv[q].pc \in {"closed"} \cup Opening \/ Doing(q, "set_cons") =>
             drv[q].prod = 0 /\ drv[q].cons = 0 /\ fetched[q] = {}
      /\ drv[q].pc \in {"closed", "opened"} \cup Opening => queue_ram[q].enable = 0
      /\ drv[q].pc \in {"set_cqn", "set_prod", "set_cons"} \cup Live =>
           queue_ram[q].base = drv[q].base
      /\ drv[q].pc = "set_size" => Doing(q, "set_base") \/ queue_ram[q].base = drv[q].base
      /\ drv[q].pc \in {"set_prod", "set_cons"} \cup Live =>
           queue_ram[q].log_size = drv[q].log_size
      /\ drv[q].pc = "set_cqn" => Doing(q, "set_size") \/ queue_ram[q].log_size = drv[q].log_size
      /\ drv[q].pc \in {"set_cons"} \cup Live => queue_ram[q].cqn = drv[q].cqn
      /\ drv[q].pc = "set_prod" => Doing(q, "set_cqn") \/ queue_ram[q].cqn = drv[q].cqn
      /\ drv[q].pc = "set_cons" => Doing(q, "set_prod") \/ queue_ram[q].prod = drv[q].prod
      /\ Doing(q, "set_cons") => queue_ram[q].prod = drv[q].prod
  BY DEF PhaseInv
<1>3. drv[q].pc \notin Busy /\ fetched[q] = {} => fetched'[q] = {}
  BY <1>1, FetchedFrame
<1>4. drv'[q].pc = "closed" => fetched'[q] = {}
  BY DEF FetchNext
<1>5. Doing(q, "set_cons") => drv[q].pc = "opened"
  BY DEF Doing, WriteInv, Latest, SetOps
<1>6. CASE EntryOn(e, q)
  <2>1. /\ \A o : o # "none" => ~Doing(q, o) /\ (Doing(q, o)' <=> e.op = o)
    BY <1>1, <1>6, DoingStep
  <2>2. ~LastOn(q)
    BY <1>1, <1>6, DoingStep
  <2>3. queue_ram'[q] = queue_ram[q]
    BY <1>1, <2>2, PerformFrame DEF LastOn
  <2>4. CASE drv' = drv /\ e.op \notin SetOps
    BY <1>2, <1>3, <1>4, <1>5, <2>1, <2>3, <2>4 DEF SetOps, Live, Busy, Opening
  <2>5. CASE e.op \in SetOps /\ Wrote(q, drv[q], drv'[q], e.op, e.wdata)
    <3>1. Drained(q) => queue_ram[q].enable = 0
      BY DEF Drained
    <3> QED BY <1>2, <1>3, <1>4, <2>1, <2>3, <2>5, <3>1 DEF Wrote, Same, Live, Busy, Opening
  <2> QED BY <1>1, <1>6, <2>4, <2>5, DriverStep DEF EntryOn
<1>7. CASE ~EntryOn(e, q)
  <2>1. drv'[q] = drv[q]
    BY <1>1, <1>7, DriverStep DEF EntryOn, SetOps
  <2>2. CASE ~LastOn(q)
    <3>1. \A o : o # "none" => (Doing(q, o)' <=> Doing(q, o))
      BY <1>1, <1>7, <2>2, DoingStep
    <3>2. queue_ram'[q] = queue_ram[q]
      BY <1>1, <2>2, PerformFrame DEF LastOn
    <3> QED BY <1>2, <1>3, <1>4, <1>5, <2>1, <3>1, <3>2 DEF Live, Busy, Opening
  <2>3. CASE LastOn(q)
    <3>1. \A o : o # "none" => ~Doing(q, o)' /\ (Doing(q, o) <=> Last.op = o)
      BY <1>1, <2>3, DoingStep
    <3>2. Last.op \in SetOps => Latest(drv[q], Last.op, Last.wdata)
      BY <2>3, Constants DEF WriteInv, Last, LastOn
    <3>3. Last.op \in OpKinds /\ queue_ram[q].enable \in Bit
      BY <1>1, <2>3, WordStep DEF TypeOK, Words
    <3> DEFINE w == queue_ram[q]
               t == queue_ram'[q]
    <3>4. CASE Last.op \notin SetOps
      <4>1. /\ t.prod = w.prod /\ t.cqn = w.cqn /\ t.log_size = w.log_size
            /\ t.enable = w.enable /\ t.base = w.base
        BY <1>1, <2>3, <3>4, WordStep
      <4> QED BY <1>2, <1>3, <1>4, <2>1, <3>1, <3>4, <4>1 DEF Live, Busy, Opening, SetOps
    <3>5. CASE Last.op = "set_prod"
      <4>1. /\ t.prod = Last.wdata /\ t.cqn = w.cqn /\ t.log_size = w.log_size
            /\ t.enable = w.enable /\ t.base = w.base
        BY <1>1, <2>3, <3>5, WordStep
      <4> QED BY <1>2, <1>3, <1>4, <2>1, <3>1, <3>2, <3>5, <4>1
              DEF Live, Busy, Opening, SetOps, Latest
    <3>6. CASE Last.op = "set_enable"
      <4>1. /\ t.prod = w.prod /\ t.cqn = w.cqn /\ t.log_size = w.log_size
            /\ t.enable = Last.wdata /\ t.base = w.base
        BY <1>1, <2>3, <3>6, WordStep
      <4> QED BY <1>2, <1>3, <1>4, <2>1, <3>1, <3>2, <3>6, <4>1
              DEF Live, Busy, Opening, SetOps, Latest
    <3>7. CASE Last.op \in {"set_base", "set_size", "set_cqn", "set_cons"}
      <4>1. w.enable = 0
        BY <1>2, <3>2, <3>7 DEF Latest, SetOps, Opening
      <4>2. /\ t.base = IF Last.op = "set_base" THEN Last.wdata ELSE w.base
            /\ t.log_size = IF Last.op = "set_size" THEN Last.wdata ELSE w.log_size
            /\ t.cqn = IF Last.op = "set_cqn" THEN Last.wdata ELSE w.cqn
            /\ t.prod = w.prod /\ t.enable = w.enable
        BY <1>1, <2>3, <3>7, <4>1, WordStep
      <4> QED BY <1>2, <1>3, <1>4, <2>1, <3>1, <3>2, <3>7, <4>1, <4>2
              DEF Live, Busy, Opening, SetOps, Latest
    <3> QED BY <3>4, <3>5, <3>6, <3>7 DEF SetOps
  <2> QED BY <2>2, <2>3
<1> QED BY <1>6, <1>7

\* Positions in the table.
LEMMA Positions ==
    ASSUME TypeOK
    PROVE  /\ OP_TABLE_SIZE \in Nat /\ OP_TABLE_SIZE >= 1
           /\ \A i \in OpIdx : Pos(i) \in Int /\ Pos(i) >= 0 /\ Pos(i) < OP_TABLE_SIZE
           /\ \A i \in OpIdx : Pos(i) = 0 => i = op_table_finish_ptr
           /\ Pos(op_table_finish_ptr) = 0
           /\ op_table_finish_ptr \in OpIdx /\ op_table_start_ptr \in OpIdx
BY OpTableAssumption DEF Pos, OpIdx, TypeOK

\* The oldest entry retires when stage 0 accepts a commit: every other entry
\* moves up by one.
LEMMA PosShift ==
    ASSUME TypeOK, NEW tags, OpTableNext(tags)
    PROVE  \A i \in OpIdx : ~(FinishEn /\ i = op_table_finish_ptr) =>
              Pos(i)' = Pos(i) - (IF FinishEn THEN 1 ELSE 0)
<1>1. op_table_finish_ptr' = IF FinishEn THEN NextIdx(op_table_finish_ptr) ELSE op_table_finish_ptr
  BY DEF OpTableNext
<1>2. op_table_finish_ptr \in OpIdx
  BY DEF TypeOK
<1> QED BY <1>1, <1>2, OpTableAssumption DEF Pos, NextIdx, OpIdx

\* What is accepted when the oldest entry retires.
LEMMA Finishing ==
    ASSUME NEW e, NEW r, Loads(e, r)
    PROVE  /\ FinishEn <=> e.op = "commit"
           /\ FinishEn => /\ op_table[op_table_finish_ptr].active
                          /\ op_table[op_table_finish_ptr].commit
                          /\ e.addr = op_table[op_table_finish_ptr].queue
                          /\ e.wdata = op_table[op_table_finish_ptr].queue_ptr
BY Moving DEF FinishEn, Loads, CommitReady

\* What is allocated when a dequeue starts.
LEMMA Starting ==
    ASSUME TableInv, StartEn
    PROVE  /\ LastOn(Last.addr) /\ Last.op = "req" /\ ~op_table[op_table_start_ptr].active
           /\ Last.data.enable = 1 /\ ~QueueEmpty /\ ~resp.valid
BY Constants DEF StartEn, LastOn, Last, TableInv, ReqResourcesFree, InPipe

\* The entries of a queue for which no dequeue starts or retires stay as they are.
LEMMA EntriesStay ==
    ASSUME TypeOK, TableInv, NEW tags, OpTableNext(tags), NEW q \in Queues,
           FinishEn => op_table[op_table_finish_ptr].active
    PROVE  \A i \in OpIdx :
             /\ ~(FinishEn /\ i = op_table_finish_ptr) /\ ~(StartEn /\ i = op_table_start_ptr) =>
                  /\ Mine(q, i)' <=> Mine(q, i)
                  /\ op_table'[i].queue_ptr = op_table[i].queue_ptr
                  /\ op_table'[i].commit <=> op_table[i].commit \/ i \in tags
             /\ FinishEn /\ i = op_table_finish_ptr => ~Mine(q, i)'
             /\ StartEn /\ i = op_table_start_ptr =>
                  /\ ~op_table[i].active /\ ~(FinishEn /\ i = op_table_finish_ptr)
                  /\ Mine(q, i)' <=> q = Last.addr
                  /\ op_table'[i].queue_ptr = Inc(ActiveConsPtr)
<1> SUFFICES ASSUME NEW i \in OpIdx
    PROVE  /\ ~(FinishEn /\ i = op_table_finish_ptr) /\ ~(StartEn /\ i = op_table_start_ptr) =>
                  /\ Mine(q, i)' <=> Mine(q, i)
                  /\ op_table'[i].queue_ptr = op_table[i].queue_ptr
                  /\ op_table'[i].commit <=> op_table[i].commit \/ i \in tags
           /\ FinishEn /\ i = op_table_finish_ptr => ~Mine(q, i)'
           /\ StartEn /\ i = op_table_start_ptr =>
                  /\ ~op_table[i].active /\ ~(FinishEn /\ i = op_table_finish_ptr)
                  /\ Mine(q, i)' <=> q = Last.addr
                  /\ op_table'[i].queue_ptr = Inc(ActiveConsPtr)
  OBVIOUS
<1>1. CASE FinishEn /\ i = op_table_finish_ptr
  <2>1. op_table'[i] = FreeEntry
    BY <1>1, TableStep
  <2>2. ~op_table'[i].active
    BY <2>1 DEF FreeEntry
  <2> QED BY <1>1, <2>2, Starting DEF Mine
<1>2. CASE ~(FinishEn /\ i = op_table_finish_ptr) /\ StartEn /\ i = op_table_start_ptr
  BY <1>2, TableStep, Starting DEF Mine
<1>3. CASE ~(FinishEn /\ i = op_table_finish_ptr) /\ ~(StartEn /\ i = op_table_start_ptr)
  BY <1>3, TableStep DEF Mine
<1> QED BY <1>1, <1>2, <1>3

\* The fetch engine commits the operations in done, which have these tags.
Fetching(r, done, tags) ==
    done \in CommitChoices /\ FetchNext(r, done) /\ tags = {h.op_tag : h \in done}

\* After the clock the driver may reap what is committed, of the descriptors from U on.
Reapable(q, B, N, c, U, tags) ==
    \A p \in fetched'[q] : \E v \in Int :
        /\ U <= v /\ v < N /\ p = v % PtrMod
        /\ B <= v => op_table[c[v + 1]].commit \/ c[v + 1] \in tags

\* What the driver may reap after a clock: what it could before, and the descriptor that
\* is committed, whose entry is in the chain and was not committed.
LEMMA FetchedStep ==
    ASSUME TypeOK, TagsExclusive, NEW r, NEW done, NEW tags, Fetching(r, done, tags),
           NEW q \in Queues, NEW B \in Int, NEW N \in Int, NEW c \in Chains, Chain(q, B, N, c),
           NEW U \in Int, NEW P \in Int, NEW X \in Int, Window(q, B, N, c, U, P, X)
    PROVE  Reapable(q, B, N, c, U, tags)
<1> SUFFICES ASSUME NEW p \in fetched'[q]
             PROVE  \E v \in Int : /\ U <= v /\ v < N /\ p = v % PtrMod
                                   /\ B <= v => op_table[c[v + 1]].commit \/ c[v + 1] \in tags
  BY DEF Reapable
<1>1. p \in fetched[q] \/ \E h \in done : h.queue = q /\ p = h.ptr
  BY DEF FetchNext, Fetching
<1>2. CASE p \in fetched[q]
  BY <1>2 DEF Window
<1>3. CASE \E h \in done : h.queue = q /\ p = h.ptr
  <2>1. PICK h \in done : h.queue = q /\ p = h.ptr
    BY <1>3
  <2>2. h \in Granted /\ h \in Resps
    BY DEF CommitChoices, Granted, TypeOK, Fetching
  <2>3. /\ op_table[h.op_tag].active /\ ~op_table[h.op_tag].commit
        /\ op_table[h.op_tag].queue = q /\ op_table[h.op_tag].queue_ptr = Inc(h.ptr)
    BY <2>1, <2>2 DEF TagsExclusive
  <2>4. h.op_tag \in OpIdx /\ h.ptr \in Ptrs
    BY <2>2 DEF Resps
  <2>5. PICK k \in Int : B < k /\ k <= N /\ c[k] = h.op_tag
    BY <2>3, <2>4 DEF Chain, Mine
  <2>6. U < k
    BY <2>3, <2>5 DEF Window
  <2>7. Inc(h.ptr) = k % PtrMod
    BY <2>3, <2>5 DEF Chain
  <2>8. h.ptr = (k - 1) % PtrMod
    <3>1. h.ptr \in Int /\ h.ptr % PtrMod = h.ptr
      BY <2>4, PtrModAssumption DEF Ptrs
    <3>2. PICK y \in Int : y = -1
      OBVIOUS
    <3>3. PICK z \in Int : z = h.ptr + 1
      BY <3>1
    <3>4. ((z % PtrMod) + y) % PtrMod = (z + y) % PtrMod
      BY Residues
    <3>5. ((k % PtrMod) + y) % PtrMod = (k + y) % PtrMod
      BY Residues
    <3>6. z + y = h.ptr /\ k + y = k - 1
      BY <3>1, <3>2, <3>3
    <3> QED BY <2>7, <3>1, <3>3, <3>4, <3>5, <3>6 DEF Inc
  <2>9. k - 1 \in Int /\ U <= k - 1 /\ k - 1 < N /\ (k - 1) + 1 = k
    BY <2>5, <2>6
  <2> WITNESS k - 1 \in Int
  <2>10. h.op_tag \in tags
    BY DEF Fetching
  <2> QED BY <2>1, <2>5, <2>8, <2>9, <2>10
<1> QED BY <1>1, <1>2, <1>3

\* The chain of a queue for which no dequeue starts or retires.
LEMMA ChainStays ==
    ASSUME TypeOK, TableInv, NEW e, NEW r, Loads(e, r), NEW tags, OpTableNext(tags),
           NEW q \in Queues, NEW B \in Int, NEW N \in Int, NEW c \in Chains, Chain(q, B, N, c),
           ~(StartEn /\ Last.addr = q), ~(FinishEn /\ op_table[op_table_finish_ptr].queue = q),
           \/ ~Doing(q, "commit")' /\ queue_ram'[q].cons = B % PtrMod
           \/ Carrying(q, "commit", B % PtrMod)' /\ queue_ram'[q].cons = (B - 1) % PtrMod,
           B < N => queue_ram'[q].op_index = queue_ram[q].op_index /\ drv'[q].pc \in Busy,
           Doing(q, "commit")' => N - B < OP_TABLE_SIZE /\ drv'[q].pc \in Busy
    PROVE  Chain(q, B, N, c)'
<1>1. \A k \in Int : c[k] \in OpIdx
  BY DEF Chains
<1>2. \A i \in OpIdx : Mine(q, i) => ~(FinishEn /\ i = op_table_finish_ptr)
                                     /\ ~(StartEn /\ i = op_table_start_ptr)
  BY Starting DEF Mine
<1>3. \A i \in OpIdx : Mine(q, i)' <=> Mine(q, i)
  BY <1>2, EntriesStay, Finishing
<1>4. \A i \in OpIdx : Mine(q, i) => op_table'[i].queue_ptr = op_table[i].queue_ptr
  BY <1>2, EntriesStay, Finishing
<1>5. \A i, j \in OpIdx : Mine(q, i) /\ Mine(q, j) => Pos(j)' - Pos(i)' = Pos(j) - Pos(i)
  BY <1>2, PosShift, Positions
<1>6. \A k \in Int : B < k /\ k <= N =>
          Mine(q, c[k])' /\ op_table'[c[k]].queue_ptr = k % PtrMod
  BY <1>1, <1>3, <1>4 DEF Chain
<1>7. \A k, l \in Int : B < k /\ k <= l /\ l <= N => Pos(c[l])' - Pos(c[k])' >= l - k
  <2> SUFFICES ASSUME NEW k \in Int, NEW l \in Int, B < k, k <= l, l <= N
               PROVE  Pos(c[l])' - Pos(c[k])' >= l - k
    OBVIOUS
  <2>1. Mine(q, c[k]) /\ Mine(q, c[l]) /\ Pos(c[l]) - Pos(c[k]) >= l - k
    BY DEF Chain
  <2> QED BY <1>1, <1>5, <2>1
<1>8. \A i \in OpIdx : Mine(q, i)' => \E k \in Int : B < k /\ k <= N /\ c[k] = i
  BY <1>3 DEF Chain
<1>9. B < N => queue_ram'[q].op_index = c[N]
  BY DEF Chain
<1>10. B <= N
  BY DEF Chain
<1> QED BY <1>6, <1>7, <1>8, <1>9, <1>10 DEF Chain

\* Its pointers, when the producer moves from P and X to Y and Z.
LEMMA WindowStays ==
    ASSUME TypeOK, TableInv, TagsExclusive, NEW e, NEW r, Loads(e, r),
           NEW done, NEW tags, Fetching(r, done, tags), OpTableNext(tags),
           NEW q \in Queues, NEW B \in Int, NEW N \in Int, NEW c \in Chains, Chain(q, B, N, c),
           NEW U \in Int, NEW P \in Int, NEW X \in Int, Window(q, B, N, c, U, P, X),
           ~(StartEn /\ Last.addr = q), ~(FinishEn /\ op_table[op_table_finish_ptr].queue = q),
           NEW Y \in Int, NEW Z \in Int, N <= Y, Y <= Z, Z - U <= 2^drv[q].log_size,
           drv'[q].log_size = drv[q].log_size, drv'[q].cons = drv[q].cons,
           queue_ram'[q].prod = Y % PtrMod, drv'[q].prod = Z % PtrMod,
           ~Doing(q, "set_prod")' => Z = Y
    PROVE  Window(q, B, N, c, U, Y, Z)'
<1>0. Reapable(q, B, N, c, U, tags)
  BY FetchedStep
<1>1. \A k \in Int : c[k] \in OpIdx
  BY DEF Chains
<1>2. \A k \in Int : B < k /\ k <= N =>
          (op_table'[c[k]].commit <=> op_table[c[k]].commit \/ c[k] \in tags)
  <2> SUFFICES ASSUME NEW k \in Int, B < k, k <= N
               PROVE  op_table'[c[k]].commit <=> op_table[c[k]].commit \/ c[k] \in tags
    OBVIOUS
  <2>1. Mine(q, c[k]) /\ c[k] \in OpIdx
    BY <1>1 DEF Chain
  <2>2. ~(FinishEn /\ c[k] = op_table_finish_ptr) /\ ~(StartEn /\ c[k] = op_table_start_ptr)
    BY <2>1, Starting DEF Mine
  <2> QED BY <2>1, <2>2, EntriesStay, Finishing
<1>3. \A k \in Int : B < k /\ k <= N /\ ~op_table'[c[k]].commit => U < k
  BY <1>2 DEF Window
<1>4. \A p \in fetched'[q] : \E v \in Int :
          /\ U <= v /\ v < N /\ p = v % PtrMod
          /\ B <= v => op_table'[c[v + 1]].commit
  <2> SUFFICES ASSUME NEW p \in fetched'[q]
               PROVE  \E v \in Int : /\ U <= v /\ v < N /\ p = v % PtrMod
                                     /\ B <= v => op_table'[c[v + 1]].commit
    OBVIOUS
  <2>1. PICK v \in Int : /\ U <= v /\ v < N /\ p = v % PtrMod
                         /\ B <= v => op_table[c[v + 1]].commit \/ c[v + 1] \in tags
    BY <1>0 DEF Reapable
  <2>2. B <= v => v + 1 \in Int /\ B < v + 1 /\ v + 1 <= N
    BY <2>1
  <2>3. B <= v => op_table'[c[v + 1]].commit
    BY <1>2, <2>1, <2>2
  <2> QED BY <2>1, <2>3
<1>5. U <= N
  BY DEF Window
<1>6. drv'[q].cons = U % PtrMod
  BY DEF Window
<1> QED BY <1>3, <1>4, <1>5, <1>6 DEF Window

\* The oldest entry of the table, if it is one of the queue's, is the first of its chain.
LEMMA HeadOfChain ==
    ASSUME TypeOK, NEW q \in Queues, NEW B \in Int, NEW N \in Int, NEW c \in Chains,
           Chain(q, B, N, c), Mine(q, op_table_finish_ptr)
    PROVE  B < N /\ c[B + 1] = op_table_finish_ptr /\ N - B <= OP_TABLE_SIZE
<1> DEFINE f == op_table_finish_ptr
<1>1. f \in OpIdx /\ Pos(f) = 0
  BY Positions
<1>2. PICK k \in Int : B < k /\ k <= N /\ c[k] = f
  BY <1>1 DEF Chain
<1>3. \A l \in Int : c[l] \in OpIdx /\ Pos(c[l]) \in Int /\ Pos(c[l]) >= 0
                     /\ Pos(c[l]) < OP_TABLE_SIZE
  BY Positions DEF Chains
<1>4. B + 1 \in Int /\ B < B + 1 /\ B + 1 <= k /\ B + 1 <= N /\ N <= N
  BY <1>2
<1>5. Pos(c[k]) - Pos(c[B + 1]) >= k - (B + 1)
  BY <1>2, <1>4 DEF Chain
<1>6. k = B + 1
  BY <1>1, <1>2, <1>3, <1>4, <1>5
<1>7. Pos(c[N]) - Pos(c[B + 1]) >= N - (B + 1)
  BY <1>4 DEF Chain
<1>8. N - B <= OP_TABLE_SIZE
  BY <1>3, <1>4, <1>7, OpTableAssumption
<1> QED BY <1>2, <1>4, <1>6, <1>8

\* A commit is accepted: the first entry leaves the chain.
LEMMA ChainPops ==
    ASSUME TypeOK, TableInv, NEW e, NEW r, Loads(e, r), NEW tags, OpTableNext(tags),
           NEW q \in Queues, NEW B \in Int, NEW N \in Int, NEW c \in Chains, Chain(q, B, N, c),
           ~(StartEn /\ Last.addr = q), FinishEn, op_table[op_table_finish_ptr].queue = q,
           ~Doing(q, "commit"), Carrying(q, "commit", e.wdata)',
           queue_ram'[q] = queue_ram[q], drv'[q] = drv[q]
    PROVE  Chain(q, B + 1, N, c)'
<1> DEFINE f == op_table_finish_ptr
<1>1. /\ op_table[f].active /\ op_table[f].queue_ptr = e.wdata /\ f \in OpIdx
      /\ Mine(q, f)
  BY Finishing, Positions DEF Mine
<1>2. B < N /\ c[B + 1] = f /\ N - B <= OP_TABLE_SIZE
  BY <1>1, HeadOfChain
<1>3. \A k \in Int : c[k] \in OpIdx
  BY DEF Chains
<1>4. B + 1 \in Int /\ (B + 1) - 1 = B /\ B + 1 <= N
  BY <1>2
<1>5. \A k \in Int : B + 1 < k /\ k <= N =>
         /\ Mine(q, c[k]) /\ c[k] # f /\ op_table[c[k]].queue_ptr = k % PtrMod
         /\ ~(StartEn /\ c[k] = op_table_start_ptr)
  <2> SUFFICES ASSUME NEW k \in Int, B + 1 < k, k <= N
               PROVE  /\ Mine(q, c[k]) /\ c[k] # f /\ op_table[c[k]].queue_ptr = k % PtrMod
                      /\ ~(StartEn /\ c[k] = op_table_start_ptr)
    OBVIOUS
  <2>1. B < k /\ B < B + 1 /\ B + 1 <= k
    BY <1>4
  <2>2. Pos(c[k]) - Pos(c[B + 1]) >= k - (B + 1)
    BY <1>4, <2>1 DEF Chain
  <2>3. c[k] # f
    BY <1>2, <1>4, <2>2, Positions
  <2> QED BY <2>1, <2>3, Starting DEF Chain, Mine
<1>6. \A k \in Int : B + 1 < k /\ k <= N =>
         Mine(q, c[k])' /\ op_table'[c[k]].queue_ptr = k % PtrMod
  BY <1>1, <1>3, <1>5, EntriesStay
<1>7. \A k, l \in Int : B + 1 < k /\ k <= l /\ l <= N => Pos(c[l])' - Pos(c[k])' >= l - k
  <2> SUFFICES ASSUME NEW k \in Int, NEW l \in Int, B + 1 < k, k <= l, l <= N
               PROVE  Pos(c[l])' - Pos(c[k])' >= l - k
    OBVIOUS
  <2>1. B < k /\ k <= N /\ B + 1 < l
    BY <1>4
  <2>2. Pos(c[l]) - Pos(c[k]) >= l - k
    BY <2>1 DEF Chain
  <2>3. Pos(c[l])' = Pos(c[l]) - 1 /\ Pos(c[k])' = Pos(c[k]) - 1
    BY <1>3, <1>5, <2>1, PosShift
  <2> QED BY <1>3, <2>2, <2>3, Positions
<1>8. \A i \in OpIdx : Mine(q, i)' => \E k \in Int : B + 1 < k /\ k <= N /\ c[k] = i
  <2> SUFFICES ASSUME NEW i \in OpIdx, Mine(q, i)'
               PROVE  \E k \in Int : B + 1 < k /\ k <= N /\ c[k] = i
    OBVIOUS
  <2>1. Mine(q, i) /\ i # f
    BY <1>1, EntriesStay
  <2>2. PICK k \in Int : B < k /\ k <= N /\ c[k] = i
    BY <2>1 DEF Chain
  <2>3. B + 1 < k
    BY <1>2, <2>1, <2>2
  <2> QED BY <2>2, <2>3
<1>9. e.wdata = (B + 1) % PtrMod
  BY <1>1, <1>2, <1>4 DEF Chain
<1>10. queue_ram'[q].cons = ((B + 1) - 1) % PtrMod
  BY <1>4 DEF Chain, Carrying, Doing
<1>11. queue_ram[q].op_index = c[N] /\ drv[q].pc \in Busy
  BY <1>2 DEF Chain
<1>12. N - (B + 1) < OP_TABLE_SIZE
  BY <1>2, OpTableAssumption
<1> QED BY <1>4, <1>6, <1>7, <1>8, <1>9, <1>10, <1>11, <1>12 DEF Chain

\* The driver's pointers do not move when an entry retires.
LEMMA WindowPops ==
    ASSUME TypeOK, TableInv, TagsExclusive, NEW e, NEW r, Loads(e, r),
           NEW done, NEW tags, Fetching(r, done, tags), OpTableNext(tags),
           NEW q \in Queues, NEW B \in Int, NEW N \in Int, NEW c \in Chains, Chain(q, B, N, c),
           NEW U \in Int, NEW P \in Int, NEW X \in Int, Window(q, B, N, c, U, P, X),
           ~(StartEn /\ Last.addr = q), FinishEn, op_table[op_table_finish_ptr].queue = q,
           queue_ram'[q] = queue_ram[q], drv'[q] = drv[q],
           ~Doing(q, "set_prod")
    PROVE  Window(q, B + 1, N, c, U, P, X)'
<1> DEFINE f == op_table_finish_ptr
<1>0. Reapable(q, B, N, c, U, tags)
  BY FetchedStep
<1>1. op_table[f].active /\ Mine(q, f)
  BY Finishing DEF Mine
<1>2. B < N /\ c[B + 1] = f
  BY <1>1, HeadOfChain
<1>3. \A k \in Int : B + 1 < k /\ k <= N =>
         (op_table'[c[k]].commit <=> op_table[c[k]].commit \/ c[k] \in tags)
  <2> SUFFICES ASSUME NEW k \in Int, B + 1 < k, k <= N
               PROVE  op_table'[c[k]].commit <=> op_table[c[k]].commit \/ c[k] \in tags
    OBVIOUS
  <2>1. B < k /\ B < B + 1 /\ B + 1 <= k /\ B + 1 \in Int
    OBVIOUS
  <2>2. Pos(c[k]) - Pos(c[B + 1]) >= k - (B + 1)
    BY <2>1 DEF Chain
  <2>3. c[k] \in OpIdx /\ c[k] # f
    BY <1>2, <2>1, <2>2, Positions DEF Chains
  <2>4. ~(StartEn /\ c[k] = op_table_start_ptr)
    BY <2>1, Starting DEF Chain, Mine
  <2> QED BY <1>1, <2>3, <2>4, EntriesStay
<1>4. \A k \in Int : B + 1 < k /\ k <= N /\ ~op_table'[c[k]].commit => U < k
  <2> SUFFICES ASSUME NEW k \in Int, B + 1 < k, k <= N, ~op_table'[c[k]].commit
               PROVE  U < k
    OBVIOUS
  <2>1. B < k /\ ~op_table[c[k]].commit
    BY <1>3
  <2> QED BY <2>1 DEF Window
<1>5. \A p \in fetched'[q] : \E v \in Int :
          /\ U <= v /\ v < N /\ p = v % PtrMod
          /\ B + 1 <= v => op_table'[c[v + 1]].commit
  <2> SUFFICES ASSUME NEW p \in fetched'[q]
               PROVE  \E v \in Int : /\ U <= v /\ v < N /\ p = v % PtrMod
                                     /\ B + 1 <= v => op_table'[c[v + 1]].commit
    OBVIOUS
  <2>1. PICK v \in Int : /\ U <= v /\ v < N /\ p = v % PtrMod
                         /\ B <= v => op_table[c[v + 1]].commit \/ c[v + 1] \in tags
    BY <1>0 DEF Reapable
  <2>2. B + 1 <= v => v + 1 \in Int /\ B + 1 < v + 1 /\ v + 1 <= N /\ B <= v
    BY <2>1
  <2>3. B + 1 <= v => op_table'[c[v + 1]].commit
    BY <1>3, <2>1, <2>2
  <2> QED BY <2>1, <2>3
<1>6. /\ U <= N /\ N <= P /\ P <= X /\ X - U <= 2^drv'[q].log_size
      /\ drv'[q].cons = U % PtrMod /\ queue_ram'[q].prod = P % PtrMod
      /\ drv'[q].prod = X % PtrMod /\ X = P
  BY DEF Window
<1> QED BY <1>4, <1>5, <1>6 DEF Window

\* Where the next dequeue of the queue reads.
LEMMA NextToRead ==
    ASSUME TypeOK, PipeInv, NEW q \in Queues, NEW B \in Int, NEW N \in Int, NEW c \in Chains,
           Chain(q, B, N, c), LastOn(q), Last.op = "req"
    PROVE  ActiveConsPtr = N % PtrMod
<1>1. Last.addr = q /\ Last.data = queue_ram[q]
  BY Constants DEF LastOn, Last, PipeInv, PipeCoherent
<1>2. queue_ram[q].op_index \in OpIdx
  BY DEF TypeOK, Words
<1>3. CASE B < N
  <2>1. queue_ram[q].op_index = c[N] /\ Mine(q, c[N]) /\ op_table[c[N]].queue_ptr = N % PtrMod
    BY <1>3 DEF Chain
  <2> QED BY <1>1, <2>1 DEF ActiveConsPtr, QueueActive, Mine
<1>4. CASE ~(B < N)
  <2>1. B = N /\ ~Mine(q, queue_ram[q].op_index)
    BY <1>2, <1>4 DEF Chain
  <2>2. ~Doing(q, "commit")
    BY <1>1, Constants DEF LastOn, Last, PipeInv, PipeCoherent, Doing
  <2>3. queue_ram[q].cons = B % PtrMod
    BY <2>2 DEF Chain, Carrying, Doing
  <2> QED BY <1>1, <2>1, <2>3 DEF ActiveConsPtr, QueueActive, Mine
<1> QED BY <1>3, <1>4

\* The entry to allocate is younger than every entry in use.
LEMMA StartIsYoungest ==
    ASSUME TypeOK, TableInv, ~op_table[op_table_start_ptr].active
    PROVE  \A i \in OpIdx : op_table[i].active => Pos(i) < Pos(op_table_start_ptr)
<1>1. op_table_start_ptr \in OpIdx /\ op_table_finish_ptr \in OpIdx
  BY DEF TypeOK
<1> QED BY <1>1, OpTableAssumption DEF TableInv, OpTableRing, InRing, Pos, OpIdx

\* A dequeue starts: its entry joins the chain at the end.
LEMMA ChainPushes ==
    ASSUME TypeOK, PipeInv, TableInv, NEW e, NEW r, Loads(e, r), NEW tags, OpTableNext(tags),
           NEW q \in Queues, NEW B \in Int, NEW N \in Int, NEW c \in Chains, Chain(q, B, N, c),
           StartEn, LastOn(q), ~(FinishEn /\ op_table[op_table_finish_ptr].queue = q),
           ~Doing(q, "commit"), ~Doing(q, "commit")', queue_ram'[q].cons = queue_ram[q].cons,
           queue_ram'[q].op_index = op_table_start_ptr, drv'[q].pc \in Busy,
           NEW s \in OpIdx, s = op_table_start_ptr,
           NEW x \in Chains, x = [c EXCEPT ![N + 1] = s]
    PROVE  Chain(q, B, N + 1, x)'
<1>1. /\ Last.addr = q /\ Last.op = "req" /\ ~op_table[s].active
      /\ s \in OpIdx /\ N + 1 \in Int /\ N < N + 1
  BY Starting, Positions DEF LastOn
<1>2. /\ x[N + 1] = s
      /\ \A k \in Int : k <= N => x[k] = c[k]
      /\ \A k \in Int : c[k] \in OpIdx
  BY <1>1 DEF Chains
<1>3. ActiveConsPtr = N % PtrMod
  BY <1>1, NextToRead
<1>4. Mine(q, s)' /\ op_table'[s].queue_ptr = (N + 1) % PtrMod
  <2>1. Inc(N % PtrMod) = (N + 1) % PtrMod
    BY Residues
  <2> QED BY <1>1, <1>3, <2>1, EntriesStay, Finishing
<1>5. \A k \in Int : B < k /\ k <= N =>
         /\ Mine(q, c[k]) /\ op_table[c[k]].queue_ptr = k % PtrMod
         /\ ~(FinishEn /\ c[k] = op_table_finish_ptr) /\ c[k] # s
  BY <1>1 DEF Chain, Mine
<1>6. ~(FinishEn /\ s = op_table_finish_ptr)
  BY <1>1, Finishing
<1>7. \A k \in Int : B < k /\ k <= N + 1 =>
         Mine(q, x[k])' /\ op_table'[x[k]].queue_ptr = k % PtrMod
  <2> SUFFICES ASSUME NEW k \in Int, B < k, k <= N + 1
               PROVE  Mine(q, x[k])' /\ op_table'[x[k]].queue_ptr = k % PtrMod
    OBVIOUS
  <2>1. CASE k = N + 1
    BY <1>2, <1>4, <2>1
  <2>2. CASE k # N + 1
    <3>1. k <= N /\ x[k] = c[k] /\ c[k] \in OpIdx
      BY <1>2, <2>2
    <3> QED BY <1>5, <3>1, EntriesStay, Finishing
  <2> QED BY <2>1, <2>2
<1>8. \A k, l \in Int : B < k /\ k <= l /\ l <= N + 1 => Pos(x[l])' - Pos(x[k])' >= l - k
  <2> SUFFICES ASSUME NEW k \in Int, NEW l \in Int, B < k, k <= l, l <= N + 1
               PROVE  Pos(x[l])' - Pos(x[k])' >= l - k
    OBVIOUS
  <2> DEFINE z == IF FinishEn THEN 1 ELSE 0
  <2>1. z \in Int
    OBVIOUS
  <2>2. Pos(s)' = Pos(s) - z /\ Pos(s) \in Int
    BY <1>1, <1>6, PosShift, Positions
  <2>3. \A y \in Int : B < y /\ y <= N => Pos(c[y])' = Pos(c[y]) - z /\ Pos(c[y]) \in Int
    BY <1>2, <1>5, PosShift, Positions
  <2> HIDE DEF z
  <2>4. CASE l = N + 1 /\ k = N + 1
    BY <1>2, <2>1, <2>2, <2>4
  <2>5. CASE l = N + 1 /\ k # N + 1
    <3>1. k <= N /\ B < N /\ N <= N
      BY <2>5
    <3>2. Pos(c[N]) - Pos(c[k]) >= N - k
      BY <3>1 DEF Chain
    <3>3. Pos(c[N]) < Pos(s)
      BY <1>1, <1>2, <1>5, <3>1, StartIsYoungest DEF Mine
    <3>4. x[l] = s /\ x[k] = c[k]
      BY <1>2, <2>5, <3>1
    <3>5. Pos(c[k])' = Pos(c[k]) - z /\ Pos(c[k]) \in Int /\ Pos(c[N]) \in Int
      BY <2>3, <3>1
    <3> QED BY <2>1, <2>2, <2>5, <3>1, <3>2, <3>3, <3>4, <3>5
  <2>6. CASE l # N + 1
    <3>1. l <= N /\ k <= N /\ B < l
      BY <2>6
    <3>2. Pos(c[l]) - Pos(c[k]) >= l - k
      BY <3>1 DEF Chain
    <3>3. x[l] = c[l] /\ x[k] = c[k]
      BY <1>2, <3>1
    <3>4. /\ Pos(c[k])' = Pos(c[k]) - z /\ Pos(c[k]) \in Int
          /\ Pos(c[l])' = Pos(c[l]) - z /\ Pos(c[l]) \in Int
      BY <2>3, <3>1
    <3> QED BY <2>1, <3>2, <3>3, <3>4
  <2> QED BY <2>4, <2>5, <2>6
<1>9. \A i \in OpIdx : Mine(q, i)' => \E k \in Int : B < k /\ k <= N + 1 /\ x[k] = i
  <2> SUFFICES ASSUME NEW i \in OpIdx, Mine(q, i)'
               PROVE  \E k \in Int : B < k /\ k <= N + 1 /\ x[k] = i
    OBVIOUS
  <2>0. B <= N
    BY DEF Chain
  <2>1. CASE i = s
    BY <1>1, <1>2, <2>0, <2>1
  <2>2. CASE i # s
    <3>1. Mine(q, i)
      BY <2>2, EntriesStay, Finishing
    <3>2. PICK k \in Int : B < k /\ k <= N /\ c[k] = i
      BY <3>1 DEF Chain
    <3>3. k <= N + 1 /\ x[k] = i
      BY <1>2, <3>2
    <3> QED BY <3>2, <3>3
  <2> QED BY <2>1, <2>2
<1>10. B <= N + 1 /\ queue_ram'[q].cons = B % PtrMod
  BY DEF Chain, Carrying, Doing
<1> QED BY <1>2, <1>7, <1>8, <1>9, <1>10 DEF Chain

\* The descriptor handed out is one the hardware knows of.
LEMMA WindowPushes ==
    ASSUME TypeOK, PipeInv, TableInv, NEW e, NEW r, Loads(e, r),
           NEW tags, OpTableNext(tags),
           NEW q \in Queues, NEW B \in Int, NEW N \in Int, NEW c \in Chains, Chain(q, B, N, c),
           NEW U \in Int, NEW P \in Int, NEW X \in Int, Window(q, B, N, c, U, P, X),
           StartEn, LastOn(q), ~(FinishEn /\ op_table[op_table_finish_ptr].queue = q),
           Reapable(q, B, N, c, U, tags),
           queue_ram'[q].prod = queue_ram[q].prod, drv'[q] = drv[q],
           ~Doing(q, "set_prod"),
           NEW s \in OpIdx, s = op_table_start_ptr,
           NEW x \in Chains, x = [c EXCEPT ![N + 1] = s]
    PROVE  Window(q, B, N + 1, x, U, P, X)'
<1>1. /\ Last.addr = q /\ Last.op = "req" /\ ~op_table[s].active /\ ~QueueEmpty
      /\ s \in OpIdx /\ N + 1 \in Int /\ N < N + 1
  BY Starting, Positions DEF LastOn
<1>2. /\ x[N + 1] = s
      /\ \A k \in Int : k <= N => x[k] = c[k]
      /\ \A k \in Int : c[k] \in OpIdx
  BY <1>1 DEF Chains
<1>3. N + 1 <= P
  <2>1. ActiveConsPtr = N % PtrMod
    BY <1>1, NextToRead
  <2>2. Last.data = queue_ram[q]
    BY <1>1, Constants DEF Last, LastOn, PipeInv, PipeCoherent
  <2>3. queue_ram[q].prod = P % PtrMod /\ N <= P
    BY DEF Window
  <2>4. P # N
    BY <1>1, <2>1, <2>2, <2>3 DEF QueueEmpty
  <2> QED BY <2>3, <2>4
<1>4. \A k \in Int : B < k /\ k <= N =>
         (op_table'[c[k]].commit <=> op_table[c[k]].commit \/ c[k] \in tags)
  <2> SUFFICES ASSUME NEW k \in Int, B < k, k <= N
               PROVE  op_table'[c[k]].commit <=> op_table[c[k]].commit \/ c[k] \in tags
    OBVIOUS
  <2>1. Mine(q, c[k]) /\ c[k] \in OpIdx
    BY <1>2 DEF Chain
  <2>2. ~(FinishEn /\ c[k] = op_table_finish_ptr) /\ ~(StartEn /\ c[k] = op_table_start_ptr)
    BY <1>1, <2>1 DEF Mine
  <2> QED BY <2>1, <2>2, EntriesStay, Finishing
<1>5. /\ U <= N /\ P <= X /\ X - U <= 2^drv'[q].log_size
      /\ drv'[q].cons = U % PtrMod /\ queue_ram'[q].prod = P % PtrMod
      /\ drv'[q].prod = X % PtrMod /\ X = P
  BY DEF Window
<1>6. \A k \in Int : B < k /\ k <= N + 1 /\ ~op_table'[x[k]].commit => U < k
  <2> SUFFICES ASSUME NEW k \in Int, B < k, k <= N + 1, ~op_table'[x[k]].commit
               PROVE  U < k
    OBVIOUS
  <2>1. CASE k = N + 1
    BY <1>5, <2>1
  <2>2. CASE k # N + 1
    <3>1. k <= N /\ ~op_table[c[k]].commit
      BY <1>2, <1>4, <2>2
    <3> QED BY <3>1 DEF Window
  <2> QED BY <2>1, <2>2
<1>7. \A p \in fetched'[q] : \E v \in Int :
          /\ U <= v /\ v < N + 1 /\ p = v % PtrMod
          /\ B <= v => op_table'[x[v + 1]].commit
  <2> SUFFICES ASSUME NEW p \in fetched'[q]
               PROVE  \E v \in Int : /\ U <= v /\ v < N + 1 /\ p = v % PtrMod
                                     /\ B <= v => op_table'[x[v + 1]].commit
    OBVIOUS
  <2>1. PICK v \in Int : /\ U <= v /\ v < N /\ p = v % PtrMod
                         /\ B <= v => op_table[c[v + 1]].commit \/ c[v + 1] \in tags
    BY DEF Reapable
  <2>2. B <= v => v + 1 \in Int /\ B < v + 1 /\ v + 1 <= N /\ x[v + 1] = c[v + 1]
    BY <1>2, <2>1
  <2>3. B <= v => op_table'[x[v + 1]].commit
    BY <1>4, <2>1, <2>2
  <2>4. v < N + 1
    BY <2>1
  <2> QED BY <2>1, <2>3, <2>4
<1>8. U <= N + 1
  BY <1>5
<1> QED BY <1>3, <1>5, <1>6, <1>7, <1>8 DEF Window

\* One clock: entry e is accepted, the entries in tags are committed.
Tick(e, r, done, tags) ==
    /\ r \in BOOLEAN /\ Stage0(r) /\ e \in Entries /\ Loads(e, r)
    /\ Perform /\ RespNext(r)
    /\ OpTableNext(tags) /\ Fetching(r, done, tags)

\* What stage 0 and the last stage do to a queue they are not on.
LEMMA Elsewhere ==
    ASSUME OwnInv, NEW e, NEW r, NEW done, NEW tags, Tick(e, r, done, tags), NEW q \in Queues
    PROVE  /\ ~EntryOn(e, q) => /\ drv'[q] = drv[q]
                                /\ ~(FinishEn /\ op_table[op_table_finish_ptr].queue = q)
           /\ ~LastOn(q) => queue_ram'[q] = queue_ram[q] /\ ~(StartEn /\ Last.addr = q)
           /\ EntryOn(e, q) => ~LastOn(q)
<1>1. TypeOK /\ PipeInv
  BY DEF OwnInv, IInv
<1>2. ~EntryOn(e, q) => drv'[q] = drv[q]
  BY <1>1, DriverStep DEF EntryOn, SetOps, Tick
<1>3. ~EntryOn(e, q) => ~(FinishEn /\ op_table[op_table_finish_ptr].queue = q)
  BY Finishing DEF EntryOn, Tick
<1>4. ~LastOn(q) => queue_ram'[q] = queue_ram[q]
  BY <1>1, PerformFrame DEF LastOn, Tick
<1>5. ~LastOn(q) => ~(StartEn /\ Last.addr = q)
  BY DEF LastOn, StartEn
<1>6. EntryOn(e, q) => ~LastOn(q)
  <2>1. PICK o : o = "read"
    OBVIOUS
  <2> QED BY <1>1, <2>1, DoingStep DEF Tick
<1> QED BY <1>2, <1>3, <1>4, <1>5, <1>6

\* The chain of the queue whose operation is accepted.
LEMMA ChainEntry ==
    ASSUME OwnInv, NEW e, NEW r, NEW done, NEW tags, Tick(e, r, done, tags), NEW q \in Queues,
           NEW B \in Int, NEW N \in Int, NEW c \in Chains, Chain(q, B, N, c), EntryOn(e, q)
    PROVE  /\ e.op = "commit" => Chain(q, B + 1, N, c)'
           /\ e.op # "commit" => Chain(q, B, N, c)'
<1>1. TypeOK /\ PipeInv /\ TableInv
  BY DEF OwnInv, IInv
<1>2. e \in Entries /\ Loads(e, r) /\ OpTableNext(tags) /\ Stage0(r) /\ r \in BOOLEAN
  BY DEF Tick
<1>3. queue_ram'[q] = queue_ram[q] /\ ~(StartEn /\ Last.addr = q)
  BY Elsewhere
<1>4. ~Doing(q, "commit") /\ (Doing(q, "commit")' <=> e.op = "commit")
  BY <1>1, <1>2, DoingStep
<1>5. CASE e.op = "commit"
  <2>1. FinishEn /\ op_table[op_table_finish_ptr].queue = q
    BY <1>2, <1>5, Finishing DEF EntryOn
  <2>2. drv' = drv
    BY <1>1, <1>2, <1>5, DriverStep DEF SetOps
  <2>3. Carrying(q, "commit", e.wdata)'
    BY <1>1, <1>2, <1>5, CarryStep
  <2>4. Chain(q, B + 1, N, c)'
    BY <1>1, <1>2, <1>3, <1>4, <2>1, <2>2, <2>3, ChainPops
  <2> QED BY <1>5, <2>4
<1>6. CASE e.op # "commit"
  <2>1. ~FinishEn
    BY <1>2, <1>6, Finishing
  <2>2. queue_ram'[q].cons = B % PtrMod
    BY <1>3, <1>4 DEF Chain, Carrying, Doing
  <2>3. B < N => drv'[q].pc \in Busy
    <3> SUFFICES ASSUME B < N PROVE drv'[q].pc \in Busy
      OBVIOUS
    <3>1. drv[q].pc \in Busy /\ Mine(q, c[N]) /\ c[N] \in OpIdx
      BY DEF Chain, Chains
    <3>2. ~Drained(q)
      BY <3>1 DEF Drained, Mine
    <3>3. drv' = drv \/ Wrote(q, drv[q], drv'[q], e.op, e.wdata)
      BY <1>1, <1>2, DriverStep DEF EntryOn
    <3> QED BY <3>1, <3>2, <3>3 DEF Wrote, Same, Busy
  <2>4. Chain(q, B, N, c)'
    BY <1>1, <1>2, <1>3, <1>4, <1>6, <2>1, <2>2, <2>3, ChainStays
  <2> QED BY <1>6, <2>4
<1> QED BY <1>5, <1>6

\* The chain of a queue without an operation accepted or performed.
LEMMA ChainIdle ==
    ASSUME OwnInv, NEW e, NEW r, NEW done, NEW tags, Tick(e, r, done, tags), NEW q \in Queues,
           NEW B \in Int, NEW N \in Int, NEW c \in Chains, Chain(q, B, N, c),
           ~EntryOn(e, q), ~LastOn(q)
    PROVE  Chain(q, B, N, c)'
<1>1. TypeOK /\ PipeInv /\ TableInv
  BY DEF OwnInv, IInv
<1>2. e \in Entries /\ Loads(e, r) /\ OpTableNext(tags)
  BY DEF Tick
<1>3. /\ queue_ram'[q] = queue_ram[q] /\ ~(StartEn /\ Last.addr = q) /\ drv'[q] = drv[q]
      /\ ~(FinishEn /\ op_table[op_table_finish_ptr].queue = q)
  BY Elsewhere
<1>4. Doing(q, "commit")' <=> Doing(q, "commit")
  BY <1>1, <1>2, DoingStep
<1>5. Carrying(q, "commit", B % PtrMod)' <=> Carrying(q, "commit", B % PtrMod)
  BY <1>1, <1>2, CarryStep
<1>6. /\ \/ ~Doing(q, "commit")' /\ queue_ram'[q].cons = B % PtrMod
         \/ Carrying(q, "commit", B % PtrMod)' /\ queue_ram'[q].cons = (B - 1) % PtrMod
      /\ B < N => queue_ram'[q].op_index = queue_ram[q].op_index /\ drv'[q].pc \in Busy
      /\ Doing(q, "commit")' => N - B < OP_TABLE_SIZE /\ drv'[q].pc \in Busy
  BY <1>3, <1>4, <1>5 DEF Chain
<1> QED BY <1>1, <1>2, <1>3, <1>6, ChainStays

\* The driver's state when the last stage has an operation of the queue.
LEMMA LastPhase ==
    ASSUME OwnInv, NEW q \in Queues, LastOn(q)
    PROVE  /\ Last.data = queue_ram[q]
           /\ Last.op \in SetOps => Latest(drv[q], Last.op, Last.wdata)
           /\ Last.op = "set_cons" => /\ drv[q].pc = "opened" /\ queue_ram[q].enable = 0
                                      /\ Last.wdata = 0 /\ drv[q].cons = 0 /\ drv[q].prod = 0
                                      /\ queue_ram[q].prod = 0 /\ fetched[q] = {}
           /\ StartEn => drv[q].pc \in Busy
<1>1. Last.data = queue_ram[q]
  BY Constants DEF OwnInv, IInv, LastOn, Last, PipeInv, PipeCoherent
<1>2. Last.op \in SetOps => Latest(drv[q], Last.op, Last.wdata)
  BY Constants DEF WriteInv, Last, LastOn, OwnInv
<1>3. Last.op = "set_cons" => Doing(q, "set_cons")
  BY Constants DEF LastOn, Last, Doing
<1>4. Last.op = "set_cons" => /\ drv[q].pc = "opened" /\ queue_ram[q].enable = 0
                              /\ Last.wdata = 0 /\ drv[q].cons = 0 /\ drv[q].prod = 0
                              /\ queue_ram[q].prod = 0 /\ fetched[q] = {}
  BY <1>2, <1>3 DEF Latest, SetOps, OwnInv, PhaseInv
<1>5. StartEn => drv[q].pc \in Busy
  <2> SUFFICES ASSUME StartEn PROVE drv[q].pc \in Busy
    OBVIOUS
  <2>1. queue_ram[q].enable = 1
    BY <1>1 DEF StartEn
  <2>2. drv[q].pc \in DrvStates
    BY DEF OwnInv, IInv, TypeOK, Drvs
  <2>3. drv[q].pc \notin {"closed", "opened"} \cup Opening
    BY <2>1 DEF OwnInv, PhaseInv
  <2> QED BY <2>2, <2>3 DEF DrvStates, Opening, Busy
<1> QED BY <1>1, <1>2, <1>4, <1>5

\* The chain of the queue for which a dequeue starts.
LEMMA ChainStarts ==
    ASSUME OwnInv, NEW e, NEW r, NEW done, NEW tags, Tick(e, r, done, tags), NEW q \in Queues,
           NEW B \in Int, NEW N \in Int, NEW c \in Chains, Chain(q, B, N, c), LastOn(q), StartEn
    PROVE  \E x \in Chains : /\ x = [c EXCEPT ![N + 1] = op_table_start_ptr]
                             /\ Chain(q, B, N + 1, x)'
<1>1. TypeOK /\ PipeInv /\ TableInv
  BY DEF OwnInv, IInv
<1>2. e \in Entries /\ Loads(e, r) /\ OpTableNext(tags) /\ Perform
  BY DEF Tick
<1>3. ~EntryOn(e, q)
  BY Elsewhere
<1>4. /\ drv'[q] = drv[q]
      /\ ~(FinishEn /\ op_table[op_table_finish_ptr].queue = q)
  BY <1>3, Elsewhere
<1>5. ~Doing(q, "commit")' /\ (Doing(q, "commit") <=> Last.op = "commit")
  BY <1>1, <1>2, DoingStep
<1>6. PICK s \in OpIdx : s = op_table_start_ptr
  BY <1>1 DEF TypeOK
<1>7. PICK x \in Chains : x = [c EXCEPT ![N + 1] = s]
  BY DEF Chains
<1>8. Last.op = "req" /\ Last.op \notin SetOps /\ Last.op # "commit"
  BY DEF StartEn, SetOps
<1>9. queue_ram'[q].cons = queue_ram[q].cons /\ queue_ram'[q].op_index = s
  BY <1>1, <1>2, <1>6, <1>8, WordStep
<1>10. drv'[q].pc \in Busy
  BY <1>4, LastPhase
<1>11. Chain(q, B, N + 1, x)'
  BY <1>1, <1>2, <1>4, <1>5, <1>6, <1>7, <1>8, <1>9, <1>10, ChainPushes
<1> QED BY <1>6, <1>7, <1>11

\* The chain of the queue whose operation performs, when no dequeue starts.
LEMMA ChainLast ==
    ASSUME OwnInv, NEW e, NEW r, NEW done, NEW tags, Tick(e, r, done, tags), NEW q \in Queues,
           NEW B \in Int, NEW N \in Int, NEW c \in Chains, Chain(q, B, N, c), LastOn(q)
    PROVE  /\ Last.op = "set_cons" => Chain(q, 0, 0, c)' /\ B = N
           /\ ~StartEn /\ Last.op # "set_cons" => Chain(q, B, N, c)'
<1>1. TypeOK /\ PipeInv /\ TableInv
  BY DEF OwnInv, IInv
<1>2. e \in Entries /\ Loads(e, r) /\ OpTableNext(tags) /\ Perform
  BY DEF Tick
<1>3. ~EntryOn(e, q)
  BY Elsewhere
<1>4. /\ drv'[q] = drv[q]
      /\ ~(FinishEn /\ op_table[op_table_finish_ptr].queue = q)
  BY <1>3, Elsewhere
<1>5. ~Doing(q, "commit")' /\ (Doing(q, "commit") <=> Last.op = "commit")
  BY <1>1, <1>2, DoingStep
<1>7. CASE Last.op = "set_cons"
  <2>1. drv[q].pc = "opened" /\ Last.wdata = 0 /\ queue_ram[q].enable = 0
    BY <1>7, LastPhase
  <2>2. B = N /\ \A i \in OpIdx : ~Mine(q, i)
    BY <2>1 DEF Chain, Busy
  <2>3. ~StartEn
    BY <1>7 DEF StartEn
  <2>4. \A i \in OpIdx : ~Mine(q, i)'
    BY <1>1, <1>2, <2>2, <2>3, EntriesStay, Finishing
  <2>5. queue_ram'[q].cons = 0
    BY <1>1, <1>2, <1>7, <2>1, WordStep
  <2>6. 0 % PtrMod = 0
    BY Residues
  <2>7. Chain(q, 0, 0, c)'
    BY <1>5, <2>4, <2>5, <2>6 DEF Chain
  <2> QED BY <1>7, <2>2, <2>3, <2>7
<1>8. CASE ~StartEn /\ Last.op # "set_cons"
  <2>1. queue_ram'[q].op_index = queue_ram[q].op_index
    BY <1>1, <1>2, <1>8, WordStep DEF TypeOK, Words, Bit, OpKinds, SetOps
  <2>2. queue_ram'[q].cons = IF Last.op = "commit" THEN Last.wdata ELSE queue_ram[q].cons
    BY <1>1, <1>2, <1>8, WordStep DEF TypeOK, Words, Bit, OpKinds, SetOps
  <2>3. queue_ram'[q].cons = B % PtrMod
    <3>1. CASE Last.op = "commit"
      <4>1. Carrying(q, "commit", B % PtrMod)
        BY <1>5, <3>1 DEF Chain
      <4>2. Last.wdata = B % PtrMod
        BY <1>1, <1>2, <4>1, CarryStep
      <4> QED BY <2>2, <3>1, <4>2
    <3>2. CASE Last.op # "commit"
      BY <1>5, <2>2, <3>2 DEF Chain, Carrying, Doing
    <3> QED BY <3>1, <3>2
  <2>4. B < N => drv'[q].pc \in Busy
    BY <1>4 DEF Chain
  <2>5. ~(StartEn /\ Last.addr = q)
    BY <1>8
  <2>6. Chain(q, B, N, c)'
    BY <1>1, <1>2, <1>4, <1>5, <2>1, <2>3, <2>4, <2>5, ChainStays
  <2> QED BY <1>8, <2>6
<1>9. Last.op = "set_cons" => ~StartEn
  BY DEF StartEn
<1> QED BY <1>7, <1>8, <1>9

\* The sizes of the rings are less than the range of a pointer.
LEMMA RingSize ==
    ASSUME TypeOK, NEW q \in Queues
    PROVE  2^drv[q].log_size \in Nat \ {0} /\ 2^drv[q].log_size < PtrMod
<1>1. drv[q].log_size \in LogSizes \cup {0}
  BY DEF TypeOK, Drvs
<1> QED BY <1>1, SizesAssumption

\* The pointers of the queue whose operation is accepted.
LEMMA WindowEntry ==
    ASSUME OwnInv, NEW e, NEW r, NEW done, NEW tags, Tick(e, r, done, tags), NEW q \in Queues,
           NEW B \in Int, NEW N \in Int, NEW c \in Chains, Chain(q, B, N, c), EntryOn(e, q),
           drv[q].pc \in Live =>
              \E U, P, X \in Int : Window(q, B, N, c, U, P, X),
           drv'[q].pc \in Live, ~Doing(q, "set_cons")'
    PROVE  /\ e.op = "commit" => \E U, P, X \in Int : Window(q, B + 1, N, c, U, P, X)'
           /\ e.op # "commit" => \E U, P, X \in Int : Window(q, B, N, c, U, P, X)'
<1>1. TypeOK /\ PipeInv /\ TableInv /\ TagsExclusive
  BY DEF OwnInv, IInv, GrantInv
<1>2. /\ e \in Entries /\ Loads(e, r) /\ OpTableNext(tags) /\ Stage0(r) /\ r \in BOOLEAN
      /\ Fetching(r, done, tags)
  BY DEF Tick
<1>3. queue_ram'[q] = queue_ram[q] /\ ~(StartEn /\ Last.addr = q)
  BY Elsewhere
<1>4. \A o : o # "none" => ~Doing(q, o) /\ (Doing(q, o)' <=> e.op = o)
  BY <1>1, <1>2, DoingStep
<1>5. \/ drv' = drv /\ e.op \notin SetOps
      \/ e.op \in SetOps /\ Wrote(q, drv[q], drv'[q], e.op, e.wdata)
  BY <1>1, <1>2, DriverStep DEF EntryOn
<1>6. e.op # "set_cons"
  BY <1>4
<1>7. drv[q].pc \in Live
  BY <1>5, <1>6 DEF Wrote, Same, Live
<1>8. PICK U \in Int, P \in Int, X \in Int : Window(q, B, N, c, U, P, X)
  BY <1>7
<1>9. X = P
  BY <1>4, <1>8 DEF Window
<1>10. CASE e.op = "commit"
  <2>1. FinishEn /\ op_table[op_table_finish_ptr].queue = q
    BY <1>2, <1>10, Finishing DEF EntryOn
  <2>2. drv' = drv /\ ~Doing(q, "set_prod")
    BY <1>4, <1>5, <1>10 DEF SetOps
  <2>3. Window(q, B + 1, N, c, U, P, X)'
    BY <1>1, <1>2, <1>3, <1>8, <2>1, <2>2, WindowPops
  <2> QED BY <1>10, <2>3
<1>11. CASE e.op # "commit"
  <2>1. ~FinishEn
    BY <1>2, <1>11, Finishing
  <2>2. /\ N <= P /\ P <= X /\ X - U <= 2^drv[q].log_size /\ U <= N
        /\ queue_ram[q].prod = P % PtrMod /\ drv[q].prod = X % PtrMod /\ drv[q].cons = U % PtrMod
    BY <1>8 DEF Window
  <2>3. CASE /\ drv'[q].log_size = drv[q].log_size /\ drv'[q].cons = drv[q].cons
             /\ drv'[q].prod = drv[q].prod
    <3>1. drv'[q].prod = X % PtrMod /\ queue_ram'[q].prod = P % PtrMod
      BY <1>3, <2>2, <2>3
    <3>2. Window(q, B, N, c, U, P, X)'
      BY <1>1, <1>2, <1>3, <1>8, <1>9, <2>1, <2>2, <2>3, <3>1, WindowStays
    <3> QED BY <1>11, <3>2
  <2>4. CASE /\ e.op = "set_prod" /\ drv'[q].cons = drv[q].cons
             /\ drv'[q].log_size = drv[q].log_size
             /\ \E n \in Nat : /\ n <= 2^drv[q].log_size - Dist(drv[q].cons, drv[q].prod)
                               /\ drv'[q].prod = (drv[q].prod + n) % PtrMod
    <3>1. PICK n \in Nat : /\ n <= 2^drv[q].log_size - Dist(drv[q].cons, drv[q].prod)
                           /\ drv'[q].prod = (drv[q].prod + n) % PtrMod
      BY <2>4
    <3>2. PICK L \in Nat : L = 2^drv[q].log_size /\ L < PtrMod
      BY <1>1, RingSize
    <3>3. PtrMod \in Nat
      BY Residues
    <3>4. U <= X /\ X - U < PtrMod
      BY <2>2, <3>2, <3>3
    <3>5. Dist(drv[q].cons, drv[q].prod) = X - U
      BY <2>2, <3>4, Residues
    <3>6. n <= L - (X - U)
      BY <3>1, <3>2, <3>5
    <3>7. PICK Z \in Int : Z = X + n
      OBVIOUS
    <3>8. Z - U <= L /\ P <= Z
      BY <2>2, <3>2, <3>6, <3>7
    <3>9. drv'[q].prod = Z % PtrMod
      BY <2>2, <3>1, <3>7, Residues
    <3>10. Doing(q, "set_prod")' /\ queue_ram'[q].prod = P % PtrMod
      BY <1>3, <1>4, <2>2, <2>4
    <3>11. Z - U <= 2^drv[q].log_size
      BY <3>2, <3>8
    <3>12. Window(q, B, N, c, U, P, Z)'
      BY <1>1, <1>2, <1>3, <1>8, <2>1, <2>2, <2>4, <3>8, <3>9, <3>10, <3>11, WindowStays
    <3> QED BY <1>11, <3>12
  <2> QED BY <1>5, <1>6, <1>7, <2>3, <2>4 DEF Wrote, Same, Live
<1> QED BY <1>10, <1>11

\* The pointers of a queue without an operation accepted or performed.
LEMMA WindowIdle ==
    ASSUME OwnInv, NEW e, NEW r, NEW done, NEW tags, Tick(e, r, done, tags), NEW q \in Queues,
           NEW B \in Int, NEW N \in Int, NEW c \in Chains, Chain(q, B, N, c),
           ~EntryOn(e, q), ~LastOn(q),
           NEW U \in Int, NEW P \in Int, NEW X \in Int, Window(q, B, N, c, U, P, X)
    PROVE  Window(q, B, N, c, U, P, X)'
<1>1. TypeOK /\ PipeInv /\ TableInv /\ TagsExclusive
  BY DEF OwnInv, IInv, GrantInv
<1>2. /\ e \in Entries /\ Loads(e, r) /\ OpTableNext(tags)
      /\ Fetching(r, done, tags)
  BY DEF Tick
<1>3. /\ queue_ram'[q] = queue_ram[q] /\ ~(StartEn /\ Last.addr = q) /\ drv'[q] = drv[q]
      /\ ~(FinishEn /\ op_table[op_table_finish_ptr].queue = q)
  BY Elsewhere
<1>4. Doing(q, "set_prod")' <=> Doing(q, "set_prod")
  BY <1>1, <1>2, DoingStep
<1>5. /\ N <= P /\ P <= X /\ X - U <= 2^drv[q].log_size /\ U <= N
      /\ queue_ram'[q].prod = P % PtrMod /\ drv'[q].prod = X % PtrMod
      /\ ~Doing(q, "set_prod")' => X = P
  BY <1>3, <1>4 DEF Window
<1> QED BY <1>1, <1>2, <1>3, <1>5, WindowStays

\* The pointers of the queue whose operation performs.
LEMMA WindowLast ==
    ASSUME OwnInv, NEW e, NEW r, NEW done, NEW tags, Tick(e, r, done, tags), NEW q \in Queues,
           NEW B \in Int, NEW N \in Int, NEW c \in Chains, Chain(q, B, N, c), LastOn(q),
           Last.op # "set_cons",
           NEW U \in Int, NEW P \in Int, NEW X \in Int, Window(q, B, N, c, U, P, X)
    PROVE  /\ StartEn => \A x \in Chains : x = [c EXCEPT ![N + 1] = op_table_start_ptr] =>
                            Window(q, B, N + 1, x, U, P, X)'
           /\ ~StartEn => \E Y \in Int : Window(q, B, N, c, U, Y, X)'
<1>1. TypeOK /\ PipeInv /\ TableInv /\ TagsExclusive
  BY DEF OwnInv, IInv, GrantInv
<1>2. /\ e \in Entries /\ Loads(e, r) /\ OpTableNext(tags) /\ Perform
      /\ Fetching(r, done, tags)
  BY DEF Tick
<1>3. ~EntryOn(e, q)
  BY Elsewhere
<1>4. /\ drv'[q] = drv[q]
      /\ ~(FinishEn /\ op_table[op_table_finish_ptr].queue = q)
  BY <1>3, Elsewhere
<1>5. ~Doing(q, "set_prod")' /\ (Doing(q, "set_prod") <=> Last.op = "set_prod")
  BY <1>1, <1>2, DoingStep
<1>6. /\ N <= P /\ P <= X /\ X - U <= 2^drv[q].log_size /\ U <= N
      /\ queue_ram[q].prod = P % PtrMod /\ drv[q].prod = X % PtrMod
      /\ Last.op # "set_prod" => X = P
  BY <1>5 DEF Window
<1>7. CASE StartEn
  <2>1. Last.op = "req" /\ Last.op \notin SetOps
    BY <1>7 DEF StartEn, SetOps
  <2>2. Reapable(q, B, N, c, U, tags)
    BY <1>1, <1>2, FetchedStep
  <2>3. queue_ram'[q].prod = queue_ram[q].prod
    BY <1>1, <1>2, <2>1, WordStep
  <2>4. ~Doing(q, "set_prod")
    BY <1>5, <2>1
  <2>5. PICK s \in OpIdx : s = op_table_start_ptr
    BY <1>1 DEF TypeOK
  <2>6. ASSUME NEW x \in Chains, x = [c EXCEPT ![N + 1] = op_table_start_ptr]
        PROVE  Window(q, B, N + 1, x, U, P, X)'
    BY <2>6, <1>1, <1>2, <1>4, <1>7, <2>2, <2>3, <2>4, <2>5, WindowPushes
  <2> QED BY <1>7, <2>6
<1>8. CASE ~StartEn /\ Last.op = "set_prod"
  <2>1. queue_ram'[q].prod = Last.wdata
    BY <1>1, <1>2, <1>8, WordStep
  <2>2. Last.wdata = drv[q].prod
    BY <1>8, LastPhase DEF Latest, SetOps
  <2>3. queue_ram'[q].prod = X % PtrMod /\ drv'[q].prod = X % PtrMod /\ N <= X
    BY <1>4, <1>6, <2>1, <2>2
  <2>4. ~(StartEn /\ Last.addr = q) /\ X <= X
    BY <1>8
  <2>5. Window(q, B, N, c, U, X, X)'
    BY <1>1, <1>2, <1>4, <1>6, <2>3, <2>4, WindowStays
  <2> QED BY <1>8, <2>5
<1>9. CASE ~StartEn /\ Last.op # "set_prod"
  <2>1. queue_ram'[q].prod = queue_ram[q].prod
    BY <1>1, <1>2, <1>9, WordStep DEF TypeOK, Words, Bit, OpKinds, SetOps
  <2>2. queue_ram'[q].prod = P % PtrMod /\ drv'[q].prod = X % PtrMod /\ X = P
    BY <1>4, <1>6, <1>9, <2>1
  <2>3. ~(StartEn /\ Last.addr = q)
    BY <1>9
  <2>4. Window(q, B, N, c, U, P, X)'
    BY <1>1, <1>2, <1>4, <1>6, <2>2, <2>3, WindowStays
  <2> QED BY <1>9, <2>4
<1> QED BY <1>7, <1>8, <1>9

\* A ring that was opened has no descriptors.
LEMMA WindowOpens ==
    ASSUME OwnInv, NEW e, NEW r, NEW done, NEW tags, Tick(e, r, done, tags), NEW q \in Queues,
           NEW c \in Chains, LastOn(q), Last.op = "set_cons"
    PROVE  Window(q, 0, 0, c, 0, 0, 0)'
<1>1. TypeOK /\ PipeInv /\ HeldInv
  BY DEF OwnInv, IInv
<1>2. /\ e \in Entries /\ Loads(e, r) /\ Perform
      /\ done \in CommitChoices /\ FetchNext(r, done)
  BY DEF Tick, Fetching
<1>3. /\ drv[q].pc = "opened" /\ drv[q].cons = 0 /\ drv[q].prod = 0
      /\ queue_ram[q].prod = 0 /\ fetched[q] = {} /\ queue_ram[q].enable = 0
  BY LastPhase
<1>4. drv'[q] = drv[q]
  BY Elsewhere
<1>5. fetched'[q] = {}
  BY <1>1, <1>2, <1>3, FetchedFrame DEF Busy
<1>6. queue_ram'[q].prod = 0
  BY <1>1, <1>2, <1>3, WordStep
<1>7. 2^drv'[q].log_size \in Nat
  BY <1>1, <1>4, RingSize
<1>8. 0 - 0 <= 2^drv'[q].log_size
  BY <1>7
<1>9. 0 % PtrMod = 0
  BY Residues
<1> QED BY <1>3, <1>4, <1>5, <1>6, <1>8, <1>9 DEF Window

\* One clock keeps every chain and its pointers.
LEMMA ClockChain ==
    ASSUME OwnInv, NEW e, NEW r, NEW done, NEW tags, Tick(e, r, done, tags)
    PROVE  ChainInv'
<1> SUFFICES ASSUME NEW q \in Queues
             PROVE  \E B, N \in Int, c \in Chains :
                       /\ Chain(q, B, N, c)'
                       /\ drv'[q].pc \in Live /\ ~Doing(q, "set_cons")' =>
                            \E U, P, X \in Int : Window(q, B, N, c, U, P, X)'
  BY DEF ChainInv
<1>1. TypeOK /\ PipeInv /\ e \in Entries /\ Loads(e, r)
  BY DEF OwnInv, IInv, Tick
<1>2. PICK B \in Int, N \in Int, c \in Chains :
         /\ Chain(q, B, N, c)
         /\ drv[q].pc \in Live /\ ~Doing(q, "set_cons") =>
              \E U, P, X \in Int : Window(q, B, N, c, U, P, X)
  BY DEF OwnInv, ChainInv
<1>3. CASE EntryOn(e, q)
  <2>1. ~Doing(q, "set_cons")
    BY <1>1, <1>3, DoingStep
  <2>2. CASE e.op = "commit"
    <3>1. Chain(q, B + 1, N, c)'
      BY <1>2, <1>3, <2>2, ChainEntry
    <3>2. drv'[q].pc \in Live /\ ~Doing(q, "set_cons")' =>
             \E U, P, X \in Int : Window(q, B + 1, N, c, U, P, X)'
      BY <1>2, <1>3, <2>1, <2>2, WindowEntry
    <3>3. B + 1 \in Int
      OBVIOUS
    <3> QED BY <3>1, <3>2, <3>3
  <2>3. CASE e.op # "commit"
    <3>1. Chain(q, B, N, c)'
      BY <1>2, <1>3, <2>3, ChainEntry
    <3>2. drv'[q].pc \in Live /\ ~Doing(q, "set_cons")' =>
             \E U, P, X \in Int : Window(q, B, N, c, U, P, X)'
      BY <1>2, <1>3, <2>1, <2>3, WindowEntry
    <3> QED BY <3>1, <3>2
  <2> QED BY <2>2, <2>3
<1>4. CASE ~EntryOn(e, q) /\ ~LastOn(q)
  <2>1. Chain(q, B, N, c)'
    BY <1>2, <1>4, ChainIdle
  <2>2. drv'[q] = drv[q] /\ (Doing(q, "set_cons")' <=> Doing(q, "set_cons"))
    BY <1>1, <1>4, Elsewhere, DoingStep
  <2>3. ASSUME drv'[q].pc \in Live, ~Doing(q, "set_cons")'
        PROVE  \E U, P, X \in Int : Window(q, B, N, c, U, P, X)'
    <3>1. PICK U \in Int, P \in Int, X \in Int : Window(q, B, N, c, U, P, X)
      BY <1>2, <2>2, <2>3
    <3>2. Window(q, B, N, c, U, P, X)'
      BY <1>2, <1>4, <3>1, WindowIdle
    <3> QED BY <3>2
  <2> QED BY <2>1, <2>3
<1>5. CASE LastOn(q)
  <2>1. drv'[q] = drv[q]
    BY <1>5, Elsewhere
  <2>2. CASE Last.op = "set_cons"
    <3>1. Chain(q, 0, 0, c)' /\ Window(q, 0, 0, c, 0, 0, 0)'
      BY <1>2, <1>5, <2>2, ChainLast, WindowOpens
    <3>2. 0 \in Int
      OBVIOUS
    <3> QED BY <3>1, <3>2
  <2>3. CASE Last.op # "set_cons"
    <3>1. ~Doing(q, "set_cons")
      BY <1>1, <1>5, <2>3, DoingStep
    <3>2. CASE StartEn
      <4>1. PICK x \in Chains : /\ x = [c EXCEPT ![N + 1] = op_table_start_ptr]
                                /\ Chain(q, B, N + 1, x)'
        BY <1>2, <1>5, <3>2, ChainStarts
      <4>2. ASSUME drv'[q].pc \in Live
            PROVE  \E U, P, X \in Int : Window(q, B, N + 1, x, U, P, X)'
        <5>1. PICK U \in Int, P \in Int, X \in Int : Window(q, B, N, c, U, P, X)
          BY <1>2, <2>1, <3>1, <4>2
        <5>2. Window(q, B, N + 1, x, U, P, X)'
          BY <1>2, <1>5, <2>3, <3>2, <4>1, <5>1, WindowLast
        <5> QED BY <5>2
      <4>3. N + 1 \in Int
        OBVIOUS
      <4> QED BY <4>1, <4>2, <4>3
    <3>3. CASE ~StartEn
      <4>1. Chain(q, B, N, c)'
        BY <1>2, <1>5, <2>3, <3>3, ChainLast
      <4>2. ASSUME drv'[q].pc \in Live
            PROVE  \E U, P, X \in Int : Window(q, B, N, c, U, P, X)'
        <5>1. PICK U \in Int, P \in Int, X \in Int : Window(q, B, N, c, U, P, X)
          BY <1>2, <2>1, <3>1, <4>2
        <5>2. PICK Y \in Int : Window(q, B, N, c, U, Y, X)'
          BY <1>2, <1>5, <2>3, <3>3, <5>1, WindowLast
        <5> QED BY <5>2
      <4> QED BY <4>1, <4>2
    <3> QED BY <3>2, <3>3
  <2> QED BY <2>2, <2>3
<1> QED BY <1>3, <1>4, <1>5

\* Where a descriptor handed out after a clock comes from: it was handed out before
\* and is not committed, or a dequeue started.
LEMMA GrantStep ==
    ASSUME TypeOK, NEW r, NEW done \in CommitChoices, RespNext(r), FetchNext(r, done),
           RespNotHeld, NEW g \in Granted'
    PROVE  \/ g \in Granted
           \/ g = resp' /\ StartEn
<1>1. CASE g \in held'
  BY <1>1 DEF FetchNext, Granted
<1>2. CASE g = resp' /\ resp'.valid /\ ~resp'.error /\ ~resp'.empty
  <2>1. CASE Last.op = "req"
    <3>1. Last.data.enable \in Bit
      BY LastType DEF Words
    <3>2. /\ resp'.error = (Last.data.enable = 0)
          /\ resp'.empty = (Last.data.enable = 1 /\ QueueEmpty)
      BY <2>1 DEF RespNext
    <3> QED BY <1>2, <2>1, <3>1, <3>2 DEF StartEn, Bit
  <2>2. CASE Last.op # "req"
    BY <1>2, <2>2 DEF RespNext, NoResp, Granted
  <2> QED BY <2>1, <2>2
<1> QED BY <1>1, <1>2 DEF Granted

\* A ring keeps its address, size and completion queue as long as a descriptor of it is
\* handed out.
LEMMA ClockHeld ==
    ASSUME OwnInv, NEW e, NEW r, NEW done, NEW tags, Tick(e, r, done, tags)
    PROVE  HeldInv'
<1>1. TypeOK /\ PipeInv /\ HeldInv /\ RespNotHeld /\ PhaseInv
  BY DEF OwnInv, IInv, GrantInv
<1>2. /\ e \in Entries /\ Loads(e, r) /\ Stage0(r) /\ r \in BOOLEAN /\ RespNext(r)
      /\ done \in CommitChoices /\ FetchNext(r, done)
  BY DEF Tick, Fetching
<1> SUFFICES ASSUME NEW g \in Granted'
             PROVE  /\ drv'[g.queue].pc \in Busy
                    /\ g.base = drv'[g.queue].base /\ g.cqn = drv'[g.queue].cqn
                    /\ g.slot = Slot(g.ptr, drv'[g.queue].log_size)
                    /\ g.phase = Phase(g.ptr, drv'[g.queue].log_size)
  BY DEF HeldInv
<1>3. CASE g \in Granted
  <2>1. g.queue \in Queues
    <3>1. resp.valid => resp \in Resps
      BY <1>1 DEF TypeOK, NoResp
    <3> QED BY <1>1, <1>3, <3>1 DEF Granted, TypeOK, Resps
  <2>2. /\ drv[g.queue].pc \in Busy
        /\ g.base = drv[g.queue].base /\ g.cqn = drv[g.queue].cqn
        /\ g.slot = Slot(g.ptr, drv[g.queue].log_size)
        /\ g.phase = Phase(g.ptr, drv[g.queue].log_size)
    BY <1>1, <1>3 DEF HeldInv
  <2>3. ~Drained(g.queue)
    BY <1>3 DEF Drained, Granted
  <2>4. \/ drv'[g.queue] = drv[g.queue]
        \/ Wrote(g.queue, drv[g.queue], drv'[g.queue], e.op, e.wdata)
    BY <1>1, <1>2, <2>1, DriverStep
  <2>5. /\ drv'[g.queue].pc \in Busy
        /\ drv'[g.queue].base = drv[g.queue].base /\ drv'[g.queue].cqn = drv[g.queue].cqn
        /\ drv'[g.queue].log_size = drv[g.queue].log_size
    BY <2>2, <2>3, <2>4 DEF Wrote, Same, Busy
  <2> QED BY <2>2, <2>5
<1>4. CASE g = resp' /\ StartEn
  <2> DEFINE q == Last.addr
  <2>1. q \in Queues /\ LastOn(q) /\ Last.op = "req"
    BY <1>1, <1>4, LastType DEF LastOn, StartEn, Entries
  <2>2. Last.data = queue_ram[q] /\ drv[q].pc \in Busy
    BY <1>4, <2>1, LastPhase
  <2>3. drv'[q] = drv[q]
    BY <2>1, Elsewhere
  <2>4. /\ queue_ram[q].base = drv[q].base /\ queue_ram[q].log_size = drv[q].log_size
        /\ queue_ram[q].cqn = drv[q].cqn
    BY <1>1, <2>1, <2>2 DEF PhaseInv, Busy, Live
  <2>5. /\ resp'.queue = q /\ resp'.base = queue_ram[q].base /\ resp'.cqn = queue_ram[q].cqn
        /\ resp'.slot = Slot(resp'.ptr, queue_ram[q].log_size)
        /\ resp'.phase = Phase(resp'.ptr, queue_ram[q].log_size)
    BY <1>2, <2>1, <2>2 DEF RespNext
  <2>6. g.queue = q
    BY <1>4, <2>5
  <2> QED BY <1>4, <2>2, <2>3, <2>4, <2>5, <2>6
<1> QED BY <1>1, <1>2, <1>3, <1>4, GrantStep

\* The driver reaps the oldest descriptor: it was committed, so that it is not handed out.
LEMMA ReapWindow ==
    ASSUME TypeOK, NEW q \in Queues, Reap(q), NEW B \in Int, NEW N \in Int, NEW c \in Chains,
           NEW U \in Int, NEW P \in Int, NEW X \in Int, Window(q, B, N, c, U, P, X)
    PROVE  Window(q, B, N, c, U + 1, P, X)'
<1>1. /\ drv[q].cons \in fetched[q] /\ fetched'[q] = fetched[q] \ {drv[q].cons}
      /\ UNCHANGED <<queue_ram, pipe, op_table>>
  BY DEF Reap, TypeOK
<1>2. drv'[q].cons = Inc(drv[q].cons) /\ drv'[q].prod = drv[q].prod
      /\ drv'[q].log_size = drv[q].log_size
  BY DEF Reap, Advance, TypeOK, Drvs
<1>3. PICK L \in Nat : L = 2^drv[q].log_size /\ L < PtrMod
  BY RingSize
<1>4. /\ U <= N /\ N <= P /\ P <= X /\ X - U <= L /\ PtrMod \in Nat
      /\ drv[q].cons = U % PtrMod
  BY <1>3, Residues DEF Window
<1>5. \A v \in Int : U <= v /\ v < N /\ U % PtrMod = v % PtrMod => v = U
  <2> SUFFICES ASSUME NEW v \in Int, U <= v, v < N, U % PtrMod = v % PtrMod
               PROVE  v = U
    OBVIOUS
  <2>1. -PtrMod < v - U /\ v - U < PtrMod
    BY <1>3, <1>4
  <2> QED BY <2>1, Residues
<1>6. U < N /\ (B <= U => op_table[c[U + 1]].commit)
  <2>1. PICK v \in Int : /\ U <= v /\ v < N /\ drv[q].cons = v % PtrMod
                         /\ B <= v => op_table[c[v + 1]].commit
    BY <1>1 DEF Window
  <2>2. v = U
    BY <1>4, <1>5, <2>1
  <2> QED BY <2>1, <2>2
<1>7. \A k \in Int : B < k /\ k <= N /\ ~op_table'[c[k]].commit => U + 1 < k
  <2> SUFFICES ASSUME NEW k \in Int, B < k, k <= N, ~op_table[c[k]].commit
               PROVE  U + 1 < k
    BY <1>1
  <2>1. U < k
    BY DEF Window
  <2>2. k # U + 1
    BY <1>6
  <2> QED BY <2>1, <2>2
<1>8. \A p \in fetched'[q] : \E v \in Int :
          /\ U + 1 <= v /\ v < N /\ p = v % PtrMod
          /\ B <= v => op_table'[c[v + 1]].commit
  <2> SUFFICES ASSUME NEW p \in fetched'[q]
               PROVE  \E v \in Int : /\ U + 1 <= v /\ v < N /\ p = v % PtrMod
                                     /\ B <= v => op_table'[c[v + 1]].commit
    OBVIOUS
  <2>1. p \in fetched[q] /\ p # U % PtrMod
    BY <1>1, <1>4
  <2>2. PICK v \in Int : /\ U <= v /\ v < N /\ p = v % PtrMod
                         /\ B <= v => op_table[c[v + 1]].commit
    BY <2>1 DEF Window
  <2>3. U + 1 <= v
    BY <2>1, <2>2
  <2> QED BY <1>1, <2>2, <2>3
<1>9. drv'[q].cons = (U + 1) % PtrMod
  BY <1>2, <1>4, Residues
<1>10. U + 1 <= N /\ X - (U + 1) <= 2^drv'[q].log_size
  BY <1>2, <1>3, <1>4, <1>6
<1>11. /\ queue_ram'[q].prod = P % PtrMod /\ drv'[q].prod = X % PtrMod
       /\ ~Doing(q, "set_prod")' => X = P
  BY <1>1, <1>2 DEF Window, Doing
<1> QED BY <1>4, <1>7, <1>8, <1>9, <1>10, <1>11 DEF Window

\* Nothing of a queue changes that its chain and its pointers depend on.
LEMMA QueueUnchanged ==
    ASSUME NEW q \in Queues, drv'[q] = drv[q], fetched'[q] = fetched[q],
           UNCHANGED <<queue_ram, pipe, op_table, op_table_finish_ptr>>,
           NEW B \in Int, NEW N \in Int, NEW c \in Chains
    PROVE  /\ \A o : Doing(q, o)' <=> Doing(q, o)
           /\ Chain(q, B, N, c) => Chain(q, B, N, c)'
           /\ \A U, P, X \in Int : Window(q, B, N, c, U, P, X) => Window(q, B, N, c, U, P, X)'
BY DEF Chain, Window, Doing, Carrying, Mine, Pos

\* A step of the driver outside the pipeline keeps the invariant.
LEMMA ReapOwn ==
    ASSUME OwnInv, NEW u \in Queues, Reap(u), IInv'
    PROVE  OwnInv'
<1>1. TypeOK /\ WriteInv /\ PhaseInv /\ ChainInv /\ HeldInv /\ OneSet
  BY DEF OwnInv, IInv
<1>2. /\ UNCHANGED <<queue_ram, pipe, op_table, op_table_finish_ptr, resp, held>>
      /\ drv[u].cons \in fetched[u]
      /\ \A q \in Queues : q # u => drv'[q] = drv[q] /\ fetched'[q] = fetched[q]
  BY <1>1 DEF Reap, Advance, TypeOK
<1>3. \A q \in Queues : /\ drv'[q].pc = drv[q].pc /\ drv'[q].base = drv[q].base
                        /\ drv'[q].cqn = drv[q].cqn /\ drv'[q].log_size = drv[q].log_size
                        /\ drv'[q].prod = drv[q].prod
  BY <1>1 DEF Reap, Advance, TypeOK, Drvs
<1>4. drv[u].pc \notin {"closed"} \cup Opening /\ ~Doing(u, "set_cons")
  BY <1>1, <1>2 DEF PhaseInv
<1>5. drv[u].pc \in Live
  <2>1. drv[u].pc \in DrvStates
    BY <1>1 DEF TypeOK, Drvs
  <2> QED BY <1>4, <2>1 DEF DrvStates, Opening, Live
<1>6. OneSet'
  BY <1>1, <1>2 DEF OneSet
<1>7. WriteInv'
  <2> SUFFICES ASSUME NEW j \in Stages, pipe[j].op \in SetOps
               PROVE  Latest(drv'[pipe[j].addr], pipe[j].op, pipe[j].wdata)
    BY <1>2 DEF WriteInv
  <2>1. Latest(drv[pipe[j].addr], pipe[j].op, pipe[j].wdata) /\ pipe[j].addr \in Queues
    BY <1>1 DEF WriteInv, TypeOK, Entries
  <2>2. pipe[j].op = "set_cons" => pipe[j].addr # u
    BY <1>4 DEF Doing
  <2> QED BY <1>2, <1>3, <2>1, <2>2 DEF Latest, Live
<1>8. \A q, o : Doing(q, o)' <=> Doing(q, o)
  BY <1>2 DEF Doing
<1>9. PhaseInv'
  <2>1. \A q \in Queues : drv'[q].pc \in {"closed"} \cup Opening \/ Doing(q, "set_cons")' =>
             drv'[q].prod = 0 /\ drv'[q].cons = 0 /\ fetched'[q] = {}
    BY <1>1, <1>2, <1>3, <1>4, <1>8 DEF PhaseInv
  <2>2. queue_ram' = queue_ram
    BY <1>2
  <2> QED BY <1>1, <1>3, <1>8, <2>1, <2>2 DEF PhaseInv
<1>10. ChainInv'
  <2> SUFFICES ASSUME NEW q \in Queues
               PROVE  \E B, N \in Int, c \in Chains :
                         /\ Chain(q, B, N, c)'
                         /\ drv'[q].pc \in Live /\ ~Doing(q, "set_cons")' =>
                              \E U, P, X \in Int : Window(q, B, N, c, U, P, X)'
    BY DEF ChainInv
  <2>1. PICK B \in Int, N \in Int, c \in Chains :
           /\ Chain(q, B, N, c)
           /\ drv[q].pc \in Live /\ ~Doing(q, "set_cons") =>
                \E U, P, X \in Int : Window(q, B, N, c, U, P, X)
    BY <1>1 DEF ChainInv
  <2>2. CASE q # u
    <3>1. drv'[q] = drv[q] /\ fetched'[q] = fetched[q]
      BY <1>2, <2>2
    <3>2. Chain(q, B, N, c)'
      BY <1>2, <2>1, <3>1, QueueUnchanged
    <3>3. \A U, P, X \in Int : Window(q, B, N, c, U, P, X) => Window(q, B, N, c, U, P, X)'
      BY <1>2, <3>1, QueueUnchanged
    <3>4. drv'[q].pc \in Live /\ ~Doing(q, "set_cons")' =>
             \E U, P, X \in Int : Window(q, B, N, c, U, P, X)'
      BY <1>8, <2>1, <3>1, <3>3
    <3> QED BY <3>2, <3>4
  <2>3. CASE q = u
    <3>1. Chain(q, B, N, c)'
      BY <1>2, <1>3, <2>1 DEF Chain, Doing, Carrying, Mine, Pos
    <3>2. PICK U \in Int, P \in Int, X \in Int : Window(q, B, N, c, U, P, X)
      BY <1>4, <1>5, <2>1, <2>3
    <3>3. Window(q, B, N, c, U + 1, P, X)'
      BY <1>1, <2>3, <3>2, ReapWindow
    <3>4. U + 1 \in Int
      OBVIOUS
    <3> QED BY <3>1, <3>3, <3>4
  <2> QED BY <2>2, <2>3
<1>11. HeldInv'
  <2>1. Granted' = Granted
    BY <1>2 DEF Granted
  <2>2. \A g \in Granted : g.queue \in Queues
    <3>1. resp.valid => resp \in Resps
      BY <1>1 DEF TypeOK, NoResp
    <3> QED BY <1>1, <3>1 DEF Granted, TypeOK, Resps
  <2> QED BY <1>1, <1>3, <2>1, <2>2 DEF HeldInv
<1> QED BY <1>6, <1>7, <1>9, <1>10, <1>11 DEF OwnInv

\* Every step keeps the invariant.
LEMMA OwnInductive == OwnInv /\ [Next]_vars => OwnInv'
<1> SUFFICES ASSUME OwnInv, [Next]_vars PROVE OwnInv'
  OBVIOUS
<1>1. IInv'
  BY InvInductive DEF OwnInv
<1>2. CASE Clock
  <2>1. PICK r \in BOOLEAN, done \in CommitChoices :
            /\ Stage0(r)
            /\ Perform
            /\ RespNext(r)
            /\ OpTableNext({h.op_tag : h \in done})
            /\ FetchNext(r, done)
    BY <1>2 DEF Clock
  <2>2. PICK e \in Entries : Loads(e, r)
    BY <2>1, Stage0Loads DEF IInv, OwnInv
  <2>3. PICK tags : tags = {h.op_tag : h \in done}
    OBVIOUS
  <2>4. Tick(e, r, done, tags)
    BY <2>1, <2>2, <2>3 DEF Tick, Fetching
  <2>5. TypeOK /\ OneSet /\ WriteInv /\ PhaseInv /\ HeldInv /\ IInv
    BY DEF OwnInv, IInv
  <2>6. OneSet'
    BY <2>1, <2>2, <2>5, ClockOneSet
  <2>7. WriteInv'
    BY <2>1, <2>2, <2>5, ClockWrites
  <2>8. PhaseInv'
    BY <2>1, <2>2, <2>5, ClockPhase
  <2>9. ChainInv'
    BY <2>4, ClockChain
  <2>10. HeldInv'
    BY <2>4, ClockHeld
  <2> QED BY <1>1, <2>6, <2>7, <2>8, <2>9, <2>10 DEF OwnInv
<1>3. CASE \E q \in Queues : Reap(q)
  BY <1>1, <1>3, ReapOwn
<1>4. CASE UNCHANGED vars
  <2>1. /\ UNCHANGED <<queue_ram, pipe, op_table, op_table_finish_ptr, resp, held>>
        /\ drv' = drv /\ fetched' = fetched
    BY <1>4 DEF vars
  <2>2. \A q, o : Doing(q, o)' <=> Doing(q, o)
    BY <2>1 DEF Doing
  <2>3. ChainInv'
    <3> SUFFICES ASSUME NEW q \in Queues
                 PROVE  \E B, N \in Int, c \in Chains :
                           /\ Chain(q, B, N, c)'
                           /\ drv'[q].pc \in Live /\ ~Doing(q, "set_cons")' =>
                                \E U, P, X \in Int : Window(q, B, N, c, U, P, X)'
      BY DEF ChainInv
    <3>1. PICK B \in Int, N \in Int, c \in Chains :
             /\ Chain(q, B, N, c)
             /\ drv[q].pc \in Live /\ ~Doing(q, "set_cons") =>
                  \E U, P, X \in Int : Window(q, B, N, c, U, P, X)
      BY DEF ChainInv, OwnInv
    <3>2. drv'[q] = drv[q] /\ fetched'[q] = fetched[q]
      BY <2>1
    <3>3. Chain(q, B, N, c)'
      BY <2>1, <3>1, <3>2, QueueUnchanged
    <3>4. \A U, P, X \in Int : Window(q, B, N, c, U, P, X) => Window(q, B, N, c, U, P, X)'
      BY <2>1, <3>2, QueueUnchanged
    <3>5. drv'[q].pc \in Live /\ ~Doing(q, "set_cons")' =>
             \E U, P, X \in Int : Window(q, B, N, c, U, P, X)'
      BY <2>2, <3>1, <3>2, <3>4
    <3> QED BY <3>3, <3>5
  <2>4. OneSet' /\ WriteInv' /\ HeldInv'
    BY <2>1 DEF OwnInv, OneSet, WriteInv, HeldInv, Granted
  <2>5. PhaseInv'
    BY <2>1, <2>2 DEF OwnInv, PhaseInv
  <2> QED BY <1>1, <2>3, <2>4, <2>5 DEF OwnInv
<1> QED BY <1>2, <1>3, <1>4 DEF Next

\* Nothing is posted and nothing is in flight after the reset.
LEMMA OwnInit == Init => OwnInv
<1> SUFFICES ASSUME Init PROVE OwnInv
  OBVIOUS
<1>1. IInv
  BY InvInit
<1>2. \A j \in Stages : pipe[j].op = "none"
  BY DEF Init, NoOp
<1>3. \A q, o : o # "none" => ~Doing(q, o)
  BY <1>2 DEF Doing
<1>4. OneSet /\ WriteInv
  BY <1>2 DEF OneSet, WriteInv, SetOps
<1>5. \A q \in Queues : /\ drv[q].pc = "closed" /\ drv[q].prod = 0 /\ drv[q].cons = 0
                        /\ fetched[q] = {} /\ queue_ram[q].enable = 0 /\ queue_ram[q].cons = 0
  BY DEF Init, DrvClosed, ResetWord
<1>6. PhaseInv
  BY <1>3, <1>5 DEF PhaseInv, Live, Opening
<1>7. HeldInv
  BY DEF Init, HeldInv, Granted, NoResp
<1>8. ChainInv
  <2> SUFFICES ASSUME NEW q \in Queues
               PROVE  \E B, N \in Int, c \in Chains :
                         /\ Chain(q, B, N, c)
                         /\ drv[q].pc \in Live /\ ~Doing(q, "set_cons") =>
                              \E U, P, X \in Int : Window(q, B, N, c, U, P, X)
    BY DEF ChainInv
  <2>1. PICK c \in Chains : c = [k \in Int |-> 0]
    BY Constants DEF Chains
  <2>2. \A i \in OpIdx : ~Mine(q, i)
    BY DEF Init, FreeEntry, Mine
  <2>3. 0 \in Int /\ 0 % PtrMod = 0
    BY Residues
  <2>4. Chain(q, 0, 0, c)
    BY <1>3, <1>5, <2>2, <2>3 DEF Chain
  <2>5. drv[q].pc \notin Live
    BY <1>5 DEF Live
  <2> QED BY <2>3, <2>4, <2>5
<1> QED BY <1>1, <1>4, <1>6, <1>7, <1>8 DEF OwnInv

\* The invariant holds in every state.
LEMMA OwnInvariance == Spec => []OwnInv
BY OwnInit, OwnInductive, PTL DEF Spec

\* The pointer before the one whose successor is known.
LEMMA Predecessor ==
    ASSUME NEW p \in Ptrs, NEW k \in Int, Inc(p) = k % PtrMod
    PROVE  p = (k - 1) % PtrMod
<1>1. p \in Int /\ p % PtrMod = p
  BY PtrModAssumption DEF Ptrs
<1>2. PICK y \in Int : y = -1
  OBVIOUS
<1>3. PICK z \in Int : z = p + 1
  BY <1>1
<1>4. ((z % PtrMod) + y) % PtrMod = (z + y) % PtrMod
  BY Residues
<1>5. ((k % PtrMod) + y) % PtrMod = (k + y) % PtrMod
  BY Residues
<1>6. z + y = p /\ k + y = k - 1
  BY <1>1, <1>2, <1>3
<1> QED BY <1>1, <1>3, <1>4, <1>5, <1>6 DEF Inc

\* A descriptor that the hardware is reading is one that the driver posted to that ring
\* and has not taken back, whatever the order of commits, retirements, doorbells and
\* register writes (queue_manager.v:392-432, 457-478; mqnic_stop_port).
THEOREM DescriptorsAreOwned == Spec => []GrantedOwned
<1>1. ASSUME OwnInv PROVE GrantedOwned
  <2>1. TypeOK /\ TagsExclusive /\ HeldInv /\ ChainInv /\ WriteInv
    BY <1>1 DEF OwnInv, IInv, GrantInv
  <2> SUFFICES ASSUME NEW g \in Granted
               PROVE  /\ Dist(drv[g.queue].cons, g.ptr) <
                           Dist(drv[g.queue].cons, drv[g.queue].prod)
                      /\ g.base = drv[g.queue].base /\ g.cqn = drv[g.queue].cqn
                      /\ g.slot = Slot(g.ptr, drv[g.queue].log_size)
                      /\ g.phase = Phase(g.ptr, drv[g.queue].log_size)
    BY DEF GrantedOwned
  <2>2. /\ drv[g.queue].pc \in Busy
        /\ g.base = drv[g.queue].base /\ g.cqn = drv[g.queue].cqn
        /\ g.slot = Slot(g.ptr, drv[g.queue].log_size)
        /\ g.phase = Phase(g.ptr, drv[g.queue].log_size)
    BY <2>1 DEF HeldInv
  <2>3. PICK q \in Queues : q = g.queue /\ g.ptr \in Ptrs /\ g.op_tag \in OpIdx
    <3>1. resp.valid => resp \in Resps
      BY <2>1 DEF TypeOK, NoResp
    <3> QED BY <2>1, <3>1 DEF Granted, TypeOK, Resps
  <2>4. ~Doing(q, "set_cons")
    BY <2>1, <2>2, <2>3 DEF WriteInv, Doing, Latest, SetOps, Busy
  <2>5. PICK B \in Int, N \in Int, c \in Chains, U \in Int, P \in Int, X \in Int :
           Chain(q, B, N, c) /\ Window(q, B, N, c, U, P, X)
    BY <2>1, <2>2, <2>3, <2>4 DEF ChainInv, Busy, Live
  <2>6. Mine(q, g.op_tag) /\ ~op_table[g.op_tag].commit /\ op_table[g.op_tag].queue_ptr = Inc(g.ptr)
    BY <2>1, <2>3 DEF TagsExclusive, Mine
  <2>7. PICK k \in Int : B < k /\ k <= N /\ c[k] = g.op_tag
    BY <2>3, <2>5, <2>6 DEF Chain
  <2>8. U < k /\ Inc(g.ptr) = k % PtrMod
    BY <2>5, <2>6, <2>7 DEF Chain, Window
  <2>9. g.ptr = (k - 1) % PtrMod /\ k - 1 \in Int
    BY <2>3, <2>8, Predecessor
  <2>10. PICK L \in Nat : L = 2^drv[q].log_size /\ L < PtrMod
    BY <2>1, RingSize
  <2>11. /\ drv[q].cons = U % PtrMod /\ drv[q].prod = X % PtrMod
         /\ N <= P /\ P <= X /\ X - U <= L
    BY <2>5, <2>10 DEF Window
  <2>12. PtrMod \in Nat
    BY Residues
  <2>13. /\ U <= k - 1 /\ (k - 1) - U < PtrMod /\ U <= X /\ X - U < PtrMod
         /\ (k - 1) - U < X - U
    BY <2>7, <2>8, <2>10, <2>11, <2>12
  <2>14. Dist(U % PtrMod, (k - 1) % PtrMod) = (k - 1) - U
    BY <2>9, <2>13, Residues
  <2>15. Dist(U % PtrMod, X % PtrMod) = X - U
    BY <2>13, Residues
  <2>16. Dist(drv[q].cons, g.ptr) < Dist(drv[q].cons, drv[q].prod)
    BY <2>9, <2>11, <2>13, <2>14, <2>15
  <2> QED BY <2>2, <2>3, <2>16
<1> QED BY <1>1, OwnInvariance, PTL
-----------------------------------------------------------------------------
(* The refinement of DescQueue.                                            *)

\* The shadow pointer is where the chain of the queue ends: the entry of the last
\* dequeue, the commit in the pipeline, or the word.
ShadowFact ==
    \A q \in Queues, B, N \in Int, c \in Chains :
        TypeOK /\ PipeInv /\ Chain(q, B, N, c) => ShadowPtr(q) = N % PtrMod

\* Wherever the pointer is kept, it is the end of the chain.
LEMMA ShadowNow == ShadowFact
<1> SUFFICES ASSUME NEW q \in Queues, NEW B \in Int, NEW N \in Int, NEW c \in Chains,
                    TypeOK, PipeInv, Chain(q, B, N, c)
             PROVE  ShadowPtr(q) = N % PtrMod
  BY DEF ShadowFact
<1>1. queue_ram[q].op_index \in OpIdx
  BY DEF TypeOK, Words
<1>2. CASE B < N
  <2>1. queue_ram[q].op_index = c[N] /\ Mine(q, c[N]) /\ op_table[c[N]].queue_ptr = N % PtrMod
    BY <1>2 DEF Chain
  <2> QED BY <2>1 DEF ShadowPtr, Mine
<1>3. CASE ~(B < N)
  <2>1. B = N /\ ~Mine(q, queue_ram[q].op_index)
    BY <1>1, <1>3 DEF Chain
  <2> DEFINE commits == {j \in Stages : pipe[j].op = "commit" /\ pipe[j].addr = q}
  <2>2. ShadowPtr(q) = IF commits # {} THEN pipe[CHOOSE j \in commits : TRUE].wdata
                                       ELSE queue_ram[q].cons
    BY <2>1 DEF ShadowPtr, Mine
  <2>3. CASE Doing(q, "commit")
    <3>1. PICK j \in Stages :
             pipe[j].op = "commit" /\ pipe[j].addr = q /\ pipe[j].wdata = B % PtrMod
      BY <2>3 DEF Chain, Carrying
    <3>2. \A k \in commits : k = j
      BY <3>1 DEF PipeInv, PipeCoherent
    <3>3. j \in commits
      BY <3>1
    <3>4. (CHOOSE k \in commits : TRUE) = j
      BY <3>2, <3>3
    <3> QED BY <2>1, <2>2, <3>1, <3>3, <3>4
  <2>4. CASE ~Doing(q, "commit")
    <3>1. queue_ram[q].cons = B % PtrMod
      BY <2>4 DEF Chain, Carrying, Doing
    <3>2. commits = {}
      BY <2>4 DEF Doing
    <3> QED BY <2>1, <2>2, <3>1, <3>2
  <2> QED BY <2>3, <2>4
<1> QED BY <1>2, <1>3

\* The same after a step.
LEMMA ShadowNext == ShadowFact'
BY ShadowNow, PTL

\* What a clock may do to the three pointers of a queue and to its enable flag.
Keeps(q) == /\ queue_ram'[q].enable = queue_ram[q].enable
            /\ queue_ram'[q].prod = queue_ram[q].prod
            /\ queue_ram'[q].cons = queue_ram[q].cons
            /\ ShadowPtr(q)' = ShadowPtr(q)
Issues(q) == /\ queue_ram[q].enable = 1 /\ ShadowPtr(q) # queue_ram[q].prod
             /\ queue_ram'[q].enable = queue_ram[q].enable
             /\ queue_ram'[q].prod = queue_ram[q].prod
             /\ queue_ram'[q].cons = queue_ram[q].cons
             /\ ShadowPtr(q)' = Inc(ShadowPtr(q))
Retires(q) == /\ queue_ram[q].cons # ShadowPtr(q)
              /\ queue_ram'[q].enable = queue_ram[q].enable
              /\ queue_ram'[q].prod = queue_ram[q].prod
              /\ queue_ram'[q].cons = Inc(queue_ram[q].cons)
              /\ ShadowPtr(q)' = ShadowPtr(q)
Programs(q) == /\ queue_ram[q].enable = 0 /\ queue_ram[q].cons = ShadowPtr(q)
               /\ queue_ram'[q].enable = queue_ram[q].enable
               /\ queue_ram'[q].prod \in Ptrs /\ queue_ram'[q].cons \in Ptrs
               /\ ShadowPtr(q)' = queue_ram'[q].cons
Enables(q) == /\ queue_ram'[q].prod = queue_ram[q].prod
              /\ queue_ram'[q].cons = queue_ram[q].cons
              /\ ShadowPtr(q)' = ShadowPtr(q)
Posts(q) == /\ queue_ram'[q].enable = queue_ram[q].enable
            /\ queue_ram'[q].prod \in Ptrs
            /\ Dist(ShadowPtr(q), queue_ram[q].prod) < Dist(ShadowPtr(q), queue_ram'[q].prod)
            /\ queue_ram'[q].cons = queue_ram[q].cons
            /\ ShadowPtr(q)' = ShadowPtr(q)

\* The operation that performs changes its queue only.
LEMMA OthersKeep ==
    ASSUME OwnInv, OwnInv', NEW e, NEW r, NEW done, NEW tags, Tick(e, r, done, tags),
           NEW q \in Queues, ~LastOn(q)
    PROVE  Keeps(q)
<1>1. PICK B \in Int, N \in Int, c \in Chains : Chain(q, B, N, c)
  BY DEF OwnInv, ChainInv
<1>2. PICK D \in Int : Chain(q, D, N, c)'
  <2>1. B + 1 \in Int
    OBVIOUS
  <2> QED BY <1>1, <2>1, ChainEntry, ChainIdle
<1>3. ShadowPtr(q) = N % PtrMod
  BY <1>1, ShadowNow DEF ShadowFact, OwnInv, IInv
<1>4. ShadowPtr(q)' = N % PtrMod
  BY <1>2, ShadowNext DEF ShadowFact, OwnInv, IInv
<1>5. queue_ram'[q] = queue_ram[q]
  BY Elsewhere
<1> QED BY <1>3, <1>4, <1>5 DEF Keeps

\* The operation that performs does one of these things to its queue.
LEMMA LastMoves ==
    ASSUME OwnInv, OwnInv', NEW e, NEW r, NEW done, NEW tags, Tick(e, r, done, tags),
           NEW q \in Queues, LastOn(q)
    PROVE  Keeps(q) \/ Issues(q) \/ Retires(q) \/ Programs(q) \/ Enables(q) \/ Posts(q)
<1>1. PICK B \in Int, N \in Int, c \in Chains :
         /\ Chain(q, B, N, c)
         /\ drv[q].pc \in Live /\ ~Doing(q, "set_cons") =>
              \E U, P, X \in Int : Window(q, B, N, c, U, P, X)
  BY DEF OwnInv, ChainInv
<1>2. TypeOK /\ PipeInv /\ TypeOK' /\ PipeInv' /\ e \in Entries /\ Loads(e, r) /\ Perform
  BY DEF OwnInv, IInv, Tick
<1>3. ShadowPtr(q) = N % PtrMod
  BY <1>1, <1>2, ShadowNow DEF ShadowFact
<1>4. \A K, D \in Int, x \in Chains : Chain(q, D, K, x)' => ShadowPtr(q)' = K % PtrMod
  BY <1>2, ShadowNext DEF ShadowFact
<1>5. \A o : o # "none" => (Doing(q, o) <=> Last.op = o)
  BY <1>2, DoingStep
<1>6. Last.op # "commit" => queue_ram[q].cons = B % PtrMod
  BY <1>1, <1>5 DEF Chain, Carrying, Doing
<1>7. queue_ram'[q].prod \in Ptrs /\ queue_ram'[q].cons \in Ptrs
  BY <1>2 DEF TypeOK, Words
<1>8. CASE StartEn
  <2>1. PICK x \in Chains : Chain(q, B, N + 1, x)'
    BY <1>1, <1>8, ChainStarts
  <2>2. ShadowPtr(q)' = Inc(ShadowPtr(q))
    <3>1. ShadowPtr(q)' = (N + 1) % PtrMod
      BY <1>4, <2>1
    <3> QED BY <1>3, <3>1, Residues
  <2>3. Last.op = "req" /\ Last.op \notin SetOps /\ Last.data = queue_ram[q]
    BY <1>8, LastPhase DEF StartEn, SetOps
  <2>4. /\ queue_ram'[q].enable = queue_ram[q].enable /\ queue_ram'[q].prod = queue_ram[q].prod
        /\ queue_ram'[q].cons = queue_ram[q].cons
    BY <1>2, <2>3, WordStep
  <2>5. ActiveConsPtr = ShadowPtr(q)
    BY <1>1, <1>2, <1>3, <2>3, NextToRead
  <2>6. queue_ram[q].enable = 1 /\ ShadowPtr(q) # queue_ram[q].prod
    BY <1>8, <2>3, <2>5 DEF StartEn, QueueEmpty
  <2> QED BY <2>2, <2>4, <2>6 DEF Issues
<1>9. CASE Last.op = "set_cons"
  <2>1. Chain(q, 0, 0, c)' /\ B = N
    BY <1>1, <1>9, ChainLast
  <2>2. ShadowPtr(q)' = 0
    <3>1. ShadowPtr(q)' = 0 % PtrMod
      BY <1>4, <2>1
    <3> QED BY <3>1, Residues
  <2>3. queue_ram[q].enable = 0 /\ Last.wdata = 0
    BY <1>9, LastPhase
  <2>4. queue_ram'[q].cons = 0 /\ queue_ram'[q].enable = queue_ram[q].enable
    BY <1>2, <1>9, <2>3, WordStep
  <2>5. queue_ram[q].cons = ShadowPtr(q)
    BY <1>3, <1>6, <1>9, <2>1
  <2> QED BY <1>7, <2>2, <2>3, <2>4, <2>5 DEF Programs
<1>10. CASE ~StartEn /\ Last.op # "set_cons"
  <2>1. ShadowPtr(q)' = ShadowPtr(q)
    <3>1. Chain(q, B, N, c)'
      BY <1>1, <1>10, ChainLast
    <3> QED BY <1>3, <1>4, <3>1
  <2>2. CASE Last.op = "commit"
    <3>1. Carrying(q, "commit", B % PtrMod) /\ queue_ram[q].cons = (B - 1) % PtrMod
          /\ N - B < OP_TABLE_SIZE /\ B <= N
      BY <1>1, <1>5, <2>2 DEF Chain
    <3>2. Last.wdata = B % PtrMod
      BY <1>2, <3>1, CarryStep
    <3>3. /\ queue_ram'[q].enable = queue_ram[q].enable /\ queue_ram'[q].prod = queue_ram[q].prod
          /\ queue_ram'[q].cons = B % PtrMod
      BY <1>2, <2>2, <3>2, WordStep DEF SetOps
    <3>4. PICK D \in Int : D = B - 1 /\ D + 1 = B
      OBVIOUS
    <3>5. Inc(queue_ram[q].cons) = B % PtrMod
      BY <3>1, <3>4, Residues
    <3>6. queue_ram[q].cons # ShadowPtr(q)
      <4>1. -PtrMod < N - D /\ N - D < PtrMod /\ D # N
        BY <3>1, <3>4, PtrModAssumption, OpTableAssumption
      <4>2. D % PtrMod # N % PtrMod
        BY <4>1, Residues
      <4> QED BY <1>3, <3>1, <3>4, <4>2
    <3> QED BY <2>1, <3>3, <3>5, <3>6 DEF Retires
  <2>3. CASE Last.op = "set_enable"
    <3>1. queue_ram'[q].prod = queue_ram[q].prod /\ queue_ram'[q].cons = queue_ram[q].cons
      BY <1>2, <2>3, WordStep
    <3> QED BY <2>1, <3>1 DEF Enables
  <2>4. CASE Last.op = "set_prod"
    <3>1. /\ queue_ram'[q].prod = Last.wdata /\ queue_ram'[q].cons = queue_ram[q].cons
          /\ queue_ram'[q].enable = queue_ram[q].enable
      BY <1>2, <2>4, WordStep
    <3>2. Last.wdata = drv[q].prod /\ drv[q].pc \in {"set_cons"} \cup Live
      BY <2>4, LastPhase DEF Latest, SetOps
    <3>3. CASE drv[q].pc = "set_cons"
      <4>1. B = N
        BY <1>1, <3>3 DEF Chain, Busy
      <4>2. queue_ram[q].enable = 0
        BY <3>3 DEF OwnInv, PhaseInv, Opening
      <4>3. queue_ram[q].cons = ShadowPtr(q)
        BY <1>3, <1>6, <2>4, <4>1
      <4> QED BY <1>7, <2>1, <3>1, <4>2, <4>3 DEF Programs
    <3>4. CASE drv[q].pc \in Live
      <4>1. ~Doing(q, "set_cons")
        BY <1>5, <2>4
      <4>2. PICK U \in Int, P \in Int, X \in Int : Window(q, B, N, c, U, P, X)
        BY <1>1, <3>4, <4>1
      <4>3. PICK L \in Nat : L = 2^drv[q].log_size /\ L < PtrMod
        BY <1>2, RingSize
      <4>4. /\ U <= N /\ N <= P /\ P <= X /\ X - U <= L /\ PtrMod \in Nat
            /\ queue_ram[q].prod = P % PtrMod /\ drv[q].prod = X % PtrMod
        BY <4>2, <4>3, Residues DEF Window
      <4>5. P - N < PtrMod /\ X - N < PtrMod /\ N <= X
        BY <4>3, <4>4
      <4>6. CASE P = X
        BY <2>1, <3>1, <3>2, <4>4, <4>6 DEF Keeps
      <4>7. CASE P # X
        <5>1. Dist(N % PtrMod, P % PtrMod) = P - N /\ Dist(N % PtrMod, X % PtrMod) = X - N
          BY <4>4, <4>5, Residues
        <5>2. P - N < X - N
          BY <4>4, <4>7
        <5>3. queue_ram'[q].prod = X % PtrMod
          BY <3>1, <3>2, <4>4
        <5>4. Dist(ShadowPtr(q), queue_ram[q].prod) < Dist(ShadowPtr(q), queue_ram'[q].prod)
          BY <1>3, <4>4, <5>1, <5>2, <5>3
        <5> QED BY <1>7, <2>1, <3>1, <5>4 DEF Posts
      <4> QED BY <4>6, <4>7
    <3> QED BY <3>2, <3>3, <3>4
  <2>5. CASE Last.op \notin {"commit", "set_enable", "set_prod"}
    <3>1. /\ queue_ram'[q].enable = queue_ram[q].enable /\ queue_ram'[q].prod = queue_ram[q].prod
          /\ queue_ram'[q].cons = queue_ram[q].cons
      BY <1>2, <1>10, <2>5, WordStep DEF TypeOK, Words, Bit, OpKinds, SetOps
    <3> QED BY <2>1, <3>1 DEF Keeps
  <2> QED BY <2>2, <2>3, <2>4, <2>5
<1>11. Last.op = "set_cons" => ~StartEn
  BY DEF StartEn
<1> QED BY <1>8, <1>9, <1>10, <1>11

\* A clock is a step of DescQueue on the queue whose operation performs, or leaves the
\* three pointers of every queue alone.
LEMMA ClockRefines ==
    ASSUME OwnInv, OwnInv', NEW e, NEW r, NEW done, NEW tags, Tick(e, r, done, tags)
    PROVE  [DQ!Next]_(DQ!dq_vars)
<1> DEFINE en == [q \in Queues |-> queue_ram[q].enable = 1]
           pr == [q \in Queues |-> queue_ram[q].prod]
           sh == [q \in Queues |-> ShadowPtr(q)]
           co == [q \in Queues |-> queue_ram[q].cons]
           enp == [q \in Queues |-> queue_ram'[q].enable = 1]
           prp == [q \in Queues |-> queue_ram'[q].prod]
           shp == [q \in Queues |-> ShadowPtr(q)']
           cop == [q \in Queues |-> queue_ram'[q].cons]
<1>1. CASE \A q \in Queues : ~LastOn(q)
  <2>1. \A q \in Queues : Keeps(q)
    BY <1>1, OthersKeep
  <2>2. enp = en /\ prp = pr /\ cop = co /\ shp = sh
    BY <2>1 DEF Keeps
  <2>3. UNCHANGED DQ!dq_vars
    BY <2>2 DEF DQ!dq_vars
  <2> QED BY <2>3
<1>2. ASSUME NEW q \in Queues, LastOn(q)
      PROVE  [DQ!Next]_(DQ!dq_vars)
  <2>1. \A z \in Queues : z # q => Keeps(z)
    BY <1>2, OthersKeep DEF LastOn
  <2>2. ASSUME queue_ram'[q].enable = queue_ram[q].enable PROVE enp = en
    BY <2>1, <2>2 DEF Keeps
  <2>3. ASSUME queue_ram'[q].prod = queue_ram[q].prod PROVE prp = pr
    BY <2>1, <2>3 DEF Keeps
  <2>4. ASSUME queue_ram'[q].cons = queue_ram[q].cons PROVE cop = co
    BY <2>1, <2>4 DEF Keeps
  <2>5. ASSUME ShadowPtr(q)' = ShadowPtr(q) PROVE shp = sh
    BY <2>1, <2>5 DEF Keeps
  <2>6. /\ enp = [en EXCEPT ![q] = (queue_ram'[q].enable = 1)]
        /\ prp = [pr EXCEPT ![q] = queue_ram'[q].prod]
        /\ cop = [co EXCEPT ![q] = queue_ram'[q].cons]
        /\ shp = [sh EXCEPT ![q] = ShadowPtr(q)']
    BY <2>1 DEF Keeps
  <2>7. CASE Keeps(q)
    <3>1. UNCHANGED DQ!dq_vars
      BY <2>2, <2>3, <2>4, <2>5, <2>7 DEF Keeps, DQ!dq_vars
    <3> QED BY <3>1
  <2>8. CASE Issues(q)
    <3>1. DQ!Issue(q)
      BY <2>2, <2>3, <2>4, <2>6, <2>8 DEF Issues, DQ!Issue, DQ!Succ, Inc
    <3> QED BY <3>1 DEF DQ!Next
  <2>9. CASE Retires(q)
    <3>1. DQ!Retire(q)
      BY <2>2, <2>3, <2>5, <2>6, <2>9 DEF Retires, DQ!Retire, DQ!Succ, Inc
    <3> QED BY <3>1 DEF DQ!Next
  <2>10. CASE Programs(q)
    <3>1. DQ!Program(q)
      <4>1. PICK p \in Ptrs, c \in Ptrs :
               p = queue_ram'[q].prod /\ c = queue_ram'[q].cons /\ c = ShadowPtr(q)'
        BY <2>10 DEF Programs
      <4>2. /\ prp = [pr EXCEPT ![q] = p] /\ shp = [sh EXCEPT ![q] = c]
            /\ cop = [co EXCEPT ![q] = c] /\ enp = en
        BY <2>2, <2>6, <2>10, <4>1 DEF Programs
      <4>3. co[q] = sh[q] /\ (queue_ram[q].enable = 1) = FALSE
        BY <2>10 DEF Programs
      <4>5. ~en[q]
        BY <4>3, Zenon
      <4>4. p \in DQ!Ptrs /\ c \in DQ!Ptrs
        BY DEF DQ!Ptrs, Ptrs
      <4> QED BY <4>2, <4>3, <4>4, <4>5 DEF DQ!Program
    <3> QED BY <3>1 DEF DQ!Next
  <2>11. CASE Enables(q)
    <3>1. DQ!Enable(q)
      BY <2>3, <2>4, <2>5, <2>6, <2>11 DEF Enables, DQ!Enable
    <3> QED BY <3>1 DEF DQ!Next
  <2>12. CASE Posts(q)
    <3>1. DQ!Post(q)
      BY <2>2, <2>4, <2>5, <2>6, <2>12 DEF Posts, DQ!Post, DQ!Ahead, DQ!Ptrs, Ptrs, Dist
    <3> QED BY <3>1 DEF DQ!Next
  <2> QED BY <1>2, <2>7, <2>8, <2>9, <2>10, <2>11, <2>12, LastMoves
<1> QED BY <1>1, <1>2

\* The driver's own steps do not touch the hardware's pointers.
LEMMA ReapRefines ==
    ASSUME UNCHANGED <<queue_ram, pipe, op_table>>
    PROVE  UNCHANGED DQ!dq_vars
BY DEF DQ!dq_vars, ShadowPtr

\* The pipelined module with out-of-order commits implements the queue with three
\* pointers of DescQueue: descriptors are handed out once each and in order, and the
\* consumer pointer that the host sees passes them in that order.
THEOREM ThreePointers == Spec => ImplementsDescQueue
<1>1. Init => DQ!Init
  <2> SUFFICES ASSUME Init PROVE DQ!Init
    OBVIOUS
  <2>1. \A q \in Queues : /\ queue_ram[q].enable = 0 /\ queue_ram[q].prod = 0
                          /\ queue_ram[q].cons = 0 /\ queue_ram[q].op_index = 0
    BY DEF Init, ResetWord
  <2>2. ~op_table[0].active
    BY Constants DEF Init, FreeEntry
  <2>3. \A j \in Stages : pipe[j].op = "none"
    BY DEF Init, NoOp
  <2>4. \A q \in Queues : ShadowPtr(q) = 0
    BY <2>1, <2>2, <2>3 DEF ShadowPtr
  <2>5. \A q \in Queues : (queue_ram[q].enable = 1) = FALSE
    BY <2>1
  <2>6. [q \in Queues |-> queue_ram[q].enable = 1] = [q \in Queues |-> FALSE]
    BY <2>5, Zenon
  <2> QED BY <2>1, <2>4, <2>6 DEF DQ!Init
<1>2. OwnInv /\ OwnInv' /\ [Next]_vars => [DQ!Next]_(DQ!dq_vars)
  <2> SUFFICES ASSUME OwnInv, OwnInv', [Next]_vars
               PROVE  [DQ!Next]_(DQ!dq_vars)
    OBVIOUS
  <2>1. CASE Clock
    <3>1. PICK r \in BOOLEAN, done \in CommitChoices :
              /\ Stage0(r)
              /\ Perform
              /\ RespNext(r)
              /\ OpTableNext({h.op_tag : h \in done})
              /\ FetchNext(r, done)
      BY <2>1 DEF Clock
    <3>2. PICK e \in Entries : Loads(e, r)
      BY <3>1, Stage0Loads DEF IInv, OwnInv
    <3>3. PICK tags : tags = {h.op_tag : h \in done}
      OBVIOUS
    <3>4. Tick(e, r, done, tags)
      BY <3>1, <3>2, <3>3 DEF Tick, Fetching
    <3> QED BY <3>4, ClockRefines
  <2>2. CASE \E q \in Queues : Reap(q)
    <3>1. UNCHANGED <<queue_ram, pipe, op_table>>
      BY <2>2 DEF Reap
    <3> QED BY <3>1, ReapRefines
  <2>3. CASE UNCHANGED vars
    <3>1. UNCHANGED <<queue_ram, pipe, op_table>>
      BY <2>3 DEF vars
    <3> QED BY <3>1, ReapRefines
  <2> QED BY <2>1, <2>2, <2>3 DEF Next
<1> QED BY <1>1, <1>2, OwnInvariance, PTL DEF Spec, ImplementsDescQueue, DQ!Spec
=============================================================================
